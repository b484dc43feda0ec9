------------------------------ MODULE MCMount -------------------------------
(***************************************************************************)
(* Command lines of up to five arguments over volumes, a mountpoint, the   *)
(* options with good and bad values and FUSE's own, on one fileset; and    *)
(* each command with every list of up to three filesets, where names may   *)
(* repeat or be empty.                                                     *)
(***************************************************************************)
EXTENDS Mount

Case(p, a, s) == [prog |-> p, argv |-> a, sets |-> s]
UpTo(n, S) == UNION {[1..k -> S] : k \in 0..n}

Filesets == [name : {"", "a", "b"}, clone : BOOLEAN]
Lists == UpTo(3, Filesets)
One == <<[name |-> "a", clone |-> FALSE]>>

Words == {"v1", "a", "-o", "-f", "--fileset", "--offset"}
MountLines == UpTo(5, Words) \cup {<<"-h">>, <<"v1", "a", "--offset", "8">>}
              \cup {<<"v1", "v2", "a">> \o x : x \in UpTo(3, Words)}
              \cup {<<"--partition", x, "v1", "a">> \o y : x \in {"g", "z"}, y \in {<<>>, <<"--offset", "8">>}}
ToolLines == {<<m>> \o x : m \in Modes \cup {"--help", "--other"}, x \in UpTo(3, {"v1", "v2", "a", "-r", "--fileset"})}
             \cup {<<"--list", "v1", "--partition", x>> \o y : x \in {"g", "z"}, y \in {<<>>, <<"--partition", "g">>}}

Commands == {Case("fuse", <<"v1", "v2", "m">>, <<>>), Case("tool", <<"--info", "v1">>, <<>>),
             Case("tool", <<"--scan-deleted", "v1">>, <<>>), Case("tool", <<"--list", "v1", "v2">>, <<>>),
             Case("tool", <<"--list", "-r", "v1">>, <<>>)}
Named(c, n) == IF n = {} THEN c ELSE [c EXCEPT !.argv = @ \o <<"--fileset", CHOOSE x \in n : TRUE>>]

mcCases ==
    {Case("fuse", a, One) : a \in MountLines}
    \cup {Case("tool", a, One) : a \in ToolLines \cup {<<>>}}
    \cup {[Named(c, n) EXCEPT !.sets = s] : c \in Commands, n \in {{}, {"a"}, {"c"}}, s \in Lists}
=============================================================================
