---------------------------- MODULE MCNamespace -----------------------------
(***************************************************************************)
(* Paths and walks on small structures: two directories, clones and damage *)
(* for the operations on paths; three and four directories, cyclic and     *)
(* shared ones included, for the recursive commands.                       *)
(***************************************************************************)
EXTENDS ToolWalk, TLC

\* Tags are strings, so that an entry leads to a tag or a kind.
mcDirs == {"d1", "d2", "d3", "d4"}

UpTo(n, S) == UNION {[1..m -> S] : m \in 0..n}
E(n, t) == [name |-> n, to |-> t, dead |-> FALSE]
Dead(n, t) == [name |-> n, to |-> t, dead |-> TRUE]

\* The entries of the four directories; a file's data may parse as entries.
Ents(a, b, c, d, data) ==
    [x \in Tags |-> IF x = "d1" THEN a ELSE IF x = "d2" THEN b ELSE IF x = "d3" THEN c
                    ELSE IF x = "d4" THEN d ELSE data]

T(own, merged, nostat, broken) ==
    [own |-> own, merged |-> merged, nostat |-> nostat, broken |-> broken]
Sound(e) == T(e, e, {}, {})

Req(f, o, p, c) == [front |-> f, op |-> o, path |-> p, cap |-> c]

-----------------------------------------------------------------------------
\* Names twice, "." as an entry, deleted entries of a name still in use.
First == {<<>>, <<E("a", "d2")>>, <<E("a", "reg"), E("a", "d2")>>, <<Dead("a", "reg"), E("a", "d2")>>,
          <<E(".", "d1"), E("..", "d1"), E("a", "d2")>>, <<E("a", "lnk"), E("b", "other")>>,
          <<E("a", "bad"), E("b", "d2")>>}
Second == {<<>>, <<E("a", "reg"), Dead("b", "reg")>>, <<E(".", "d2"), E("b", "lnk")>>,
           <<E("a", "d1"), E("b", "bad")>>}
Data == {<<>>, <<E("a", "lnk")>>}

\* A clone of which the second directory's page, or the root's, is shared.
Clones ==
    {T(Ents(a, <<>>, <<>>, <<>>, <<>>), Ents(a, b, <<>>, <<>>, <<>>), {}, {}) : a \in First, b \in Second}

PathTrees ==
    {T(Ents(a, b, <<>>, <<>>, d), Ents(a, b, <<>>, <<>>, d), n, x) :
       a \in First, b \in Second, d \in Data, n \in {{}, {"d1"}, {"d2"}}, x \in {{}, {"d2"}}}
    \cup {T(Ents(a, b, <<>>, <<>>, <<>>), Ents(a, b, <<>>, <<>>, <<>>), {}, {"d1"}) :
            a \in First, b \in Second}

Paths == {<<>>, <<"a">>, <<"b">>, <<"a", "b">>, <<"a", "a">>, <<"a", ".">>, <<"b", ".", "a">>,
          <<"a", "a", "b">>, <<"a", "a", "a", "a">>}

FuseReqs ==
    {Req("fuse", "readdir", p, c) : p \in Paths, c \in {2, 9}}
    \cup {Req("fuse", "readlink", p, c) : p \in Paths, c \in {0, 9}}
    \cup {Req("fuse", o, p, 9) : p \in {<<>>, <<"a">>, <<"a", "b">>}, o \in {"open", "openw", "statfs"}}
ToolReqs == {Req("tool", "list", p, 0) : p \in Paths}
    \cup {Req("tool", "count", p, 0) : p \in {<<"a">>, <<"b", ".", "a">>}}

CloneReqs == {Req("fuse", "readdir", p, 9) : p \in {<<>>, <<"a">>, <<"a", "b">>}}
    \cup {Req("tool", "list", p, 0) : p \in {<<>>, <<"a">>, <<"a", "b">>}}

-----------------------------------------------------------------------------
\* Every structure of three directories; some with every kind of entry; some
\* with four directories, where the depth limit bites; dot entries, unreadable
\* directories and directories without FS_STAT; deleted entries for the scan.
Named(s) == [k \in 1..Len(s) |-> E(IF k = 1 THEN "a" ELSE "b", s[k])]
Tree(a, b, c, d) == Ents(Named(a), Named(b), Named(c), Named(d), <<>>)
Shapes ==
    LET any == UpTo(2, {"d1", "d2", "d3", "reg"}) IN
    {Tree(a, b, c, <<>>) : a \in any, b \in any, c \in UpTo(1, {"d1", "d2", "reg"})}
    \cup {Tree(a, b, c, <<>>) :
             a \in UpTo(2, {"d2", "bad"}), b \in UpTo(2, {"d3", "lnk", "other"}), c \in UpTo(1, {"d1", "bad"})}
    \cup {Tree(a, b, c, d) :
             a \in UpTo(2, {"d2", "d3"}), b \in UpTo(2, {"d3", "d4"}),
             c \in UpTo(1, {"d4", "d1"}), d \in UpTo(1, {"d2", "reg"})}

Knots ==
    {T(e, e, n, x) :
       e \in {Ents(<<E(".", "d1"), E("a", "d2"), E("b", "d3")>>, b, <<E("..", "d1"), E("a", "d4")>>,
                   <<>>, <<>>) : b \in Second},
       n \in SUBSET {"d2", "d3"}, x \in SUBSET {"d2", "d3"}}

Remains == {<<>>, <<Dead("x", "bad"), Dead("y", "reg")>>}
Leftovers ==
    {T(e, e, n, x) :
       e \in {Ents(r \o Named(a), Named(b) \o s, u \o Named(c), <<Dead("z", "bad")>>, <<>>) :
                r \in Remains, s \in Remains, u \in Remains,
                a \in {<<"d2", "d3">>, <<"d1">>, <<"d3", "reg">>},
                b \in {<<"d3", "d3">>, <<"d1">>, <<"lnk">>}, c \in {<<"d4">>, <<"d1">>}},
       n \in {{}, {"d3"}}, x \in {{}, {"d3"}}}

CloneCase == [trees |-> Clones, reqs |-> CloneReqs]
mcCases ==
    {[trees |-> PathTrees, reqs |-> FuseReqs \cup ToolReqs], CloneCase,
     [trees |-> {Sound(e) : e \in Shapes} \cup Knots, reqs |-> {Req("tool", "count", <<>>, 0)}],
     [trees |-> Leftovers, reqs |-> {Req("tool", "scan", <<>>, 0)}]}
mcCloneCases == {CloneCase}
=============================================================================
