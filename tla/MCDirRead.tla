----------------------------- MODULE MCDirRead ------------------------------
(***************************************************************************)
(* DirRead on maps of up to four pages, of which four are allowed, and on  *)
(* the stub maps of V3 and V4 clones, with two blocks of 64 bytes a page;  *)
(* then on a few maps with every damage to one header of one block.        *)
(***************************************************************************)
EXTENDS DirRead, TLC

X(p, b) == [bs_page |-> p, vd_blk |-> b, vd_index |-> 1]
T(p) == X(p, XTNT_TERM)

\* Maps of n pages, each with storage, a sparse hole or a permanent hole.
Regular(n, B) == {[i \in 1..n + 1 |-> IF i = n + 1 THEN T(n) ELSE X(i - 1, f[i])] :
                    f \in [1..n -> B]}
AnyBlk == {10, 40, XTNT_TERM, PERM_HOLE}

StubV4 == <<T(0)>>
StubV3 == <<X(0, 0), T(U32)>>
Far    == <<X(0, U32 - 2), T(3)>>
TooLong == <<X(0, 10), T(6)>>
Unended == <<X(0, 10), X(1, PERM_HOLE), X(2, 40)>>

OwnMaps == Regular(1, AnyBlk) \cup Regular(2, AnyBlk) \cup Regular(3, {10, PERM_HOLE})
           \cup {<<>>, StubV4, StubV3, Far,
            TooLong, Unended}
OrigMaps == {{}, {<<>>}} \cup {{m} : m \in Regular(2, AnyBlk) \cup Regular(4, {10, PERM_HOLE})
                                           \cup {Far, TooLong, Unended}}

H(s, t, n, tr, nm) == [size |-> s, tag |-> t, name_count |-> n, trail |-> tr, name |-> nm]
Live(s) == H(s, TRUE, s - 16, TRUE, TRUE)
Deleted(s) == H(s, FALSE, s - 16, TRUE, TRUE)
Gap(s) == H(s, FALSE, 0, FALSE, FALSE)

\* The block whose entries are e, in this order; zeros follow them.
Block(e) ==
    LET at[i \in 1..Len(e) + 1] == IF i = 1 THEN 0 ELSE at[i - 1] + e[i - 1].size
        all == Append(e, Zeros)
    IN  [o \in {at[i] : i \in 1..Len(all)} |-> all[CHOOSE i \in 1..Len(all) : at[i] = o]]

One == 0 :> Block(<<>>) @@ 1 :> Block(<<Live(20)>>)

Dir(o, g, c, w, t, x, j) ==
    [own |-> o, orig |-> g, clone |-> c, want |-> w, text |-> t, damage |-> x, junk |-> j]

ByMap == {Dir(o, g, c, {"live"}, One, {}, Zeros) : o \in OwnMaps, g \in OrigMaps, c \in BOOLEAN}

\* Blocks that are full, half full, and with gap space between entries.
Blocks == {<<Live(20), Deleted(20), Live(24)>>, <<Deleted(24), Gap(20), Live(20)>>,
           <<Gap(64)>>, <<Live(24), Gap(12), Deleted(20), Gap(8)>>}

\* What one header may have become: any size, and a name that does not fit.
Headers == {H(s, t, n, TRUE, nm) :
              s \in {0, 4, 8, 12, 20, 44, 64, 68}, t \in BOOLEAN, n \in {0, 4, 60}, nm \in BOOLEAN}

Maps == {<<<<X(0, 10), T(1)>>, {}, FALSE>>,
         <<<<X(0, PERM_HOLE), T(1)>>, {<<X(0, 40), T(1)>>}, TRUE>>}

ByBlock ==
    {Dir(m[1], m[2], m[3], w, 0 :> Block(b) @@ 1 :> Block(<<Live(20), Deleted(44)>>), x, j) :
       m \in Maps, w \in {{"live"}, {"live", "deleted"}}, b \in Blocks,
       j \in {Zeros, Live(20), H(4, TRUE, 4, TRUE, TRUE)},
       x \in {{}} \cup {{[page |-> 0, blk |-> 0, at |-> o, hdr |-> h]} :
                          o \in {0, 20, 24}, h \in Headers}}

mcDirectories == ByMap \cup ByBlock
=============================================================================
