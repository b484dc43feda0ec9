------------------------------ MODULE MCDomain ------------------------------
(***************************************************************************)
(* Domain with 2 blocks to a page and metadata page 0 at volume page 2.    *)
(***************************************************************************)
EXTENDS Domain

X(p, b) == [bs_page |-> p, vd_blk |-> b]
R(pg, xtnts, next) == [pg |-> pg, xtnts |-> xtnts, next |-> next]

\* V3: pages 0-1, then 2-3 (record on page 1), then 4 (record on page 3).
\* The chain has as many overflow records as the bound on hops, plus one on
\* the longer disk.
Bmt3(base) == <<R(0, <<X(0, 4), X(2, XTNT_TERM)>>, 2),
                R(1, <<X(2, base), X(4, XTNT_TERM)>>, 3),
                R(3, <<X(4, base + 8), X(5, XTNT_TERM)>>, 0)>>
Long3 == <<R(0, <<X(0, 4), X(2, XTNT_TERM)>>, 2),
           R(1, <<X(2, 20), X(3, XTNT_TERM)>>, 3),
           R(2, <<X(3, 30), X(4, XTNT_TERM)>>, 4),
           R(3, <<X(4, 40), X(5, XTNT_TERM)>>, 0)>>
Loop3 == <<R(0, <<X(0, 4), X(2, XTNT_TERM)>>, 2),
           R(1, <<X(2, 20), X(4, XTNT_TERM)>>, 2)>>
Rbmt4 == <<R(0, <<X(0, 4), X(1, XTNT_TERM)>>, 2),
           R(0, <<X(1, 12), X(2, XTNT_TERM)>>, 0)>>
Bmt4 == <<R(0, <<X(0, 20), X(1, XTNT_TERM)>>, 2),
          R(1, <<X(1, 30), X(4, XTNT_TERM)>>, 0)>>

D(v, id, a, r, b) == [version |-> v, id |-> id, vdattr |-> a, rbmt |-> r, bmt |-> b]

mcDisks == {D(3, 1, {1}, <<>>, Bmt3(20)), D(3, 1, {2}, <<>>, Bmt3(30)),
            D(3, 1, {}, <<>>, Long3), D(3, 1, {0}, <<>>, Loop3),
            D(3, 2, {2}, <<>>, Bmt3(20)), D(3, 0, {}, <<>>, Long3),
            D(4, 1, {3}, Rbmt4, Bmt4), D(4, 1, {}, Rbmt4, Bmt4),
            D(4, 1, {2}, Rbmt4, <<>>), D(0, 0, {}, <<>>, <<>>)}

mcArgLists == {<<>>} \cup UNION {[1..n -> mcDisks] : n \in 1..2}
              \cup [1..3 -> {d \in mcDisks : d.version = 3 /\ d.id = 1}]
              \cup {[i \in 1..4 |-> d] : d \in mcDisks}
=============================================================================
