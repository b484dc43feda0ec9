----------------------------- MODULE MCExtents ------------------------------
(***************************************************************************)
(* The walk: two attached volumes and a third that is not, chains of up to *)
(* five hops over every arrangement of two cells per volume.               *)
(* The interleaver: the columns the walk collects; every pair of columns   *)
(* of at most three descriptors over three pages, with mapped runs that    *)
(* are and are not contiguous across columns, sparse and permanent holes,  *)
(* duplicated boundaries and block numbers that run past U32; and some     *)
(* triples.                                                                *)
(***************************************************************************)
EXTENDS Extents

P(s, g, c, w, v) == [stripe |-> s, segment_size |-> g, x_cnt |-> 2,
                     chain |-> c, chain_vd |-> w, vd |-> v]

mcPrims == {P(FALSE, 0, 1, 0, 0), P(TRUE, 1, 1, 2, 0), P(TRUE, 2, 1, 0, 1), P(TRUE, 0, 1, 0, 1),
            P(FALSE, 0, 0, 0, 2), P(FALSE, 0, 1, 3, 1)}

\* The second mcell of each volume continues what the first one maps.
mcValue(d) ==
    CASE d[1][2] = 0 -> [bs_page |-> 0, vd_blk |-> U32]
      [] d[1][2] = 1 -> [bs_page |-> 0, vd_blk |-> d[1][1] * BLKS]
      [] d[1][2] = 2 -> [bs_page |-> 2, vd_blk |-> IF d[1][1] = 1 THEN U32 ELSE BLKS]

T == U32
H == U32 - 1
First == {T, BLKS, 3 * BLKS}
Second == {T, H, 2 * BLKS}
Desc(p, b, v) == [bs_page |-> p, vd_blk |-> b, vd_index |-> v]

ColumnMaps(v) ==
    {<<Desc(0, T, v)>>}
    \cup {<<Desc(0, b, v), Desc(p, T, v)>> : b \in First \cup Second, p \in 1..3}
    \cup {<<Desc(0, b, v), Desc(pq[1], c, v), Desc(pq[2], T, v)>> :
            b \in First, c \in Second, pq \in {x \in (1..3) \X (1..3) : x[1] <= x[2]}}

FewMaps(v) == {<<Desc(0, b, v), Desc(p, T, v)>> : b \in {H, BLKS, 2 * BLKS}, p \in 1..2}

mcColumns ==
    {<<a, b>> : a \in ColumnMaps(1), b \in ColumnMaps(1) \cup ColumnMaps(2)}
    \cup {<<a, b, c>> : a \in FewMaps(1), b \in FewMaps(2), c \in FewMaps(1)}
    \cup {<<>>} \cup {<<a, a, a, a>> : a \in FewMaps(1)}
    \* no terminator: a truncated chain
    \cup {<<<<Desc(0, BLKS, 1)>>, <<Desc(0, 2 * BLKS, 2)>>>>}
    \* storage at block 0 or at a marker's block number, a hole at the end, no
    \* beginning
    \cup {<<<<Desc(p, b, 1), Desc(3, T, 1)>>, <<Desc(0, BLKS, 1), Desc(1, e, 1)>>>> :
            p \in 0..1, b \in {0, BLKS, 11}, e \in {T, H}}
    \* too many pages for 32 bits
    \cup {<<<<Desc(U32 - 2, T, 1)>>, <<Desc(3, T, 1)>>>>}
=============================================================================
