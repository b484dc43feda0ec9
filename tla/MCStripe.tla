------------------------------ MODULE MCStripe ------------------------------
(* Sparse files on two columns, the second of which never got a page.      *)
EXTENDS Stripe

Desc(p, b, v) == [bs_page |-> p, vd_blk |-> b, vd_index |-> v]

mcSparse == {<<<<Desc(0, b, 1), Desc(p, XTNT_TERM, 1)>>, <<Desc(0, XTNT_TERM, 2)>>>> :
               b \in {PERM_HOLE, BLKS, 2 * BLKS}, p \in 1..2}
=============================================================================
