---------------------------- MODULE MCFileData -----------------------------
(***************************************************************************)
(* FileData on pages of three slots and 6-bit block numbers: files of up   *)
(* to three pages, plain, sparse, cloned, inline and with a frag tail that *)
(* may cross a page of the frag file.                                      *)
(***************************************************************************)
EXTENDS FileData

X(p, b, v) == [bs_page |-> p, vd_blk |-> b, vd_index |-> v]

Plain  == <<X(0, 10, 1), X(2, 20, 2), X(3, XTNT_TERM, 0)>>
Sparse == <<X(0, XTNT_TERM, 0), X(1, 30, 1), X(2, XTNT_TERM, 0)>>
Holes  == <<X(0, PERM_HOLE, 0), X(1, 40, 1), X(2, PERM_HOLE, 0), X(3, XTNT_TERM, 0)>>
Stub   == <<X(0, 0, 1), X(U32, XTNT_TERM, 0)>>      \* a V3 clone's file
Far    == <<X(0, U32 - 2, 1), X(2, XTNT_TERM, 0)>>  \* runs off 32 bits
Empty  == <<>>

FragFile  == <<X(0, 50, 1), X(2, PERM_HOLE, 0), X(3, XTNT_TERM, 0)>>
OrigFrags == <<X(0, 54, 1), X(3, XTNT_TERM, 0)>>

\* Whole files: no frag, perhaps an inline record.
Mapped ==
    {[size |-> s, frag_type |-> 0, frag_slot |-> 0, frag_page_offset |-> 0,
      inline |-> i, own |-> o, frag |-> {}, orig |-> g, origFrag |-> {}] :
       s \in {0, 2, 3, 7, 9, 10}, i \in {{}, {2}, {4}},
       o \in {{}, {Plain}, {Sparse}, {Holes}, {Stub}, {Far}},
       g \in {{}, {Plain}, {Sparse}, {Holes}, {Far}}}

\* Files with a tail in the frag file.
Tailed ==
    {[size |-> s, frag_type |-> t, frag_slot |-> l, frag_page_offset |-> f,
      inline |-> {}, own |-> o, frag |-> r, orig |-> {Plain}, origFrag |-> {OrigFrags}] :
       s \in {1, 5, 8}, t \in {1, 2}, l \in {0, 1, 2, 5}, f \in 0..2,
       o \in {{}, {Empty}, {Plain}, {Holes}}, r \in {{}, {FragFile}}}

mcFiles == Mapped \cup Tailed
mcEmptyOriginals == {[f EXCEPT !.orig = {Empty}] : f \in Mapped}
=============================================================================
