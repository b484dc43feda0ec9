----------------------------- MODULE ExtentMap -----------------------------
(***************************************************************************)
(* Extent maps (extents.c, util.c): flat arrays of descriptors that say at *)
(* which disk block the pages of a bitfile lie, and the operators that     *)
(* read them.  Descriptor i covers the pages from its own bs_page up to    *)
(* the bs_page of descriptor i+1.                                          *)
(***************************************************************************)
EXTENDS Integers, Sequences

CONSTANTS
    U32,    \* UINT32_MAX
    BLKS    \* ADVFS_BLKS_PER_PG

ASSUME ExtentAssumption == U32 \in Nat /\ U32 >= 2 /\ BLKS \in Nat \ {0}

XTNT_TERM == U32            \* end of map, or a sparse hole
PERM_HOLE == U32 - 1        \* a clone's page that was never copied

\* The two block numbers that are markers.
Boundary == {XTNT_TERM, PERM_HOLE}

\* {} or {x}: something that may be missing.
Optional(S) == {T \in SUBSET S : \A x, y \in T : x = y}

Extent == [bs_page : 0..U32, vd_blk : 0..U32, vd_index : Nat]

\* Descriptor i of map m covers page p; the last one is open-ended.
Covers(m, i, p) == p >= m[i].bs_page /\ (i < Len(m) => p < m[i + 1].bs_page)

\* The first descriptor that covers page p, 0 if there is none.
FirstCover(m, p) ==
    IF \E i \in 1..Len(m) : Covers(m, i, p)
    THEN CHOOSE i \in 1..Len(m) :
           Covers(m, i, p) /\ \A j \in 1..i - 1 : ~Covers(m, j, p)
    ELSE 0

\* Block of page p in descriptor i, in 64-bit arithmetic.
BlockOf(m, i, p) == m[i].vd_blk + (p - m[i].bs_page) * BLKS

(***************************************************************************)
(* read_data_core up to the volume read: what page p of a bitfile is.      *)
(*   EINVAL    the map has no descriptor                                   *)
(*   ENOENT    past the end of the map                                     *)
(*   permhole  zero-filled, and reported as a clone's hole                 *)
(*   zero      a sparse hole                                               *)
(*   ERANGE    the block number does not fit in 32 bits                    *)
(*   data      block blk of volume vd                                      *)
(***************************************************************************)
Outcome(k) == [kind |-> k, vd |-> 0, blk |-> 0]

PageOutcome(m, p) ==
    LET i == FirstCover(m, p) IN
    IF m = <<>> THEN Outcome("EINVAL")
    ELSE IF i = 0 THEN Outcome("ENOENT")
    ELSE IF i = Len(m) /\ m[i].vd_blk \in Boundary THEN Outcome("ENOENT")
    ELSE IF m[i].vd_blk \in {PERM_HOLE, 0} THEN Outcome("permhole")
    ELSE IF m[i].vd_blk = XTNT_TERM THEN Outcome("zero")
    ELSE IF BlockOf(m, i, p) > U32 THEN Outcome("ERANGE")
    ELSE [kind |-> "data", vd |-> m[i].vd_index, blk |-> BlockOf(m, i, p)]

\* advfs_extents_page_count: a marker ends at its page, a run has one page or
\* more, in 32-bit arithmetic.
PageEnd(e) == IF e.vd_blk \in Boundary THEN e.bs_page ELSE (e.bs_page + 1) % (U32 + 1)

PageCount(m) ==
    CHOOSE n \in {0} \cup {PageEnd(m[i]) : i \in 1..Len(m)} :
      \A i \in 1..Len(m) : n >= PageEnd(m[i])

\* col_lookup: block (or marker), volume and remaining run of column page xm.
ColLookup(m, xm) ==
    LET i   == FirstCover(m, xm)
        end == IF i < Len(m) THEN m[i + 1].bs_page ELSE U32
    IN  IF i = 0 \/ xm >= end
        THEN [blk |-> XTNT_TERM, vd |-> 0, run |-> U32]
        ELSE [blk |-> IF m[i].vd_blk \in Boundary THEN m[i].vd_blk
                      ELSE IF BlockOf(m, i, xm) > U32 THEN XTNT_TERM
                      ELSE BlockOf(m, i, xm),
              vd  |-> m[i].vd_index,
              run |-> end - xm]
=============================================================================
