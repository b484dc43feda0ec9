------------------------------- MODULE Stripe -------------------------------
(***************************************************************************)
(* advfs_extents_stripe_interleave (extents.c): the loop that turns the    *)
(* extent maps of a striped bitfile's columns into one flat map of file    *)
(* pages, emitting one descriptor per contiguous run.                      *)
(***************************************************************************)
EXTENDS ExtentMap

CONSTANTS
    Columns,        \* column maps a file may have (sequences of maps)
    Segments,       \* segment sizes, in pages
    MaxCols,        \* MAX_STRIPE_COLS
    MaxExtents      \* capacity of the output array

VARIABLES
    cols,           \* the columns' maps (raw[col_start[c] .. col_start[c+1]))
    seg,            \* segment_size
    pc,
    total,          \* file pages
    fpage,          \* next file page
    out             \* the map built so far

vars == <<cols, seg, pc, total, fpage, out>>

Init ==
    /\ cols \in Columns /\ seg \in Segments
    /\ pc = "start" /\ total = 0 /\ fpage = 0 /\ out = <<>>

\* Sum of the columns' page counts, as a 64-bit sum.
ColumnPages ==
    LET sum[c \in 0..Len(cols)] ==
          IF c = 0 THEN 0 ELSE sum[c - 1] + PageCount(cols[c])
    IN sum[Len(cols)]

Start ==
    /\ pc = "start"
    /\ IF Len(cols) < 1 \/ Len(cols) > MaxCols \/ seg = 0 \/ MaxExtents <= 0
       THEN pc' = "EINVAL" /\ UNCHANGED total
       ELSE IF ColumnPages > U32 THEN pc' = "ERANGE" /\ UNCHANGED total
       ELSE pc' = "loop" /\ total' = ColumnPages
    /\ UNCHANGED <<cols, seg, fpage, out>>

\* Column (counted from 1) and column-relative page of file page p.
Column(p) == 1 + ((p \div seg) % Len(cols))
ColumnPage(p) == ((p \div seg) \div Len(cols)) * seg + (p % seg)

\* Pages the next descriptor stands for: the rest of the segment, of the
\* column's run or of the file, whichever is least, and always progress.
RunLength(run) ==
    LET a == IF run < seg - (fpage % seg) THEN run ELSE seg - (fpage % seg)
        b == IF total - fpage < a THEN total - fpage ELSE a
    IN  IF b = 0 THEN 1 ELSE b

\* Mutant of Merges: runs are contiguous whatever volume they are on.
MergesAnyVolume(prev, blk, vd) ==
    \/ prev.vd_blk \in Boundary /\ blk = prev.vd_blk
    \/ /\ prev.vd_blk \notin Boundary /\ blk \notin Boundary
       /\ prev.vd_blk + (fpage - prev.bs_page) * BLKS = blk

\* The run at fpage continues the last descriptor.
Merges(prev, blk, vd) ==
    \/ prev.vd_blk \in Boundary /\ blk = prev.vd_blk
    \/ /\ prev.vd_blk \notin Boundary /\ blk \notin Boundary
       /\ prev.vd_index = vd
       /\ prev.vd_blk + (fpage - prev.bs_page) * BLKS = blk

\* append_extent, which refuses to go past the array.
Append1(e) == out' = Append(out, e)

Step ==
    /\ pc = "loop" /\ fpage < total
    /\ LET l == ColLookup(cols[Column(fpage)], ColumnPage(fpage))
           merged == out # <<>> /\ Merges(out[Len(out)], l.blk, l.vd)
       IN  IF ~merged /\ Len(out) >= MaxExtents
           THEN pc' = "EOVERFLOW" /\ UNCHANGED <<fpage, out>>
           ELSE /\ fpage' = fpage + RunLength(l.run)
                /\ IF merged THEN UNCHANGED out
                   ELSE Append1([bs_page |-> fpage, vd_blk |-> l.blk, vd_index |-> l.vd])
                /\ UNCHANGED pc
    /\ UNCHANGED <<cols, seg, total>>

\* The final terminator: its bs_page is the page count.
Finish ==
    /\ pc = "loop" /\ fpage = total
    /\ IF Len(out) >= MaxExtents
       THEN pc' = "EOVERFLOW" /\ UNCHANGED out
       ELSE /\ pc' = "done"
            /\ Append1([bs_page |-> total, vd_blk |-> XTNT_TERM, vd_index |-> 0])
    /\ UNCHANGED <<cols, seg, total, fpage>>

Returned == pc \notin {"start", "loop"} /\ UNCHANGED vars

Next == Start \/ Step \/ Finish \/ Returned

Spec == Init /\ [][Next]_vars

-----------------------------------------------------------------------------
(***************************************************************************)
(* Reference: what the bytes of file page p are, by the striping rule      *)
(* alone.  Sparse and past-the-end column pages are zeros; a block number  *)
(* past 32 bits is a hole for the interleaver.                             *)
(***************************************************************************)
Normal(o) == IF o.kind \in {"EINVAL", "ENOENT", "zero", "ERANGE"} THEN Outcome("zero") ELSE o
StripedPage(p) == Normal(PageOutcome(cols[Column(p)], ColumnPage(p)))

(***************************************************************************)
(* At every point of the loop the map built so far sends each file page    *)
(* below fpage to the block, or to the kind of hole, the striping rule     *)
(* gives it: merging and run splitting lose nothing.                       *)
(***************************************************************************)
PrefixCorrect ==
    \A p \in 0..fpage - 1 :
      Normal(PageOutcome(Append(out, [bs_page |-> fpage, vd_blk |-> XTNT_TERM,
                                      vd_index |-> 0]), p)) = StripedPage(p)

(***************************************************************************)
(* A finished map says the file has exactly the pages of its columns, and  *)
(* ends there: reading page "total" is past the end.                       *)
(***************************************************************************)
CountIsTotal ==
    pc = "done" => /\ PageCount(out) = total
                   /\ PageOutcome(out, total).kind = "ENOENT"

(***************************************************************************)
(* Every page that a column maps to storage is a page of the interleaved   *)
(* file ("file segment s maps to column (s % ncols)", extents.h).          *)
(***************************************************************************)
NoMappedPageLost ==
    pc = "done" =>
      \A c \in 1..Len(cols) : \A xm \in 0..PageCount(cols[c]) - 1 :
        \* the file page that column page stands for
        LET p == ((xm \div seg) * Len(cols) + (c - 1)) * seg + (xm % seg)
        IN  PageOutcome(cols[c], xm).kind = "data" => PageOutcome(out, p).kind = "data"
=============================================================================
