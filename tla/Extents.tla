------------------------------ MODULE Extents -------------------------------
(***************************************************************************)
(* The extent map of a bitfile from end to end (extents.c): the walk of    *)
(* ExtentChain and, for a striped file, the interleaver of Stripe on the   *)
(* columns the walk collected.  The interleaver is a function of extents.h *)
(* of its own and is called directly as well.                              *)
(***************************************************************************)
EXTENDS ExtentChain

CONSTANTS
    U32, BLKS,
    Columns, Segments,      \* what direct callers pass to the interleaver
    Value(_)                \* bs_page and vd_blk of a descriptor of the chain

VARIABLES cols, seg, ipc, total, fpage, out     \* the interleaver's

istate == <<cols, seg, ipc, total, fpage, out>>
allvars == <<vars, istate>>

I == INSTANCE Stripe WITH pc <- ipc, MaxCols <- MAX_STRIPE_COLS, MaxExtents <- MAX_EXTENTS

\* The descriptors that a chain can hold.
Descriptors ==
    {<<a, k>> : a \in (Attached \cup Vds \cup {0}) \X (Mcids \cup {0}), k \in 1..BMT_XTNTS}

ASSUME ExtentsAssumption ==
    /\ U32 \in Nat /\ U32 >= 2 /\ BLKS \in Nat \ {0}
    /\ Columns \subseteq Seq(Seq(I!Extent)) /\ Segments \subseteq Nat
    /\ \A d \in Descriptors : Value(d).bs_page \in 0..U32 /\ Value(d).vd_blk \in 0..U32

\* Either entry point; pc stays "start" if the walk is not called.
ExtentsInit ==
    \/ /\ Init
       /\ cols = <<>> /\ seg = 0 /\ ipc = "idle" /\ total = 0 /\ fpage = 0 /\ out = <<>>
    \/ /\ I!Init
       /\ domain = TRUE /\ prim = (CHOOSE p \in Prims : TRUE) /\ disk = <<>> /\ pc = "start"
       /\ raw = <<>> /\ col_start = <<>> /\ found_shadow = FALSE
       /\ chain_vd = 0 /\ chain_mcid = 0 /\ hops = 0

\* raw[col_start[c] .. col_start[c + 1]), the last column ending with the map.
ColumnEnd(c) == IF c < Len(col_start) THEN col_start[c + 1] ELSE Len(raw)
RawColumn(c) ==
    [i \in 1..ColumnEnd(c) - col_start[c] |->
       LET r == raw[col_start[c] + i] IN
       [bs_page |-> Value(r.desc).bs_page, vd_blk |-> Value(r.desc).vd_blk, vd_index |-> r.vd]]

Interleave ==
    /\ pc = "interleave" /\ ipc = "idle"
    /\ cols' = [c \in 1..Len(col_start) |-> RawColumn(c)]
    /\ seg' = prim.segment_size /\ ipc' = "start"
    /\ UNCHANGED <<vars, total, fpage, out>>

Walk ==
    /\ ipc = "idle"
    /\ ReadPrimary \/ EndOfChain \/ HopUnattached \/ HopNew \/ HopAgain
    /\ UNCHANGED istate

Merge ==
    /\ I!Start \/ I!Step \/ I!Finish
    /\ UNCHANGED vars

\* A call is over when the walk has a result and, if that is a set of columns
\* or the interleaver was called by itself, the interleaver has one.
Returned == IF ipc = "idle" THEN Finished /\ pc # "interleave" ELSE ipc \notin {"start", "loop"}

ExtentsNext == Walk \/ Interleave \/ Merge \/ (Returned /\ UNCHANGED allvars)

\* Both are loops of one call, which goes on until it returns.
ExtentsSpec == ExtentsInit /\ [][ExtentsNext]_allvars /\ WF_allvars(Walk \/ Interleave \/ Merge)

-----------------------------------------------------------------------------
(***************************************************************************)
(* Columns that mean the same to the interleaver as to read_data_core:     *)
(* their descriptors come in the order of their pages, from page 0 on,     *)
(* storage is not at block 0 (which reads as a clone's stub) nor so placed *)
(* that one of its blocks has the number of a marker, and the last         *)
(* descriptor is no permanent hole (which would end the map).              *)
(***************************************************************************)
Sound ==
    \A c \in 1..Len(cols) :
      LET m == cols[c] IN
      /\ m # <<>> => m[1].bs_page = 0
      /\ \A i \in 1..Len(m) - 1 : m[i].bs_page <= m[i + 1].bs_page
      /\ \A i \in 1..Len(m) :
           \/ m[i].vd_blk = I!XTNT_TERM
           \/ m[i].vd_blk = I!PERM_HOLE /\ i < Len(m)
           \/ m[i].vd_blk # 0 /\ \A b \in I!Boundary : (b - m[i].vd_blk) % BLKS # 0

(***************************************************************************)
(* At every point of the interleaver's loop the map built so far sends     *)
(* each file page below fpage to the block and volume, or to the kind of   *)
(* hole, the striping rule gives it, whether the columns come from a chain *)
(* or from a direct caller: merging and splitting runs lose nothing.  The  *)
(* finished map has exactly the pages of its columns and ends there, and   *)
(* the caller's array is never overrun.                                    *)
(***************************************************************************)
FlatMapIsStriped ==
    /\ Len(out) <= MAX_EXTENTS
    /\ Sound => I!PrefixCorrect
    /\ I!CountIsTotal

\* Every call ends: on a circular chain, and on columns with runs of no pages.
ExtentsEnd == <>Returned
=============================================================================
