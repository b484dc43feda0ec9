---------------------------- MODULE ExtentChain ----------------------------
(***************************************************************************)
(* extents_read_core (extents.c): collecting the extent map of a bitfile   *)
(* by walking from its primary mcell along the chain of overflow mcells,   *)
(* which may cross volumes, end early, be unreadable or run in a circle.   *)
(*                                                                         *)
(* The metadata on disk is arbitrary.  It is revealed when it is read: the *)
(* contents of a cell are chosen at the first visit and remembered, so a   *)
(* chain that comes back to a cell finds there what it found before.       *)
(***************************************************************************)
EXTENDS Integers, Sequences, FiniteSets

CONSTANTS
    Attached,       \* vd_index of the attached volumes
    DefaultVd,      \* vds[0].vd_index
    Vds,            \* volume numbers that occur in links (0 = stay here)
    Mcids,          \* mcell identifiers other than 0
    Counts,         \* descriptor counts that records claim (x_cnt)
    Prims,          \* primary mcells the walk may start from
    MAX_CHAIN_HOPS, MAX_STRIPE_COLS, MAX_EXTENTS,
    BMT_XTNTS       \* capacity of a record's descriptor array

ASSUME ChainAssumption ==
    /\ Attached \subseteq Nat \ {0} /\ DefaultVd \in Attached
    /\ Vds \subseteq Nat /\ Mcids \subseteq Nat \ {0} /\ Counts \subseteq Nat
    /\ MAX_CHAIN_HOPS \in Nat /\ MAX_STRIPE_COLS \in Nat \ {0}
    /\ MAX_EXTENTS \in Nat \ {0} /\ BMT_XTNTS \in Nat

(***************************************************************************)
(* An overflow mcell as extents_read_core sees it: it holds an XTRA record *)
(* or else a SHADOW record, or neither, or one that is too small; or its   *)
(* cell number is invalid, or its BMT page cannot be read.  The k-th       *)
(* descriptor of the cell at address a is represented by <<a, k>>.         *)
(***************************************************************************)
Records == [kind : {"xtra", "shadow"}, x_cnt : Counts, next : Mcids \cup {0}, next_vd : Vds]
Cells == Records \cup [kind : {"none", "small", "badcell", "unreadable"}]

Primaries == [stripe : BOOLEAN, segment_size : Nat, x_cnt : Counts,
              chain : Mcids \cup {0}, chain_vd : Vds, vd : Attached \cup {0}]
ASSUME PrimsAssumption == Prims \subseteq Primaries /\ Prims # {}

VARIABLES
    domain,         \* TRUE: multi-volume entry point, FALSE: legacy one
    prim,           \* the primary mcell's BSR_XTNTS record
    disk,           \* the overflow mcells seen so far
    pc,             \* "walk", "interleave", "ok" or an error
    raw,            \* descriptors collected, tagged with their volume
    col_start,      \* where each shadow record's descriptors start in raw
    found_shadow, chain_vd, chain_mcid, hops

vars == <<domain, prim, disk, pc, raw, col_start, found_shadow, chain_vd,
          chain_mcid, hops>>

\* The caller names the primary mcell on a volume of the domain, 0 being the
\* default one; the legacy entry point has no volumes.
Init ==
    /\ domain \in BOOLEAN
    /\ prim \in Prims
    /\ ~domain => prim.vd = 0
    /\ disk = <<>>
    /\ pc = "start"
    /\ raw = <<>> /\ col_start = <<>> /\ found_shadow = FALSE
    /\ chain_vd = 0 /\ chain_mcid = 0 /\ hops = 0

\* collect_array: the descriptors, clamped to the record's capacity, with their volume.
Collected(r, at, vd) ==
    LET n == IF r.x_cnt > BMT_XTNTS THEN BMT_XTNTS ELSE r.x_cnt
    IN  [k \in 1..n |-> [desc |-> <<at, k>>, vd |-> vd]]

\* advfs_extents_read_dom replaces the alias 0 by the default volume's number.
PrimVd == IF domain /\ prim.vd = 0 THEN DefaultVd ELSE prim.vd

\* Address of the primary mcell's record, which no chain link can name.
Primary == <<PrimVd, 0>>

\* Address of the cell the chain points at; without a domain there is one volume.
Here == <<chain_vd, chain_mcid>>

IsStripe == prim.stripe /\ domain

\* The primary record, and the volume of the first overflow mcell.
ReadPrimary ==
    /\ pc = "start"
    /\ LET c == Collected(prim, Primary, PrimVd) IN
       IF Len(c) > MAX_EXTENTS
       THEN pc' = "EOVERFLOW" /\ UNCHANGED <<raw, chain_vd, chain_mcid>>
       ELSE /\ pc' = "walk"
            /\ raw' = c
            /\ chain_mcid' = prim.chain
            /\ chain_vd' = IF domain /\ prim.chain_vd # 0 THEN prim.chain_vd ELSE PrimVd
    /\ UNCHANGED <<domain, prim, disk, col_start, found_shadow, hops>>

\* A hop changes nothing but ends the walk with err.
Fail(err) ==
    /\ pc' = err
    /\ UNCHANGED <<raw, col_start, found_shadow, chain_vd, chain_mcid, hops>>

\* Mutant of Follow: hops are not counted.
FollowUncounted(cell, r) ==
    /\ raw' = r
    /\ chain_vd' = IF domain /\ cell.next_vd # 0 THEN cell.next_vd ELSE chain_vd
    /\ chain_mcid' = cell.next
    /\ UNCHANGED <<pc, hops>>

\* The rest of a hop, once its descriptors are in r: follow the cell's link.
Follow(cell, r) ==
    /\ raw' = r
    /\ chain_vd' = IF domain /\ cell.next_vd # 0 THEN cell.next_vd ELSE chain_vd
    /\ chain_mcid' = cell.next
    /\ hops' = hops + 1
    /\ UNCHANGED pc

Walking == pc = "walk" /\ chain_mcid # 0 /\ hops < MAX_CHAIN_HOPS

\* BSR_XTRA_XTNTS: more descriptors of the same column.
Xtra(cell) ==
    LET r == raw \o Collected(cell, Here, chain_vd) IN
    IF Len(r) > MAX_EXTENTS THEN Fail("EOVERFLOW")
    ELSE Follow(cell, r) /\ UNCHANGED <<col_start, found_shadow>>

\* Mutant of Shadow: the primary's stub descriptors are kept.
ShadowKeepsStubs(cell) ==
    LET r == raw \o Collected(cell, Here, chain_vd) IN
    IF Len(col_start) >= MAX_STRIPE_COLS /\ IsStripe THEN Fail("EILSEQ")
    ELSE IF Len(r) > MAX_EXTENTS THEN Fail("EOVERFLOW")
    ELSE /\ Follow(cell, r)
         /\ col_start' = IF Len(col_start) >= MAX_STRIPE_COLS THEN col_start
                         ELSE Append(col_start, Len(raw))
         /\ found_shadow' = TRUE

\* Mutant of Shadow: a column begins where its record ends.
ShadowLateColumn(cell) ==
    LET kept == IF found_shadow THEN raw ELSE <<>>
        r    == kept \o Collected(cell, Here, chain_vd)
    IN
    IF Len(col_start) >= MAX_STRIPE_COLS /\ IsStripe THEN Fail("EILSEQ")
    ELSE IF Len(r) > MAX_EXTENTS THEN Fail("EOVERFLOW")
    ELSE /\ Follow(cell, r)
         /\ col_start' = IF Len(col_start) >= MAX_STRIPE_COLS THEN col_start
                         ELSE Append(col_start, Len(r))
         /\ found_shadow' = TRUE

(***************************************************************************)
(* BSR_SHADOW_XTNTS: the first one replaces everything collected so far    *)
(* (stubs in the primary); each one starts a stripe column.  Past          *)
(* MAX_STRIPE_COLS a striped file is refused and another one keeps going   *)
(* without recording boundaries.                                           *)
(***************************************************************************)
Shadow(cell) ==
    LET kept == IF found_shadow THEN raw ELSE <<>>
        r    == kept \o Collected(cell, Here, chain_vd)
    IN
    IF Len(col_start) >= MAX_STRIPE_COLS /\ IsStripe THEN Fail("EILSEQ")
    ELSE IF Len(r) > MAX_EXTENTS THEN Fail("EOVERFLOW")
    ELSE /\ Follow(cell, r)
         /\ col_start' = IF Len(col_start) >= MAX_STRIPE_COLS THEN col_start
                         ELSE Append(col_start, Len(kept))
         /\ found_shadow' = TRUE

\* What the walk returns after its last hop: columns to interleave, or a flat copy.
Outcome ==
    IF IsStripe /\ Len(col_start) >= 2
    THEN IF prim.segment_size = 0 THEN "EILSEQ" ELSE "interleave"
    ELSE "ok"

\* The walk stops: end of the chain, or too many hops.
EndOfChain ==
    /\ pc = "walk" /\ ~Walking
    /\ pc' = Outcome
    /\ UNCHANGED <<domain, prim, disk, raw, col_start, found_shadow, chain_vd,
                   chain_mcid, hops>>

Hop(cell) ==
    CASE cell.kind = "unreadable" -> Fail("EIO")
      [] cell.kind \in {"badcell", "small"} -> Fail("EILSEQ")
      [] cell.kind = "none" -> Fail(Outcome)     \* no record: the loop is left
      [] cell.kind = "xtra" -> Xtra(cell)
      [] cell.kind = "shadow" -> Shadow(cell)

\* advfs_domain_read_bmt_page_vd knows no such volume.
HopUnattached ==
    /\ Walking /\ domain /\ chain_vd \notin Attached
    /\ Fail("ENOENT")
    /\ UNCHANGED <<domain, prim, disk>>

HopNew ==
    /\ Walking /\ (domain => chain_vd \in Attached)
    /\ Here \notin DOMAIN disk
    /\ \E cell \in Cells :
         /\ disk' = [a \in DOMAIN disk \cup {Here} |-> IF a = Here THEN cell ELSE disk[a]]
         /\ Hop(cell)
    /\ UNCHANGED <<domain, prim>>

HopAgain ==
    /\ Walking /\ Here \in DOMAIN disk
    /\ Hop(disk[Here])
    /\ UNCHANGED <<domain, prim, disk>>

Finished == pc \notin {"start", "walk"}
Done == Finished /\ UNCHANGED vars

Next == ReadPrimary \/ EndOfChain \/ HopUnattached \/ HopNew \/ HopAgain \/ Done

Spec == Init /\ [][Next]_vars

-----------------------------------------------------------------------------
(***************************************************************************)
(* Reference: the cells of the chain, link by link from the primary, and   *)
(* the descriptors of the cells that have been passed.                     *)
(***************************************************************************)
Trail ==
    LET t[n \in 0..hops] ==
          IF n = 0
          THEN <<IF domain /\ prim.chain_vd # 0 THEN prim.chain_vd ELSE PrimVd,
                 prim.chain>>
          ELSE LET c == disk[t[n - 1]] IN
               <<IF domain /\ c.next_vd # 0 THEN c.next_vd ELSE t[n - 1][1], c.next>>
    IN t

ShadowHops == {n \in 0..hops - 1 : disk[Trail[n]].kind = "shadow"}
FirstShadow == CHOOSE n \in ShadowHops : \A m \in ShadowHops : n <= m

\* Descriptors of the chain from hop n on.
From(n) ==
    LET f[k \in n..hops] ==
          IF k = n THEN <<>> ELSE f[k - 1] \o Collected(disk[Trail[k - 1]], Trail[k - 1], Trail[k - 1][1])
    IN f[hops]

(***************************************************************************)
(* The map collected is the chain's: every descriptor of the primary and   *)
(* of the cells passed, in order and tagged with the volume of the cell    *)
(* that describes it - or, once a shadow record was met, of the cells from *)
(* that one on and nothing from before it.  In domain mode that volume is  *)
(* an attached one ("extent tags always name a concrete volume",           *)
(* advfs_extents_read_dom).                                                *)
(***************************************************************************)
RawIsChain ==
    /\ pc # "start" /\ pc # "EOVERFLOW" =>
         raw = IF ShadowHops = {} THEN Collected(prim, Primary, PrimVd) \o From(0)
               ELSE From(FirstShadow)
    /\ domain => \A i \in 1..Len(raw) :
                   raw[i].vd \in Attached /\ raw[i].vd = raw[i].desc[1][1]

(***************************************************************************)
(* The arrays are never written past their ends, and what the interleaver  *)
(* is given is a partition of the map into columns: at least two, the      *)
(* first at the start, each at the first descriptor of a shadow record, in *)
(* order; and a segment size that can be divided by.                       *)
(***************************************************************************)
ColumnsPartition ==
    /\ Len(raw) <= MAX_EXTENTS /\ Len(col_start) <= MAX_STRIPE_COLS
    /\ pc = "interleave" =>
         /\ prim.segment_size > 0
         /\ Len(col_start) >= 2
         /\ Len(col_start) = Cardinality(ShadowHops)
         /\ col_start[1] = 0
         /\ \A n \in ShadowHops :
              col_start[Cardinality({m \in ShadowHops : m <= n})] = Len(raw) - Len(From(n))
=============================================================================
