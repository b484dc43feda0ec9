------------------------------- MODULE Domain -------------------------------
(***************************************************************************)
(* advfs_domain_open_multi (domain.c): the volumes given on the command    *)
(* line become one domain, each registered under its vd_index with the     *)
(* extent map of its own BMT, and BMT pages are then read by (vd, page).   *)
(*                                                                         *)
(* The BMT's map is found in the BMT itself: build_meta_extent_map follows *)
(* a chain of overflow mcells whose pages it resolves through the part of  *)
(* the map it has (V3, and the RBMT of V4) or through the RBMT's map (the  *)
(* BMT of V4).  Any trouble on the way ends the chain without an error.    *)
(***************************************************************************)
EXTENDS ExtentMap

CONSTANTS
    Disks,      \* what a volume may hold (see the fields below)
    ArgLists,   \* the lists of volumes the user may give
    META,       \* volume page of metadata page 0: RESERVED_BLKS / BLKS_PER_PG
    MaxVds,     \* ADVFS_MAX_DOM_VDS
    MaxHops,    \* bound of the chain loop
    MaxMap,     \* ADVFS_MAX_BMT_EXTENTS
    VdNums,     \* vd numbers asked for
    Pages       \* BMT pages asked for

(***************************************************************************)
(* A disk: version (0 if not a supported one), id of its domain (0 if it   *)
(* has no BSR_DMN_ATTR), vdattr ({} or {vd_index}), and the records that   *)
(* hold the maps of its BMT and, on V4, of its RBMT.  A record has xtnts,  *)
(* its entries, pg, the metadata page its mcell is on, and next, the       *)
(* record chained to it (0 for none).  Record 1 is the primary one, the    *)
(* others follow in the order of the chain, so that only the last one can  *)
(* end it or lead back into it.                                            *)
(***************************************************************************)
Record == [pg : Nat, xtnts : Seq([bs_page : 0..U32, vd_blk : 0..U32]), next : Nat]
Chains ==
    {s \in Seq(Record) :
       \A k \in 1..Len(s) : s[k].next \in IF k < Len(s) THEN {k + 1} ELSE {0} \cup 2..k}

ASSUME DomainAssumption ==
    /\ META \in Nat /\ MaxVds \in Nat \ {0} /\ MaxHops \in Nat /\ MaxMap \in Nat
    /\ VdNums \subseteq Nat /\ Pages \subseteq Nat
    /\ Disks \subseteq [version : Nat, id : Nat, vdattr : Optional(Nat), rbmt : Chains, bmt : Chains]
    /\ ArgLists \subseteq Seq(Disks)

Recs(d, c) == IF c = "rbmt" THEN d.rbmt ELSE d.bmt

VARIABLES
    args,       \* vols
    pc,
    vds,        \* the registered volumes
    vdIndex,    \* vd_index of the volume being opened
    which,      \* the map being built
    map,        \* map_out
    rec,        \* chain: the record to visit next
    hops,
    rbmt,       \* rbmt_map of the volume being opened
    faults,     \* disk faults met
    last        \* the last BMT page read

domainVars == <<args, pc, vds, vdIndex, which, map, rec, hops, rbmt, faults, last>>

NoPage == [vd |-> 0, page |-> 0, res |-> "none", disk |-> {}, at |-> 0]

Errors == {"EINVAL", "EIO", "ENOTSUP", "EILSEQ", "EEXIST", "E2BIG"}

DomainInit ==
    /\ args \in ArgLists
    /\ pc = "args" /\ vds = <<>> /\ vdIndex = 0
    /\ which = "bmt" /\ map = <<>> /\ rec = 0 /\ hops = 0 /\ rbmt = <<>>
    /\ faults = 0 /\ last = NoPage

\* The volume being opened.
Disk == args[Len(vds) + 1]

-----------------------------------------------------------------------------
\* advfs_bmt_resolve_page: the volume page of a metadata page, -1 if it has none.
ResolvePage(m, p) ==
    IF m = <<>> THEN IF p = 0 THEN META ELSE -1
    ELSE LET i == FirstCover(m, p) IN
         IF i = 0 \/ m[i].vd_blk \in Boundary THEN -1
         ELSE IF BlockOf(m, i, p) > U32 THEN -1
         ELSE BlockOf(m, i, p) \div BLKS

\* What the first k records of chain c hold, in the order they were written.
Collected(d, c) ==
    LET upto[k \in 0..Len(Recs(d, c))] ==
          IF k = 0 THEN <<>> ELSE upto[k - 1] \o Recs(d, c)[k].xtnts
    IN  upto

FullMap(d, c) == Collected(d, c)[Len(Recs(d, c))]

\* The map through which the page of record k of chain c can be found: the
\* RBMT's for the BMT of V4, else what the chain holds up to there.
KnownAt(d, c, k) ==
    IF c = "bmt" /\ d.version = 4 THEN FullMap(d, "rbmt") ELSE Collected(d, c)[k - 1]

\* Metadata as the kernel writes it: a record ends with a boundary, which marks
\* where the next one takes over, and is found through what is known before it;
\* and the bound on hops is met before the map is full.
ASSUME ChainAssumption ==
    \E w \in 0..MaxMap :
      /\ (MaxHops + 1) * w <= MaxMap
      /\ \A d \in Disks, c \in {"rbmt", "bmt"} : \A k \in 1..Len(Recs(d, c)) :
           LET r == Recs(d, c)[k] IN
           /\ Len(r.xtnts) \in 1..w /\ r.xtnts[Len(r.xtnts)].vd_blk \in Boundary
           /\ k > 1 => ResolvePage(KnownAt(d, c, k), r.pg) # -1

\* Where the mcell of record k really is: chains live in the RBMT on V4.
TruePage(d, c, k) ==
    ResolvePage(FullMap(d, IF d.version = 4 THEN "rbmt" ELSE "bmt"), Recs(d, c)[k].pg)

\* domain_find_vd: position in vds, 0 if no volume has this index.
FindVd(n) ==
    IF vds = <<>> THEN 0
    ELSE IF n = 0 THEN 1
    ELSE IF \E i \in 1..Len(vds) : vds[i].vd_index = n
    THEN CHOOSE i \in 1..Len(vds) :
           vds[i].vd_index = n /\ \A j \in 1..i - 1 : vds[j].vd_index # n
    ELSE 0

-----------------------------------------------------------------------------
Args ==
    /\ pc = "args"
    /\ pc' = IF Len(args) < 1 \/ Len(args) > MaxVds THEN "EINVAL" ELSE "discover"
    /\ UNCHANGED <<args, vds, vdIndex, which, map, rec, hops, rbmt, faults, last>>

\* Index of a primary volume: its attribute, or 1.
PrimaryIndex(d) == IF d.vdattr \in {{}, {0}} THEN 1 ELSE CHOOSE n \in d.vdattr : TRUE

\* Index of a further volume: its attribute, or the next by argument order.
SecondaryIndex(d) == IF d.vdattr = {} THEN Len(vds) + 1 ELSE CHOOSE n \in d.vdattr : TRUE

\* Mutant of Refusal: the volume's index is not looked for in the table.
RefusalDuplicates(d) ==
    IF Len(vds) >= MaxVds THEN "E2BIG"
    ELSE IF d.version = 0 THEN "ENOTSUP"
    ELSE IF vds # <<>> /\ d.version # vds[1].disk.version THEN "EINVAL"
    ELSE IF d.id = 0 THEN "EILSEQ"
    ELSE IF vds # <<>> /\ d.id # vds[1].disk.id THEN "EINVAL"
    ELSE IF vds # <<>> /\ SecondaryIndex(d) = 0 THEN "EEXIST"
    ELSE "none"

\* Why disk d cannot be opened next, "none" if it can.
Refusal(d) ==
    IF Len(vds) >= MaxVds THEN "E2BIG"
    ELSE IF d.version = 0 THEN "ENOTSUP"
    ELSE IF vds # <<>> /\ d.version # vds[1].disk.version THEN "EINVAL"
    ELSE IF d.id = 0 THEN "EILSEQ"
    ELSE IF vds # <<>> /\ d.id # vds[1].disk.id THEN "EINVAL"
    ELSE IF vds # <<>> /\ (SecondaryIndex(d) = 0 \/ FindVd(SecondaryIndex(d)) # 0) THEN "EEXIST"
    ELSE "none"

\* Version, metadata page 0 and the attribute records of the next volume.
Discover ==
    /\ pc = "discover"
    /\ IF Refusal(Disk) # "none"
       THEN pc' = Refusal(Disk) /\ UNCHANGED <<vdIndex, which>>
       ELSE /\ pc' = "build"
            /\ vdIndex' = IF vds = <<>> THEN PrimaryIndex(Disk) ELSE SecondaryIndex(Disk)
            /\ which' = IF Disk.version = 4 THEN "rbmt" ELSE "bmt"
    /\ UNCHANGED <<args, vds, map, rec, hops, rbmt, faults, last>>

DiscoverFails ==
    /\ pc = "discover"
    /\ pc' = "EIO" /\ faults' = faults + 1
    /\ UNCHANGED <<args, vds, vdIndex, which, map, rec, hops, rbmt, last>>

\* The primary record, from the page already read.
BuildStart ==
    /\ pc = "build"
    /\ IF Recs(Disk, which) = <<>>
       THEN pc' = "EILSEQ" /\ UNCHANGED <<map, rec, hops>>
       ELSE /\ pc' = "chain"
            /\ map' = Recs(Disk, which)[1].xtnts
            /\ rec' = Recs(Disk, which)[1].next
            /\ hops' = 0
    /\ UNCHANGED <<args, vds, vdIndex, which, rbmt, faults, last>>

\* The map a chain's pages are resolved through: V4's BMT uses its RBMT.
Resolver == IF which = "bmt" /\ Disk.version = 4 THEN rbmt ELSE map

\* One hop, with pages resolved through r.  A page that cannot be resolved, or
\* that does not hold the mcell, ends the chain; entries past the array are
\* dropped.
Hop(r, count) ==
    /\ pc = "chain" /\ rec # 0 /\ hops < MaxHops
    /\ LET this == Recs(Disk, which)[rec] IN
       IF ResolvePage(r, this.pg) \notin {TruePage(Disk, which, rec)} \ {-1}
       THEN rec' = 0 /\ UNCHANGED <<map, hops>>
       ELSE /\ LET all == map \o this.xtnts
               IN  map' = SubSeq(all, 1, IF Len(all) < MaxMap THEN Len(all) ELSE MaxMap)
            /\ rec' = this.next
            /\ hops' = hops + count
    /\ UNCHANGED <<args, pc, vds, vdIndex, which, rbmt, faults, last>>

\* Mutants of Follow: V4's BMT chain is looked for in the BMT itself; hops
\* are not counted.
FollowSelf == Hop(map, 1)
FollowUncounted == Hop(Resolver, 0)

Follow == Hop(Resolver, 1)

\* The chain page cannot be read: the chain ends here too.
FollowFails ==
    /\ pc = "chain" /\ rec # 0 /\ hops < MaxHops
    /\ rec' = 0 /\ faults' = faults + 1
    /\ UNCHANGED <<args, pc, vds, vdIndex, which, map, hops, rbmt, last>>

\* V4 goes on from the RBMT's map to the BMT's.
RbmtDone ==
    /\ pc = "chain" /\ (rec = 0 \/ hops >= MaxHops) /\ which = "rbmt"
    /\ pc' = "build" /\ which' = "bmt" /\ rbmt' = map
    /\ UNCHANGED <<args, vds, vdIndex, map, rec, hops, faults, last>>

\* Mutant of Register: the map left in the primary's fields is registered.
RegisterPrimaryMap ==
    /\ pc = "chain" /\ (rec = 0 \/ hops >= MaxHops) /\ which = "bmt"
    /\ vds' = Append(vds, [disk |-> Disk, vd_index |-> vdIndex,
                           map |-> IF vds = <<>> THEN map ELSE vds[1].map])
    /\ pc' = IF Len(vds) + 1 = Len(args) THEN "open" ELSE "discover"
    /\ map' = <<>> /\ rbmt' = <<>> /\ rec' = 0 /\ hops' = 0 /\ vdIndex' = 0
    /\ UNCHANGED <<args, which, faults, last>>

\* vd_count++: only now is the volume visible.
Register ==
    /\ pc = "chain" /\ (rec = 0 \/ hops >= MaxHops) /\ which = "bmt"
    /\ vds' = Append(vds, [disk |-> Disk, vd_index |-> vdIndex, map |-> map])
    /\ pc' = IF Len(vds) + 1 = Len(args) THEN "open" ELSE "discover"
    /\ map' = <<>> /\ rbmt' = <<>> /\ rec' = 0 /\ hops' = 0 /\ vdIndex' = 0
    /\ UNCHANGED <<args, which, faults, last>>

\* advfs_domain_read_bmt_page_vd.
ReadBmtPage(n, p) ==
    /\ pc = "open"
    /\ LET i == FindVd(n) IN
       last' = IF i = 0 \/ ResolvePage(vds[i].map, p) = -1
               THEN [NoPage EXCEPT !.vd = n, !.page = p, !.res = "ENOENT"]
               ELSE [vd |-> n, page |-> p, res |-> "ok", disk |-> {vds[i].disk},
                     at |-> ResolvePage(vds[i].map, p)]
    /\ UNCHANGED <<args, pc, vds, vdIndex, which, map, rec, hops, rbmt, faults>>

\* advfs_domain_close, also after a failed open.
CloseDomain ==
    /\ pc \in Errors \cup {"open"}
    /\ pc' = "closed" /\ vds' = <<>> /\ last' = NoPage
    /\ UNCHANGED <<args, vdIndex, which, map, rec, hops, rbmt, faults>>

Closed == pc = "closed" /\ UNCHANGED domainVars

OpenStep == Args \/ Discover \/ BuildStart \/ Follow \/ RbmtDone \/ Register
OpenFault == DiscoverFails \/ FollowFails

DomainNext == OpenStep \/ OpenFault \/ (\E n \in VdNums, p \in Pages : ReadBmtPage(n, p)) \/ CloseDomain \/ Closed

DomainSpec == DomainInit /\ [][DomainNext]_domainVars

\* Opening is sequential code: it keeps running.  No disk fault has to come to
\* its help, and nothing obliges a caller to read or to close.
DomainFairSpec == DomainSpec /\ WF_domainVars(OpenStep)

-----------------------------------------------------------------------------
\* The registered volumes belong to one domain and one version, no two share
\* a vd_index and none has index 0, in whatever order, and however often, the
\* user lists them: domain_find_vd is never ambiguous.  A volume that says
\* which vd it is is registered as that vd.
OneDomain ==
    /\ \A i \in 1..Len(vds) : /\ vds[i].vd_index # 0
                              /\ vds[i].disk.id = vds[1].disk.id
                              /\ vds[i].disk.version = vds[1].disk.version
                              /\ vds[i].disk.vdattr \notin {{}, {0}} =>
                                   vds[i].vd_index \in vds[i].disk.vdattr
    /\ \A i, j \in 1..Len(vds) : vds[i].vd_index = vds[j].vd_index => i = j

\* A BMT page that is read is the page the complete map on that vd's own disk
\* gives, even when the chain was cut short by a fault, by the bound on hops
\* or by a loop: what was not collected is refused, never guessed.
ReadsRightPage ==
    last.res = "ok" =>
      \E d \in last.disk :
        /\ vds[FindVd(last.vd)].disk = d
        /\ last.at = ResolvePage(FullMap(d, "bmt"), last.page)

\* Without faults an open domain has every volume, each with its whole map,
\* provided its chains are acyclic and no longer than the bound on hops.
CleanOpenIsComplete ==
    pc = "open" /\ faults = 0 =>
      /\ Len(vds) = Len(args)
      /\ \A i \in 1..Len(vds) :
           LET d == vds[i].disk
               straight(c) == /\ Len(Recs(d, c)) <= MaxHops + 1
                              /\ \A k \in 1..Len(Recs(d, c)) : Recs(d, c)[k].next \in {0, k + 1}
           IN  d = args[i] /\ (straight("rbmt") /\ straight("bmt") => vds[i].map = FullMap(d, "bmt"))

\* Opening ends, whatever the chains on the disks look like.
OpenEnds == <>(pc \in Errors \cup {"open", "closed"})
=============================================================================
