----------------------------- MODULE TagLookup ------------------------------
(***************************************************************************)
(* From a tag to a record (filedata.c, dir.c, fileset.c, bmt.c): the slot  *)
(* of the tag directory or, when it is dead or unreadable, a scan over the *)
(* BMT pages of every volume names an mcell, and the chain of mcells that  *)
(* starts there is searched for a record.  There are six such searches:    *)
(*   stat    find_rec_in_chain for FS_STAT; the tool checks what it finds  *)
(*   file    read_file_extents                                             *)
(*   dir     find_xtnts_mcell                                              *)
(*   undel   advfs_dir_has_undelete                                        *)
(*   fsext   read_extents_via_chain, from a slot of BFSDIR                 *)
(*   fsattr  advfs_fileset_list's search from one slot of BFSDIR           *)
(* Chains on a damaged disk may loop or leave the volumes at hand.         *)
(***************************************************************************)
EXTENDS Naturals, Sequences

CONSTANTS
    Disks, Requests,
    CELLS,          \* ADVFS_BSPG_CELLS
    R_SZ,           \* ADVFS_BSC_R_SZ
    ATTR_SZ,        \* sizeof(adv_bf_set_attr_t)
    MAX_HOPS,       \* MAX_CHAIN_HOPS, MAX_XTNTS_HOPS, MAX_XTNTS_CHAIN_HOPS
    ATTR_HOPS,      \* the 8 hops of advfs_fileset_list
    SCAN_GUESS,     \* pages past the last extent of an unterminated map: 64
    SCAN_DEFAULT,   \* pages of an empty map: 16
    SCAN_MAX        \* MAX_BMT_SCAN_PAGES

ASSUME LookupAssumption ==
    /\ {CELLS, R_SZ, ATTR_SZ, MAX_HOPS, ATTR_HOPS, SCAN_GUESS, SCAN_DEFAULT, SCAN_MAX} \subseteq Nat
    /\ SCAN_DEFAULT <= SCAN_MAX

Locations == [vd : Nat, pg : Nat, c : Nat]

(***************************************************************************)
(* A disk: vds, the attached volumes in order, each with its index and the *)
(* extents [bs_page, term] of its BMT; pages, the <<vd, page>> that can be *)
(* read; cells, the mcells in use by location [vd, pg, c]; slot, the tag's *)
(* slot: kind "unreadable", "free", "dead" (seq_no 0xFFFF) or "live", and  *)
(* the location it names.  An mcell has its tag [num, seq], its fileset    *)
(* set, next ({} or {[pg, c]}), next_vd, and recs: record headers by       *)
(* offset, [type, bcnt, ino].                                              *)
(* A request: op, tag, set, check ("none", "num", "strict").               *)
(***************************************************************************)
ASSUME DiskAssumption ==
    \A x \in Disks :
      /\ x.vds \in Seq([vd : Nat, map : Seq([bs_page : Nat, term : BOOLEAN])])
      /\ x.slot.at \in Locations /\ DOMAIN x.cells \subseteq Locations
      /\ \A l \in DOMAIN x.cells :
           /\ x.cells[l].next_vd \in Nat
           /\ x.cells[l].next \subseteq [pg : Nat, c : Nat]
           /\ \A m, n \in x.cells[l].next : m = n

VARIABLES
    disk, req, pc,
    v, spg,         \* volume and page the scan is at
    start,          \* the mcell the search starts from, {} before it is known
    at,             \* the mcell looked at
    next,           \* mcell to go on with in dir and fsattr: {} or {location}
    hops,
    out,            \* outcome: kind, and {} or the location of the record
    faults

vars == <<disk, req, pc, v, spg, start, at, next, hops, out, faults>>
search == <<start, at, next, hops>>

Nowhere == [vd |-> 0, pg |-> 0, c |-> 0]

Init ==
    /\ disk \in Disks /\ req \in Requests
    /\ pc = "slot" /\ v = 1 /\ spg = 0 /\ start = {} /\ at = Nowhere /\ next = {}
    /\ hops = 0 /\ out = [kind |-> "none", at |-> {}] /\ faults = 0

ReadsPage(vd, pg) == <<vd, pg>> \in disk.pages

NoCell == [tag |-> [num |-> 0, seq |-> 0], set |-> 0, next |-> {}, next_vd |-> 0, recs |-> <<>>]
Cell(l) == IF l \in DOMAIN disk.cells THEN disk.cells[l] ELSE NoCell

Answer(k, l) == pc' = "done" /\ out' = [kind |-> k, at |-> l] /\ UNCHANGED <<disk, req>>

-----------------------------------------------------------------------------
\* advfs_bmt_find_rec: offset of the first record of type t, R_SZ if there is
\* none.  A nil header, a size below that of the header or past the end of
\* the mcell ends the walk; records are aligned to four bytes.
HDR == 4
Nil == [type |-> "NIL", bcnt |-> 0, ino |-> [num |-> 0, seq |-> 0]]

Rec(recs, o) == IF o \in DOMAIN recs THEN recs[o] ELSE Nil

FindRec(recs, t) ==
    LET f[o \in 0..R_SZ] ==
          LET h == Rec(recs, o)
              n == o + ((h.bcnt + 3) \div 4) * 4
          IN  IF o + HDR > R_SZ \/ h.type = "NIL" \/ h.bcnt < HDR \/ o + h.bcnt > R_SZ THEN R_SZ
              ELSE IF h.type = t THEN o ELSE IF n > R_SZ THEN R_SZ ELSE f[n]
    IN  f[0]

Type ==
    CASE req.op = "stat" -> "STAT" [] req.op \in {"file", "dir", "fsext"} -> "XTNTS"
      [] req.op = "undel" -> "UNDEL" [] req.op = "fsattr" -> "ATTR"

\* The mcell has the record; try_fileset_from_mcell wants it whole.
Has(l) ==
    LET o == FindRec(Cell(l).recs, Type) IN
    o < R_SZ /\ (req.op = "fsattr" => Cell(l).recs[o].bcnt - HDR >= ATTR_SZ)

-----------------------------------------------------------------------------
\* What a search makes of an error below it, and of the end of the chain.
OnError(e) ==
    IF req.op = "fsattr" THEN "skipped"
    ELSE IF req.op = "undel" /\ hops > 0 THEN "absent" ELSE e
OnEnd == IF req.op = "fsattr" THEN "skipped" ELSE IF req.op = "undel" THEN "absent" ELSE "ENODATA"

InBfsdir == req.op \in {"fsext", "fsattr"}

Begin(l) ==
    /\ start' = {l} /\ at' = l /\ hops' = 0 /\ next' = {}
    /\ pc' = IF req.op \in {"dir", "fsattr"} THEN "primary" ELSE "loop"
    /\ UNCHANGED <<disk, req, out>>

\* The tag's slot.  BFSDIR slots are taken when in use, which seq_no 0xFFFF
\* is too; its pages have no fallback.
Slot ==
    /\ pc = "slot"
    /\ IF disk.slot.kind = "live" \/ (InBfsdir /\ disk.slot.kind = "dead")
       THEN Begin(disk.slot.at)
       ELSE IF InBfsdir
            THEN Answer(OnError(IF disk.slot.kind = "free" THEN "ENOENT" ELSE "EIO"), {}) /\ UNCHANGED search
            ELSE pc' = "scan" /\ UNCHANGED <<disk, req, out, search>>
    /\ UNCHANGED <<v, spg, faults>>

SlotFails ==
    /\ pc = "slot" /\ faults' = faults + 1
    /\ IF InBfsdir THEN Answer(OnError("EIO"), {}) ELSE pc' = "scan" /\ UNCHANGED <<disk, req, out>>
    /\ UNCHANGED <<v, spg, search>>

\* Mutant of ScanPages: the last extent of an unterminated map is one page.
ScanPagesExact(map) ==
    LET ends == {IF map[i].term THEN map[i].bs_page ELSE map[i].bs_page + 1 : i \in 1..Len(map)}
    IN  IF ends \subseteq {0} THEN SCAN_DEFAULT
        ELSE CHOOSE n \in ends : \A e \in ends : n >= e

\* bmt_scan_pages.
ScanPages(map) ==
    LET ends == {IF map[i].term THEN map[i].bs_page
                 ELSE map[i].bs_page + (IF i < Len(map) THEN 1 ELSE SCAN_GUESS) : i \in 1..Len(map)}
        most == CHOOSE n \in ends \cup {0} : \A e \in ends : n >= e
    IN  IF most > SCAN_MAX THEN SCAN_MAX ELSE IF most = 0 THEN SCAN_DEFAULT ELSE most

Vd == disk.vds[v]

\* Mutant of Matches: the fileset is not compared.
MatchesTag(l) == Cell(l).tag.num = req.tag.num

Matches(l) == Cell(l).tag.num = req.tag.num /\ Cell(l).set = req.set

OnPage == {c \in 0..CELLS - 1 : Matches([vd |-> Vd.vd, pg |-> spg, c |-> c])}

Scanning == pc = "scan" /\ v <= Len(disk.vds) /\ spg < ScanPages(Vd.map)

\* find_tag_by_bmt_scan takes the first cell that matches.
ScanHit ==
    /\ Scanning /\ ReadsPage(Vd.vd, spg) /\ OnPage # {}
    /\ Begin([vd |-> Vd.vd, pg |-> spg, c |-> CHOOSE c \in OnPage : \A x \in OnPage : c <= x])
    /\ UNCHANGED <<v, spg, faults>>

ScanOn ==
    /\ Scanning /\ (ReadsPage(Vd.vd, spg) => OnPage = {})
    /\ spg' = spg + 1
    /\ UNCHANGED <<disk, req, pc, v, search, out, faults>>

ScanFails ==
    /\ Scanning /\ ReadsPage(Vd.vd, spg)
    /\ spg' = spg + 1 /\ faults' = faults + 1
    /\ UNCHANGED <<disk, req, pc, v, search, out>>

ScanVolume ==
    /\ pc = "scan" /\ v <= Len(disk.vds) /\ spg >= ScanPages(Vd.map)
    /\ v' = v + 1 /\ spg' = 0
    /\ UNCHANGED <<disk, req, pc, search, out, faults>>

ScanMiss ==
    /\ pc = "scan" /\ v > Len(disk.vds) /\ Answer("ENOENT", {})
    /\ UNCHANGED <<v, spg, search, faults>>

-----------------------------------------------------------------------------
Readable == ReadsPage(at.vd, at.pg)
Searching == pc \in {"primary", "loop"}

\* The mcell next_mcid and next_vd_index name; 0 stays on the volume.
Successor(l) ==
    {[vd |-> IF Cell(l).next_vd = 0 THEN l.vd ELSE Cell(l).next_vd, pg |-> n.pg, c |-> n.c] :
       n \in Cell(l).next}

Unfit ==
    /\ Searching /\ (~Readable \/ at.c >= CELLS)
    /\ Answer(OnError(IF Readable THEN "EINVAL" ELSE "EIO"), {})
    /\ UNCHANGED <<v, spg, search, faults>>

SearchFails ==
    /\ Searching /\ Readable /\ faults' = faults + 1
    /\ Answer(OnError("EIO"), {})
    /\ UNCHANGED <<v, spg, search>>

Usable == Searching /\ Readable /\ at.c < CELLS

\* stat_tag_checked: the record's own tag, where it has one.
Checked(ino) ==
    /\ req.check # "none" => ino.num \in {0, req.tag.num}
    /\ req.check = "strict" => ino.seq = 0 \/ req.tag.seq = 0 \/ ino.seq = req.tag.seq

Hit ==
    LET r == Cell(at).recs IN
    /\ Usable /\ Has(at)
    /\ Answer(IF Checked(r[FindRec(r, Type)].ino) THEN "ok" ELSE "ESTALE", {at})
    /\ UNCHANGED <<v, spg, search, faults>>

\* Mutant of Loop: the hops are not counted.
LoopForever ==
    /\ pc = "loop" /\ Usable /\ ~Has(at)
    /\ IF Successor(at) = {} THEN Answer(OnEnd, {}) /\ UNCHANGED <<at, hops>>
       ELSE at' \in Successor(at) /\ UNCHANGED <<hops, disk, req, pc, out>>
    /\ UNCHANGED <<v, spg, start, next, faults>>

\* One turn of the loops of stat, file, fsext and undel: look, then follow.
Loop ==
    /\ pc = "loop" /\ Usable /\ ~Has(at)
    /\ IF Successor(at) = {} \/ hops >= MAX_HOPS THEN Answer(OnEnd, {}) /\ UNCHANGED <<at, hops>>
       ELSE at' \in Successor(at) /\ hops' = hops + 1 /\ UNCHANGED <<disk, req, pc, out>>
    /\ UNCHANGED <<v, spg, start, next, faults>>

\* dir and fsattr look at the primary mcell first and then loop while there
\* is a next one and hops are left.
Limit == IF req.op = "fsattr" THEN ATTR_HOPS ELSE MAX_HOPS

Primary ==
    /\ pc = "primary" /\ Usable /\ ~Has(at)
    /\ next' = Successor(at) /\ pc' = "more"
    /\ UNCHANGED <<disk, req, v, spg, start, at, hops, out, faults>>

\* Mutant of More: a chained mcell's volume is forgotten.
MoreStays ==
    /\ pc = "more"
    /\ IF next = {} \/ hops >= Limit THEN Answer(OnEnd, {}) /\ UNCHANGED <<at, hops>>
       ELSE /\ \E l \in next : at' = [l EXCEPT !.vd = at.vd]
            /\ pc' = "primary" /\ hops' = hops + 1 /\ UNCHANGED <<disk, req, out>>
    /\ UNCHANGED <<v, spg, start, next, faults>>

More ==
    /\ pc = "more"
    /\ IF next = {} \/ hops >= Limit THEN Answer(OnEnd, {}) /\ UNCHANGED <<at, hops>>
       ELSE at' \in next /\ pc' = "primary" /\ hops' = hops + 1 /\ UNCHANGED <<disk, req, out>>
    /\ UNCHANGED <<v, spg, start, next, faults>>

Lookup ==
    \/ Slot \/ ScanHit \/ ScanOn \/ ScanVolume \/ ScanMiss
    \/ Unfit \/ Hit \/ Loop \/ Primary \/ More

Done == pc = "done" /\ UNCHANGED vars
Next == Lookup \/ SlotFails \/ ScanFails \/ SearchFails \/ Done

\* A lookup is one call on one thread: it goes on until it returns.
Spec == Init /\ [][Next]_vars /\ WF_vars(Lookup)

-----------------------------------------------------------------------------
\* The mcells of a chain, from l on: {} past its end, and {location}s of mcells
\* that may be unusable up to it.
Sane(l) == ReadsPage(l.vd, l.pg) /\ l.c < CELLS

ChainFrom(l) ==
    LET f[k \in 0..Limit] ==
          IF k = 0 THEN {l} ELSE UNION {IF Sane(m) THEN Successor(m) ELSE {} : m \in f[k - 1]}
    IN  f

\* All six searches answer alike: with the first mcell of the chain, within
\* the limit of hops and on the volume the chain leads to, that has the
\* record; with none only if no such mcell has it, whatever else the chain
\* does; and they stop looking where it cannot be followed.
SearchesAgree ==
    pc = "done" /\ start # {} /\ faults = 0 =>
      LET f == ChainFrom(CHOOSE l \in start : TRUE)
          holds == {k \in 0..Limit : \E l \in f[k] : Sane(l) /\ Has(l)}
          first == CHOOSE k \in holds : \A j \in holds : k <= j
      IN  IF holds # {} THEN out.kind \in {"ok", "ESTALE"} /\ out.at = f[first]
          ELSE /\ out.at = {}
               /\ out.kind \in {"ENODATA", "absent", "skipped"}
                  \/ \E k \in 0..Limit : \E l \in f[k] : ~Sane(l)

\* A tag reported missing is missing: no page of a volume's BMT that can be
\* read has an mcell of that tag and fileset, up to the limit of the scan,
\* also where the BMT's map has lost its end.
ScanComplete ==
    pc = "done" /\ out.kind = "ENOENT" /\ ~InBfsdir /\ faults = 0 =>
      \A i \in 1..Len(disk.vds), l \in DOMAIN disk.cells :
        LET m == disk.vds[i].map
            last == m[Len(m)]
        IN  /\ m # <<>> /\ l.vd = disk.vds[i].vd /\ ReadsPage(l.vd, l.pg) /\ l.c < CELLS
            /\ l.pg < SCAN_MAX
            /\ l.pg < last.bs_page + (IF last.term THEN 0 ELSE SCAN_GUESS)
            => ~(disk.cells[l].tag.num = req.tag.num /\ disk.cells[l].set = req.set)

\* The slot and the chains are what the file system wrote.
SoundDisk ==
    /\ disk.slot.kind = "live" =>
         Cell(disk.slot.at).tag.num = req.tag.num /\ Cell(disk.slot.at).set = req.set
    /\ \A l \in DOMAIN disk.cells : \A m \in Successor(l) :
         Cell(m).tag = Cell(l).tag /\ Cell(m).set = Cell(l).set

\* On a sound disk a search that succeeds has found a record of the tag asked
\* for in the fileset asked for, by the slot or by the scan, with pages that
\* could not be read in between; and when the tool checks strictly, one of the
\* very file the deleted entry named, not of a later file with its tag, as far
\* as both have a sequence number.
RecordIsOwn ==
    pc = "done" /\ out.kind = "ok" /\ ~InBfsdir /\ SoundDisk =>
      \A l \in out.at :
        /\ Cell(l).tag.num = req.tag.num /\ Cell(l).set = req.set
        /\ /\ req.check = "strict" /\ Cell(l).tag.seq # 0 /\ req.tag.seq # 0
           /\ Cell(l).recs[FindRec(Cell(l).recs, Type)].ino = Cell(l).tag
           => Cell(l).tag.seq = req.tag.seq

\* A lookup ends, on chains that loop as well.
LookupEnds == <>(pc = "done")
=============================================================================
