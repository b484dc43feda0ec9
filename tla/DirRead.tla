------------------------------ MODULE DirRead -------------------------------
(***************************************************************************)
(* advfs_dir_read_full_clone and walk_dir_block (dir.c): which pages of a  *)
(* directory are walked, in which order and from which fileset, and which  *)
(* entries are taken out of each block of a page.  A clone's directory may *)
(* have pages of its own, permanent holes that the original fills, an      *)
(* empty stub map (V4) or a stub whose page count is nonsense (V3); a      *)
(* block may hold an entry whose header is damaged.                        *)
(***************************************************************************)
EXTENDS ExtentMap

CONSTANTS
    Directories,    \* directories a disk may hold, and how they are read
    MaxDirPages,    \* MAX_DIR_PAGES
    BLKSZ           \* ADVFS_BLKSZ

HDR_SZ == 8         \* ADVFS_DIR_ENTRY_HDR_SZ, MIN_DIR_ENTRY_SZ
TAG_SZ == 8         \* sizeof(adv_bf_tag_t)
NAMED_SZ == 20      \* an entry with a name has 8 + 4 + 8 bytes or more

(***************************************************************************)
(* A directory d of Directories:                                           *)
(*   own, orig   dir_extents, and the same tag in the original: {} or {map}*)
(*   clone       clone_active                                              *)
(*   want        the callbacks given: "live", "deleted"                    *)
(*   text        the headers of each block's entries by their offset;      *)
(*               every page of the directory holds the same blocks         *)
(*   damage      {} or one header as it now is on disk, by page, block and *)
(*               offset                                                    *)
(*   junk        what the bytes inside an entry are, read as a header      *)
(* A header has the entry's size, whether tag_num is zero, name_count, and *)
(* whether the trailing tag is non-zero and the name begins with a byte    *)
(* other than NUL.                                                         *)
(***************************************************************************)
Header == [size : Nat, tag : BOOLEAN, name_count : Nat, trail : BOOLEAN, name : BOOLEAN]

Zeros == [size |-> 0, tag |-> FALSE, name_count |-> 0, trail |-> FALSE, name |-> FALSE]

\* name_count and the trailing tag fit the entry.
Fits(h) ==
    h.name_count > 0 /\ h.size >= NAMED_SZ /\ HDR_SZ + h.name_count + TAG_SZ <= h.size

\* Block b as it was written, before any damage: each entry begins where the
\* one before it ends, zeros follow the last, and what has a tag has a name
\* that fits.
Written(b) ==
    /\ 0 \in DOMAIN b /\ DOMAIN b \subseteq 0..BLKSZ
    /\ \A o \in DOMAIN b :
         /\ b[o] \in Header
         /\ \/ b[o] = Zeros /\ \A q \in DOMAIN b : q <= o
            \/ /\ b[o].size >= HDR_SZ /\ o + b[o].size \in DOMAIN b
               /\ \A q \in DOMAIN b : q <= o \/ q >= o + b[o].size
         /\ b[o].tag \/ b[o].trail => Fits(b[o])
         /\ b[o].tag \/ (b[o].trail => b[o].name)

ASSUME DirAssumption ==
    /\ MaxDirPages \in Nat /\ BLKSZ \in Nat
    /\ \A x \in Directories :
         /\ x.own \in Seq(Extent) /\ x.orig \in Optional(Seq(Extent))
         /\ x.clone \in BOOLEAN /\ x.want \subseteq {"live", "deleted"}
         /\ DOMAIN x.text = 0..BLKS - 1 /\ \A k \in 0..BLKS - 1 : Written(x.text[k])
         /\ x.damage \in Optional([page : Nat, blk : 0..BLKS - 1, at : Nat, hdr : Header])
         /\ x.junk \in Header

VARIABLES
    d,
    origOk,         \* orig_ok
    pc,
    maxPage,
    pg,
    blk,            \* block of the page in page_buf
    off,            \* offset in the block
    walked,         \* pages walked so far: [page, from]
    reports,        \* entries handed to a callback: [page, blk, off, size, kind]
    faults

vars == <<d, origOk, pc, maxPage, pg, blk, off, walked, reports, faults>>
walk == <<blk, off, walked, reports>>

Init ==
    /\ d \in Directories
    /\ origOk = FALSE /\ pc = "own" /\ maxPage = 0 /\ pg = 0
    /\ blk = 0 /\ off = 0 /\ walked = <<>> /\ reports = <<>> /\ faults = 0

The(S) == CHOOSE x \in S : TRUE
Ended == pc \in {"ok", "stopped", "error"}

-----------------------------------------------------------------------------
\* dir_resolve_extents for the directory itself: the tag, its mcell, its map.
Resolve ==
    /\ pc = "own" /\ pc' = IF d.clone THEN "orig" ELSE "bound"
    /\ UNCHANGED <<d, origOk, maxPage, pg, walk, faults>>

ResolveFails ==
    /\ pc = "own" /\ pc' = "error" /\ faults' = faults + 1
    /\ UNCHANGED <<d, origOk, maxPage, pg, walk>>

\* The original's tag directory, then the same tag in it.  An original that
\* is missing or has an empty map is no fallback.
ResolveOrig ==
    /\ pc = "orig" /\ pc' = "bound"
    /\ origOk' = (d.orig \notin {{}, {<<>>}})
    /\ UNCHANGED <<d, maxPage, pg, walk, faults>>

ResolveOrigFails ==
    /\ pc = "orig" /\ pc' = "bound"
    /\ faults' = faults + 1
    /\ UNCHANGED <<d, origOk, maxPage, pg, walk>>

\* Mutant of PagesToRead: a stub's page count is believed.
PagesToReadStub ==
    LET c == PageCount(d.own)
        o == PageCount(The(d.orig))
    IN  IF ~origOk \/ c = 0 \/ c > o THEN c ELSE o

\* max_page before the cap: the original decides when the clone has a stub.
PagesToRead ==
    LET c == PageCount(d.own)
        o == PageCount(The(d.orig))
    IN  IF ~origOk THEN c ELSE IF c > MaxDirPages \/ c <= o THEN o ELSE c

Bound ==
    /\ pc = "bound"
    /\ IF d.own = <<>> /\ ~origOk THEN pc' = "ok" /\ UNCHANGED maxPage
       ELSE /\ pc' = "read"
            /\ maxPage' = IF PagesToRead > MaxDirPages THEN MaxDirPages ELSE PagesToRead
    /\ UNCHANGED <<d, origOk, pg, walk, faults>>

-----------------------------------------------------------------------------
\* The page's own copy, then the original's: what read_data_core makes of
\* them.  An empty map of the directory is not consulted.
OwnKind == IF d.own = <<>> THEN "none" ELSE PageOutcome(d.own, pg).kind
OrigKind == IF origOk THEN PageOutcome(The(d.orig), pg).kind ELSE "none"

Readable == {"data", "zero"}
Broken == {"ERANGE", "EINVAL"}

\* Mutant of Source: the original wins over the clone's own page.
SourceOriginalFirst ==
    IF OrigKind \in Readable THEN "orig"
    ELSE IF OwnKind \in Readable THEN "own"
    ELSE IF OwnKind \in Broken \/ OrigKind \in Broken THEN "error" ELSE "none"

Source ==
    IF OwnKind \in Readable THEN "own"
    ELSE IF OwnKind \in Broken THEN "error"
    ELSE IF OrigKind \in Readable THEN "orig"
    ELSE IF OrigKind \in Broken THEN "error"
    ELSE "none"

\* A page that is a hole in both filesets.
Skip ==
    /\ pc = "read" /\ pg < maxPage /\ Source = "none"
    /\ pg' = pg + 1
    /\ UNCHANGED <<d, origOk, pc, maxPage, walk, faults>>

\* The page is in page_buf.
Load ==
    /\ pc = "read" /\ pg < maxPage /\ Source \in {"own", "orig"}
    /\ walked' = Append(walked, [page |-> pg, from |-> Source])
    /\ pc' = "block" /\ blk' = 0 /\ off' = 0
    /\ UNCHANGED <<d, origOk, maxPage, pg, reports, faults>>

\* The page's map is out of range.
MapFails ==
    /\ pc = "read" /\ pg < maxPage /\ Source = "error"
    /\ pc' = "error"
    /\ UNCHANGED <<d, origOk, maxPage, pg, walk, faults>>

\* The page is on disk and cannot be read.
PageFails ==
    /\ pc = "read" /\ pg < maxPage
    /\ \/ Source = "own" /\ OwnKind = "data"
       \/ Source = "orig" /\ OrigKind = "data"
    /\ pc' = "error" /\ faults' = faults + 1
    /\ UNCHANGED <<d, origOk, maxPage, pg, walk>>

Finish ==
    /\ pc = "read" /\ pg >= maxPage
    /\ pc' = "ok"
    /\ UNCHANGED <<d, origOk, maxPage, pg, walk, faults>>

-----------------------------------------------------------------------------
\* Block k of page p: a sparse page is zeros.
Text(p, k) ==
    IF \E w \in 1..Len(walked) :
         /\ walked[w].page = p
         /\ PageOutcome(IF walked[w].from = "own" THEN d.own ELSE The(d.orig), p).kind = "zero"
    THEN [o \in {0} |-> Zeros] ELSE d.text[k]

\* The damage to block k of page p.
Damage(p, k) == {x \in d.damage : x.page = p /\ x.blk = k}

\* The header read at offset o of the current block.
Hdr(o) ==
    LET b == Text(pg, blk)
        x == {y \in Damage(pg, blk) : y.at = o}
    IN  IF x # {} THEN The(x).hdr ELSE IF o \in DOMAIN b THEN b[o] ELSE d.junk

\* Mutant of EndsBlock: a size too small to be valid is stepped over.
EndsBlockNot(h, o) == o + h.size > BLKSZ

\* The guards on the size: zero, too small, past the end of the block.
EndsBlock(h, o) == h.size < HDR_SZ \/ o + h.size > BLKSZ

\* The callback an entry is handed to, {} when it is passed over: gap space,
\* bad geometry, or a class nobody asked for.
Callback(h) ==
    d.want \cap
      (IF ~Fits(h) THEN {} ELSE IF h.tag THEN {"live"}
       ELSE IF h.trail /\ h.name THEN {"deleted"} ELSE {})

\* One turn of the loop of walk_dir_block; a callback may ask to stop.
Entry ==
    LET h == Hdr(off) IN
    /\ pc = "block" /\ off + HDR_SZ <= BLKSZ /\ ~EndsBlock(h, off)
    /\ IF Callback(h) = {} THEN UNCHANGED <<pc, reports>>
       ELSE /\ reports' = Append(reports, [page |-> pg, blk |-> blk, off |-> off,
                                           size |-> h.size, kind |-> The(Callback(h))])
            /\ pc' \in {"block", "stopped"}
    /\ off' = IF pc' = "stopped" THEN off ELSE off + h.size
    /\ UNCHANGED <<d, origOk, maxPage, pg, blk, walked, faults>>

\* Mutant of NextBlock: a damaged block ends the page.
NextBlockBreaks ==
    LET ends == off + HDR_SZ <= BLKSZ IN
    /\ pc = "block" /\ (ends => EndsBlock(Hdr(off), off))
    /\ off' = 0
    /\ IF blk + 1 < BLKS /\ ~(ends /\ Hdr(off).size # 0)
       THEN blk' = blk + 1 /\ UNCHANGED <<pc, pg>>
       ELSE blk' = 0 /\ pc' = "read" /\ pg' = pg + 1
    /\ UNCHANGED <<d, origOk, maxPage, walked, reports, faults>>

\* The block is done; so is the page after its last one.
NextBlock ==
    /\ pc = "block" /\ (off + HDR_SZ <= BLKSZ => EndsBlock(Hdr(off), off))
    /\ off' = 0
    /\ IF blk + 1 < BLKS THEN blk' = blk + 1 /\ UNCHANGED <<pc, pg>>
       ELSE blk' = 0 /\ pc' = "read" /\ pg' = pg + 1
    /\ UNCHANGED <<d, origOk, maxPage, walked, reports, faults>>

Read ==
    \/ Resolve \/ ResolveOrig \/ Bound \/ Skip \/ Load \/ MapFails
    \/ Entry \/ NextBlock \/ Finish

Returned == Ended /\ UNCHANGED vars

Next == Read \/ ResolveFails \/ ResolveOrigFails \/ PageFails \/ Returned

\* The read is one call on one thread: it goes on until it returns.
Spec == Init /\ [][Next]_vars /\ WF_vars(Read)

-----------------------------------------------------------------------------
\* Map m has storage, or zeros of its own, for page p.
Holds(m, p) == PageOutcome(m, p).kind \in Readable

\* Walked pages come once each and in order, a page is taken from the original
\* exactly when the directory's own fileset does not hold it, and nothing past
\* MAX_DIR_PAGES, or past the end of both maps, is walked however wrong the
\* maps are.
WalkIsSound ==
    /\ \A i, j \in 1..Len(walked) : i < j => walked[i].page < walked[j].page
    /\ \A i \in 1..Len(walked) :
         LET w == walked[i] IN
         /\ w.page < MaxDirPages
         /\ \E m \in {d.own} \cup d.orig : w.page < PageCount(m)
         /\ w.from = "own" <=> Holds(d.own, w.page)
         /\ w.from = "orig" => d.clone /\ \E m \in d.orig : Holds(m, w.page)

\* A directory read without a fault leaves out no page (each page its own
\* fileset has, and for a clone each page the original has, is walked, for a
\* stub map of either version and for maps of different lengths), and looking
\* the original up never makes a directory unreadable: only a fault or a map
\* that is out of range does.  A clone's map of more than MAX_DIR_PAGES pages
\* passes for a V3 stub: there only the original's pages are sure to be read.
NoPageLeftOut ==
    LET Has(m, p) == p < PageCount(m) /\ Holds(m, p)
        stub == d.clone /\ PageCount(d.own) > MaxDirPages
    IN
    /\ pc = "ok" /\ faults = 0 =>
         \A p \in 0..MaxDirPages - 1 :
           \/ ~stub /\ Has(d.own, p)
           \/ d.clone /\ \E m \in d.orig : Has(m, p)
           => \E i \in 1..Len(walked) : walked[i].page = p
    /\ pc = "error" /\ faults = 0 =>
         \E m \in {d.own} \cup d.orig, p \in 0..MaxDirPages : PageOutcome(m, p).kind \in Broken

\* The offsets of the entries of block b before offset e that the callbacks
\* are for: live ones, and deleted ones that still have a name and a tag.
Wanted(b, e) ==
    {o \in DOMAIN b : /\ o < e
                      /\ \/ b[o].tag /\ "live" \in d.want
                         \/ ~b[o].tag /\ b[o].trail /\ "deleted" \in d.want}

\* A page's entries are reported whatever one damaged header says: blocks
\* without damage yield exactly their live entries and, if asked for, their
\* deleted ones; the damaged block yields at least those before the damage.
\* Nothing is reported twice or out of order, and what is reported lies in
\* its block, name and trailing tag included, also when a callback stops the
\* read.
DamageContained ==
    LET In(p, k) == {r \in 1..Len(reports) : reports[r].page = p /\ reports[r].blk = k}
        At(p, k) == {reports[r].off : r \in In(p, k)}
        Parsed(p, k) == p < pg \/ (p = pg /\ pc = "stopped" /\ k < blk)
    IN  Ended =>
    /\ \A w \in 1..Len(walked), k \in 0..BLKS - 1 :
         LET p == walked[w].page
             b == Text(p, k)
         IN  Parsed(p, k) =>
               IF Damage(p, k) = {} THEN At(p, k) = Wanted(b, BLKSZ)
               ELSE Wanted(b, The(d.damage).at) \subseteq At(p, k)
    /\ \A i, j \in 1..Len(reports) : i < j =>
         \/ reports[i].page < reports[j].page
         \/ reports[i].page = reports[j].page /\ reports[i].blk < reports[j].blk
         \/ /\ reports[i].page = reports[j].page /\ reports[i].blk = reports[j].blk
            /\ reports[i].off + reports[i].size <= reports[j].off
    /\ \A i \in 1..Len(reports) :
         reports[i].size >= NAMED_SZ /\ reports[i].off + reports[i].size <= BLKSZ

\* A directory read ends, whatever sizes its entries claim and however many
\* pages its maps do.
DirEnds == <>Ended
=============================================================================
