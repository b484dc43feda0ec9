------------------------------ MODULE FileData ------------------------------
(***************************************************************************)
(* filedata_read_impl (filedata.c): one call that reads a whole file into  *)
(* a fresh buffer.  The contents come from the inline record, from the     *)
(* extent-mapped pages, from the original fileset where a clone has a      *)
(* permanent hole, and from the frag file, in that order; any step may     *)
(* meet a fault of the disk.                                               *)
(*                                                                         *)
(* A unit of data stands for a frag slot (1 KB); a page has PG of them.    *)
(* A value says where it was read: unit off of block blk on volume vd.     *)
(***************************************************************************)
EXTENDS ExtentMap

CONSTANTS
    PG,         \* slots in a page
    MaxSize,    \* ADVFS_FILEDATA_MAX_SIZE, in slots
    Files       \* the files a disk may hold

VARIABLES
    file,       \* what the disk holds of the file (see FileType)
    fbp,        \* a clone context with an original was given
    pc,
    buf,        \* the buffer, a function on 0..size-1
    heap,       \* buffers allocated and not freed
    bufOut,     \* *buf_out is set
    sizeOut,    \* *size_out
    loop,       \* copy_bitfile_bytes: bitfile, byte_off, dst, len, next step
    resolved,   \* fb.resolved: 0 untried, 1 ready, -1 unavailable
    faults      \* disk faults met

vars == <<file, fbp, pc, buf, heap, bufOut, sizeOut, loop, resolved, faults>>

Zero == [vd |-> 0, blk |-> 0, off |-> 0]

FileType(Maps) ==
    [size : Nat, frag_type : Nat, frag_slot : Nat, frag_page_offset : Nat,
     inline : Optional(Nat),        \* length of the BMTR_FS_DATA record
     own : Optional(Maps),          \* the file's map, {} if it has none (ENODATA)
     frag : Optional(Maps),         \* map of the fileset's frag file
     orig : Optional(Maps),         \* the same tag's map in the original
     origFrag : Optional(Maps)]     \* map of the original's frag file

ASSUME FileAssumption ==
    PG \in Nat \ {0} /\ MaxSize \in Nat /\ Files \subseteq FileType(Seq(Extent))

The(S) == CHOOSE x \in S : TRUE

Min2(a, b) == IF a < b THEN a ELSE b

NoLoop == [map |-> <<>>, off |-> 0, dst |-> 0, len |-> 0, fb |-> FALSE, next |-> "none"]

Errors == {"ESTAT", "EFBIG", "ENOMEM", "EIO", "ENODATA", "ENOENT", "ERANGE", "EINVAL"}
Ended == pc \in Errors \cup {"ok"}

Init ==
    /\ file \in Files /\ fbp \in BOOLEAN
    /\ pc = "stat"
    /\ buf = <<>> /\ heap = 0 /\ bufOut = FALSE /\ sizeOut = 0
    /\ loop = NoLoop /\ resolved = 0 /\ faults = 0

-----------------------------------------------------------------------------
\* The ways out.  Fail frees the buffer and returns the error.

Fail(e) ==
    /\ pc' = e /\ heap' = 0
    /\ UNCHANGED <<file, fbp, buf, bufOut, sizeOut, loop, resolved>>

\* Mutant of Fault: the error path leaves the buffer behind.
FaultLeaks ==
    /\ pc' = "EIO" /\ faults' = faults + 1
    /\ UNCHANGED <<file, fbp, buf, heap, bufOut, sizeOut, loop, resolved>>

Fault == Fail("EIO") /\ faults' = faults + 1

\* *buf_out = buf, *size_out = n.
Succeed(n) == pc' = "ok" /\ bufOut' = TRUE /\ sizeOut' = n

\* The tag, its mcell or its BMTR_FS_STAT record cannot be read.
StatFails ==
    /\ pc = "stat"
    /\ pc' = "ESTAT" /\ faults' = faults + 1
    /\ UNCHANGED <<file, fbp, buf, heap, bufOut, sizeOut, loop, resolved>>

TooBig ==
    /\ pc = "stat" /\ file.size > MaxSize
    /\ pc' = "EFBIG"
    /\ UNCHANGED <<file, fbp, buf, heap, bufOut, sizeOut, loop, resolved, faults>>

NoMemory ==
    /\ pc = "stat" /\ file.size <= MaxSize
    /\ pc' = "ENOMEM" /\ faults' = faults + 1
    /\ UNCHANGED <<file, fbp, buf, heap, bufOut, sizeOut, loop, resolved>>

\* calloc; an empty file is done, with its one-byte buffer.
Alloc ==
    /\ pc = "stat" /\ file.size <= MaxSize
    /\ buf' = [b \in 0..file.size - 1 |-> Zero] /\ heap' = heap + 1
    /\ IF file.size = 0 THEN Succeed(0)
       ELSE pc' = "resolve" /\ UNCHANGED <<bufOut, sizeOut>>
    /\ UNCHANGED <<file, fbp, loop, resolved, faults>>

\* The second resolve_tag_mcell; only a file without a frag is tried inline.
Resolve ==
    /\ pc = "resolve"
    /\ pc' = IF file.frag_type = 0 THEN "inline" ELSE "extents"
    /\ UNCHANGED <<file, fbp, buf, heap, bufOut, sizeOut, loop, resolved, faults>>

\* The inline record supplies a prefix; what it lacks stays zero.
InlineAt(b) == [vd |-> 0, blk |-> 0, off |-> b + 1]

Inline ==
    /\ pc = "inline"
    /\ IF file.inline = {}
       THEN pc' = "extents" /\ UNCHANGED <<buf, bufOut, sizeOut>>
       ELSE /\ buf' = [b \in DOMAIN buf |->
                         IF b < The(file.inline) THEN InlineAt(b) ELSE buf[b]]
            /\ Succeed(file.size)
    /\ UNCHANGED <<file, fbp, heap, loop, resolved, faults>>

\* The extent map: none is legitimate for a file that lives in a frag.
ExtentsUpTo(end) ==
    /\ pc = "extents"
    /\ IF file.own \in {{}, {<<>>}}
       THEN pc' = "frag" /\ UNCHANGED loop
       ELSE /\ pc' = "copy"
            /\ loop' = [map |-> The(file.own), off |-> 0, dst |-> 0,
                        len |-> Min2(PageCount(The(file.own)) * PG, end),
                        fb |-> fbp, next |-> "frag"]
    /\ UNCHANGED <<file, fbp, buf, heap, bufOut, sizeOut, resolved, faults>>

\* The copied length is cut at the file's size.
Extents == ExtentsUpTo(file.size)

-----------------------------------------------------------------------------
\* copy_bitfile_bytes, one page a turn.

Page == loop.off \div PG
InPage == loop.off % PG
Chunk == Min2(PG - InPage, loop.len)

\* memcpy of the page's units (a function on 0..PG-1) and the loop's advance.
Put(units) ==
    /\ pc' = "copy"
    /\ buf' = [b \in DOMAIN buf \cup loop.dst..loop.dst + Chunk - 1 |->
                 IF b \in loop.dst..loop.dst + Chunk - 1
                 THEN units[InPage + (b - loop.dst)] ELSE buf[b]]
    /\ loop' = [loop EXCEPT !.off = @ + Chunk, !.dst = @ + Chunk, !.len = @ - Chunk]

ZeroPage == [u \in 0..PG - 1 |-> Zero]
DataPage(o) == [u \in 0..PG - 1 |-> [vd |-> o.vd, blk |-> o.blk, off |-> u]]

\* One page; a page past the end of the map reads as zeros.
CopyPage ==
    /\ pc = "copy" /\ loop.len > 0
    /\ LET o == PageOutcome(loop.map, Page) IN
       CASE o.kind \in {"EINVAL", "ERANGE"} -> Fail(o.kind)
         [] o.kind = "permhole" /\ loop.fb ->
              /\ pc' = "fallback"
              /\ UNCHANGED <<file, fbp, buf, heap, bufOut, sizeOut, loop, resolved>>
         [] OTHER ->
              /\ Put(IF o.kind = "data" THEN DataPage(o) ELSE ZeroPage)
              /\ UNCHANGED <<file, fbp, heap, bufOut, sizeOut, resolved>>
    /\ UNCHANGED faults

CopyEnd ==
    /\ pc = "copy" /\ loop.len = 0
    /\ IF loop.next = "ok" THEN Succeed(file.size)
       ELSE pc' = loop.next /\ UNCHANGED <<bufOut, sizeOut>>
    /\ UNCHANGED <<file, fbp, buf, heap, loop, resolved, faults>>

-----------------------------------------------------------------------------
\* clone_fallback_resolve and clone_fallback_read_page.

\* Mutant of FallbackResolve: a failed lookup is not remembered.
FallbackResolveForgets ==
    /\ pc = "fallback" /\ resolved # 1
    /\ \/ resolved' = (IF file.orig = {} THEN -1 ELSE 1) /\ UNCHANGED <<pc, buf, loop, faults>>
       \/ faults' = faults + 1 /\ Put(ZeroPage) /\ UNCHANGED resolved
    /\ UNCHANGED <<file, fbp, heap, bufOut, sizeOut>>

\* The first hole looks the original up: a fault, a missing tag or a file
\* without extents makes it unavailable for the rest of the call.
FallbackResolve ==
    /\ pc = "fallback" /\ resolved = 0
    /\ \/ resolved' = (IF file.orig = {} THEN -1 ELSE 1) /\ UNCHANGED faults
       \/ resolved' = -1 /\ faults' = faults + 1
    /\ UNCHANGED <<file, fbp, pc, buf, heap, bufOut, sizeOut, loop>>

FallbackUnavailable ==
    /\ pc = "fallback" /\ resolved = -1
    /\ Put(ZeroPage)
    /\ UNCHANGED <<file, fbp, heap, bufOut, sizeOut, resolved, faults>>

\* Mutant of FallbackPage: the end of the original's map is an error.
FallbackPageEndFails ==
    /\ pc = "fallback" /\ resolved = 1
    /\ LET o == PageOutcome(The(file.orig), Page) IN
       IF o.kind \in {"EINVAL", "ERANGE", "ENOENT"} THEN Fail(o.kind)
       ELSE /\ Put(IF o.kind = "data" THEN DataPage(o) ELSE ZeroPage)
            /\ UNCHANGED <<file, fbp, heap, bufOut, sizeOut, resolved>>
    /\ UNCHANGED faults

\* The original's page; its own permanent hole, or its end, reads as zeros.
FallbackPage ==
    /\ pc = "fallback" /\ resolved = 1
    /\ LET o == PageOutcome(The(file.orig), Page) IN
       IF o.kind \in {"EINVAL", "ERANGE"} THEN Fail(o.kind)
       ELSE /\ Put(IF o.kind = "data" THEN DataPage(o) ELSE ZeroPage)
            /\ UNCHANGED <<file, fbp, heap, bufOut, sizeOut, resolved>>
    /\ UNCHANGED faults

-----------------------------------------------------------------------------
\* read_frag_tail.

FragOff == file.frag_page_offset * PG

\* The tail, from slot number slot of the frag file; never from the original.
FragFrom(slot) ==
    /\ pc = "frag"
    /\ IF file.frag_type = 0
       THEN Succeed(file.size) /\ UNCHANGED <<file, fbp, buf, heap, loop, resolved>>
       ELSE IF FragOff >= file.size \/ file.size - FragOff > file.frag_type
       THEN Fail("EINVAL")
       ELSE IF file.frag = {} THEN Fail("ENODATA")
       ELSE /\ pc' = "copy"
            /\ loop' = [map |-> The(file.frag), off |-> slot, dst |-> FragOff,
                        len |-> file.size - FragOff, fb |-> FALSE, next |-> "ok"]
            /\ UNCHANGED <<file, fbp, buf, heap, bufOut, sizeOut, resolved>>
    /\ UNCHANGED faults

\* Mutant of Frag: frag_slot is taken for a page number.
FragByPage == FragFrom(file.frag_slot * PG)

Frag == FragFrom(file.frag_slot)

\* A fault of a disk read after the buffer exists: the tag, the chain, the
\* map, a page, or the frag file.  (A frag tail is checked before it is read.)
DiskFault ==
    /\ \/ pc \in {"resolve", "inline", "extents"}
       \/ pc = "copy" /\ loop.len > 0 /\ PageOutcome(loop.map, Page).kind = "data"
       \/ pc = "fallback" /\ resolved = 1 /\ PageOutcome(The(file.orig), Page).kind = "data"
       \/ /\ pc = "frag" /\ file.frag_type # 0
          /\ FragOff < file.size /\ file.size - FragOff <= file.frag_type
    /\ Fault

Returned == Ended /\ UNCHANGED vars

Next ==
    \/ StatFails \/ TooBig \/ NoMemory \/ Alloc \/ Resolve \/ Inline \/ Extents
    \/ CopyPage \/ CopyEnd
    \/ FallbackResolve \/ FallbackUnavailable \/ FallbackPage
    \/ Frag \/ DiskFault \/ Returned

Spec == Init /\ [][Next]_vars

-----------------------------------------------------------------------------
(***************************************************************************)
(* What the file's contents are, unit by unit and without any loop.        *)
(***************************************************************************)

ValueOf(o, u) == IF o.kind = "data" THEN [vd |-> o.vd, blk |-> o.blk, off |-> u % PG] ELSE Zero

\* Unit u of the extent-mapped part, with the original's map m, if any.
MappedUnit(u, m) ==
    LET o == PageOutcome(The(file.own), u \div PG) IN
    IF file.own \in {{}, {<<>>}} \/ u >= PageCount(The(file.own)) * PG THEN Zero
    ELSE IF o.kind = "permhole" /\ m # {}
    THEN ValueOf(PageOutcome(The(m), u \div PG), u)
    ELSE ValueOf(o, u)

Contents(m) ==
    [b \in 0..file.size - 1 |->
        IF file.frag_type # 0 /\ b >= FragOff
        THEN LET s == file.frag_slot + (b - FragOff)
             IN  ValueOf(PageOutcome(The(file.frag), s \div PG), s)
        ELSE IF file.frag_type = 0 /\ file.inline # {}
        THEN IF b < The(file.inline) THEN InlineAt(b) ELSE Zero
        ELSE MappedUnit(b, m)]

-----------------------------------------------------------------------------
\* A read that succeeds returns the file as it is on disk, byte for byte: a
\* clone's permanent holes all come from the original or all read as zeros,
\* even if looking the original up fails in the middle of the call.
ReadExact ==
    pc = "ok" => \E m \in {{}, IF fbp THEN file.orig ELSE {}} : buf = Contents(m)

\* A read that meets no fault does not fall back on zeros: every permanent
\* hole of a clone file has the original's data (copy_bitfile_bytes).
CleanReadExact ==
    pc = "ok" /\ faults = 0 => buf = Contents(IF fbp THEN file.orig ELSE {})

\* No memcpy leaves the buffer; every error path frees it and hands nothing
\* out; a success hands exactly one buffer, with its size, to the caller.
BufferOwned ==
    /\ heap = 1 => DOMAIN buf = 0..file.size - 1
    /\ pc \in Errors => heap = 0 /\ ~bufOut /\ sizeOut = 0
    /\ pc = "ok" => heap = 1 /\ bufOut /\ sizeOut = file.size

\* A page past the end of the file's or of the original's map is a hole, so
\* a file whose maps are in range is only refused for its size or its frag.
SparseNeverFails ==
    /\ pc \in Errors /\ faults = 0 /\ file.frag_type = 0
    /\ \A m \in file.own \cup file.orig :
         m # <<>> /\ \A p \in 0..file.size \div PG : PageOutcome(m, p).kind # "ERANGE"
    => pc = "EFBIG"

\* What filedata.h says of a clone's permanent holes: they are read from the
\* original instead of being zero-filled, those under a frag tail included.
FragHolesFilled ==
    pc = "ok" /\ faults = 0 /\ fbp /\ file.frag_type # 0 =>
        \A b \in FragOff..file.size - 1 :
            LET s == file.frag_slot + (b - FragOff) IN
            /\ PageOutcome(The(file.frag), s \div PG).kind = "permhole"
            /\ file.origFrag # {}
            => buf[b] = ValueOf(PageOutcome(The(file.origFrag), s \div PG), s)
=============================================================================
