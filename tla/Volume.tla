------------------------------- MODULE Volume -------------------------------
(***************************************************************************)
(* Raw volume access (volume.c): locating a partition through the BSD      *)
(* disklabel, opening it, and reading pages and blocks of it with pread.   *)
(*                                                                         *)
(* A byte of the disk image is represented by its address in the image, so *)
(* a buffer is the sequence of the addresses its bytes came from.  pread   *)
(* may return fewer bytes than asked for, be interrupted, or fail, and the *)
(* image may be cut short by someone else while it is open.  Addresses are *)
(* plain naturals: 32-bit page numbers times PGSZ, added to an offset that *)
(* is smaller than a file, stay far below 2^64.                            *)
(***************************************************************************)
EXTENDS Integers, Sequences

CONSTANTS
    FileSize,       \* size of the image when it is opened
    Label,          \* the disklabel: [magic, secsize, nparts, parts]
    Letters,        \* partition letters asked for, as indices
    DefaultSec,     \* sector size assumed when the label has none (512)
    MaxParts,       \* BSD_MAXPARTITIONS
    MagicAt,        \* addresses at which the image holds the AdvFS magic
    MagicOffset,    \* ADVFS_MAGIC_ABS_OFFSET
    MagicLen,       \* sizeof(uint32_t)
    PGSZ, BLKSZ,    \* ADVFS_PGSZ, ADVFS_BLKSZ
    PageNums,       \* page and block numbers callers ask for
    NULL

Parts == [p_offset : Nat, p_size : Nat]
Volumes == [part_offset : Nat, size_bytes : Nat, page_count : Nat]

ASSUME VolumeAssumption ==
    /\ FileSize \in Nat /\ DefaultSec \in Nat \ {0} /\ MaxParts \in Nat
    /\ Label.magic \in BOOLEAN /\ Label.secsize \in Nat /\ Label.nparts \in Nat
    /\ Label.parts \in [0..MaxParts - 1 -> Parts]
    /\ Letters \subseteq Int
    /\ MagicAt \subseteq Nat /\ MagicOffset \in Nat /\ MagicLen \in Nat \ {0}
    /\ PGSZ \in Nat \ {0} /\ BLKSZ \in Nat \ {0}
    /\ PageNums \subseteq Nat
    /\ NULL \notin Volumes

VARIABLES
    file_len,   \* current size of the image
    vol,        \* the open volume, or NULL
    part,       \* partition it was opened on, [offset, size]; size 0 = to EOF
    rd          \* the vol_pread in progress or last finished

vars == <<file_len, vol, part, rd>>

Reads == [pc : {"none", "loop", "ok", "err"}, errno : {"", "EINVAL", "EIO", "errno"},
          offset : Nat, len : Nat, buf : Seq(Nat)]
NoRead == [pc |-> "none", errno |-> "", offset |-> 0, len |-> 0, buf |-> <<>>]

TypeOK ==
    /\ file_len \in 0..FileSize
    /\ vol \in Volumes \cup {NULL}
    /\ part \in [offset : Nat, size : Nat]
    /\ rd \in Reads

Init ==
    /\ file_len = FileSize
    /\ vol = NULL
    /\ part = [offset |-> 0, size |-> 0]
    /\ rd = NoRead

(***************************************************************************)
(* advfs_volume_read_disklabel: byte offset and size of partition idx.  A  *)
(* wrong checksum is only warned about, so it is not modelled.             *)
(***************************************************************************)
SecSize == IF Label.secsize = 0 THEN DefaultSec ELSE Label.secsize

HasPartition(idx) ==
    /\ idx \in 0..MaxParts - 1
    /\ Label.magic
    /\ idx < Label.nparts
    /\ Label.parts[idx].p_size # 0

Partition(idx) ==
    [offset |-> Label.parts[idx].p_offset * SecSize,
     size   |-> Label.parts[idx].p_size * SecSize]

\* Mutant of Usable: the partition's size is ignored.
UsableToEOF(p) == file_len - p.offset

\* The usable bytes: to end of file, clamped to the partition size if given.
Usable(p) ==
    IF p.size > 0 /\ p.size < file_len - p.offset THEN p.size ELSE file_len - p.offset

\* The tests of advfs_volume_open_at: offset inside the file, room for the
\* magic, and the magic itself.
Openable(p) ==
    /\ p.offset < file_len
    /\ Usable(p) >= MagicOffset + MagicLen
    /\ p.offset + MagicOffset \in MagicAt

OpenAt(p) ==
    /\ vol = NULL
    /\ Openable(p)
    /\ vol' = [part_offset |-> p.offset, size_bytes |-> Usable(p),
               page_count |-> Usable(p) \div PGSZ]
    /\ part' = p
    /\ rd' = NoRead
    /\ UNCHANGED file_len

\* A test fails, or the one pread of the magic does (it is not retried): the
\* file is closed again and the caller is left without a volume.
OpenRefused == vol = NULL /\ UNCHANGED vars

Close ==
    /\ vol # NULL /\ rd.pc # "loop"
    /\ vol' = NULL
    /\ rd' = NoRead
    /\ UNCHANGED <<file_len, part>>

\* Mutant of InBounds: only the start of the read is checked.
InBoundsStart(len, offset) == offset <= vol.size_bytes

\* The bounds check at the top of vol_pread.
InBounds(len, offset) ==
    ~(len > vol.size_bytes \/ offset > vol.size_bytes - len)

PreadStart(len, offset) ==
    /\ vol # NULL /\ rd.pc # "loop"
    /\ rd' = [pc     |-> IF InBounds(len, offset) THEN "loop" ELSE "err",
              errno  |-> IF InBounds(len, offset) THEN "" ELSE "EINVAL",
              offset |-> offset, len |-> len, buf |-> <<>>]
    /\ UNCHANGED <<file_len, vol, part>>

\* advfs_volume_read_page and advfs_volume_read_block.
ReadPage(n) == PreadStart(PGSZ, n * PGSZ)
ReadBlock(n) == PreadStart(BLKSZ, n * BLKSZ)

\* The address pread continues from.
Pos == vol.part_offset + rd.offset + Len(rd.buf)

\* pread returns n > 0 bytes: at most what is missing and what the file has.
PreadSome(n) ==
    /\ rd.pc = "loop" /\ Len(rd.buf) < rd.len
    /\ n \in 1..rd.len - Len(rd.buf)
    /\ Pos + n <= file_len
    /\ rd' = [rd EXCEPT !.buf = @ \o [i \in 1..n |-> Pos + i - 1]]
    /\ UNCHANGED <<file_len, vol, part>>

\* pread is interrupted before it read anything: the loop goes round again.
PreadEINTR ==
    /\ rd.pc = "loop" /\ Len(rd.buf) < rd.len
    /\ UNCHANGED vars

PreadError ==
    /\ rd.pc = "loop" /\ Len(rd.buf) < rd.len
    /\ rd' = [rd EXCEPT !.pc = "err", !.errno = "errno"]
    /\ UNCHANGED <<file_len, vol, part>>

\* Mutant of PreadEOF: end of file ends the loop with success.
PreadEOFIsOk ==
    /\ rd.pc = "loop" /\ Len(rd.buf) < rd.len
    /\ Pos >= file_len
    /\ rd' = [rd EXCEPT !.pc = "ok"]
    /\ UNCHANGED <<file_len, vol, part>>

\* Mutant of PreadEOF: end of file is read again, like an interruption.
PreadEOFAgain ==
    /\ rd.pc = "loop" /\ Len(rd.buf) < rd.len
    /\ Pos >= file_len
    /\ UNCHANGED vars

PreadEOF ==
    /\ rd.pc = "loop" /\ Len(rd.buf) < rd.len
    /\ Pos >= file_len
    /\ rd' = [rd EXCEPT !.pc = "err", !.errno = "EIO"]
    /\ UNCHANGED <<file_len, vol, part>>

PreadDone ==
    /\ rd.pc = "loop" /\ Len(rd.buf) = rd.len
    /\ rd' = [rd EXCEPT !.pc = "ok"]
    /\ UNCHANGED <<file_len, vol, part>>

\* Environment: someone truncates the image.
Truncate(n) ==
    /\ n \in 0..file_len - 1
    /\ file_len' = n
    /\ UNCHANGED <<vol, part, rd>>

Next ==
    \/ OpenAt([offset |-> 0, size |-> 0])
    \/ \E idx \in Letters : HasPartition(idx) /\ OpenAt(Partition(idx))
    \/ OpenRefused
    \/ \E n \in PageNums : ReadPage(n) \/ ReadBlock(n)
    \/ \E n \in 1..(IF PGSZ > BLKSZ THEN PGSZ ELSE BLKSZ) : PreadSome(n)
    \/ PreadEINTR \/ PreadError \/ PreadEOF \/ PreadDone
    \/ Close
    \/ \E n \in 0..FileSize : Truncate(n)

Spec == Init /\ [][Next]_vars

(***************************************************************************)
(* The read loop is run by its thread; signals do not interrupt every      *)
(* pread, so a pread that can deliver keeps being tried until it does.     *)
(***************************************************************************)
FairSpec ==
    /\ Spec
    /\ WF_vars(\E n \in 1..(IF PGSZ > BLKSZ THEN PGSZ ELSE BLKSZ) : PreadSome(n))
    /\ WF_vars(PreadEOF) /\ WF_vars(PreadDone)

-----------------------------------------------------------------------------
(***************************************************************************)
(* A read that reports success has filled its buffer with exactly the      *)
(* bytes of the partition it was asked for, in order, however the kernel   *)
(* split the transfer (vol_pread).                                         *)
(***************************************************************************)
ReadExact ==
    rd.pc = "ok" =>
      rd.buf = [i \in 1..rd.len |-> vol.part_offset + rd.offset + i - 1]

(***************************************************************************)
(* No byte outside the partition the label describes is ever read, not     *)
(* even by a read that fails later: the clamp of open_at and the bounds    *)
(* check of vol_pread together keep every pread inside it.                 *)
(***************************************************************************)
WithinPartition ==
    vol # NULL =>
      \A i \in 1..Len(rd.buf) :
        /\ rd.buf[i] >= part.offset
        /\ rd.buf[i] < FileSize
        /\ part.size > 0 => rd.buf[i] < part.offset + part.size

(***************************************************************************)
(* The page count is the exact limit: reading a page is refused as invalid *)
(* if and only if its number is not below advfs_volume_page_count.         *)
(***************************************************************************)
PageCountIsLimit ==
    vol # NULL => \A n \in PageNums : InBounds(PGSZ, n * PGSZ) <=> n < vol.page_count

\* Every read that was begun returns.
ReadReturns == rd.pc = "loop" ~> rd.pc # "loop"
=============================================================================
