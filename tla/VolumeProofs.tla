---------------------------- MODULE VolumeProofs ----------------------------
(***************************************************************************)
(* Proofs about the volumes and the domain they make up: Volume, for any   *)
(* image, any disklabel and any page size; then Domain, for any command    *)
(* line and any disks whose chains are as ChainAssumption says.            *)
(***************************************************************************)
EXTENDS Volume, Domain, SequenceTheorems, WellFoundedInduction, TLAPS

\* An open volume lies inside its partition and inside the image.
VolOK ==
    vol # NULL =>
      /\ vol.part_offset = part.offset
      /\ part.offset + vol.size_bytes <= FileSize
      /\ part.size > 0 => vol.size_bytes <= part.size
      /\ vol.page_count = vol.size_bytes \div PGSZ

\* The buffer holds a prefix of the bytes asked for, all of them in bounds.
ReadOK ==
    /\ rd.pc = "loop" => vol # NULL
    /\ vol = NULL => rd.pc = "none"
    /\ rd.pc = "none" => rd.buf = <<>>
    /\ rd.buf # <<>> \/ rd.pc = "loop" => rd.offset + rd.len <= vol.size_bytes
    /\ Len(rd.buf) <= rd.len
    /\ \A i \in 1..Len(rd.buf) : rd.buf[i] = vol.part_offset + rd.offset + i - 1
    /\ rd.pc = "ok" => Len(rd.buf) = rd.len

IInv == TypeOK /\ VolOK /\ ReadOK

\* The facts about the empty buffer the steps below start from.
LEMMA Empty == /\ <<>> \in Seq(Nat)
               /\ Len(<<>>) = 0
               /\ \A i \in 1..Len(<<>>) : FALSE
BY EmptySeq

\* A state with no read in it is a good one.
LEMMA NoReadOK == ASSUME rd = NoRead PROVE ReadOK /\ rd \in Reads
<1>1. /\ rd.pc = "none" /\ rd.errno = "" /\ rd.offset = 0 /\ rd.len = 0
      /\ rd.buf = <<>>
  BY DEF NoRead
<1>2. \A i \in 1..Len(rd.buf) : rd.buf[i] = vol.part_offset + rd.offset + i - 1
  BY <1>1, Empty
<1>3. ReadOK
  <2>0. Len(rd.buf) = 0 /\ rd.len = 0
    BY <1>1, Empty, Zenon
  <2>1. Len(rd.buf) <= rd.len
    BY <2>0
  <2> QED BY <1>1, <1>2, <2>1, Zenon DEF ReadOK
<1>4. rd \in Reads
  BY Empty DEF NoRead, Reads
<1> QED BY <1>3, <1>4

\* No volume is open at the start.
LEMMA InitInv == Init => IInv
<1> SUFFICES ASSUME Init PROVE IInv
  OBVIOUS
<1> QED BY NoReadOK, VolumeAssumption DEF Init, IInv, TypeOK, VolOK

\* Opening a volume preserves the invariant: only a window that was checked becomes a volume.
LEMMA OpenInv == ASSUME IInv, NEW p \in [offset : Nat, size : Nat], OpenAt(p) PROVE IInv'
<1>1. Usable(p) \in Nat /\ p.offset + Usable(p) <= file_len /\ (p.size > 0 => Usable(p) <= p.size)
  BY VolumeAssumption DEF IInv, TypeOK, OpenAt, Openable, Usable
<1>2. Usable(p) \div PGSZ \in Nat
  BY <1>1, VolumeAssumption
<1>3. vol' \in Volumes
  BY <1>1, <1>2 DEF OpenAt, Volumes
<1>4. <<>> \in Seq(Nat) /\ Len(<<>>) = 0
  BY EmptySeq
<1>5. TypeOK'
  BY <1>3, <1>4 DEF IInv, TypeOK, OpenAt, NoRead, Reads
<1>6. VolOK'
  BY <1>1, VolumeAssumption DEF IInv, TypeOK, OpenAt, VolOK
<1>7. ReadOK'
  <2>1. rd' = NoRead /\ vol' # NULL
    BY <1>3, VolumeAssumption DEF OpenAt
  <2>2. /\ rd'.pc = "none" /\ rd'.offset = 0 /\ rd'.len = 0 /\ rd'.buf = <<>>
    BY <2>1 DEF NoRead
  <2> QED BY <2>1, <2>2, Empty DEF ReadOK
<1> QED BY <1>5, <1>6, <1>7 DEF IInv

\* A partition read from a disklabel has a natural offset and size.
LEMMA PartitionType ==
  ASSUME NEW idx \in Letters, HasPartition(idx)
  PROVE  Partition(idx) \in [offset : Nat, size : Nat]
<1>1. Label.parts[idx] \in Parts /\ SecSize \in Nat
  BY VolumeAssumption DEF HasPartition, SecSize
<1>2. Label.parts[idx].p_offset \in Nat /\ Label.parts[idx].p_size \in Nat
  BY <1>1 DEF Parts
<1>3. Label.parts[idx].p_offset * SecSize \in Nat /\ Label.parts[idx].p_size * SecSize \in Nat
  BY <1>1, <1>2
<1> QED BY <1>3 DEF Partition

\* Closing the volume preserves the invariant.
LEMMA CloseInv == ASSUME IInv, Close PROVE IInv'
<1>1. rd' = NoRead /\ vol' = NULL /\ UNCHANGED <<file_len, part>>
  BY DEF Close
<1>2. /\ rd'.pc = "none" /\ rd'.offset = 0 /\ rd'.len = 0 /\ rd'.buf = <<>>
  BY <1>1 DEF NoRead
<1>3. ReadOK'
  BY <1>1, <1>2, Empty DEF ReadOK
<1>4. TypeOK' /\ VolOK'
  BY <1>1, Empty DEF IInv, TypeOK, VolOK, NoRead, Reads
<1> QED BY <1>3, <1>4 DEF IInv

\* The start of vol_pread, past its bounds check, preserves the invariant.
LEMMA StartInv ==
  ASSUME IInv, NEW len \in Nat, NEW offset \in Nat, PreadStart(len, offset)
  PROVE  IInv'
<1>1. <<>> \in Seq(Nat) /\ Len(<<>>) = 0
  BY EmptySeq
<1>2. vol \in Volumes /\ vol.size_bytes \in Nat
  BY DEF IInv, TypeOK, PreadStart, Volumes
<1>3. InBounds(len, offset) => offset + len <= vol.size_bytes
  BY <1>2 DEF InBounds
<1>4. TypeOK'
  BY <1>1 DEF IInv, TypeOK, PreadStart, Reads
<1>5. VolOK'
  BY DEF IInv, VolOK, PreadStart
<1>6. ReadOK'
  <2>1. /\ rd'.pc = IF InBounds(len, offset) THEN "loop" ELSE "err"
        /\ rd'.offset = offset /\ rd'.len = len /\ rd'.buf = <<>>
        /\ vol # NULL /\ vol' = vol
    BY DEF PreadStart
  <2> QED BY <2>1, <1>3, Empty DEF ReadOK
<1> QED BY <1>4, <1>5, <1>6 DEF IInv

\* A short or full pread preserves the invariant: it appends the bytes at the
\* position the loop asked for.
LEMMA SomeInv == ASSUME IInv, NEW n \in Nat, PreadSome(n) PROVE IInv'
<1> DEFINE more == [i \in 1..n |-> Pos + i - 1]
           b == rd.buf
<1>1. vol \in Volumes /\ vol.part_offset \in Nat /\ vol.size_bytes \in Nat
  BY DEF IInv, TypeOK, ReadOK, PreadSome, Volumes
<1>2. /\ b \in Seq(Nat) /\ rd.offset \in Nat /\ rd.len \in Nat /\ Len(b) \in Nat
      /\ Pos \in Nat
  <2>1. b \in Seq(Nat) /\ rd.offset \in Nat /\ rd.len \in Nat
    BY DEF IInv, TypeOK, Reads
  <2>2. Len(b) \in Nat
    BY <2>1, LenProperties
  <2> QED BY <1>1, <2>1, <2>2 DEF Pos
<1>3. more \in Seq(Nat) /\ Len(more) = n /\ \A i \in 1..n : more[i] = Pos + i - 1
  <2>1. \A i \in 1..n : Pos + i - 1 \in Nat
    BY <1>2
  <2>2. more \in [1..n -> Nat]
    BY <2>1
  <2>3. more \in Seq(Nat)
    BY <2>2
  <2> QED BY <2>2, <2>3, LenProperties
<1> HIDE DEF more
<1>4. rd' = [rd EXCEPT !.buf = b \o more]
  BY DEF PreadSome, more
<1>5. /\ b \o more \in Seq(Nat) /\ Len(b \o more) = Len(b) + n
      /\ \A i \in 1..Len(b) + n :
           (b \o more)[i] = IF i <= Len(b) THEN b[i] ELSE more[i - Len(b)]
  BY <1>2, <1>3, ConcatProperties
<1>6. Len(b) + n <= rd.len /\ n >= 1
  BY <1>2 DEF PreadSome
<1>7. TypeOK'
  BY <1>4, <1>5 DEF IInv, TypeOK, PreadSome, Reads
<1>8. VolOK'
  BY DEF IInv, VolOK, PreadSome
<1>9. ReadOK'
  <2>1. rd' = [rd EXCEPT !.buf = b \o more] /\ rd \in Reads /\ UNCHANGED vol
    BY <1>4 DEF IInv, TypeOK, PreadSome
  <2>2. /\ rd'.buf = b \o more /\ rd'.pc = "loop" /\ rd'.offset = rd.offset
        /\ rd'.len = rd.len /\ vol # NULL /\ rd.offset + rd.len <= vol.size_bytes
    BY <2>1 DEF PreadSome, Reads, IInv, ReadOK
  <2>3. \A i \in 1..Len(b) + n : (b \o more)[i] = vol.part_offset + rd.offset + i - 1
    <3> TAKE i \in 1..Len(b) + n
    <3>1. CASE i <= Len(b)
      BY <1>2, <1>5, <3>1 DEF IInv, ReadOK
    <3>2. CASE i > Len(b)
      <4>1. i - Len(b) \in 1..n /\ (b \o more)[i] = more[i - Len(b)]
        BY <1>2, <1>5, <3>2
      <4>2. more[i - Len(b)] = Pos + (i - Len(b)) - 1
        BY <1>3, <4>1
      <4> QED BY <1>1, <1>2, <4>1, <4>2 DEF Pos
    <3>3. i <= Len(b) \/ i > Len(b)
      BY <1>2
    <3> QED BY <3>1, <3>2, <3>3
  <2> QED BY <1>5, <1>6, <2>1, <2>2, <2>3 DEF ReadOK
<1> QED BY <1>7, <1>8, <1>9 DEF IInv

\* The ends of vol_pread preserve the invariant.
LEMMA EndInv == ASSUME IInv, PreadError \/ PreadEOF \/ PreadDone PROVE IInv'
<1>1. /\ rd \in Reads /\ rd.pc = "loop" /\ UNCHANGED <<file_len, vol, part>>
      /\ \/ rd' = [rd EXCEPT !.pc = "err", !.errno = "errno"]
         \/ rd' = [rd EXCEPT !.pc = "err", !.errno = "EIO"]
         \/ Len(rd.buf) = rd.len /\ rd' = [rd EXCEPT !.pc = "ok"]
  BY DEF IInv, TypeOK, PreadError, PreadEOF, PreadDone
<1>2. /\ rd' \in Reads /\ rd'.pc \in {"err", "ok"}
      /\ rd'.pc = "ok" => Len(rd.buf) = rd.len
      /\ rd'.buf = rd.buf /\ rd'.offset = rd.offset /\ rd'.len = rd.len
  BY <1>1 DEF Reads
<1> QED BY <1>1, <1>2 DEF IInv, TypeOK, VolOK, ReadOK

\* Every step of the volume layer preserves the invariant.
LEMMA NextInv == IInv /\ [Next]_vars => IInv'
<1> SUFFICES ASSUME IInv, [Next]_vars PROVE IInv'
  OBVIOUS
<1>1. CASE UNCHANGED vars
  BY <1>1 DEF vars, IInv, TypeOK, VolOK, ReadOK
<1>2. CASE OpenAt([offset |-> 0, size |-> 0])
  BY <1>2, OpenInv
<1>3. ASSUME NEW idx \in Letters, HasPartition(idx), OpenAt(Partition(idx)) PROVE IInv'
  BY <1>3, OpenInv, PartitionType
<1>4. ASSUME NEW n \in PageNums, ReadPage(n) \/ ReadBlock(n) PROVE IInv'
  <2>1. n * PGSZ \in Nat /\ n * BLKSZ \in Nat /\ PGSZ \in Nat /\ BLKSZ \in Nat
    <3>1. n \in Nat /\ PGSZ \in Nat /\ BLKSZ \in Nat
      BY VolumeAssumption
    <3>2. \A x, y \in Nat : x * y \in Nat
      OBVIOUS
    <3> QED BY <3>1, <3>2, Zenon
  <2> QED BY <1>4, <2>1, StartInv DEF ReadPage, ReadBlock
<1>5. ASSUME NEW n \in 1..(IF PGSZ > BLKSZ THEN PGSZ ELSE BLKSZ), PreadSome(n) PROVE IInv'
  BY <1>5, SomeInv, VolumeAssumption
<1>6. CASE PreadError \/ PreadEOF \/ PreadDone
  BY <1>6, EndInv
<1>7. CASE PreadEINTR \/ OpenRefused
  BY <1>7, <1>1 DEF PreadEINTR, OpenRefused
<1>8. CASE Close
  BY <1>8, CloseInv
<1>9. ASSUME NEW n \in 0..FileSize, Truncate(n) PROVE IInv'
  BY <1>9, VolumeAssumption DEF Truncate, IInv, TypeOK, VolOK, ReadOK
<1> QED BY <1>1, <1>2, <1>3, <1>4, <1>5, <1>6, <1>7, <1>8, <1>9 DEF Next

\* The inductive invariant holds of every behaviour of the volume layer.
THEOREM Invariance == Spec => []IInv
BY InitInv, NextInv, PTL DEF Spec

(***************************************************************************)
(* A successful vol_pread returns exactly the bytes asked for.             *)
(***************************************************************************)
THEOREM ReadsAreExact == Spec => []ReadExact
<1>1. IInv => ReadExact
  <2> SUFFICES ASSUME IInv, rd.pc = "ok"
               PROVE  rd.buf = [i \in 1..rd.len |-> vol.part_offset + rd.offset + i - 1]
    BY DEF ReadExact
  <2>1. rd.buf \in Seq(Nat)
    BY DEF IInv, TypeOK, Reads
  <2>2. rd.buf \in [1..rd.len -> Nat]
    BY <2>1, LenProperties DEF IInv, ReadOK
  <2> QED BY <2>2 DEF IInv, ReadOK
<1> QED BY <1>1, Invariance, PTL

(***************************************************************************)
(* No read leaves the partition described by the disklabel.                *)
(***************************************************************************)
THEOREM ReadsStayInside == Spec => []WithinPartition
<1>1. IInv => WithinPartition
  <2> SUFFICES ASSUME IInv, vol # NULL, NEW i \in 1..Len(rd.buf)
               PROVE  /\ rd.buf[i] >= part.offset
                      /\ rd.buf[i] < FileSize
                      /\ part.size > 0 => rd.buf[i] < part.offset + part.size
    BY DEF WithinPartition
  <2>1. /\ rd.buf \in Seq(Nat) /\ rd.offset \in Nat /\ rd.len \in Nat
        /\ vol.size_bytes \in Nat /\ part.offset \in Nat /\ part.size \in Nat
    BY DEF IInv, TypeOK, Reads, Volumes
  <2>2. Len(rd.buf) \in Nat /\ rd.buf # <<>>
    BY <2>1, LenProperties, EmptySeq
  <2>3. rd.offset + rd.len <= vol.size_bytes /\ Len(rd.buf) <= rd.len
    BY <2>2 DEF IInv, ReadOK
  <2>4. rd.buf[i] = part.offset + rd.offset + i - 1
    BY DEF IInv, ReadOK, VolOK
  <2>5. /\ part.offset + vol.size_bytes <= FileSize
        /\ part.size > 0 => vol.size_bytes <= part.size
    BY DEF IInv, VolOK
  <2>6. i \in Nat /\ i >= 1 /\ rd.offset + i <= vol.size_bytes
    BY <2>1, <2>2, <2>3
  <2>7. FileSize \in Nat
    BY VolumeAssumption
  <2> DEFINE x == part.offset + rd.offset + i - 1
  <2>8. /\ x >= part.offset
        /\ x < FileSize
        /\ part.size > 0 => x < part.offset + part.size
    <3> DEFINE o == part.offset  r == rd.offset  sz == vol.size_bytes  ps == part.size
    <3>1. /\ o \in Nat /\ r \in Nat /\ i \in Nat /\ sz \in Nat /\ FileSize \in Nat /\ ps \in Nat
          /\ i >= 1 /\ r + i <= sz /\ o + sz <= FileSize
          /\ ps > 0 => sz <= ps
      BY <2>1, <2>5, <2>6, <2>7
    <3>2. x = o + r + i - 1
      OBVIOUS
    <3> HIDE DEF o, r, sz, ps, x
    <3>3. x >= o /\ x < FileSize /\ (ps > 0 => x < o + ps)
      BY <3>1, <3>2
    <3> QED BY <3>3 DEF o, ps
  <2> QED BY <2>4, <2>8
<1> QED BY <1>1, Invariance, PTL

\* Multiplication by a natural number is monotonic.
LEMMA MulMono == ASSUME NEW a \in Nat, NEW b \in Nat, NEW p \in Nat, a <= b PROVE a * p <= b * p
OBVIOUS

\* The quotient is the number of whole pages.
LEMMA DivMod == ASSUME NEW s \in Nat, NEW p \in Nat \ {0}
  PROVE /\ s \div p \in Nat /\ (s \div p) * p <= s /\ s < (s \div p) * p + p
OBVIOUS

\* A page is in bounds exactly when its number is below the quotient.
LEMMA DivLimit == ASSUME NEW s \in Nat, NEW p \in Nat \ {0}, NEW n \in Nat
  PROVE ~(p > s \/ n * p > s - p) <=> n < s \div p
<1> DEFINE q == s \div p
<1>1. q \in Nat /\ q * p <= s /\ s < q * p + p
  BY DivMod
<1> HIDE DEF q
<1>0. n * p \in Nat /\ q * p \in Nat
  BY <1>1
<1>2. CASE n < q
  <2>1. (n + 1) * p <= q * p
    BY <1>1, <1>2, MulMono
  <2>2. (n + 1) * p = n * p + p
    OBVIOUS
  <2>3. n * p + p <= s
    BY <2>1, <2>2, <1>1, <1>0
  <2> QED BY <1>2, <2>3, <1>0 DEF q
<1>3. CASE ~(n < q)
  <2>1. q * p <= n * p
    BY <1>1, <1>3, MulMono
  <2>2. n * p > s - p
    BY <2>1, <1>0, <1>1
  <2> QED BY <2>2, <1>3 DEF q
<1> QED BY <1>2, <1>3

(***************************************************************************)
(* Reading a page is refused exactly from advfs_volume_page_count on.      *)
(***************************************************************************)
THEOREM PageCountExact == Spec => []PageCountIsLimit
<1>1. IInv => PageCountIsLimit
  <2> SUFFICES ASSUME IInv, vol # NULL, NEW n \in PageNums
               PROVE  InBounds(PGSZ, n * PGSZ) <=> n < vol.page_count
    BY DEF PageCountIsLimit
  <2>1. vol.size_bytes \in Nat /\ vol.page_count = vol.size_bytes \div PGSZ
    BY DEF IInv, TypeOK, VolOK, Volumes
  <2>2. n \in Nat /\ PGSZ \in Nat \ {0}
    BY VolumeAssumption
  <2> QED BY <2>1, <2>2, DivLimit DEF InBounds
<1> QED BY <1>1, Invariance, PTL

-----------------------------------------------------------------------------
\* A set of naturals that is not empty has a least element.
LEMMA LeastNat ==
    ASSUME NEW T, T \subseteq Nat, T # {}
    PROVE  \E x \in T : \A y \in T : x <= y
<1> DEFINE R == {ss \in Nat \X Nat : ss[1] < ss[2]}
<1>1. IsWellFoundedOn(R, Nat)
  BY NatLessThanWellFounded DEF OpToRel
<1>2. \A x, y \in Nat : y < x => <<y, x>> \in R
  OBVIOUS
<1> HIDE DEF R
<1>3. PICK x \in T : \A y \in T : ~(<<y, x>> \in R)
  BY <1>1, WFMin
<1>4. ASSUME NEW y \in T PROVE x <= y
  <2>1. ~(y < x)
    BY <1>2, <1>3
  <2> QED BY <2>1
<1> QED BY <1>4

\* Appending to a sequence.
LEMMA Appended ==
    ASSUME NEW F, NEW q \in Seq(F), NEW x \in F
    PROVE  /\ Append(q, x) \in Seq(F) /\ Len(q) \in Nat /\ Len(Append(q, x)) = Len(q) + 1
           /\ Append(q, x)[Len(q) + 1] = x /\ Len(q) + 1 \in 1..Len(q) + 1
           /\ \A i \in 1..Len(q) : q[i] \in F /\ i \in 1..Len(q) + 1 /\ Append(q, x)[i] = q[i]
           /\ \A i \in 1..Len(q) + 1 : i = Len(q) + 1 \/ i \in 1..Len(q)
OBVIOUS

Cells == [bs_page : 0..U32, vd_blk : 0..U32]
Opened == [disk : Disks, vd_index : Nat, map : Seq(Cells)]

\* The types of the variables, and where the table of volumes is empty.
DomainType ==
    /\ args \in ArgLists
    /\ pc \in {"args", "discover", "build", "chain", "open", "closed"} \cup Errors
    /\ vds \in Seq(Opened) /\ vdIndex \in Nat /\ which \in {"bmt", "rbmt"}
    /\ map \in Seq(Cells) /\ rbmt \in Seq(Cells) /\ rec \in Nat /\ hops \in Nat /\ faults \in Nat
    /\ pc \in {"args", "closed"} => vds = <<>>
    /\ pc \in {"discover", "build", "chain"} => Len(vds) < Len(args)
    /\ pc = "chain" => rec = 0 \/ rec \in 1..Len(Recs(Disk, which))

\* The index the volume being opened will have is no one else's.
NextIndex ==
    pc \in {"build", "chain"} =>
      /\ vdIndex # 0 /\ (Disk.vdattr \notin {{}, {0}} => vdIndex \in Disk.vdattr)
      /\ \A i \in 1..Len(vds) : /\ vds[i].vd_index # vdIndex
                                /\ vds[i].disk.id = Disk.id /\ vds[i].disk.version = Disk.version

\* The volume being opened and its chains.
LEMMA DiskType ==
    ASSUME args \in ArgLists, vds \in Seq(Opened), Len(vds) < Len(args)
    PROVE  /\ Disk \in Disks /\ Disk.version \in Nat /\ Disk.id \in Nat
           /\ Disk.vdattr = {} \/ \E n \in Nat : Disk.vdattr = {n}
           /\ Len(vds) \in Nat
           /\ \A c : /\ Recs(Disk, c) \in Seq(Record) /\ Recs(Disk, c) \in Chains
                     /\ Len(Recs(Disk, c)) \in Nat
<1>1. ASSUME NEW F, NEW q \in Seq(F), NEW G, NEW r \in Seq(G), Len(r) < Len(q) PROVE q[Len(r) + 1] \in F
  BY <1>1
<1>2. Disk \in Disks
  BY <1>1, DomainAssumption DEF Disk
<1>3. Disk \in [version : Nat, id : Nat, vdattr : Optional(Nat), rbmt : Chains, bmt : Chains]
  BY <1>2, DomainAssumption
<1>4. /\ Disk.version \in Nat /\ Disk.id \in Nat /\ Disk.vdattr \in Optional(Nat)
      /\ Disk.rbmt \in Chains /\ Disk.bmt \in Chains
  BY <1>3
<1>5. Disk.vdattr = {} \/ \E n \in Nat : Disk.vdattr = {n}
  BY <1>4 DEF Optional
<1>6. \A c : Recs(Disk, c) \in Chains
  BY <1>4 DEF Recs
<1>7. ASSUME NEW F, NEW q \in Seq(F) PROVE Len(q) \in Nat
  BY <1>7
<1> QED BY <1>2, <1>4, <1>5, <1>6, <1>7 DEF Chains

\* domain_find_vd finds a volume if there is one.
LEMMA FindVdIs ==
    ASSUME vds \in Seq(Opened), vds # <<>>, NEW n \in Nat, n # 0, FindVd(n) = 0
    PROVE  \A i \in 1..Len(vds) : vds[i].vd_index # n
<1> SUFFICES ASSUME NEW i \in 1..Len(vds), vds[i].vd_index = n PROVE FALSE
  OBVIOUS
<1>1. Len(vds) \in Nat
  OBVIOUS
<1> DEFINE T == {j \in 1..Len(vds) : vds[j].vd_index = n}
<1>2. T \subseteq Nat /\ T # {}
  BY <1>1
<1>3. PICK x \in T : \A y \in T : x <= y
  <2> HIDE DEF T
  <2> QED BY <1>2, LeastNat
<1> DEFINE Q(j) == vds[j].vd_index = n /\ \A k \in 1..j - 1 : vds[k].vd_index # n
<1>4. x \in 1..Len(vds) /\ Q(x)
  <2>1. \A k \in 1..x - 1 : k \in 1..Len(vds) /\ ~(x <= k)
    BY <1>1, <1>3
  <2> QED BY <1>3, <2>1
<1>5. FindVd(n) = CHOOSE j \in 1..Len(vds) : Q(j)
  BY DEF FindVd
<1> HIDE DEF Q
<1>6. FindVd(n) \in 1..Len(vds)
  BY <1>4, <1>5
<1> QED BY <1>1, <1>6

\* A record of a chain, and where it leads.
LEMMA RecordIs ==
    ASSUME NEW s \in Chains, NEW k \in 1..Len(s)
    PROVE  /\ s[k].pg \in Nat /\ s[k].xtnts \in Seq(Cells) /\ s[k].next \in Nat
           /\ s[k].next = 0 \/ s[k].next \in 1..Len(s)
           /\ Len(s) \in Nat /\ (k < Len(s) => s[k].next = k + 1)
           /\ (k = Len(s) => s[k].next \in {0} \cup 2..k)
<1>1. s \in Seq(Record) /\ s[k].next \in IF k < Len(s) THEN {k + 1} ELSE {0} \cup 2..k
  BY DEF Chains
<1>2. ASSUME NEW F, s \in Seq(F) PROVE Len(s) \in Nat /\ s[k] \in F
  BY <1>2
<1>3. Len(s) \in Nat /\ s[k] \in Record
  BY <1>1, <1>2
<1>4. s[k].pg \in Nat /\ s[k].xtnts \in Seq(Cells) /\ s[k].next \in Nat
  BY <1>3 DEF Record, Cells
<1> QED BY <1>1, <1>3, <1>4

\* What is left of a map that is cut to fit is a map.
LEMMA CutIs ==
    ASSUME NEW m \in Seq(Cells), NEW x \in Seq(Cells), NEW h \in Nat
    PROVE  /\ SubSeq(m \o x, 1, IF Len(m \o x) < h THEN Len(m \o x) ELSE h) \in Seq(Cells)
           /\ Len(m) + Len(x) <= h =>
                SubSeq(m \o x, 1, IF Len(m \o x) < h THEN Len(m \o x) ELSE h) = m \o x
<1>1. ASSUME NEW F, m \in Seq(F), x \in Seq(F)
      PROVE  /\ SubSeq(m \o x, 1, IF Len(m \o x) < h THEN Len(m \o x) ELSE h) \in Seq(F)
             /\ Len(m) + Len(x) <= h =>
                  SubSeq(m \o x, 1, IF Len(m \o x) < h THEN Len(m \o x) ELSE h) = m \o x
  <2> DEFINE a == m \o x
             l == IF Len(a) < h THEN Len(a) ELSE h
  <2>1. a \in Seq(F) /\ Len(a) \in Nat /\ Len(a) = Len(m) + Len(x)
    BY <1>1
  <2> HIDE DEF a
  <2>2. l \in Nat /\ l <= Len(a)
    BY <2>1
  <2>3. Len(a) <= h => l = Len(a)
    BY <2>1
  <2> HIDE DEF l
  <2>4. SubSeq(a, 1, l) = [i \in 1..l |-> a[i]] /\ \A i \in 1..l : a[i] \in F
    BY <2>1, <2>2
  <2>5. SubSeq(a, 1, l) \in Seq(F)
    BY <2>2, <2>4
  <2>6. l = Len(a) => SubSeq(a, 1, l) = a
    BY <2>1, <2>4
  <2> QED BY <2>1, <2>3, <2>5, <2>6 DEF a, l
<1> QED BY <1>1

\* The volume the table gets next.
LEMMA Registered ==
    ASSUME DomainType, NextIndex, pc = "chain", NEW v, v = Append(vds, [disk |-> Disk, vd_index |-> vdIndex, map |-> map])
    PROVE  /\ v \in Seq(Opened) /\ Len(vds) \in Nat /\ Len(v) = Len(vds) + 1 /\ Len(v) <= Len(args)
           /\ v[Len(v)] = [disk |-> Disk, vd_index |-> vdIndex, map |-> map] /\ Len(v) \in 1..Len(v)
           /\ \A i \in 1..Len(vds) : vds[i] \in Opened /\ i \in 1..Len(v) /\ v[i] = vds[i]
           /\ \A i \in 1..Len(v) : i = Len(v) \/ i \in 1..Len(vds)
<1> DEFINE x == [disk |-> Disk, vd_index |-> vdIndex, map |-> map]
<1>1. x \in Opened /\ vds \in Seq(Opened) /\ Len(vds) < Len(args)
  BY DiskType DEF DomainType, Opened
<1>3. Len(args) \in Nat
  <2>1. args \in Seq(Disks)
    BY DomainAssumption DEF DomainType
  <2> QED BY <2>1
<1> HIDE DEF x
<1>2. /\ v \in Seq(Opened) /\ Len(vds) \in Nat /\ Len(v) = Len(vds) + 1 /\ v[Len(vds) + 1] = x
      /\ \A i \in 1..Len(vds) : vds[i] \in Opened /\ i \in 1..Len(vds) + 1 /\ v[i] = vds[i]
      /\ \A i \in 1..Len(vds) + 1 : i = Len(vds) + 1 \/ i \in 1..Len(vds)
      /\ Len(vds) + 1 \in 1..Len(vds) + 1
  BY <1>1, Appended DEF x
<1> QED BY <1>1, <1>2, <1>3 DEF x

-----------------------------------------------------------------------------
\* Nothing is registered in the initial states.
LEMMA DomainInitial ==
    DomainInit => DomainType /\ NextIndex /\ OneDomain
<1>1. <<>> \in Seq(Opened) /\ <<>> \in Seq(Cells) /\ Len(<<>>) = 0
  OBVIOUS
<1> QED BY <1>1 DEF DomainInit, DomainType, NextIndex, OneDomain

\* A volume that is not refused fits the domain, and its index is new.
LEMMA DiscoverKeeps ==
    ASSUME DomainType, OneDomain, Discover
    PROVE  DomainType' /\ NextIndex' /\ OneDomain'
<1>1. /\ pc = "discover" /\ vds \in Seq(Opened) /\ Len(vds) < Len(args) /\ args \in ArgLists
      /\ UNCHANGED <<args, vds, map, rec, hops, rbmt, faults, last>>
  BY DEF DomainType, Discover
<1>2. Disk' = Disk
  BY <1>1 DEF Disk
<1>3. /\ Disk.version \in Nat /\ Disk.id \in Nat /\ Len(vds) \in Nat
      /\ Disk.vdattr = {} \/ \E n \in Nat : Disk.vdattr = {n}
  BY <1>1, DiskType
<1>4. CASE Refusal(Disk) # "none"
  <2>1. pc' = Refusal(Disk) /\ vdIndex' = vdIndex /\ which' = which
    BY <1>4 DEF Discover
  <2>2. pc' \in Errors /\ pc' \notin {"args", "closed", "build", "chain", "discover"}
    BY <1>4, <2>1 DEF Refusal, Errors
  <2> QED BY <1>1, <2>1, <2>2 DEF DomainType, NextIndex, OneDomain
<1>5. CASE Refusal(Disk) = "none"
  <2>1. /\ pc' = "build" /\ which' \in {"bmt", "rbmt"}
        /\ vdIndex' = IF vds = <<>> THEN PrimaryIndex(Disk) ELSE SecondaryIndex(Disk)
    BY <1>5 DEF Discover
  <2>2. CASE vds = <<>>
    <3>1. /\ vdIndex' \in Nat /\ vdIndex' # 0
          /\ (Disk.vdattr \notin {{}, {0}} => vdIndex' \in Disk.vdattr)
      BY <1>3, <2>1, <2>2 DEF PrimaryIndex
    <3>2. Len(vds) = 0
      BY <2>2
    <3> QED BY <1>1, <1>2, <2>1, <3>1, <3>2 DEF DomainType, NextIndex, OneDomain
  <2>3. CASE vds # <<>>
    <3>1. /\ SecondaryIndex(Disk) # 0 /\ FindVd(SecondaryIndex(Disk)) = 0
          /\ Disk.version = vds[1].disk.version /\ Disk.id = vds[1].disk.id
      BY <1>5, <2>3 DEF Refusal
    <3>2. /\ vdIndex' \in Nat /\ vdIndex' # 0 /\ vdIndex' = SecondaryIndex(Disk)
          /\ (Disk.vdattr \notin {{}, {0}} => vdIndex' \in Disk.vdattr)
      BY <1>3, <2>1, <2>3, <3>1 DEF SecondaryIndex
    <3>3. \A i \in 1..Len(vds) : vds[i].vd_index # vdIndex'
      BY <1>1, <2>3, <3>1, <3>2, FindVdIs
    <3>4. NextIndex'
      BY <1>1, <1>2, <3>1, <3>2, <3>3 DEF NextIndex, OneDomain
    <3> QED BY <1>1, <2>1, <3>2, <3>4 DEF DomainType, OneDomain
  <2> QED BY <2>2, <2>3
<1> QED BY <1>4, <1>5

\* Building a map touches neither the table nor the index chosen.
LEMMA BuildKeeps ==
    ASSUME DomainType, NextIndex, OneDomain, BuildStart \/ RbmtDone
    PROVE  DomainType' /\ NextIndex' /\ OneDomain'
<1> USE DEF BuildStart, RbmtDone
<1>1. /\ pc \in {"build", "chain"} /\ vds \in Seq(Opened) /\ Len(vds) < Len(args) /\ args \in ArgLists
      /\ UNCHANGED <<args, vds, vdIndex, faults, last>>
  BY DEF DomainType
<1>2. Disk' = Disk
  BY <1>1 DEF Disk
<1>3. pc' \in {"build", "chain", "EILSEQ"}
  OBVIOUS
<1>4. NextIndex' /\ OneDomain'
  BY <1>1, <1>2, <1>3 DEF NextIndex, OneDomain
<1>5. CASE BuildStart
  <2>1. CASE Recs(Disk, which) = <<>>
    BY <1>1, <1>4, <1>5, <2>1 DEF DomainType, Errors
  <2>2. CASE Recs(Disk, which) # <<>>
    <3>1. Recs(Disk, which) \in Chains /\ 1 \in 1..Len(Recs(Disk, which))
      <4>1. Recs(Disk, which) \in Seq(Record) /\ Recs(Disk, which) \in Chains
        BY <1>1, DiskType
      <4>2. ASSUME NEW F, NEW s \in Seq(F), s # <<>> PROVE 1 \in 1..Len(s)
        BY <4>2
      <4> QED BY <2>2, <4>1, <4>2
    <3>2. /\ pc' = "chain" /\ map' = Recs(Disk, which)[1].xtnts /\ rec' = Recs(Disk, which)[1].next
          /\ hops' = 0 /\ which' = which /\ rbmt' = rbmt
      BY <1>5, <2>2
    <3>3. map' \in Seq(Cells) /\ rec' \in Nat /\ (rec' = 0 \/ rec' \in 1..Len(Recs(Disk, which)))
      BY <3>1, <3>2, RecordIs
    <3> QED BY <1>1, <1>2, <1>4, <3>2, <3>3 DEF DomainType, Recs
  <2> QED BY <2>1, <2>2
<1>6. CASE RbmtDone
  BY <1>1, <1>4, <1>6 DEF DomainType
<1> QED BY <1>4, <1>5, <1>6

\* Nor does following its chain.
LEMMA ChainKeeps ==
    ASSUME DomainType, NextIndex, OneDomain, Follow \/ FollowFails
    PROVE  DomainType' /\ NextIndex' /\ OneDomain'
<1>1. /\ pc = "chain" /\ vds \in Seq(Opened) /\ Len(vds) < Len(args) /\ args \in ArgLists
      /\ UNCHANGED <<args, pc, vds, vdIndex, which, rbmt, last>> /\ rec # 0
  BY DEF DomainType, Follow, Hop, FollowFails
<1>2. Disk' = Disk
  BY <1>1 DEF Disk
<1>3. NextIndex' /\ OneDomain'
  BY <1>1, <1>2 DEF NextIndex, OneDomain
<1>4. map' \in Seq(Cells) /\ rec' \in Nat /\ hops' \in Nat /\ faults' \in Nat
      /\ (rec' = 0 \/ rec' \in 1..Len(Recs(Disk, which)))
  <2> DEFINE this == Recs(Disk, which)[rec]
  <2>1. Recs(Disk, which) \in Chains /\ rec \in 1..Len(Recs(Disk, which))
    BY <1>1, DiskType DEF DomainType
  <2>2. /\ this.xtnts \in Seq(Cells) /\ this.next \in Nat
        /\ (this.next = 0 \/ this.next \in 1..Len(Recs(Disk, which)))
    BY <2>1, RecordIs
  <2> HIDE DEF this
  <2>3. SubSeq(map \o this.xtnts, 1, IF Len(map \o this.xtnts) < MaxMap THEN Len(map \o this.xtnts)
                                     ELSE MaxMap) \in Seq(Cells)
    BY <2>2, CutIs, DomainAssumption DEF DomainType
  <2>4. CASE Follow
    <3>1. map \in Seq(Cells) /\ hops \in Nat /\ faults \in Nat
      BY DEF DomainType
    <3>2. /\ faults' = faults
          /\ \/ rec' = 0 /\ map' = map /\ hops' = hops
             \/ /\ rec' = this.next /\ hops' = hops + 1
                /\ map' = SubSeq(map \o this.xtnts, 1, IF Len(map \o this.xtnts) < MaxMap
                                                       THEN Len(map \o this.xtnts) ELSE MaxMap)
      BY <2>4 DEF Follow, Hop, this
    <3>3. map' \in Seq(Cells)
      BY <2>3, <3>1, <3>2
    <3> QED BY <2>2, <3>1, <3>2, <3>3
  <2>5. CASE FollowFails
    <3>1. rec' = 0 /\ map' = map /\ hops' = hops /\ faults' = faults + 1
      BY <2>5 DEF FollowFails
    <3> QED BY <3>1 DEF DomainType
  <2> QED BY <2>4, <2>5
<1>5. DomainType'
  BY <1>1, <1>2, <1>4 DEF DomainType, Recs
<1> QED BY <1>3, <1>5

\* The volume registered is the one that was found fit.
LEMMA RegisterKeeps ==
    ASSUME DomainType, NextIndex, OneDomain, Register
    PROVE  DomainType' /\ NextIndex' /\ OneDomain'
<1> DEFINE x == [disk |-> Disk, vd_index |-> vdIndex, map |-> map]
           n == Len(vds) + 1
<1>1. /\ pc = "chain" /\ vds' = Append(vds, x) /\ map' = <<>> /\ rbmt' = <<>> /\ rec' = 0 /\ hops' = 0
      /\ vdIndex' = 0 /\ pc' = (IF Len(vds) + 1 = Len(args) THEN "open" ELSE "discover")
      /\ UNCHANGED <<args, which, faults, last>>
  BY DEF Register
<1>2. /\ vds' \in Seq(Opened) /\ Len(vds) \in Nat /\ Len(vds') = n /\ n <= Len(args)
      /\ vds'[n] = x /\ \A i \in 1..Len(vds) : vds'[i] = vds[i] /\ i \in 1..n
      /\ \A i \in 1..n : i = n \/ i \in 1..Len(vds)
  BY <1>1, Registered
<1>3. DomainType'
  <2>1. <<>> \in Seq(Cells)
    OBVIOUS
  <2>2. Len(args) \in Nat
    <3>1. args \in Seq(Disks)
      BY DomainAssumption DEF DomainType
    <3> QED BY <3>1
  <2> QED BY <1>1, <1>2, <2>1, <2>2 DEF DomainType
<1>4. NextIndex'
  BY <1>1 DEF NextIndex
<1>5. OneDomain'
  <2>1. x.disk = Disk /\ x.vd_index = vdIndex
    OBVIOUS
  <2>2. /\ vdIndex # 0 /\ (Disk.vdattr \notin {{}, {0}} => vdIndex \in Disk.vdattr)
        /\ \A i \in 1..Len(vds) : /\ vds[i].vd_index # vdIndex
                                  /\ vds[i].disk.id = Disk.id /\ vds[i].disk.version = Disk.version
    BY <1>1 DEF NextIndex
  <2> HIDE DEF x
  <2>3. ASSUME NEW i \in 1..n
        PROVE  /\ vds'[i].vd_index # 0 /\ vds'[i].disk.id = Disk.id
               /\ vds'[i].disk.version = Disk.version
               /\ vds'[i].disk.vdattr \notin {{}, {0}} => vds'[i].vd_index \in vds'[i].disk.vdattr
    <3>1. CASE i = n
      BY <1>2, <2>1, <2>2, <3>1
    <3>2. CASE i \in 1..Len(vds)
      BY <1>2, <2>2, <3>2 DEF OneDomain
    <3> QED BY <1>2, <3>1, <3>2
  <2>4. 1 \in 1..n
    BY <1>2
  <2>5. ASSUME NEW i \in 1..n, NEW j \in 1..n, vds'[i].vd_index = vds'[j].vd_index PROVE i = j
    <3> HIDE DEF n
    <3> QED BY <1>2, <2>1, <2>2, <2>5 DEF OneDomain
  <2> HIDE DEF n
  <2> QED BY <1>2, <2>3, <2>4, <2>5 DEF OneDomain
<1> QED BY <1>3, <1>4, <1>5

\* Every step keeps the domain one.
LEMMA DomainStep ==
    ASSUME DomainType, NextIndex, OneDomain, [DomainNext]_domainVars
    PROVE  DomainType' /\ NextIndex' /\ OneDomain'
<1>1. CASE UNCHANGED domainVars
  <2>1. UNCHANGED <<args, pc, vds, vdIndex, which, map, rec, hops, rbmt, faults, last>>
    BY <1>1 DEF domainVars
  <2>2. Disk' = Disk
    BY <2>1 DEF Disk
  <2> QED BY <2>1, <2>2 DEF DomainType, NextIndex, OneDomain, Recs
<1>2. CASE Args
  <2>1. /\ pc' \in {"EINVAL", "discover"} /\ (pc' = "discover" => Len(args) >= 1)
        /\ UNCHANGED <<args, vds, vdIndex, which, map, rec, hops, rbmt, faults, last>>
        /\ pc = "args"
    <3>1. args \in Seq(Disks)
      BY DomainAssumption DEF DomainType
    <3>2. Len(args) \in Nat
      BY <3>1
    <3> QED BY <1>2, <3>2 DEF Args
  <2>2. vds = <<>> /\ Len(vds) = 0
    BY <2>1 DEF DomainType
  <2>3. pc' = "discover" => Len(vds) < Len(args)
    <3>1. args \in Seq(Disks)
      BY DomainAssumption DEF DomainType
    <3>2. Len(args) \in Nat
      BY <3>1
    <3> QED BY <2>1, <2>2, <3>2
  <2> QED BY <2>1, <2>3 DEF DomainType, NextIndex, OneDomain, Errors
<1>3. CASE DiscoverFails
  BY <1>3 DEF DiscoverFails, DomainType, NextIndex, OneDomain, Errors
<1>4. CASE \E n \in VdNums, p \in Pages : ReadBmtPage(n, p)
  BY <1>4 DEF ReadBmtPage, DomainType, NextIndex, OneDomain
<1>5. CASE CloseDomain
  <2>1. <<>> \in Seq(Opened) /\ Len(<<>>) = 0
    OBVIOUS
  <2> QED BY <1>5, <2>1 DEF CloseDomain, DomainType, NextIndex, OneDomain
<1> QED BY <1>1, <1>2, <1>3, <1>4, <1>5, DiscoverKeeps, BuildKeeps, ChainKeeps, RegisterKeeps
    DEF DomainNext, OpenStep, OpenFault, Closed

\* The registered volumes belong to one domain, and their indices are unique.
THEOREM OneDomainAlways == DomainSpec => []OneDomain
<1> DEFINE Inv == DomainType /\ NextIndex /\ OneDomain
<1>1. DomainInit => Inv
  BY DomainInitial
<1>2. Inv /\ [DomainNext]_domainVars => Inv'
  BY DomainStep
<1>3. Inv => OneDomain
  OBVIOUS
<1> QED BY <1>1, <1>2, <1>3, PTL DEF DomainSpec

-----------------------------------------------------------------------------
\* Induction.
LEMMA NatInd ==
    ASSUME NEW S, 0 \in S, \A n \in Nat : n \in S => n + 1 \in S
    PROVE  Nat \subseteq S
<1> SUFFICES ASSUME Nat \ S # {} PROVE FALSE
  OBVIOUS
<1>1. PICK x \in Nat \ S : \A y \in Nat \ S : x <= y
  BY LeastNat
<1>2. x # 0 /\ x - 1 \in Nat
  BY <1>1
<1>3. x - 1 \in S
  BY <1>1, <1>2
<1> QED BY <1>1, <1>2, <1>3

\* f[k] is the result of k rounds from a, each a step of F.
IsRounds(f, N, X, a, F) ==
    f \in [0..N -> X] /\ f[0] = a /\ \A k \in 1..N : f[k] = F[<<k, f[k - 1]>>]

\* Such a recursion has a result.
LEMMA Rounds ==
    ASSUME NEW X, NEW a \in X, NEW F \in [Nat \X X -> X], NEW N \in Nat
    PROVE  \E f : IsRounds(f, N, X, a, F)
<1> DEFINE Is(f, n) == f \in [0..n -> X] /\ f[0] = a /\ \A k \in 1..n : f[k] = F[<<k, f[k - 1]>>]
           S == {n \in Nat : \E f : Is(f, n)}
<1>1. 0 \in S
  <2> DEFINE f == [k \in 0..0 |-> a]
  <2>1. Is(f, 0)
    OBVIOUS
  <2> HIDE DEF f, Is
  <2> QED BY <2>1
<1>2. ASSUME NEW n \in Nat, n \in S PROVE n + 1 \in S
  <2>1. PICK f : Is(f, n)
    BY <1>2
  <2> DEFINE g == [k \in 0..n + 1 |-> IF k = n + 1 THEN F[<<n + 1, f[n]>>] ELSE f[k]]
  <2>2. f[n] \in X /\ F[<<n + 1, f[n]>>] \in X
    BY <2>1
  <2>3. g \in [0..n + 1 -> X] /\ g[0] = a
    BY <2>1, <2>2
  <2>4. \A k \in 1..n : g[k] = f[k] /\ g[k - 1] = f[k - 1]
    OBVIOUS
  <2>5. g[n + 1] = F[<<n + 1, f[n]>>] /\ g[n] = f[n] /\ (n + 1) - 1 = n
    OBVIOUS
  <2> HIDE DEF g
  <2>6. ASSUME NEW k \in 1..n + 1 PROVE g[k] = F[<<k, g[k - 1]>>]
    <3>1. CASE k \in 1..n
      BY <2>1, <2>4, <3>1
    <3>2. CASE k = n + 1
      BY <2>5, <3>2
    <3> QED BY <3>1, <3>2
  <2>7. Is(g, n + 1)
    BY <2>3, <2>6
  <2> HIDE DEF Is
  <2> QED BY <2>7
<1>3. N \in S
  <2> HIDE DEF S
  <2> QED BY <1>1, <1>2, NatInd
<1> QED BY <1>3 DEF IsRounds

-----------------------------------------------------------------------------
\* What a chain holds.

\* f[k] is what the first k records of s hold.
Collects(f, s) ==
    /\ f[0] = <<>> /\ \A k \in 0..Len(s) : f[k] \in Seq(Cells)
    /\ \A k \in 1..Len(s) : f[k] = f[k - 1] \o s[k].xtnts

\* Collected is what its name says, record by record.
LEMMA CollectedIs ==
    ASSUME NEW d, NEW c, Recs(d, c) \in Chains
    PROVE  Collects(Collected(d, c), Recs(d, c))
<1> DEFINE s == Recs(d, c)
           N == Len(s)
           X == Seq(Cells)
           B(g, k) == IF k = 0 THEN <<>> ELSE g[k - 1] \o s[k].xtnts
           h == CHOOSE g : g = [k \in 0..N |-> B(g, k)]
<1>1. N \in Nat /\ \A k \in 1..N : s[k].xtnts \in X
  <2>1. s \in Seq(Record)
    BY DEF Chains
  <2>2. Len(s) \in Nat
    BY <2>1
  <2> QED BY <2>2, RecordIs
<1>2. Collected(d, c) = h
  BY Zenon DEF Collected
<1>3. \A q, r \in X : q \o r \in X
  OBVIOUS
<1>10. \A g, k : k # 0 => B(g, k) = g[k - 1] \o s[k].xtnts
  OBVIOUS
<1>11. \A g : B(g, 0) = <<>>
  OBVIOUS
<1> HIDE DEF B, s
<1>4. PICK g : g \in [0..N -> X] /\ g[0] = <<>> /\ \A k \in 1..N : g[k] = g[k - 1] \o s[k].xtnts
  <2> DEFINE F == [p \in Nat \X X |-> IF p[1] \in 1..N THEN p[2] \o s[p[1]].xtnts ELSE p[2]]
  <2>3. <<>> \in X
    OBVIOUS
  <2> HIDE DEF X
  <2>1. F \in [Nat \X X -> X]
    BY <1>1, <1>3
  <2>2. \A k \in Nat, q \in X : k \in 1..N => F[<<k, q>>] = q \o s[k].xtnts
    OBVIOUS
  <2> HIDE DEF F, N
  <2>4. PICK e \in X : e = <<>>
    BY <2>3
  <2>5. PICK g : IsRounds(g, N, X, e, F)
    BY <1>1, <2>1, Rounds
  <2>6. g \in [0..N -> X] /\ g[0] = <<>> /\ \A k \in 1..N : g[k] = F[<<k, g[k - 1]>>]
    BY <2>4, <2>5 DEF IsRounds
  <2>7. ASSUME NEW k \in 1..N PROVE g[k] = g[k - 1] \o s[k].xtnts
    <3>1. k - 1 \in 0..N /\ k \in Nat
      BY <1>1
    <3>2. g[k - 1] \in X
      BY <2>6, <3>1
    <3> QED BY <2>2, <2>6, <3>1, <3>2
  <2> QED BY <2>6, <2>7
<1>5. g = [k \in 0..N |-> B(g, k)]
  <2>1. \A k \in 0..N : g[k] = B(g, k)
    <3>1. 0..N = {0} \cup 1..N /\ \A k \in 1..N : k # 0
      BY <1>1
    <3> HIDE DEF N, X
    <3> QED BY <1>4, <1>10, <1>11, <3>1
  <2>2. g = [k \in 0..N |-> g[k]]
    BY <1>4
  <2> QED BY <2>1, <2>2
<1>6. h = [k \in 0..N |-> B(h, k)]
  BY <1>5
<1>7. \A k \in 0..N : h[k] = B(h, k)
  <2> HIDE DEF h
  <2> QED BY <1>6
<1> HIDE DEF h
<1>8. h[0] = <<>> /\ \A k \in 1..N : h[k] = h[k - 1] \o s[k].xtnts
  <2>1. 0 \in 0..N /\ \A k \in 1..N : k # 0 /\ k \in 0..N
    BY <1>1
  <2> HIDE DEF N
  <2> QED BY <1>7, <1>10, <1>11, <2>1
<1>9. \A k \in 0..N : h[k] \in X
  <2> DEFINE P == {k \in Nat : k \in 0..N => h[k] \in X}
  <2>1. 0 \in P
    <3>1. <<>> \in X
      OBVIOUS
    <3> QED BY <1>8, <3>1
  <2>2. ASSUME NEW k \in Nat, k \in P PROVE k + 1 \in P
    <3> SUFFICES ASSUME k + 1 \in 0..N PROVE h[k + 1] \in X
      OBVIOUS
    <3>1. k \in 0..N /\ k + 1 \in 1..N /\ k + 1 - 1 = k
      BY <1>1
    <3>2. h[k] \in X
      BY <2>2, <3>1
    <3>3. PICK o : o = k + 1
      OBVIOUS
    <3>4. o \in 1..N /\ o - 1 = k
      BY <3>1, <3>3
    <3> HIDE DEF X, N
    <3>5. h[o] = h[k] \o s[o].xtnts
      BY <1>8, <3>4
    <3> QED BY <1>1, <1>3, <3>2, <3>3, <3>4, <3>5
  <2>3. Nat \subseteq P
    <3> HIDE DEF P
    <3> QED BY <2>1, <2>2, NatInd
  <2> QED BY <1>1, <2>3
<1> QED BY <1>2, <1>8, <1>9 DEF Collects, s

\* A record added at the end.
LEMMA Joined ==
    ASSUME NEW a \in Seq(Cells), NEW b \in Seq(Cells)
    PROVE  /\ a \o b \in Seq(Cells) /\ Len(a \o b) = Len(a) + Len(b) /\ Len(a) \in Nat /\ Len(b) \in Nat
           /\ \A i \in 1..Len(a) : (a \o b)[i] = a[i]
           /\ \A i \in 1..Len(b) : (a \o b)[Len(a) + i] = b[i]
<1>1. ASSUME NEW F, a \in Seq(F), b \in Seq(F)
      PROVE  /\ a \o b \in Seq(F) /\ Len(a \o b) = Len(a) + Len(b) /\ Len(a) \in Nat /\ Len(b) \in Nat
             /\ \A i \in 1..Len(a) : (a \o b)[i] = a[i]
             /\ \A i \in 1..Len(b) : (a \o b)[Len(a) + i] = b[i]
  BY <1>1
<1> QED BY <1>1

\* The records of s are not empty, no longer than w, and end with a boundary.
Ended(s, w) ==
    \A k \in 1..Len(s) :
      Len(s[k].xtnts) \in 1..w /\ s[k].xtnts[Len(s[k].xtnts)].vd_blk \in Boundary

\* What the first k records hold is kept, and record k lies in it as written.
Grown(f, s, k) ==
    /\ Len(f[k]) \in 1..Len(f[Len(s)]) /\ f[k][Len(f[k])].vd_blk \in Boundary
    /\ \A i \in 1..Len(f[k]) : f[k][i] = f[Len(s)][i]
    /\ Len(f[k - 1]) \in Nat /\ Len(f[k]) = Len(f[k - 1]) + Len(s[k].xtnts)
    /\ \A q \in 1..Len(s[k].xtnts) : f[k][Len(f[k - 1]) + q] = s[k].xtnts[q]

\* Collecting a chain never loses what was collected before.
LEMMA CollectedGrows ==
    ASSUME NEW s \in Chains, NEW f, Collects(f, s), NEW w \in Nat, Ended(s, w)
    PROVE  \A k \in 1..Len(s) : Grown(f, s, k)
<1> DEFINE n == Len(s)
<1>1. n \in Nat
  <2>1. s \in Seq(Record)
    BY DEF Chains
  <2> QED BY <2>1
<1>2. ASSUME NEW k \in 1..n
      PROVE  /\ k - 1 \in 0..n /\ k \in 0..n /\ Len(f[k - 1]) \in Nat /\ Len(f[k]) \in Nat \ {0}
             /\ Len(f[k]) = Len(f[k - 1]) + Len(s[k].xtnts) /\ Len(s[k].xtnts) \in Nat \ {0}
             /\ \A i \in 1..Len(f[k - 1]) : f[k][i] = f[k - 1][i]
             /\ \A q \in 1..Len(s[k].xtnts) : f[k][Len(f[k - 1]) + q] = s[k].xtnts[q]
             /\ f[k][Len(f[k])].vd_blk \in Boundary
  <2>1. k - 1 \in 0..n /\ k \in 0..n
    BY <1>1
  <2>2. f[k - 1] \in Seq(Cells) /\ s[k].xtnts \in Seq(Cells) /\ f[k] = f[k - 1] \o s[k].xtnts
    BY <2>1, RecordIs DEF Collects
  <2>3. Len(s[k].xtnts) \in 1..w /\ s[k].xtnts[Len(s[k].xtnts)].vd_blk \in Boundary
    BY DEF Ended
  <2>5. /\ Len(f[k]) = Len(f[k - 1]) + Len(s[k].xtnts) /\ Len(f[k - 1]) \in Nat
        /\ \A i \in 1..Len(f[k - 1]) : f[k][i] = f[k - 1][i]
        /\ \A q \in 1..Len(s[k].xtnts) : f[k][Len(f[k - 1]) + q] = s[k].xtnts[q]
    <3>1. PICK a, b : a = f[k - 1] /\ b = s[k].xtnts
      OBVIOUS
    <3>2. a \in Seq(Cells) /\ b \in Seq(Cells) /\ f[k] = a \o b
      BY <2>2, <3>1
    <3>3. /\ Len(a \o b) = Len(a) + Len(b) /\ Len(a) \in Nat
          /\ \A i \in 1..Len(a) : (a \o b)[i] = a[i]
          /\ \A q \in 1..Len(b) : (a \o b)[Len(a) + q] = b[q]
      BY <3>2, Joined
    <3> QED BY <3>1, <3>2, <3>3
  <2>4. Len(s[k].xtnts) \in Nat \ {0} /\ Len(s[k].xtnts) \in 1..Len(s[k].xtnts)
    BY <2>3
  <2>6. f[k][Len(f[k])] = s[k].xtnts[Len(s[k].xtnts)]
    BY <2>4, <2>5
  <2>7. Len(f[k]) \in Nat \ {0}
    <3>1. \A x \in Nat, y \in Nat \ {0} : x + y \in Nat \ {0}
      OBVIOUS
    <3>2. Len(f[k - 1]) \in Nat /\ Len(f[k]) = Len(f[k - 1]) + Len(s[k].xtnts)
      BY <2>5
    <3> QED BY <2>4, <3>1, <3>2, Zenon
  <2> HIDE DEF n
  <2> QED BY <2>1, <2>3, <2>4, <2>5, <2>6, <2>7
<1>3. ASSUME NEW k \in 1..n, NEW j \in Nat, k + j \in 1..n
      PROVE  Len(f[k]) <= Len(f[k + j]) /\ \A i \in 1..Len(f[k]) : f[k][i] = f[k + j][i]
  <2> DEFINE Q(m) == Len(f[k]) <= Len(f[m]) /\ \A i \in 1..Len(f[k]) : f[k][i] = f[m][i]
             P == {m \in Nat : k + m \in 1..n => Q(k + m)}
  <2>1. 0 \in P
    <3>1. Len(f[k]) \in Nat
      BY <1>2
    <3> QED BY <3>1
  <2>2. ASSUME NEW m \in Nat, m \in P PROVE m + 1 \in P
    <3> SUFFICES ASSUME k + (m + 1) \in 1..n PROVE Q(k + (m + 1))
      OBVIOUS
    <3>0. PICK o : o = k + (m + 1)
      OBVIOUS
    <3>1. o \in 1..n /\ o - 1 = k + m /\ k + m \in 1..n
      BY <1>1, <3>0
    <3>2. Q(o - 1)
      BY <2>2, <3>1
    <3>3. /\ Len(f[o - 1]) \in Nat /\ Len(f[o]) = Len(f[o - 1]) + Len(s[o].xtnts)
          /\ Len(s[o].xtnts) \in Nat
          /\ \A i \in 1..Len(f[o - 1]) : f[o][i] = f[o - 1][i]
      BY <1>2, <3>1
    <3>4. Len(f[k]) \in Nat
      BY <1>2
    <3>5. 1..Len(f[k]) \subseteq 1..Len(f[o - 1])
      BY <3>2, <3>3, <3>4
    <3>6. Len(f[k]) <= Len(f[o])
      <4>1. \A x, y, z \in Nat : x <= y => x <= y + z
        OBVIOUS
      <4> QED BY <3>2, <3>3, <3>4, <4>1, Zenon
    <3>7. \A i \in 1..Len(f[k]) : f[k][i] = f[o][i]
      BY <3>2, <3>3, <3>5
    <3>8. Q(o)
      BY <3>6, <3>7
    <3> HIDE DEF Q
    <3> QED BY <3>0, <3>8
  <2>3. Nat \subseteq P
    <3> HIDE DEF P
    <3> QED BY <2>1, <2>2, NatInd
  <2>4. Q(k + j)
    <3> HIDE DEF Q, n
    <3> QED BY <1>3, <2>3
  <2> QED BY <2>4
<1> SUFFICES ASSUME NEW k \in 1..n PROVE Grown(f, s, k)
  OBVIOUS
<1>4. n - k \in Nat /\ k + (n - k) = n /\ n \in 1..n
  BY <1>1
<1>5. Len(f[k]) <= Len(f[n]) /\ \A i \in 1..Len(f[k]) : f[k][i] = f[n][i]
  <2> HIDE DEF n
  <2> QED BY <1>3, <1>4
<1>6. Len(f[n]) \in Nat /\ Len(f[k]) \in Nat \ {0}
  BY <1>2, <1>4
<1>7. Len(f[k]) \in 1..Len(f[n])
  BY <1>5, <1>6
<1> QED BY <1>2, <1>5, <1>7 DEF Grown

-----------------------------------------------------------------------------
\* Resolving a page through part of a map.

\* The lookup finds the first descriptor that covers the page, or none does.
LEMMA CoverIs ==
    ASSUME NEW m \in Seq(Cells), NEW p
    PROVE  \/ FirstCover(m, p) = 0
           \/ /\ FirstCover(m, p) \in 1..Len(m) /\ FirstCover(m, p) # 0
              /\ Covers(m, FirstCover(m, p), p)
              /\ \A j \in 1..FirstCover(m, p) - 1 : ~Covers(m, j, p)
<1> DEFINE T == {i \in 1..Len(m) : Covers(m, i, p)}
           Q(i) == Covers(m, i, p) /\ \A j \in 1..i - 1 : ~Covers(m, j, p)
<1>1. Len(m) \in Nat
  OBVIOUS
<1>2. CASE T = {}
  BY <1>2 DEF FirstCover
<1>3. CASE T # {}
  <2>1. PICK x \in T : \A y \in T : x <= y
    <3>1. T \subseteq Nat
      OBVIOUS
    <3> HIDE DEF T
    <3> QED BY <1>3, <3>1, LeastNat
  <2>2. x \in 1..Len(m) /\ Q(x)
    <3>1. \A j \in 1..x - 1 : j \in 1..Len(m) /\ ~(x <= j)
      BY <1>1, <2>1
    <3> QED BY <2>1, <3>1
  <2>3. FirstCover(m, p) = CHOOSE i \in 1..Len(m) : Q(i)
    BY <1>3 DEF FirstCover
  <2> HIDE DEF Q
  <2>4. FirstCover(m, p) \in 1..Len(m) /\ Q(FirstCover(m, p))
    BY <2>2, <2>3
  <2>5. FirstCover(m, p) # 0
    BY <1>1, <2>4
  <2> QED BY <2>4, <2>5 DEF Q
<1> QED BY <1>2, <1>3

\* There is only one first.
LEMMA CoverUnique ==
    ASSUME NEW m \in Seq(Cells), NEW p, NEW x \in 1..Len(m), Covers(m, x, p),
           \A j \in 1..x - 1 : ~Covers(m, j, p)
    PROVE  FirstCover(m, p) = x
<1> DEFINE Q(i) == Covers(m, i, p) /\ \A j \in 1..i - 1 : ~Covers(m, j, p)
<1>1. Len(m) \in Nat
  OBVIOUS
<1>2. FirstCover(m, p) = CHOOSE i \in 1..Len(m) : Q(i)
  BY DEF FirstCover
<1>3. \A i \in 1..Len(m) : Q(i) => i = x
  <2> SUFFICES ASSUME NEW i \in 1..Len(m), Q(i) PROVE i = x
    OBVIOUS
  <2>1. i < x => i \in 1..x - 1
    BY <1>1
  <2>2. x < i => x \in 1..i - 1
    BY <1>1
  <2>3. ~(i < x) /\ ~(x < i)
    BY <2>1, <2>2
  <2>4. i \in Nat /\ x \in Nat
    BY <1>1
  <2> QED BY <2>3, <2>4
<1>4. Q(x)
  OBVIOUS
<1> HIDE DEF Q
<1> QED BY <1>2, <1>3, <1>4

\* m has the first l entries of the map f, the last of them a boundary, and
\* then only boundaries and what pairs of entries before l say already.
PartTo(m, f, l) ==
    /\ l \in 1..Len(f) /\ l <= Len(m) /\ m[l].vd_blk \in Boundary
    /\ \A i \in 1..l : m[i] = f[i]
    /\ \A i \in l + 1..Len(m) :
         \/ m[i].vd_blk \in Boundary
         \/ i < Len(m) /\ \E j \in 1..l - 1 : m[j] = m[i] /\ m[j + 1] = m[i + 1]

\* What part of a map knows of a page is what the map says of it.
LEMMA PartResolves ==
    ASSUME NEW m \in Seq(Cells), NEW f \in Seq(Cells), NEW l, PartTo(m, f, l), NEW p \in Nat,
           ResolvePage(m, p) # -1
    PROVE  ResolvePage(f, p) = ResolvePage(m, p)
<1>1. Len(m) \in Nat /\ Len(f) \in Nat /\ l \in Nat \ {0}
  <2>1. Len(m) \in Nat /\ Len(f) \in Nat
    OBVIOUS
  <2> QED BY <2>1 DEF PartTo
<1>2. m # <<>> /\ f # <<>>
  <2>1. Len(<<>>) = 0
    OBVIOUS
  <2> QED BY <1>1, <2>1 DEF PartTo
<1> DEFINE i == FirstCover(m, p)
<1>3. i # 0 /\ m[i].vd_blk \notin Boundary /\ ~(BlockOf(m, i, p) > U32)
      /\ ResolvePage(m, p) = BlockOf(m, i, p) \div BLKS
  BY <1>2 DEF ResolvePage
<1>4. /\ i \in 1..Len(m) /\ Covers(m, i, p) /\ \A j \in 1..i - 1 : ~Covers(m, j, p)
  BY <1>3, CoverIs
<1> HIDE DEF i
<1>5. i < l
  <2>1. i # l
    BY <1>3 DEF PartTo
  <2>2. ASSUME i > l PROVE FALSE
    <3>1. i \in l + 1..Len(m)
      BY <1>1, <1>4, <2>2
    <3>2. PICK j \in 1..l - 1 : i < Len(m) /\ m[j] = m[i] /\ m[j + 1] = m[i + 1]
      BY <1>3, <3>1 DEF PartTo
    <3>3. j \in 1..i - 1 /\ j < Len(m)
      BY <1>1, <1>4, <2>2, <3>2
    <3>4. Covers(m, j, p)
      BY <1>4, <3>2, <3>3 DEF Covers
    <3> QED BY <1>4, <3>3, <3>4
  <2> QED BY <1>1, <1>4, <2>1, <2>2
<1>6. \A j \in 1..l - 1 : Covers(f, j, p) <=> Covers(m, j, p)
  <2> TAKE j \in 1..l - 1
  <2>1. j \in 1..l /\ j + 1 \in 1..l /\ j < Len(m) /\ j < Len(f)
    BY <1>1 DEF PartTo
  <2>2. m[j] = f[j] /\ m[j + 1] = f[j + 1]
    BY <2>1 DEF PartTo
  <2> QED BY <2>1, <2>2 DEF Covers
<1>7. i \in 1..l - 1 /\ i \in 1..Len(f) /\ i \in 1..l /\ \A j \in 1..i - 1 : j \in 1..l - 1
  BY <1>1, <1>4, <1>5 DEF PartTo
<1>8. FirstCover(f, p) = i
  BY <1>4, <1>6, <1>7, CoverUnique
<1>9. f[i] = m[i]
  BY <1>7 DEF PartTo
<1>10. BlockOf(f, i, p) = BlockOf(m, i, p)
  BY <1>9 DEF BlockOf
<1> QED BY <1>2, <1>3, <1>8, <1>9, <1>10 DEF ResolvePage

\* What the first records of a chain hold is part of the chain's map.
LEMMA PrefixIsPart ==
    ASSUME NEW s \in Chains, NEW f, Collects(f, s), NEW w \in Nat, Ended(s, w), NEW k \in 1..Len(s)
    PROVE  /\ f[k] \in Seq(Cells) /\ f[Len(s)] \in Seq(Cells) /\ PartTo(f[k], f[Len(s)], Len(f[k]))
<1>1. Len(s) \in Nat
  <2>1. s \in Seq(Record)
    BY DEF Chains
  <2> QED BY <2>1
<1>2. k \in 0..Len(s) /\ Len(s) \in 0..Len(s)
  BY <1>1
<1>3. f[k] \in Seq(Cells) /\ f[Len(s)] \in Seq(Cells)
  BY <1>2 DEF Collects
<1>4. /\ Len(f[k]) \in 1..Len(f[Len(s)]) /\ f[k][Len(f[k])].vd_blk \in Boundary
      /\ \A i \in 1..Len(f[k]) : f[k][i] = f[Len(s)][i]
  BY CollectedGrows DEF Grown
<1>5. Len(f[k]) \in Nat
  BY <1>3
<1>6. Len(f[k]) + 1..Len(f[k]) = {}
  BY <1>5
<1> QED BY <1>3, <1>4, <1>5, <1>6 DEF PartTo

\* A record that is collected again adds nothing that is not said before.
LEMMA AgainIsPart ==
    ASSUME NEW s \in Chains, NEW f, Collects(f, s), NEW w \in Nat, Ended(s, w), NEW k \in 1..Len(s),
           NEW m \in Seq(Cells), PartTo(m, f[Len(s)], Len(f[Len(s)]))
    PROVE  PartTo(m \o s[k].xtnts, f[Len(s)], Len(f[Len(s)]))
<1> DEFINE l == Len(f[Len(s)])
           x == s[k].xtnts
           t == m \o x
<1>1. PICK g : g = f[Len(s)]
  OBVIOUS
<1>2. Len(s) \in Nat /\ Len(s) \in 1..Len(s)
  <2>1. s \in Seq(Record)
    BY DEF Chains
  <2> QED BY <2>1
<1>3. g \in Seq(Cells) /\ x \in Seq(Cells) /\ Len(m) \in Nat /\ l \in Nat \ {0} /\ Len(x) \in Nat \ {0}
      /\ l <= Len(m)
  <2>1. g \in Seq(Cells)
    BY <1>1, <1>2, PrefixIsPart
  <2>2. x \in Seq(Cells) /\ Len(x) \in 1..w
    BY RecordIs DEF Ended
  <2>3. Len(g) \in Nat /\ Len(m) \in Nat
    BY <2>1
  <2> QED BY <1>1, <2>1, <2>2, <2>3 DEF PartTo
<1>4. /\ Len(t) = Len(m) + Len(x)
      /\ \A i \in 1..Len(m) : t[i] = m[i]
      /\ \A i \in 1..Len(x) : t[Len(m) + i] = x[i]
  BY <1>3, Joined
<1>5. /\ Len(f[k]) \in 1..l /\ \A i \in 1..Len(f[k]) : f[k][i] = g[i]
      /\ Len(f[k - 1]) \in Nat /\ Len(f[k]) = Len(f[k - 1]) + Len(x)
      /\ \A q \in 1..Len(x) : f[k][Len(f[k - 1]) + q] = x[q]
  <2>1. /\ Len(f[k]) \in 1..Len(f[Len(s)])
        /\ \A i \in 1..Len(f[k]) : f[k][i] = f[Len(s)][i]
        /\ Len(f[k - 1]) \in Nat /\ Len(f[k]) = Len(f[k - 1]) + Len(s[k].xtnts)
        /\ \A q \in 1..Len(s[k].xtnts) : f[k][Len(f[k - 1]) + q] = s[k].xtnts[q]
    <3>1. Grown(f, s, k)
      <4> HIDE DEF l, x, t
      <4> QED BY CollectedGrows
    <3> QED BY <3>1 DEF Grown
  <2>2. l = Len(f[Len(s)]) /\ x = s[k].xtnts
    OBVIOUS
  <2> HIDE DEF l, x, t
  <2> QED BY <1>1, <2>1, <2>2
<1>6. x[Len(x)].vd_blk \in Boundary
  BY DEF Ended
<1>7. l \in 1..Len(g) /\ m[l].vd_blk \in Boundary /\ \A i \in 1..l : m[i] = g[i]
  BY <1>1 DEF PartTo
<1>8. \A i \in l + 1..Len(m) :
         \/ m[i].vd_blk \in Boundary
         \/ i < Len(m) /\ \E j \in 1..l - 1 : m[j] = m[i] /\ m[j + 1] = m[i + 1]
  BY DEF PartTo
<1> HIDE DEF l, x, t
<1>9. \A i \in 1..l : i \in 1..Len(m)
  BY <1>3
<1>10. PICK b \in Nat : b = Len(f[k - 1])
  BY <1>5
<1>11. b + Len(x) <= l /\ \A q \in 1..Len(x) : b + q \in 1..l /\ m[b + q] = x[q]
  <2>1. b + Len(x) <= l
    BY <1>3, <1>5, <1>10
  <2>2. ASSUME NEW q \in 1..Len(x) PROVE b + q \in 1..l /\ b + q \in 1..Len(f[k])
    BY <1>3, <1>5, <1>10, <2>1
  <2>3. \A q \in 1..Len(x) : m[b + q] = x[q]
    BY <1>5, <1>7, <1>10, <2>2
  <2> QED BY <2>1, <2>2, <2>3
<1>12. ASSUME NEW i \in l + 1..Len(t)
       PROVE  \/ t[i].vd_blk \in Boundary
              \/ i < Len(t) /\ \E j \in 1..l - 1 : t[j] = t[i] /\ t[j + 1] = t[i + 1]
  <2>1. CASE i <= Len(m)
    <3>1. i \in l + 1..Len(m) /\ i \in 1..Len(m)
      BY <1>3, <2>1
    <3>2. CASE m[i].vd_blk \in Boundary
      BY <1>4, <3>1, <3>2
    <3>3. CASE i < Len(m) /\ \E j \in 1..l - 1 : m[j] = m[i] /\ m[j + 1] = m[i + 1]
      <4>1. PICK j \in 1..l - 1 : m[j] = m[i] /\ m[j + 1] = m[i + 1]
        BY <3>3
      <4>2. j \in 1..Len(m) /\ j + 1 \in 1..Len(m) /\ i + 1 \in 1..Len(m)
        BY <1>3, <3>1, <3>3
      <4>3. t[j] = t[i] /\ t[j + 1] = t[i + 1]
        BY <1>4, <3>1, <4>1, <4>2
      <4>4. i < Len(t)
        BY <1>3, <1>4, <3>1, <3>3
      <4> QED BY <4>3, <4>4
    <3> QED BY <1>8, <3>1, <3>2, <3>3
  <2>2. CASE i > Len(m)
    <3>1. PICK q \in 1..Len(x) : i = Len(m) + q
      <4>1. i - Len(m) \in 1..Len(x) /\ i = Len(m) + (i - Len(m))
        BY <1>3, <1>4, <2>2
      <4> QED BY <4>1
    <3>2. CASE q = Len(x)
      BY <1>4, <1>6, <3>1, <3>2
    <3>3. CASE q # Len(x)
      <4>1. q + 1 \in 1..Len(x) /\ i < Len(t) /\ i + 1 = Len(m) + (q + 1)
        BY <1>3, <1>4, <3>1, <3>3
      <4>2. t[i] = x[q] /\ t[i + 1] = x[q + 1]
        BY <1>4, <3>1, <4>1
      <4>3. PICK j \in Nat : j = b + q
        BY <1>3
      <4>4. j + 1 = b + (q + 1) /\ j \in 1..l - 1 /\ j \in 1..l /\ j + 1 \in 1..l
        <5>1. b + q \in 1..l /\ b + (q + 1) \in 1..l
          BY <1>11, <3>1, <4>1
        <5>2. b \in Nat /\ q \in Nat /\ l \in Nat /\ b + (q + 1) = (b + q) + 1
          <6>1. q \in Nat /\ l \in Nat
            BY <1>3, <3>1
          <6>2. \A y, z \in Nat : y + (z + 1) = (y + z) + 1
            OBVIOUS
          <6> QED BY <1>10, <6>1, <6>2
        <5>3. \A y, z \in Nat : y \in 1..z /\ y + 1 \in 1..z => y \in 1..z - 1
          OBVIOUS
        <5>4. j \in 1..l /\ j + 1 \in 1..l /\ j + 1 = b + (q + 1)
          BY <4>3, <5>1, <5>2
        <5> QED BY <4>3, <5>2, <5>3, <5>4
      <4>5. m[j] = x[q] /\ m[j + 1] = x[q + 1]
        BY <1>11, <4>1, <4>3, <4>4
      <4>6. t[j] = m[j] /\ t[j + 1] = m[j + 1]
        BY <1>4, <1>9, <4>4
      <4> QED BY <4>1, <4>2, <4>4, <4>5, <4>6
    <3> QED BY <3>2, <3>3
  <2> QED BY <1>3, <1>4, <2>1, <2>2
<1>13. l <= Len(t) /\ l \in 1..l
  BY <1>3, <1>4
<1>14. t[l].vd_blk \in Boundary /\ \A i \in 1..l : t[i] = g[i]
  BY <1>4, <1>7, <1>9, <1>13
<1>15. PartTo(t, g, l)
  BY <1>7, <1>12, <1>13, <1>14 DEF PartTo
<1> QED BY <1>1, <1>15 DEF l, x, t

-----------------------------------------------------------------------------
\* What the records of a map may add, by the assumption on chains.
FitsWidth(w) ==
    /\ (MaxHops + 1) * w <= MaxMap
    /\ \A d \in Disks, c \in {"rbmt", "bmt"} : \A k \in 1..Len(Recs(d, c)) :
         LET r == Recs(d, c)[k] IN
         /\ Len(r.xtnts) \in 1..w /\ r.xtnts[Len(r.xtnts)].vd_blk \in Boundary
         /\ k > 1 => ResolvePage(KnownAt(d, c, k), r.pg) # -1
Width == CHOOSE w \in 0..MaxMap : FitsWidth(w)

\* Both chains of d are acyclic and within the bound on hops.
Straight(d) ==
    \A c \in {"rbmt", "bmt"} :
      /\ Len(Recs(d, c)) <= MaxHops + 1
      /\ \A k \in 1..Len(Recs(d, c)) : Recs(d, c)[k].next \in {0, k + 1}

\* A walk of chain c of d, with map m, h hops and next record r, is still on its
\* first pass, after k records, and has missed nothing if it is in order.
FirstPass(d, c, m, h, r, inorder, k) ==
    /\ m = Collected(d, c)[k] /\ h = k - 1 /\ r \in {0, Recs(d, c)[k].next}
    /\ inorder => r = Recs(d, c)[k].next

\* Or it is past the last record, which leads back into the chain.
Looping(d, c, m) ==
    /\ Recs(d, c)[Len(Recs(d, c))].next # 0
    /\ PartTo(m, FullMap(d, c), Len(FullMap(d, c)))

Walked(d, c, m, h, r, inorder) ==
    Looping(d, c, m) \/ \E k \in 1..Len(Recs(d, c)) : FirstPass(d, c, m, h, r, inorder, k)

\* What the walk of a chain has collected, and how much.
Collecting ==
    pc = "chain" =>
      /\ Len(map) <= (hops + 1) * Width /\ hops <= MaxHops
      /\ Walked(Disk, which, map, hops, rec, faults = 0 /\ Straight(Disk))

\* The RBMT's map, when the BMT's is being built.
RbmtKnown ==
    pc \in {"build", "chain"} =>
      /\ which = "rbmt" => Disk.version = 4
      /\ which = "bmt" /\ Disk.version = 4 /\ faults = 0 /\ Straight(Disk) =>
           rbmt = FullMap(Disk, "rbmt")

\* The map of a registered volume is part of its BMT's.
RegisteredParts ==
    /\ pc = "open" => Len(vds) = Len(args)
    /\ \A i \in 1..Len(vds) :
         LET d == vds[i].disk IN
         /\ d = args[i]
         /\ \E l \in 1..Len(vds[i].map) : PartTo(vds[i].map, FullMap(d, "bmt"), l)
         /\ faults = 0 /\ Straight(d) => vds[i].map = FullMap(d, "bmt")

\* A page that was read was resolved through the map of the volume found.
ReadFrom ==
    last.res = "ok" =>
      /\ pc = "open" /\ last.page \in Nat
      /\ \E i \in 1..Len(vds) :
           /\ FindVd(last.vd) = i /\ last.disk = {vds[i].disk}
           /\ last.at = ResolvePage(vds[i].map, last.page) /\ last.at # -1

\* The assumption on chains has a witness.
LEMMA WidthIs == Width \in Nat /\ FitsWidth(Width)
<1>1. \E w \in 0..MaxMap : FitsWidth(w)
  BY ChainAssumption DEF FitsWidth
<1>2. Width \in 0..MaxMap /\ FitsWidth(Width)
  <2> HIDE DEF FitsWidth
  <2> QED BY <1>1 DEF Width
<1> QED BY <1>2, DomainAssumption

\* The chains of a disk, and what they hold.
LEMMA DiskChains ==
    ASSUME NEW d \in Disks, NEW c \in {"rbmt", "bmt"}
    PROVE  /\ Recs(d, c) \in Chains /\ Len(Recs(d, c)) \in Nat
           /\ Collects(Collected(d, c), Recs(d, c)) /\ Ended(Recs(d, c), Width)
           /\ FullMap(d, c) = Collected(d, c)[Len(Recs(d, c))] /\ FullMap(d, c) \in Seq(Cells)
<1>1. d \in [version : Nat, id : Nat, vdattr : Optional(Nat), rbmt : Chains, bmt : Chains]
  BY DomainAssumption
<1>2. Recs(d, c) \in Chains
  BY <1>1 DEF Recs
<1>3. Len(Recs(d, c)) \in Nat
  <2>1. Recs(d, c) \in Seq(Record)
    BY <1>2 DEF Chains
  <2> QED BY <2>1
<1>4. Collects(Collected(d, c), Recs(d, c))
  BY <1>2, CollectedIs
<1>5. Ended(Recs(d, c), Width)
  BY WidthIs DEF FitsWidth, Ended
<1>6. FullMap(d, c) = Collected(d, c)[Len(Recs(d, c))]
  BY DEF FullMap
<1>7. FullMap(d, c) \in Seq(Cells)
  BY <1>3, <1>4, <1>6 DEF Collects
<1> QED BY <1>2, <1>3, <1>4, <1>5, <1>6, <1>7

\* A record of a chain is found where it is, through what is known before it.
LEMMA FoundThere ==
    ASSUME NEW d \in Disks, NEW c \in {"rbmt", "bmt"}, c = "rbmt" => d.version = 4,
           NEW k \in 1..Len(Recs(d, c)), k > 1
    PROVE  ResolvePage(KnownAt(d, c, k), Recs(d, c)[k].pg) \in {TruePage(d, c, k)} \ {-1}
<1>1. PICK s, f, p : s = Recs(d, c) /\ f = Collected(d, c) /\ p = s[k].pg
  OBVIOUS
<1>2. /\ s \in Chains /\ Len(s) \in Nat /\ Collects(f, s) /\ Ended(s, Width)
      /\ FullMap(d, c) = f[Len(s)] /\ f[Len(s)] \in Seq(Cells)
  BY <1>1, DiskChains
<1>3. p \in Nat /\ k \in 1..Len(s)
  BY <1>1, <1>2, RecordIs
<1>4. ResolvePage(KnownAt(d, c, k), p) # -1
  BY <1>1, WidthIs DEF FitsWidth
<1>5. CASE c = "bmt" /\ d.version = 4
  <2>1. KnownAt(d, c, k) = FullMap(d, "rbmt")
    BY <1>5 DEF KnownAt
  <2>2. TruePage(d, c, k) = ResolvePage(FullMap(d, "rbmt"), p)
    BY <1>1, <1>5 DEF TruePage
  <2> QED BY <1>1, <1>4, <2>1, <2>2
<1>6. CASE ~(c = "bmt" /\ d.version = 4)
  <2>1. KnownAt(d, c, k) = f[k - 1]
    BY <1>1, <1>6 DEF KnownAt
  <2>2. TruePage(d, c, k) = ResolvePage(f[Len(s)], p)
    <3>1. (IF d.version = 4 THEN "rbmt" ELSE "bmt") = c
      BY <1>6
    <3> QED BY <1>1, <1>2, <3>1 DEF TruePage
  <2>3. k - 1 \in 1..Len(s)
    BY <1>2, <1>3
  <2>4. f[k - 1] \in Seq(Cells) /\ PartTo(f[k - 1], f[Len(s)], Len(f[k - 1]))
    <3>1. PICK j : j = k - 1
      OBVIOUS
    <3> QED BY <1>2, <2>3, <3>1, WidthIs, PrefixIsPart
  <2>5. ResolvePage(f[Len(s)], p) = ResolvePage(f[k - 1], p)
    <3>1. ResolvePage(f[k - 1], p) # -1
      BY <1>4, <2>1
    <3> QED BY <1>2, <1>3, <2>4, <3>1, PartResolves
  <2> QED BY <1>1, <1>4, <2>1, <2>2, <2>5
<1> QED BY <1>5, <1>6

\* Room for one more record: the bound on hops is met before the map is full.
LEMMA RoomLeft ==
    ASSUME NEW h \in Nat, h < MaxHops, NEW m \in Nat, m <= (h + 1) * Width, NEW l \in 1..Width
    PROVE  m + l <= (h + 1 + 1) * Width /\ m + l <= MaxMap
<1>1. PICK w \in Nat : w = Width
  BY WidthIs
<1>2. (MaxHops + 1) * w <= MaxMap /\ MaxHops \in Nat /\ MaxMap \in Nat
  BY <1>1, WidthIs, DomainAssumption DEF FitsWidth
<1>3. (h + 1 + 1) * w = (h + 1) * w + w
  BY <1>1
<1>4. PICK r \in Nat : MaxHops + 1 = (h + 1 + 1) + r
  <2>1. MaxHops + 1 - (h + 1 + 1) \in Nat
    BY <1>2
  <2> QED BY <1>2, <2>1
<1>5. (MaxHops + 1) * w = (h + 1 + 1) * w + r * w
  BY <1>2, <1>4
<1>6. r * w \in Nat /\ (h + 1 + 1) * w \in Nat /\ (h + 1) * w \in Nat
  BY <1>1, <1>4
<1>7. m + l <= (h + 1) * w + w
  BY <1>1, <1>6
<1> QED BY <1>1, <1>2, <1>3, <1>5, <1>6, <1>7

\* The facts about the volume being opened that the steps below share.
LEMMA OpeningIs ==
    ASSUME DomainType, pc \in {"discover", "build", "chain"}
    PROVE  /\ Disk \in Disks /\ which \in {"rbmt", "bmt"} /\ Len(vds) \in Nat
           /\ Disk = args[Len(vds) + 1]
<1>1. args \in ArgLists /\ vds \in Seq(Opened) /\ Len(vds) < Len(args) /\ which \in {"rbmt", "bmt"}
  BY DEF DomainType
<1> QED BY <1>1, DiskType DEF Disk

\* A hop collects the next record, or what was collected already.
LEMMA FollowCollects ==
    ASSUME DomainType, Collecting, RbmtKnown, Follow
    PROVE  Collecting'
<1>1. /\ pc = "chain" /\ rec # 0 /\ hops < MaxHops /\ hops \in Nat /\ map \in Seq(Cells)
      /\ UNCHANGED <<args, pc, vds, which, rbmt, faults>>
  BY DEF DomainType, Follow, Hop
<1>2. Disk' = Disk
  BY <1>1 DEF Disk
<1>3. PICK d, c, s, f, n, ok : /\ d = Disk /\ c = which /\ s = Recs(d, c) /\ f = Collected(d, c)
                                /\ n = Len(s) /\ ok = (faults = 0 /\ Straight(Disk))
  OBVIOUS
<1>4. /\ d \in Disks /\ c \in {"rbmt", "bmt"} /\ s \in Chains /\ n \in Nat /\ Collects(f, s)
      /\ Ended(s, Width) /\ FullMap(d, c) = f[n] /\ f[n] \in Seq(Cells) /\ Width \in Nat
  <2>1. d \in Disks /\ c \in {"rbmt", "bmt"}
    BY <1>1, <1>3, OpeningIs
  <2> QED BY <1>3, <2>1, DiskChains, WidthIs
<1>5. rec \in 1..n /\ n \in 1..n
  <2>1. rec \in 1..n
    BY <1>1, <1>3 DEF DomainType
  <2> QED BY <1>4, <2>1
<1>6. PICK this, x : this = s[rec] /\ x = this.xtnts
  OBVIOUS
<1>7. x \in Seq(Cells) /\ Len(x) \in 1..Width
  BY <1>3, <1>4, <1>5, <1>6, RecordIs DEF Ended
<1>8. /\ Len(map) \in Nat /\ Len(map) <= (hops + 1) * Width
      /\ Walked(d, c, map, hops, rec, ok)
  <2>1. Len(map) \in Nat
    BY <1>1
  <2> QED BY <1>1, <1>3, <2>1 DEF Collecting
<1> DEFINE First(k) == FirstPass(d, c, map, hops, rec, ok, k)
           Next1(k) == FirstPass(d, c, map', hops', rec', ok, k)
<1>9. ASSUME NEW k \in 1..n, First(k)
      PROVE  /\ map = f[k] /\ hops = k - 1 /\ rec = s[k].next /\ PartTo(f[k], f[n], Len(f[k]))
             /\ k < n => rec = k + 1
             /\ k = n => s[n].next # 0 /\ PartTo(map, f[n], Len(f[n]))
  <2>1. map = f[k] /\ hops = k - 1 /\ rec = s[k].next
    BY <1>1, <1>3, <1>9 DEF FirstPass
  <2>2. PartTo(f[k], f[n], Len(f[k]))
    BY <1>3, <1>4, PrefixIsPart
  <2>3. k < n => rec = k + 1
    BY <1>3, <1>4, <2>1, RecordIs
  <2> QED BY <1>1, <2>1, <2>2, <2>3
<1>10. \/ rec' = 0 /\ map' = map /\ hops' = hops
          /\ ResolvePage(Resolver, this.pg) \notin {TruePage(d, c, rec)} \ {-1}
       \/ rec' = this.next /\ map' = map \o x /\ hops' = hops + 1
  <2>0. PICK y : y = SubSeq(map \o x, 1, IF Len(map \o x) < MaxMap THEN Len(map \o x) ELSE MaxMap)
    OBVIOUS
  <2>1. \/ /\ rec' = 0 /\ map' = map /\ hops' = hops
           /\ ResolvePage(Resolver, this.pg) \notin {TruePage(d, c, rec)} \ {-1}
        \/ /\ rec' = this.next /\ hops' = hops + 1
           /\ map' = y
    BY <1>3, <1>6, <2>0 DEF Follow, Hop
  <2>2. Len(map) + Len(x) <= MaxMap
    <3>1. PICK a, b : a = Len(map) /\ b = Len(x)
      OBVIOUS
    <3>2. a \in Nat /\ a <= (hops + 1) * Width /\ b \in 1..Width
      BY <1>7, <1>8, <3>1
    <3> QED BY <1>1, <3>1, <3>2, RoomLeft
  <2>3. y = map \o x
    <3>1. PICK h \in Nat : h = MaxMap
      BY DomainAssumption
    <3>2. SubSeq(map \o x, 1, IF Len(map \o x) < h THEN Len(map \o x) ELSE h) = map \o x
      BY <1>1, <1>7, <2>2, <3>1, CutIs
    <3> QED BY <2>0, <3>1, <3>2
  <2> QED BY <2>1, <2>3
<1>11. Len(map') <= (hops' + 1) * Width /\ hops' <= MaxHops
  <2>1. CASE map' = map /\ hops' = hops
    BY <1>1, <1>8, <2>1, DomainAssumption
  <2>2. CASE map' = map \o x /\ hops' = hops + 1
    <3>1. Len(map \o x) = Len(map) + Len(x)
      BY <1>1, <1>7, Joined
    <3>2. Len(map) + Len(x) <= (hops + 1 + 1) * Width
      BY <1>1, <1>7, <1>8, RoomLeft
    <3> QED BY <1>1, <2>2, <3>1, <3>2, DomainAssumption
  <2> QED BY <1>10, <2>1, <2>2
<1>12. ASSUME s[n].next # 0, PartTo(map', f[n], Len(f[n])) PROVE Looping(d, c, map')
  BY <1>3, <1>4, <1>12 DEF Looping
<1>13. SUFFICES Looping(d, c, map') \/ \E k \in 1..n : Next1(k)
  <2>1. Disk' = d /\ which' = c /\ (faults' = 0 /\ Straight(Disk')) = ok
    BY <1>1, <1>2, <1>3
  <2>2. Walked(d, c, map', hops', rec', ok)
    BY <1>3 DEF Walked
  <2>3. Collecting' = (pc' = "chain" =>
           /\ Len(map') <= (hops' + 1) * Width /\ hops' <= MaxHops
           /\ Walked(Disk', which', map', hops', rec', faults' = 0 /\ Straight(Disk')))
    BY DEF Collecting
  <2> QED BY <1>11, <2>1, <2>2, <2>3
<1>14. CASE rec' = 0 /\ map' = map /\ hops' = hops
            /\ ResolvePage(Resolver, this.pg) \notin {TruePage(d, c, rec)} \ {-1}
  <2>1. CASE Looping(d, c, map)
    BY <1>14, <2>1
  <2>2. ASSUME NEW k \in 1..n, First(k) PROVE Looping(d, c, map') \/ Next1(k)
    <3>1. CASE k = n
      BY <1>9, <1>12, <1>14, <2>2, <3>1
    <3>2. CASE k < n
      <4>1. rec = k + 1 /\ map = f[k] /\ hops = k - 1
        BY <1>9, <2>2, <3>2
      <4>2. ~ok
        <5> SUFFICES ASSUME faults = 0, Straight(Disk) PROVE FALSE
          BY <1>3
        <5>1. c = "rbmt" => d.version = 4
          BY <1>1, <1>3 DEF RbmtKnown
        <5>2. rec > 1 /\ rec - 1 = k
          BY <4>1
        <5>3. Resolver = KnownAt(d, c, rec)
          <6>1. CASE c = "bmt" /\ d.version = 4
            BY <1>1, <1>3, <6>1 DEF Resolver, KnownAt, RbmtKnown
          <6>2. CASE ~(c = "bmt" /\ d.version = 4)
            BY <1>3, <4>1, <5>2, <6>2 DEF Resolver, KnownAt
          <6> QED BY <6>1, <6>2
        <5>4. ResolvePage(KnownAt(d, c, rec), Recs(d, c)[rec].pg) \in {TruePage(d, c, rec)} \ {-1}
          BY <1>3, <1>4, <1>5, <5>1, <5>2, FoundThere
        <5> QED BY <1>3, <1>6, <1>14, <5>3, <5>4
      <4> QED BY <1>3, <1>14, <4>1, <4>2 DEF FirstPass
    <3> QED BY <1>4, <3>1, <3>2
  <2> HIDE DEF Next1, First
  <2> QED BY <1>8, <2>1, <2>2, <1>3 DEF Walked, First
<1>15. CASE rec' = this.next /\ map' = map \o x /\ hops' = hops + 1
  <2>1. ASSUME s[n].next # 0, PartTo(map, f[n], Len(f[n])) PROVE Looping(d, c, map')
    <3>1. PartTo(map \o x, f[n], Len(f[n]))
      BY <1>1, <1>3, <1>4, <1>5, <1>6, <2>1, AgainIsPart
    <3> QED BY <1>12, <1>15, <2>1, <3>1
  <2>2. CASE Looping(d, c, map)
    BY <1>3, <1>4, <2>1, <2>2 DEF Looping
  <2>3. ASSUME NEW k \in 1..n, First(k) PROVE Looping(d, c, map') \/ Next1(rec)
    <3>1. CASE k = n
      BY <1>9, <2>1, <2>3, <3>1
    <3>2. CASE k < n
      <4>1. rec = k + 1 /\ map = f[k] /\ hops = k - 1 /\ k = rec - 1
        BY <1>9, <2>3, <3>2
      <4>2. f[rec] = f[rec - 1] \o x
        BY <1>3, <1>4, <1>5, <1>6 DEF Collects
      <4>3. map' = f[rec]
        BY <1>15, <4>1, <4>2
      <4>4. hops' = rec - 1 /\ rec' = s[rec].next
        BY <1>6, <1>15, <4>1
      <4> QED BY <1>3, <4>3, <4>4 DEF FirstPass
    <3> QED BY <1>4, <3>1, <3>2
  <2> HIDE DEF Next1, First
  <2> QED BY <1>3, <1>5, <1>8, <2>2, <2>3 DEF Walked, First
<1> HIDE DEF Next1
<1> QED BY <1>10, <1>14, <1>15

\* When a walk ends it has collected part of the map, and if all was in order
\* the whole of it.
LEMMA WalkEnds ==
    ASSUME DomainType, Collecting, pc = "chain", rec = 0 \/ hops >= MaxHops
    PROVE  /\ \E l \in 1..Len(map) : PartTo(map, FullMap(Disk, which), l)
           /\ faults = 0 /\ Straight(Disk) => map = FullMap(Disk, which)
<1>1. PICK d, c, s, f, n, ok : /\ d = Disk /\ c = which /\ s = Recs(d, c) /\ f = Collected(d, c)
                               /\ n = Len(s) /\ ok = (faults = 0 /\ Straight(Disk))
  OBVIOUS
<1>2. /\ d \in Disks /\ c \in {"rbmt", "bmt"} /\ s \in Chains /\ n \in Nat /\ Collects(f, s)
      /\ Ended(s, Width) /\ FullMap(d, c) = f[n] /\ f[n] \in Seq(Cells) /\ Width \in Nat
  <2>1. d \in Disks /\ c \in {"rbmt", "bmt"}
    BY <1>1, OpeningIs
  <2> QED BY <1>1, <2>1, DiskChains, WidthIs
<1>3. Walked(d, c, map, hops, rec, ok) /\ map \in Seq(Cells) /\ Len(map) \in Nat
  BY <1>1 DEF Collecting, DomainType
<1>4. CASE Looping(d, c, map)
  <2>1. s[n].next # 0 /\ PartTo(map, f[n], Len(f[n]))
    BY <1>1, <1>2, <1>4 DEF Looping
  <2>2. Len(f[n]) \in 1..Len(map)
    <3>1. Len(f[n]) \in Nat
      BY <1>2
    <3> QED BY <1>3, <2>1, <3>1 DEF PartTo
  <2>3. ~Straight(d)
    <3> SUFFICES ASSUME Straight(d) PROVE FALSE
      OBVIOUS
    <3>1. CASE n = 0
      <4>1. f[n] = <<>>
        BY <1>2, <3>1 DEF Collects
      <4> QED BY <2>1, <4>1 DEF PartTo
    <3>2. CASE n # 0
      <4>1. n \in 1..n
        BY <1>2, <3>2
      <4>2. s[n].next \in {0, n + 1}
        BY <1>1, <1>2, <4>1 DEF Straight
      <4>3. s[n].next \in {0} \cup 2..n
        BY <1>1, <1>2, <4>1, RecordIs
      <4> QED BY <1>2, <2>1, <4>2, <4>3
    <3> QED BY <3>1, <3>2
  <2> QED BY <1>1, <1>2, <2>1, <2>2, <2>3
<1>5. ASSUME NEW k \in 1..n, FirstPass(d, c, map, hops, rec, ok, k)
      PROVE  /\ \E l \in 1..Len(map) : PartTo(map, FullMap(Disk, which), l)
             /\ faults = 0 /\ Straight(Disk) => map = FullMap(Disk, which)
  <2>1. map = f[k] /\ hops = k - 1 /\ (ok => rec = s[k].next)
    BY <1>1, <1>5 DEF FirstPass
  <2>2. PartTo(f[k], f[n], Len(f[k]))
    BY <1>1, <1>2, PrefixIsPart
  <2>3. Len(map) \in 1..Len(map)
    <3>1. Len(f[k]) \in 1..Len(f[n])
      BY <2>2 DEF PartTo
    <3>2. Len(f[k]) \in Nat
      BY <1>3, <2>1
    <3> QED BY <2>1, <3>1, <3>2
  <2>4. ASSUME ok PROVE k = n
    <3>1. Straight(d) /\ rec = s[k].next
      BY <1>1, <2>1, <2>4
    <3>2. n <= MaxHops + 1
      BY <1>1, <1>2, <3>1 DEF Straight
    <3>3. k < n => rec = k + 1
      BY <1>1, <1>2, <3>1, RecordIs
    <3> QED BY <1>2, <2>1, <3>2, <3>3, DomainAssumption
  <2> QED BY <1>1, <1>2, <2>1, <2>2, <2>3, <2>4
<1> QED BY <1>1, <1>3, <1>4, <1>5 DEF Walked

-----------------------------------------------------------------------------
\* The invariant behind what is read from a domain.
Gathered == Collecting /\ RbmtKnown /\ RegisteredParts /\ ReadFrom

\* Nothing has been gathered in the initial states.
LEMMA GatheredInitial == DomainInit => Gathered
<1> SUFFICES ASSUME DomainInit PROVE Gathered
  OBVIOUS
<1>1. pc = "args" /\ vds = <<>> /\ last.res = "none" /\ Len(vds) = 0
  <2>1. Len(<<>>) = 0
    OBVIOUS
  <2> QED BY <2>1 DEF DomainInit, NoPage
<1> QED BY <1>1 DEF Gathered, Collecting, RbmtKnown, RegisteredParts, ReadFrom

\* Steps before the domain is open that register nothing.
LEMMA Quiet ==
    ASSUME RegisteredParts, ReadFrom, pc # "open", pc' # "open", UNCHANGED <<args, vds, last>>,
           faults' = 0 => faults = 0
    PROVE  RegisteredParts' /\ ReadFrom'
<1>1. ReadFrom'
  BY DEF ReadFrom
<1>2. RegisteredParts'
  <2>1. ASSUME NEW i \in 1..Len(vds)
        PROVE  /\ vds[i].disk = args[i]
               /\ \E l \in 1..Len(vds[i].map) : PartTo(vds[i].map, FullMap(vds[i].disk, "bmt"), l)
               /\ faults' = 0 /\ Straight(vds[i].disk) => vds[i].map = FullMap(vds[i].disk, "bmt")
    BY DEF RegisteredParts
  <2> QED BY <2>1 DEF RegisteredParts
<1> QED BY <1>1, <1>2

\* The steps before the maps gather nothing.
LEMMA OpenKeeps ==
    ASSUME DomainType, Gathered, Args \/ Discover \/ DiscoverFails
    PROVE  Gathered'
<1>1. /\ UNCHANGED <<args, vds, last>> /\ pc \in {"args", "discover"}
      /\ pc' \notin {"open", "chain"} /\ (faults' = 0 => faults = 0)
      /\ pc' = "build" => pc = "discover" /\ which' = IF Disk.version = 4 THEN "rbmt" ELSE "bmt"
  <2>1. faults \in Nat
    BY DEF DomainType
  <2>2. CASE Args
    BY <2>2 DEF Args
  <2>3. CASE Discover
    BY <2>3 DEF Discover, Refusal
  <2>4. CASE DiscoverFails
    BY <2>1, <2>4 DEF DiscoverFails
  <2> QED BY <2>2, <2>3, <2>4
<1>2. Disk' = Disk
  BY <1>1 DEF Disk
<1>3. RbmtKnown'
  BY <1>1, <1>2 DEF RbmtKnown
<1>4. Collecting'
  BY <1>1 DEF Collecting
<1>5. RegisteredParts' /\ ReadFrom'
  BY <1>1, Quiet DEF Gathered
<1> QED BY <1>3, <1>4, <1>5 DEF Gathered

\* The primary record is the first of its chain.
LEMMA BuildGathers ==
    ASSUME DomainType, Gathered, BuildStart
    PROVE  Gathered'
<1>1. /\ pc = "build" /\ UNCHANGED <<args, vds, last, which, rbmt, faults>>
      /\ pc' \in {"EILSEQ", "chain"}
  BY DEF BuildStart
<1>2. Disk' = Disk
  BY <1>1 DEF Disk
<1>3. RbmtKnown'
  BY <1>1, <1>2 DEF RbmtKnown, Gathered
<1>4. RegisteredParts' /\ ReadFrom'
  BY <1>1, Quiet DEF Gathered
<1>5. Collecting'
  <2> SUFFICES ASSUME pc' = "chain" PROVE Collecting'
    BY DEF Collecting
  <2>1. PICK d, c, s, f, n : /\ d = Disk /\ c = which /\ s = Recs(d, c) /\ f = Collected(d, c)
                             /\ n = Len(s)
    OBVIOUS
  <2>2. s # <<>> /\ map' = s[1].xtnts /\ rec' = s[1].next /\ hops' = 0
    BY <2>1 DEF BuildStart
  <2>3. /\ d \in Disks /\ c \in {"rbmt", "bmt"} /\ s \in Chains /\ n \in Nat /\ Collects(f, s)
        /\ Ended(s, Width) /\ Width \in Nat
    <3>1. d \in Disks /\ c \in {"rbmt", "bmt"}
      BY <1>1, <2>1, OpeningIs
    <3> QED BY <2>1, <3>1, DiskChains, WidthIs
  <2>4. 1 \in 1..n
    <3>1. s \in Seq(Record)
      BY <2>3 DEF Chains
    <3>2. ASSUME NEW F, NEW q \in Seq(F), q # <<>> PROVE 1 \in 1..Len(q)
      BY <3>2
    <3> QED BY <2>1, <2>2, <3>1, <3>2
  <2>5. s[1].xtnts \in Seq(Cells) /\ Len(s[1].xtnts) \in 1..Width
    BY <2>1, <2>3, <2>4, RecordIs DEF Ended
  <2>6. f[1] = s[1].xtnts
    <3>1. f[1] = f[0] \o s[1].xtnts /\ f[0] = <<>>
      <4>1. PICK o : o = 1
        OBVIOUS
      <4>2. o \in 1..n /\ o - 1 = 0
        BY <2>4, <4>1
      <4>3. f[o] = f[o - 1] \o s[o].xtnts /\ f[0] = <<>>
        BY <2>1, <2>3, <4>2 DEF Collects
      <4> QED BY <4>1, <4>2, <4>3
    <3>2. ASSUME NEW F, NEW q \in Seq(F) PROVE <<>> \o q = q
      BY <3>2
    <3> QED BY <2>5, <3>1, <3>2
  <2>7. Len(map') <= (hops' + 1) * Width /\ hops' <= MaxHops
    BY <2>2, <2>3, <2>5, DomainAssumption
  <2>8. ASSUME NEW ok PROVE Walked(d, c, map', hops', rec', ok)
    <3>1. FirstPass(d, c, map', hops', rec', ok, 1)
      BY <2>1, <2>2, <2>6 DEF FirstPass
    <3> QED BY <2>1, <2>4, <3>1 DEF Walked
  <2>9. Walked(Disk', which', map', hops', rec', faults' = 0 /\ Straight(Disk'))
    BY <1>1, <1>2, <2>1, <2>8
  <2> QED BY <2>7, <2>9 DEF Collecting
<1> QED BY <1>3, <1>4, <1>5 DEF Gathered

\* A hop, and one that cannot be made, keep what was gathered.
LEMMA FollowGathers ==
    ASSUME DomainType, Gathered, Follow \/ FollowFails
    PROVE  Gathered'
<1>1. /\ pc = "chain" /\ UNCHANGED <<args, pc, vds, last, which, rbmt>> /\ (faults' = 0 => faults = 0)
  <2>1. faults \in Nat
    BY DEF DomainType
  <2> QED BY <2>1 DEF Follow, Hop, FollowFails
<1>2. Disk' = Disk
  BY <1>1 DEF Disk
<1>3. RbmtKnown'
  BY <1>1, <1>2 DEF RbmtKnown, Gathered
<1>4. RegisteredParts' /\ ReadFrom'
  BY <1>1, Quiet DEF Gathered
<1>5. CASE Follow
  BY <1>3, <1>4, <1>5, FollowCollects DEF Gathered
<1>6. CASE FollowFails
  <2>1. rec' = 0 /\ faults' # 0 /\ map' = map /\ hops' = hops
    BY <1>6 DEF FollowFails, DomainType
  <2>2. ASSUME NEW d, NEW c, NEW ok, Walked(d, c, map, hops, rec, ok)
        PROVE  Walked(d, c, map, hops, 0, FALSE)
    BY <2>2 DEF Walked, FirstPass
  <2>3. (faults' = 0 /\ Straight(Disk')) = FALSE
    BY <2>1
  <2>4. Walked(Disk, which, map, hops, rec, faults = 0 /\ Straight(Disk))
    BY <1>1 DEF Collecting, Gathered
  <2>5. Walked(Disk', which', map', hops', rec', faults' = 0 /\ Straight(Disk'))
    BY <1>1, <1>2, <2>1, <2>2, <2>3, <2>4
  <2>6. Collecting'
    BY <1>1, <2>1, <2>5 DEF Collecting, Gathered
  <2> QED BY <1>3, <1>4, <2>6 DEF Gathered
<1> QED BY <1>5, <1>6

\* The RBMT's map is handed to the BMT's.
LEMMA RbmtGathers ==
    ASSUME DomainType, Gathered, RbmtDone
    PROVE  Gathered'
<1>1. /\ pc = "chain" /\ pc' = "build" /\ which = "rbmt" /\ which' = "bmt" /\ rbmt' = map
      /\ UNCHANGED <<args, vds, last, faults>> /\ (rec = 0 \/ hops >= MaxHops)
  BY DEF RbmtDone
<1>2. Disk' = Disk
  BY <1>1 DEF Disk
<1>3. faults = 0 /\ Straight(Disk) => map = FullMap(Disk, "rbmt")
  BY <1>1, WalkEnds DEF Gathered
<1>4. RbmtKnown'
  BY <1>1, <1>2, <1>3 DEF RbmtKnown
<1>5. Collecting'
  BY <1>1 DEF Collecting
<1>6. RegisteredParts' /\ ReadFrom'
  BY <1>1, Quiet DEF Gathered
<1> QED BY <1>4, <1>5, <1>6 DEF Gathered

\* The map registered is the one collected.
LEMMA RegisterGathers ==
    ASSUME DomainType, NextIndex, Gathered, Register
    PROVE  Gathered'
<1>1. /\ pc = "chain" /\ which = "bmt" /\ (rec = 0 \/ hops >= MaxHops)
      /\ vds' = Append(vds, [disk |-> Disk, vd_index |-> vdIndex, map |-> map])
      /\ pc' = (IF Len(vds) + 1 = Len(args) THEN "open" ELSE "discover")
      /\ UNCHANGED <<args, faults, last>>
  BY DEF Register
<1>2. RbmtKnown' /\ Collecting'
  BY <1>1 DEF RbmtKnown, Collecting
<1>3. ReadFrom'
  BY <1>1 DEF ReadFrom, Gathered
<1>4. /\ Len(vds) \in Nat /\ Len(vds') = Len(vds) + 1
      /\ vds'[Len(vds')] = [disk |-> Disk, vd_index |-> vdIndex, map |-> map]
      /\ \A i \in 1..Len(vds) : vds'[i] = vds[i]
      /\ \A i \in 1..Len(vds') : i = Len(vds') \/ i \in 1..Len(vds)
  <2>1. PICK v : v = vds'
    OBVIOUS
  <2> QED BY <1>1, <2>1, Registered
<1>5. /\ \E l \in 1..Len(map) : PartTo(map, FullMap(Disk, "bmt"), l)
      /\ faults = 0 /\ Straight(Disk) => map = FullMap(Disk, "bmt")
  BY <1>1, WalkEnds DEF Gathered
<1> DEFINE Good(v, i) ==
             /\ v.disk = args[i]
             /\ \E l \in 1..Len(v.map) : PartTo(v.map, FullMap(v.disk, "bmt"), l)
             /\ faults = 0 /\ Straight(v.disk) => v.map = FullMap(v.disk, "bmt")
<1>6. \A i \in 1..Len(vds) : Good(vds[i], i)
  BY DEF RegisteredParts, Gathered
<1>7. Good(vds'[Len(vds')], Len(vds'))
  <2>1. PICK v : v = vds'[Len(vds')]
    OBVIOUS
  <2>2. v.disk = Disk /\ v.map = map
    BY <1>4, <2>1
  <2>3. Disk = args[Len(vds')]
    BY <1>4 DEF Disk
  <2>4. Good(v, Len(vds'))
    BY <1>5, <2>2, <2>3
  <2> QED BY <2>1, <2>4
<1>8. \A i \in 1..Len(vds') : Good(vds'[i], i)
  <2> HIDE DEF Good
  <2> QED BY <1>4, <1>6, <1>7
<1>9. pc' = "open" => Len(vds') = Len(args)
  BY <1>1, <1>4
<1>10. RegisteredParts'
  BY <1>1, <1>8, <1>9 DEF RegisteredParts
<1> QED BY <1>2, <1>3, <1>10 DEF Gathered

\* domain_find_vd returns a volume of the table.
LEMMA FindVdInTable ==
    ASSUME vds \in Seq(Opened), NEW n, FindVd(n) # 0
    PROVE  FindVd(n) \in 1..Len(vds)
<1>1. Len(vds) \in Nat
  OBVIOUS
<1>2. vds # <<>>
  BY DEF FindVd
<1>3. 1 \in 1..Len(vds)
  BY <1>2
<1>4. CASE n = 0
  BY <1>2, <1>3, <1>4 DEF FindVd
<1>5. CASE n # 0
  <2> DEFINE T == {j \in 1..Len(vds) : vds[j].vd_index = n}
             Q(j) == vds[j].vd_index = n /\ \A k \in 1..j - 1 : vds[k].vd_index # n
  <2>1. T # {} /\ T \subseteq Nat
    BY <1>1, <1>2, <1>5 DEF FindVd
  <2>2. PICK x \in T : \A y \in T : x <= y
    <3> HIDE DEF T
    <3> QED BY <2>1, LeastNat
  <2>3. x \in 1..Len(vds) /\ Q(x)
    <3>1. \A j \in 1..x - 1 : j \in 1..Len(vds) /\ ~(x <= j)
      BY <1>1, <2>2
    <3> QED BY <2>2, <3>1
  <2>4. FindVd(n) = CHOOSE j \in 1..Len(vds) : Q(j)
    BY <1>2, <1>5, <2>3 DEF FindVd
  <2> HIDE DEF Q
  <2> QED BY <2>3, <2>4
<1> QED BY <1>4, <1>5

\* A page is read through the map of the volume found.
LEMMA ReadGathers ==
    ASSUME DomainType, Gathered, NEW n \in VdNums, NEW p \in Pages, ReadBmtPage(n, p)
    PROVE  Gathered'
<1>1. pc = "open" /\ UNCHANGED <<args, pc, vds, vdIndex, which, map, rec, hops, rbmt, faults>>
  BY DEF ReadBmtPage
<1>2. RbmtKnown' /\ Collecting' /\ RegisteredParts'
  BY <1>1 DEF RbmtKnown, Collecting, RegisteredParts, Gathered
<1>3. ReadFrom'
  <2> SUFFICES ASSUME last'.res = "ok" PROVE ReadFrom'
    BY DEF ReadFrom
  <2>1. PICK i : i = FindVd(n)
    OBVIOUS
  <2>2. PICK b : b = ResolvePage(vds[i].map, p)
    OBVIOUS
  <2>3. last' = IF i = 0 \/ b = -1
                THEN [NoPage EXCEPT !.vd = n, !.page = p, !.res = "ENOENT"]
                ELSE [vd |-> n, page |-> p, res |-> "ok", disk |-> {vds[i].disk}, at |-> b]
    BY <2>1, <2>2 DEF ReadBmtPage
  <2>4. i # 0 /\ b # -1
    BY <2>3 DEF NoPage
  <2>5. /\ last'.vd = n /\ last'.page = p /\ last'.disk = {vds[i].disk} /\ last'.at = b
    BY <2>3, <2>4
  <2>6. i \in 1..Len(vds)
    BY <2>1, <2>4, FindVdInTable DEF DomainType
  <2>7. FindVd(n)' = i
    BY <1>1, <2>1 DEF FindVd
  <2>8. FindVd(last.vd)' = i
    BY <2>5, <2>7 DEF FindVd
  <2>9. p \in Nat
    BY DomainAssumption
  <2>10. \E j \in 1..Len(vds') : /\ FindVd(last.vd)' = j /\ last'.disk = {vds'[j].disk}
                                 /\ last'.at = ResolvePage(vds'[j].map, last'.page) /\ last'.at # -1
    BY <1>1, <2>2, <2>4, <2>5, <2>6, <2>8
  <2> QED BY <1>1, <2>5, <2>9, <2>10 DEF ReadFrom
<1> QED BY <1>2, <1>3 DEF Gathered

\* Every step keeps what was gathered.
LEMMA GatheredStep ==
    ASSUME DomainType, NextIndex, Gathered, [DomainNext]_domainVars
    PROVE  Gathered'
<1>1. CASE UNCHANGED domainVars
  <2>1. UNCHANGED <<args, pc, vds, vdIndex, which, map, rec, hops, rbmt, faults, last>>
    BY <1>1 DEF domainVars
  <2>2. Disk' = Disk
    BY <2>1 DEF Disk
  <2>3. Collecting'
    BY <2>1, <2>2 DEF Gathered, Collecting
  <2>4. RbmtKnown'
    BY <2>1, <2>2 DEF Gathered, RbmtKnown
  <2>5. RegisteredParts'
    BY <2>1 DEF Gathered, RegisteredParts
  <2>6. ReadFrom'
    <3>1. FindVd(last.vd)' = FindVd(last.vd)
      BY <2>1 DEF FindVd
    <3> QED BY <2>1, <3>1 DEF Gathered, ReadFrom
  <2> QED BY <2>3, <2>4, <2>5, <2>6 DEF Gathered
<1>2. CASE CloseDomain
  <2>1. pc' = "closed" /\ vds' = <<>> /\ last'.res = "none" /\ Len(vds') = 0
    <3>1. Len(<<>>) = 0
      OBVIOUS
    <3> QED BY <1>2, <3>1 DEF CloseDomain, NoPage
  <2> QED BY <2>1 DEF Gathered, Collecting, RbmtKnown, RegisteredParts, ReadFrom
<1> QED BY <1>1, <1>2, OpenKeeps, BuildGathers, FollowGathers, RbmtGathers, RegisterGathers, ReadGathers
    DEF DomainNext, OpenStep, OpenFault, Closed

\* What is read lies where the map on that volume's own disk says.
LEMMA GatheredReads ==
    ASSUME DomainType, Gathered
    PROVE  ReadsRightPage
<1> SUFFICES ASSUME last.res = "ok"
             PROVE  \E d \in last.disk : /\ vds[FindVd(last.vd)].disk = d
                                         /\ last.at = ResolvePage(FullMap(d, "bmt"), last.page)
  BY DEF ReadsRightPage
<1>1. PICK i \in 1..Len(vds) :
        /\ FindVd(last.vd) = i /\ last.disk = {vds[i].disk}
        /\ last.at = ResolvePage(vds[i].map, last.page) /\ last.at # -1
  BY DEF Gathered, ReadFrom
<1>2. PICK m, d, p : m = vds[i].map /\ d = vds[i].disk /\ p = last.page
  OBVIOUS
<1>3. m \in Seq(Cells) /\ d \in Disks /\ p \in Nat
  <2>1. vds[i] \in Opened
    BY DEF DomainType
  <2> QED BY <1>2, <2>1 DEF Opened, Gathered, ReadFrom
<1>4. PICK l : PartTo(m, FullMap(d, "bmt"), l)
  BY <1>2 DEF Gathered, RegisteredParts
<1>5. FullMap(d, "bmt") \in Seq(Cells)
  BY <1>3, DiskChains
<1>6. ResolvePage(m, p) # -1
  BY <1>1, <1>2
<1>7. ResolvePage(FullMap(d, "bmt"), p) = ResolvePage(m, p)
  BY <1>3, <1>4, <1>5, <1>6, PartResolves
<1> QED BY <1>1, <1>2, <1>7

\* A domain opened without faults has every volume and every whole map.
LEMMA GatheredComplete ==
    ASSUME DomainType, Gathered
    PROVE  CleanOpenIsComplete
<1> SUFFICES ASSUME pc = "open", faults = 0 PROVE CleanOpenIsComplete
  BY DEF CleanOpenIsComplete
<1>1. Len(vds) = Len(args)
  BY DEF Gathered, RegisteredParts
<1>2. \A i \in 1..Len(vds) : /\ vds[i].disk = args[i]
                             /\ Straight(vds[i].disk) => vds[i].map = FullMap(vds[i].disk, "bmt")
  BY DEF Gathered, RegisteredParts
<1> QED BY <1>1, <1>2 DEF CleanOpenIsComplete, Straight

\* A BMT page that is read is the page the complete map on that vd's own disk
\* gives: an incomplete map refuses, it never misdirects a read.
THEOREM ReadsRightPageAlways == DomainSpec => []ReadsRightPage
<1> DEFINE Inv == DomainType /\ NextIndex /\ OneDomain /\ Gathered
<1>1. DomainInit => Inv
  BY DomainInitial, GatheredInitial
<1>2. Inv /\ [DomainNext]_domainVars => Inv'
  BY DomainStep, GatheredStep
<1>3. Inv => ReadsRightPage
  BY GatheredReads
<1> QED BY <1>1, <1>2, <1>3, PTL DEF DomainSpec

\* Without faults an open domain has every volume of the command line, each with
\* the whole of its map, if its chains are acyclic and within the bound on hops.
THEOREM CleanOpenIsCompleteAlways == DomainSpec => []CleanOpenIsComplete
<1> DEFINE Inv == DomainType /\ NextIndex /\ OneDomain /\ Gathered
<1>1. DomainInit => Inv
  BY DomainInitial, GatheredInitial
<1>2. Inv /\ [DomainNext]_domainVars => Inv'
  BY DomainStep, GatheredStep
<1>3. Inv => CleanOpenIsComplete
  BY GatheredComplete
<1> QED BY <1>1, <1>2, <1>3, PTL DEF DomainSpec
=============================================================================
