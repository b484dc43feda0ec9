--------------------------- MODULE FileDataProofs ---------------------------
(***************************************************************************)
(* filedata_read_impl returns the file, for every file, page size, extent  *)
(* map and sequence of disk faults.                                        *)
(***************************************************************************)
EXTENDS FileData, TLAPS, WellFoundedInduction

-----------------------------------------------------------------------------
\* Extent maps, and the arithmetic of pages and slots.

\* A set of naturals that is not empty has a least element.
LEMMA Least ==
    ASSUME NEW T, T \subseteq Nat, T # {}
    PROVE  \E x \in T : \A y \in T : x <= y
<1> DEFINE R == {ss \in Nat \X Nat : ss[1] < ss[2]}
<1>1. IsWellFoundedOn(R, Nat)
  BY NatLessThanWellFounded DEF OpToRel
<1>2. \A x, y \in Nat : y < x => <<y, x>> \in R
  OBVIOUS
<1> HIDE DEF R
<1>3. PICK x \in T : \A y \in T : ~(<<y, x>> \in R)
  BY <1>1, WFMin
<1>4. ASSUME NEW y \in T PROVE x <= y
  <2>1. ~(y < x)
    BY <1>2, <1>3
  <2> QED BY <2>1
<1> QED BY <1>4

\* The end of a descriptor is a 32-bit page number.
LEMMA PageEndType ==
    ASSUME NEW e \in Extent
    PROVE  PageEnd(e) \in 0..U32
<1>1. e.bs_page \in 0..U32 /\ U32 + 1 \in Nat \ {0}
  BY ExtentAssumption DEF Extent
<1>2. \A a \in Nat, p \in Nat \ {0} : a % p \in 0..p - 1
  OBVIOUS
<1>3. (e.bs_page + 1) % (U32 + 1) \in 0..U32
  <2> DEFINE a == e.bs_page + 1
             p == U32 + 1
  <2>1. a \in Nat /\ p \in Nat \ {0} /\ U32 = p - 1
    BY <1>1, ExtentAssumption
  <2> HIDE DEF a, p
  <2>2. a % p \in 0..p - 1
    BY <2>1, <1>2
  <2>3. a % p \in 0..U32
    BY <2>1, <2>2
  <2> QED BY <2>3 DEF a, p
<1> QED BY <1>1, <1>3 DEF PageEnd

(***************************************************************************)
(* advfs_extents_page_count returns the largest end of a descriptor: the   *)
(* maximum exists for every map, however its descriptors are ordered.      *)
(***************************************************************************)
LEMMA PageCountMax ==
    ASSUME NEW m \in Seq(Extent)
    PROVE  /\ PageCount(m) \in 0..U32
           /\ \A i \in 1..Len(m) : PageEnd(m[i]) <= PageCount(m)
<1> DEFINE ends == {0} \cup {PageEnd(m[i]) : i \in 1..Len(m)}
           above == {n \in Nat : \A i \in 1..Len(m) : n >= PageEnd(m[i])}
<1>1. \A i \in 1..Len(m) : PageEnd(m[i]) \in 0..U32
  BY PageEndType
<1>2. ends \subseteq 0..U32
  BY <1>1, ExtentAssumption
<1>3. U32 \in above
  BY <1>1, ExtentAssumption
<1>4. PICK n \in above : \A k \in above : n <= k
  <2>1. above \subseteq Nat /\ above # {}
    BY <1>3
  <2> HIDE DEF above
  <2> QED BY <2>1, Least
<1>5. n \in ends
  <2> SUFFICES ASSUME n \notin ends PROVE FALSE
    OBVIOUS
  <2>1. n # 0 /\ n - 1 \in Nat
    OBVIOUS
  <2>2. \A i \in 1..Len(m) : n # PageEnd(m[i]) /\ n >= PageEnd(m[i])
    OBVIOUS
  <2>3. n - 1 \in above
    BY <2>1, <2>2, <1>1
  <2> QED BY <2>3, <1>4
<1>6. \E k \in ends : \A i \in 1..Len(m) : k >= PageEnd(m[i])
  BY <1>5
<1>7. PageCount(m) \in ends /\ \A i \in 1..Len(m) : PageCount(m) >= PageEnd(m[i])
  BY <1>6 DEF PageCount
<1> QED BY <1>7, <1>2, <1>1

\* The quotient and the remainder of a position by the page size.
LEMMA DivMod ==
    ASSUME NEW a \in Nat, NEW p \in Nat \ {0}
    PROVE  /\ a \div p \in Nat /\ a % p \in 0..p - 1
           /\ a = (a \div p) * p + (a % p)
OBVIOUS

\* They are the only such numbers.
LEMMA DivModUnique ==
    ASSUME NEW p \in Nat \ {0}, NEW q \in Nat, NEW r \in 0..p - 1
    PROVE  /\ (q * p + r) \div p = q
           /\ (q * p + r) % p = r
OBVIOUS

\* Positions on the same page have the same page number.
LEMMA SamePage ==
    ASSUME NEW p \in Nat \ {0}, NEW a \in Nat, NEW d \in Nat, (a % p) + d < p
    PROVE  /\ (a + d) \div p = a \div p
           /\ (a + d) % p = (a % p) + d
<1> DEFINE q == a \div p
           r == a % p
<1>1. q \in Nat /\ r \in 0..p - 1 /\ a = q * p + r
  BY DivMod
<1>2. r + d \in 0..p - 1
  BY <1>1
<1> HIDE DEF q, r
<1>3. a + d = q * p + (r + d)
  BY <1>1
<1>4. (q * p + (r + d)) \div p = q /\ (q * p + (r + d)) % p = r + d
  BY <1>1, <1>2, DivModUnique
<1> QED BY <1>3, <1>4 DEF q, r

\* A lower position is on no later page.
LEMMA DivMono ==
    ASSUME NEW p \in Nat \ {0}, NEW a \in Nat, NEW b \in Nat, a <= b
    PROVE  a \div p <= b \div p
OBVIOUS

-----------------------------------------------------------------------------
\* The inductive invariant.

Live == {"resolve", "inline", "extents", "copy", "fallback", "frag"}

TypeOK ==
    /\ file \in Files /\ fbp \in BOOLEAN
    /\ pc \in Live \cup Errors \cup {"stat", "ok"}
    /\ faults \in Nat /\ resolved \in {-1, 0, 1}

\* The buffer exists from calloc on, until an error path frees it; its size
\* never changes, and it is handed out at the end only.
BufferOK ==
    /\ heap = (IF pc \in Live \cup {"ok"} THEN 1 ELSE 0)
    /\ pc \in Live \cup {"ok"} => buf = [b \in 0..file.size - 1 |-> buf[b]]
    /\ bufOut \in BOOLEAN /\ (bufOut <=> pc = "ok")
    /\ sizeOut = (IF pc = "ok" THEN file.size ELSE 0)

\* fb.resolved: tried for a clone only, ready if there is an original, and
\* unavailable after a fault or if there is none.
MemoOK ==
    /\ resolved # 0 => fbp
    /\ resolved = 1 => file.orig # {}
    /\ resolved = -1 => file.orig = {} \/ faults > 0
    /\ pc \in {"stat", "resolve", "inline", "extents"} => resolved = 0
    /\ pc = "fallback" => loop.fb

Mapped == file.own \notin {{}, {<<>>}}

\* The maps that the permanent holes met so far may have been filled from:
\* either, while none was met.
Sources ==
    IF resolved = 1 THEN {file.orig}
    ELSE IF fbp /\ resolved = 0 THEN {{}, file.orig} ELSE {{}}

MappedEnd == IF Mapped THEN Min2(PageCount(The(file.own)) * PG, file.size) ELSE 0

FragUnit(b) ==
    LET s == file.frag_slot + (b - FragOff)
    IN  ValueOf(PageOutcome(The(file.frag), s \div PG), s)

\* The first n units of the mapped part are in the buffer, the rest is zero.
Filled(n) ==
    \A b \in 0..file.size - 1 :
        IF b < n THEN \A m \in Sources : buf[b] = MappedUnit(b, m) ELSE buf[b] = Zero

\* The loop over the file's own pages.
OwnLoop ==
    /\ Mapped
    /\ loop = [map |-> The(file.own), off |-> loop.off, dst |-> loop.off,
               len |-> MappedEnd - loop.off, fb |-> fbp, next |-> "frag"]
    /\ loop.off \in 0..MappedEnd
    /\ Filled(loop.off)

\* The loop over the frag file's pages, after the mapped part.
FragLoop ==
    /\ file.frag_type # 0 /\ FragOff < file.size
    /\ loop.dst \in FragOff..file.size
    /\ loop = [map |-> The(file.frag), off |-> file.frag_slot + (loop.dst - FragOff),
               dst |-> loop.dst, len |-> file.size - loop.dst, fb |-> FALSE, next |-> "ok"]
    /\ \A b \in 0..file.size - 1 :
         /\ b < FragOff => \A m \in Sources : buf[b] = MappedUnit(b, m)
         /\ b >= FragOff /\ b < loop.dst => buf[b] = FragUnit(b)

\* How far the call has come.
ProgressOK ==
    /\ pc \in {"resolve", "inline", "extents"} => \A b \in 0..file.size - 1 : buf[b] = Zero
    /\ pc = "inline" => file.frag_type = 0
    /\ pc \in {"extents", "copy", "fallback", "frag"} => file.frag_type # 0 \/ file.inline = {}
    /\ pc \in {"copy", "fallback"} => OwnLoop \/ (pc = "copy" /\ FragLoop)
    /\ pc = "fallback" => loop.len > 0 /\ PageOutcome(loop.map, Page).kind = "permhole"
    /\ pc = "frag" => \A b \in 0..file.size - 1, m \in Sources : buf[b] = MappedUnit(b, m)
    /\ pc = "ok" => \A m \in Sources : buf = Contents(m)

\* Why a call without a disk fault failed.
RefusedOK ==
    pc \in Errors /\ faults = 0 =>
        \/ pc = "EFBIG" \/ file.frag_type # 0
        \/ \E m \in file.own \cup file.orig :
             m = <<>> \/ \E p \in 0..file.size \div PG : PageOutcome(m, p).kind = "ERANGE"

IInv == TypeOK /\ BufferOK /\ MemoOK /\ ProgressOK /\ RefusedOK

-----------------------------------------------------------------------------
\* What a file is made of.
LEMMA FileFacts ==
    ASSUME file \in Files
    PROVE  /\ file.size \in Nat /\ file.frag_type \in Nat /\ file.frag_slot \in Nat
           /\ FragOff \in Nat
           /\ file.own = {} \/ file.own = {The(file.own)}
           /\ file.orig = {} \/ file.orig = {The(file.orig)}
           /\ Mapped => The(file.own) # <<>> /\ PageCount(The(file.own)) * PG \in Nat
           /\ MappedEnd \in 0..file.size
<1>1. file \in FileType(Seq(Extent)) /\ PG \in Nat
  BY FileAssumption
<1>2. /\ file.size \in Nat /\ file.frag_type \in Nat /\ file.frag_slot \in Nat
      /\ file.frag_page_offset \in Nat
      /\ file.own \in Optional(Seq(Extent)) /\ file.orig \in Optional(Seq(Extent))
  BY <1>1 DEF FileType
<1>3. FragOff \in Nat
  BY <1>1, <1>2 DEF FragOff
<1>4. ASSUME NEW T \in Optional(Seq(Extent)), T # {}
      PROVE  T = {The(T)} /\ The(T) \in Seq(Extent)
  <2>1. PICK x : x \in T
    BY <1>4
  <2>2. \A y \in T : y = x
    BY <2>1, <1>4 DEF Optional
  <2>3. The(T) \in T
    BY <2>1 DEF The
  <2> QED BY <2>1, <2>2, <2>3, <1>4 DEF Optional
<1>5. Mapped => The(file.own) # <<>> /\ PageCount(The(file.own)) * PG \in Nat
  <2> SUFFICES ASSUME Mapped
               PROVE  The(file.own) # <<>> /\ PageCount(The(file.own)) * PG \in Nat
    OBVIOUS
  <2>1. file.own = {The(file.own)} /\ The(file.own) \in Seq(Extent)
    BY <1>2, <1>4 DEF Mapped
  <2>2. PageCount(The(file.own)) \in Nat
    BY <2>1, PageCountMax, ExtentAssumption
  <2> QED BY <2>1, <2>2, <1>1 DEF Mapped
<1>6. MappedEnd \in 0..file.size
  BY <1>2, <1>5 DEF MappedEnd, Min2
<1> QED BY <1>2, <1>3, <1>4, <1>5, <1>6

\* What the file holds does not change while it is read.
LEMMA SameFile ==
    ASSUME file' = file
    PROVE  /\ Mapped' = Mapped /\ MappedEnd' = MappedEnd /\ FragOff' = FragOff
           /\ \A b, m : MappedUnit(b, m)' = MappedUnit(b, m)
           /\ \A b : FragUnit(b)' = FragUnit(b)
           /\ \A m : Contents(m)' = Contents(m)
BY DEF Mapped, MappedEnd, FragOff, MappedUnit, FragUnit, Contents

\* A turn of copy_bitfile_bytes stays on one page and inside the buffer.
LEMMA LoopFacts ==
    ASSUME IInv, pc \in {"copy", "fallback"}, loop.len > 0
    PROVE  /\ loop.off \in Nat /\ loop.dst \in Nat /\ loop.len \in Nat
           /\ InPage \in 0..PG - 1 /\ Chunk \in 1..loop.len /\ InPage + Chunk <= PG
           /\ loop.dst + loop.len <= file.size
           /\ Page \in Nat
           /\ \A d \in 0..Chunk - 1 : /\ InPage + d \in 0..PG - 1
                                     /\ (loop.off + d) \div PG = Page
                                     /\ (loop.off + d) % PG = InPage + d
<1>1. file \in Files /\ PG \in Nat \ {0}
  BY FileAssumption DEF IInv, TypeOK
<1>2. /\ file.size \in Nat /\ file.frag_slot \in Nat /\ FragOff \in Nat
      /\ MappedEnd \in 0..file.size
  BY <1>1, FileFacts
<1>3. /\ loop.off \in Nat /\ loop.dst \in Nat /\ loop.len \in Nat
      /\ loop.dst + loop.len <= file.size
  <2>1. CASE OwnLoop
    <3>1. /\ loop.off \in 0..MappedEnd /\ loop.dst = loop.off
          /\ loop.len = MappedEnd - loop.off
      BY <2>1 DEF OwnLoop
    <3> QED BY <3>1, <1>2
  <2>2. CASE FragLoop
    <3>1. /\ loop.dst \in FragOff..file.size /\ loop.len = file.size - loop.dst
          /\ loop.off = file.frag_slot + (loop.dst - FragOff)
      BY <2>2 DEF FragLoop
    <3> QED BY <3>1, <1>2
  <2> QED BY <2>1, <2>2 DEF IInv, ProgressOK
<1>4. InPage \in 0..PG - 1 /\ Page \in Nat
  BY <1>1, <1>3, DivMod DEF InPage, Page
<1>5. Chunk \in 1..loop.len /\ InPage + Chunk <= PG
  BY <1>1, <1>3, <1>4 DEF Chunk, Min2
<1>6. ASSUME NEW d \in 0..Chunk - 1
      PROVE  /\ InPage + d \in 0..PG - 1
             /\ (loop.off + d) \div PG = Page
             /\ (loop.off + d) % PG = InPage + d
  <2>1. d \in Nat /\ InPage + d < PG
    BY <1>1, <1>3, <1>4, <1>5
  <2>2. (loop.off % PG) + d < PG
    BY <2>1 DEF InPage
  <2>3. /\ (loop.off + d) \div PG = loop.off \div PG
        /\ (loop.off + d) % PG = (loop.off % PG) + d
    BY <2>1, <2>2, <1>1, <1>3, SamePage
  <2> QED BY <2>1, <2>3, <1>1, <1>4 DEF InPage, Page
<1> QED BY <1>3, <1>4, <1>5, <1>6

\* What memcpy and the loop's advance leave behind.
LEMMA PutFacts ==
    ASSUME IInv, pc \in {"copy", "fallback"}, loop.len > 0, NEW units, Put(units)
    PROVE  /\ pc' = "copy"
           /\ loop' = [loop EXCEPT !.off = @ + Chunk, !.dst = @ + Chunk, !.len = @ - Chunk]
           /\ buf' = [b \in 0..file.size - 1 |-> buf'[b]]
           /\ \A b \in 0..file.size - 1 :
                buf'[b] = IF b \in loop.dst..loop.dst + Chunk - 1
                          THEN units[InPage + (b - loop.dst)] ELSE buf[b]
<1>1. /\ loop.dst \in Nat /\ loop.len \in Nat /\ Chunk \in 1..loop.len
      /\ loop.dst + loop.len <= file.size
  BY LoopFacts
<1>2. file.size \in Nat /\ DOMAIN buf = 0..file.size - 1
  BY FileFacts DEF IInv, TypeOK, BufferOK, Live
<1>3. DOMAIN buf \cup loop.dst..loop.dst + Chunk - 1 = 0..file.size - 1
  BY <1>1, <1>2
<1>4. buf' = [b \in 0..file.size - 1 |->
                IF b \in loop.dst..loop.dst + Chunk - 1
                THEN units[InPage + (b - loop.dst)] ELSE buf[b]]
  BY <1>3 DEF Put
<1> QED BY <1>4 DEF Put

\* A page's units, as the reference definition has them.
LEMMA PageUnits ==
    ASSUME IInv, pc \in {"copy", "fallback"}, loop.len > 0, NEW o,
           NEW b \in loop.dst..loop.dst + Chunk - 1
    PROVE  (IF o.kind = "data" THEN DataPage(o) ELSE ZeroPage)[InPage + (b - loop.dst)]
             = ValueOf(o, loop.off + (b - loop.dst))
<1> DEFINE d == b - loop.dst
<1>1. d \in 0..Chunk - 1
  BY LoopFacts
<1>2. InPage + d \in 0..PG - 1 /\ (loop.off + d) % PG = InPage + d
  BY <1>1, LoopFacts
<1> QED BY <1>2 DEF DataPage, ZeroPage, ValueOf

\* A turn of the loop over the file's own pages.
LEMMA OwnTurn ==
    ASSUME IInv, pc \in {"copy", "fallback"}, loop.len > 0, OwnLoop,
           NEW units, Put(units), UNCHANGED <<file, fbp, resolved>>,
           \A b \in loop.dst..loop.dst + Chunk - 1, m \in Sources :
             units[InPage + (b - loop.dst)] = MappedUnit(b, m)
    PROVE  OwnLoop'
<1>1. /\ loop.off \in Nat /\ loop.len \in Nat /\ Chunk \in 1..loop.len
      /\ file.size \in Nat /\ MappedEnd \in 0..file.size
  BY LoopFacts, FileFacts DEF IInv, TypeOK
<1>2. /\ Mapped
      /\ loop = [map |-> The(file.own), off |-> loop.off, dst |-> loop.off,
                 len |-> MappedEnd - loop.off, fb |-> fbp, next |-> "frag"]
  BY DEF OwnLoop
<1>3. /\ loop.dst = loop.off /\ loop.len = MappedEnd - loop.off
  BY <1>2
<1>4. loop' = [map |-> The(file.own), off |-> loop.off + Chunk, dst |-> loop.off + Chunk,
               len |-> (MappedEnd - loop.off) - Chunk, fb |-> fbp, next |-> "frag"]
  <2> DEFINE n == loop.off
             c == Chunk
             e == MappedEnd - loop.off
  <2>1. loop' = [loop EXCEPT !.off = @ + c, !.dst = @ + c, !.len = @ - c]
    BY PutFacts
  <2>2. loop = [map |-> The(file.own), off |-> n, dst |-> n, len |-> e, fb |-> fbp, next |-> "frag"]
    BY <1>2
  <2> HIDE DEF n, c, e
  <2>3. loop' = [map |-> The(file.own), off |-> n + c, dst |-> n + c, len |-> e - c,
                 fb |-> fbp, next |-> "frag"]
    BY <2>1, <2>2
  <2> QED BY <2>3 DEF n, c, e
<1>5. loop'.off = loop.off + Chunk /\ loop'.off \in 0..MappedEnd
  BY <1>1, <1>3, <1>4
<1>6. Mapped' /\ MappedEnd' = MappedEnd /\ Sources' = Sources
  BY <1>2, SameFile DEF Sources
<1>7. loop' = [map |-> The(file'.own), off |-> loop'.off, dst |-> loop'.off,
               len |-> MappedEnd' - loop'.off, fb |-> fbp', next |-> "frag"]
  <2>1. (MappedEnd - loop.off) - Chunk = MappedEnd - (loop.off + Chunk)
    BY <1>1
  <2> QED BY <1>4, <1>5, <1>6, <2>1
<1>8. Filled(loop.off)'
  <2> SUFFICES ASSUME NEW b \in 0..file.size - 1
               PROVE  IF b < loop'.off
                      THEN \A m \in Sources : buf'[b] = MappedUnit(b, m)
                      ELSE buf'[b] = Zero
    BY <1>6, SameFile DEF Filled
  <2>1. buf'[b] = IF b \in loop.dst..loop.dst + Chunk - 1
                  THEN units[InPage + (b - loop.dst)] ELSE buf[b]
    BY PutFacts
  <2>2. IF b < loop.off THEN \A m \in Sources : buf[b] = MappedUnit(b, m) ELSE buf[b] = Zero
    BY DEF OwnLoop, Filled
  <2>3. CASE b < loop.off
    BY <2>1, <2>2, <2>3, <1>1, <1>3, <1>5
  <2>4. CASE b \in loop.dst..loop.dst + Chunk - 1
    <3>1. \A m \in Sources : buf'[b] = MappedUnit(b, m)
      BY <2>1, <2>4
    <3> QED BY <3>1, <2>4, <1>1, <1>3, <1>5
  <2>5. CASE b >= loop.off + Chunk
    BY <2>1, <2>2, <2>5, <1>1, <1>3, <1>5
  <2> QED BY <2>3, <2>4, <2>5, <1>1, <1>3
<1> QED BY <1>5, <1>6, <1>7, <1>8 DEF OwnLoop

\* A turn of the loop over the frag file's pages.
LEMMA FragTurn ==
    ASSUME IInv, pc = "copy", loop.len > 0, FragLoop,
           NEW units, Put(units), UNCHANGED <<file, fbp, resolved>>,
           \A b \in loop.dst..loop.dst + Chunk - 1 :
             units[InPage + (b - loop.dst)] = FragUnit(b)
    PROVE  FragLoop'
<1>1. /\ loop.off \in Nat /\ loop.dst \in Nat /\ loop.len \in Nat /\ Chunk \in 1..loop.len
      /\ file.size \in Nat /\ FragOff \in Nat /\ file.frag_slot \in Nat
  BY LoopFacts, FileFacts DEF IInv, TypeOK
<1>2. /\ file.frag_type # 0 /\ FragOff < file.size
      /\ loop.dst \in FragOff..file.size
      /\ loop = [map |-> The(file.frag), off |-> file.frag_slot + (loop.dst - FragOff),
                 dst |-> loop.dst, len |-> file.size - loop.dst, fb |-> FALSE, next |-> "ok"]
  BY DEF FragLoop
<1>3. loop.len = file.size - loop.dst /\ loop.off = file.frag_slot + (loop.dst - FragOff)
  BY <1>2
<1>4. loop' = [map |-> The(file.frag), off |-> loop.off + Chunk, dst |-> loop.dst + Chunk,
               len |-> (file.size - loop.dst) - Chunk, fb |-> FALSE, next |-> "ok"]
  <2> DEFINE n == loop.off
             t == loop.dst
             c == Chunk
             e == file.size - loop.dst
  <2>1. loop' = [loop EXCEPT !.off = @ + c, !.dst = @ + c, !.len = @ - c]
    BY PutFacts
  <2>2. loop = [map |-> The(file.frag), off |-> n, dst |-> t, len |-> e, fb |-> FALSE, next |-> "ok"]
    BY <1>2, <1>3
  <2> HIDE DEF n, t, c, e
  <2>3. loop' = [map |-> The(file.frag), off |-> n + c, dst |-> t + c, len |-> e - c,
                 fb |-> FALSE, next |-> "ok"]
    BY <2>1, <2>2
  <2> QED BY <2>3 DEF n, t, c, e
<1>5. loop'.dst = loop.dst + Chunk /\ loop'.dst \in FragOff..file.size
  BY <1>1, <1>2, <1>3, <1>4
<1>6. FragOff' = FragOff /\ Sources' = Sources
  BY SameFile DEF Sources
<1>7. loop' = [map |-> The(file'.frag), off |-> file'.frag_slot + (loop'.dst - FragOff'),
               dst |-> loop'.dst, len |-> file'.size - loop'.dst, fb |-> FALSE, next |-> "ok"]
  <2>1. /\ (file.size - loop.dst) - Chunk = file.size - loop'.dst
        /\ loop.off + Chunk = file.frag_slot + (loop'.dst - FragOff)
    BY <1>1, <1>2, <1>3, <1>5
  <2> QED BY <1>4, <1>5, <1>6, <2>1
<1>8. ASSUME NEW b \in 0..file.size - 1
      PROVE  /\ b < FragOff => \A m \in Sources : buf'[b] = MappedUnit(b, m)
             /\ b >= FragOff /\ b < loop'.dst => buf'[b] = FragUnit(b)
  <2>1. buf'[b] = IF b \in loop.dst..loop.dst + Chunk - 1
                  THEN units[InPage + (b - loop.dst)] ELSE buf[b]
    BY PutFacts
  <2>2. /\ b < FragOff => \A m \in Sources : buf[b] = MappedUnit(b, m)
        /\ b >= FragOff /\ b < loop.dst => buf[b] = FragUnit(b)
    BY DEF FragLoop
  <2>3. CASE b < FragOff
    BY <2>1, <2>2, <2>3, <1>1, <1>2
  <2>4. CASE b >= FragOff
    BY <2>1, <2>2, <2>4, <1>1, <1>2, <1>5
  <2> QED BY <2>3, <2>4, <1>1
<1>9. file'.frag_type # 0 /\ FragOff' < file'.size /\ loop'.dst \in FragOff'..file'.size
  BY <1>2, <1>5, <1>6
<1> QED BY <1>6, <1>7, <1>8, <1>9, SameFile DEF FragLoop

-----------------------------------------------------------------------------
\* The initial states satisfy the invariant.
LEMMA InitInv == Init => IInv
<1> SUFFICES ASSUME Init PROVE IInv
  OBVIOUS
<1>1. TypeOK
  BY DEF Init, TypeOK
<1>2. BufferOK
  <2>1. bufOut \in BOOLEAN /\ ~bufOut /\ pc = "stat"
    BY DEF Init
  <2>2. heap = 0 /\ sizeOut = 0
    BY DEF Init
  <2> QED BY <2>1, <2>2 DEF BufferOK, Live
<1>3. MemoOK
  BY DEF Init, MemoOK
<1>4. ProgressOK /\ RefusedOK
  BY DEF Init, ProgressOK, RefusedOK, Errors
<1> QED BY <1>1, <1>2, <1>3, <1>4 DEF IInv

\* The ways out before there is a buffer.
LEMMA EarlyInv == ASSUME IInv, StatFails \/ TooBig \/ NoMemory PROVE IInv'
<1>1. /\ pc = "stat" /\ pc' \in {"ESTAT", "EFBIG", "ENOMEM"}
      /\ UNCHANGED <<file, fbp, buf, heap, bufOut, sizeOut, loop, resolved>>
      /\ faults' \in {faults, faults + 1} /\ (faults' = faults => pc' = "EFBIG")
  BY DEF StatFails, TooBig, NoMemory, IInv, TypeOK
<1>2. TypeOK' /\ BufferOK' /\ MemoOK'
  BY <1>1 DEF IInv, TypeOK, BufferOK, MemoOK, Live, Errors
<1>3. ProgressOK'
  BY <1>1 DEF ProgressOK
<1>4. RefusedOK'
  BY <1>1 DEF IInv, TypeOK, RefusedOK
<1> QED BY <1>2, <1>3, <1>4 DEF IInv

\* Fail, once the buffer exists: for a fault of the disk, a file with a frag,
\* or a map that has no descriptor or runs off 32 bits.
LEMMA FailInv ==
    ASSUME IInv, NEW e \in Errors, pc \in Live, Fail(e), faults' \in Nat,
           resolved = -1 => faults' >= faults,
           \/ faults' > 0 \/ file.frag_type # 0
           \/ \E m \in file.own \cup file.orig :
                m = <<>> \/ \E p \in 0..file.size \div PG : PageOutcome(m, p).kind = "ERANGE"
    PROVE  IInv'
<1>1. /\ pc' = e /\ heap' = 0
      /\ UNCHANGED <<file, fbp, buf, bufOut, sizeOut, loop, resolved>>
  BY DEF Fail
<1>2. e \notin Live /\ e # "ok" /\ e # "stat" /\ pc # "ok"
  BY DEF Errors, Live
<1>3. TypeOK' /\ BufferOK'
  BY <1>1, <1>2 DEF IInv, TypeOK, BufferOK
<1>4. MemoOK' /\ ProgressOK'
  BY <1>1, <1>2 DEF IInv, TypeOK, MemoOK, ProgressOK, Live
<1>5. RefusedOK'
  BY <1>1 DEF RefusedOK
<1> QED BY <1>3, <1>4, <1>5 DEF IInv

\* calloc: the buffer is zero, and that is all of an empty file.
LEMMA AllocInv == ASSUME IInv, Alloc PROVE IInv'
<1>1. /\ pc = "stat" /\ buf' = [b \in 0..file.size - 1 |-> Zero]
      /\ UNCHANGED <<file, fbp, loop, resolved, faults>>
      /\ file.size \in Nat /\ heap = 0 /\ heap' = 1 /\ ~bufOut /\ sizeOut = 0
  BY FileFacts DEF Alloc, IInv, TypeOK, BufferOK, Live
<1>2. CASE file.size = 0
  <2>1. pc' = "ok" /\ bufOut' = TRUE /\ sizeOut' = file.size
    BY <1>2 DEF Alloc, Succeed
  <2>2. \A m : buf' = Contents(m)'
    <3>1. 0..file.size - 1 = {}
      BY <1>2
    <3> QED BY <1>1, <3>1 DEF Contents
  <2>3. TypeOK' /\ BufferOK' /\ MemoOK'
    BY <1>1, <2>1 DEF IInv, TypeOK, BufferOK, MemoOK, Live, Errors
  <2>4. ProgressOK' /\ RefusedOK'
    BY <2>1, <2>2 DEF ProgressOK, RefusedOK, Errors
  <2> QED BY <2>3, <2>4 DEF IInv
<1>3. CASE file.size # 0
  <2>1. pc' = "resolve" /\ UNCHANGED <<bufOut, sizeOut>>
    BY <1>3 DEF Alloc
  <2>2. TypeOK' /\ BufferOK' /\ MemoOK'
    BY <1>1, <2>1 DEF IInv, TypeOK, BufferOK, MemoOK, Live, Errors
  <2>3. ProgressOK' /\ RefusedOK'
    BY <1>1, <2>1 DEF ProgressOK, RefusedOK, Errors
  <2> QED BY <2>2, <2>3 DEF IInv
<1> QED BY <1>2, <1>3

\* Resolving a file keeps the invariant.
LEMMA ResolveInv == ASSUME IInv, Resolve PROVE IInv'
<1>1. /\ pc = "resolve" /\ pc' = (IF file.frag_type = 0 THEN "inline" ELSE "extents")
      /\ UNCHANGED <<file, fbp, buf, heap, bufOut, sizeOut, loop, resolved, faults>>
  BY DEF Resolve
<1>2. TypeOK' /\ BufferOK' /\ MemoOK'
  BY <1>1 DEF IInv, TypeOK, BufferOK, MemoOK, Live, Errors
<1>3. ProgressOK' /\ RefusedOK'
  BY <1>1 DEF IInv, ProgressOK, RefusedOK, Errors
<1> QED BY <1>2, <1>3 DEF IInv

\* The inline record is the file, or there is none.
LEMMA InlineInv == ASSUME IInv, Inline PROVE IInv'
<1>1. /\ pc = "inline" /\ UNCHANGED <<file, fbp, heap, loop, resolved, faults>>
      /\ DOMAIN buf = 0..file.size - 1 /\ file.frag_type = 0
      /\ \A b \in 0..file.size - 1 : buf[b] = Zero
  BY DEF Inline, IInv, BufferOK, ProgressOK, Live
<1>2. CASE file.inline = {}
  <2>1. pc' = "extents" /\ UNCHANGED <<buf, bufOut, sizeOut>>
    BY <1>2 DEF Inline
  <2>2. TypeOK' /\ BufferOK' /\ MemoOK'
    BY <1>1, <2>1 DEF IInv, TypeOK, BufferOK, MemoOK, Live, Errors
  <2>3. ProgressOK' /\ RefusedOK'
    BY <1>1, <1>2, <2>1 DEF ProgressOK, RefusedOK, Errors
  <2> QED BY <2>2, <2>3 DEF IInv
<1>3. CASE file.inline # {}
  <2>1. /\ buf' = [b \in 0..file.size - 1 |->
                     IF b < The(file.inline) THEN InlineAt(b) ELSE buf[b]]
        /\ pc' = "ok" /\ bufOut' = TRUE /\ sizeOut' = file.size
    BY <1>1, <1>3 DEF Inline, Succeed
  <2>2. \A m : buf' = Contents(m)
    BY <1>1, <1>3, <2>1 DEF Contents
  <2>3. TypeOK' /\ BufferOK' /\ MemoOK'
    BY <1>1, <2>1 DEF IInv, TypeOK, BufferOK, MemoOK, Live, Errors
  <2>4. ProgressOK' /\ RefusedOK'
    BY <1>1, <2>1, <2>2, SameFile DEF ProgressOK, RefusedOK, Errors
  <2> QED BY <2>3, <2>4 DEF IInv
<1> QED BY <1>2, <1>3

\* The loop over the own pages starts with nothing copied; without extents
\* all of the mapped part is zero.
LEMMA ExtentsInv == ASSUME IInv, Extents PROVE IInv'
<1>1. /\ pc = "extents"
      /\ UNCHANGED <<file, fbp, buf, heap, bufOut, sizeOut, resolved, faults>>
      /\ \A b \in 0..file.size - 1 : buf[b] = Zero
      /\ file.frag_type # 0 \/ file.inline = {}
  BY DEF Extents, ExtentsUpTo, IInv, ProgressOK
<1>2. CASE ~Mapped
  <2>1. pc' = "frag" /\ UNCHANGED loop
    BY <1>2 DEF Extents, ExtentsUpTo, Mapped
  <2>2. \A b, m : MappedUnit(b, m) = Zero
    BY <1>2 DEF MappedUnit, Mapped
  <2>3. TypeOK' /\ BufferOK' /\ MemoOK'
    BY <1>1, <2>1 DEF IInv, TypeOK, BufferOK, MemoOK, Live, Errors
  <2>4. ProgressOK' /\ RefusedOK'
    BY <1>1, <2>1, <2>2, SameFile DEF ProgressOK, RefusedOK, Errors
  <2> QED BY <2>3, <2>4 DEF IInv
<1>3. CASE Mapped
  <2>1. /\ pc' = "copy"
        /\ loop' = [map |-> The(file.own), off |-> 0, dst |-> 0, len |-> MappedEnd,
                    fb |-> fbp, next |-> "frag"]
    BY <1>3 DEF Extents, ExtentsUpTo, Mapped, MappedEnd
  <2>2. MappedEnd \in 0..file.size /\ file.size \in Nat
    BY FileFacts DEF IInv, TypeOK
  <2>3. Mapped' /\ MappedEnd' = MappedEnd
    BY <1>1, <1>3, SameFile
  <2>4. loop'.off = 0 /\ loop'.off \in 0..MappedEnd /\ MappedEnd = MappedEnd - loop'.off
    BY <2>1, <2>2
  <2>5. loop' = [map |-> The(file'.own), off |-> loop'.off, dst |-> loop'.off,
                 len |-> MappedEnd' - loop'.off, fb |-> fbp', next |-> "frag"]
    BY <2>1, <2>3, <2>4, <1>1
  <2>6. Filled(loop.off)'
    BY <1>1, <2>2, <2>4 DEF Filled
  <2>7. OwnLoop'
    BY <2>3, <2>4, <2>5, <2>6 DEF OwnLoop
  <2>8. TypeOK' /\ BufferOK' /\ MemoOK'
    BY <1>1, <2>1 DEF IInv, TypeOK, BufferOK, MemoOK, Live, Errors
  <2>9. ProgressOK' /\ RefusedOK'
    BY <1>1, <2>1, <2>7 DEF ProgressOK, RefusedOK, Errors
  <2> QED BY <2>8, <2>9 DEF IInv
<1> QED BY <1>2, <1>3

\* What every turn of the loop leaves alone.
LEMMA TurnInv ==
    ASSUME IInv, pc \in {"copy", "fallback"}, loop.len > 0, NEW units, Put(units),
           UNCHANGED <<file, fbp, heap, bufOut, sizeOut, resolved, faults>>,
           OwnLoop' \/ FragLoop'
    PROVE  IInv'
<1>1. pc' = "copy" /\ buf' = [b \in 0..file.size - 1 |-> buf'[b]]
  BY PutFacts
<1>2. TypeOK'
  BY <1>1 DEF IInv, TypeOK, Live
<1>3. BufferOK'
  BY <1>1 DEF IInv, BufferOK, Live
<1>4. MemoOK'
  BY <1>1 DEF IInv, MemoOK
<1>5. ProgressOK' /\ RefusedOK'
  BY <1>1 DEF IInv, ProgressOK, RefusedOK, Errors
<1> QED BY <1>2, <1>3, <1>4, <1>5 DEF IInv

\* A page of a map in range of the file cannot be read: the map has no
\* descriptor or runs off 32 bits.
LEMMA PageRefused ==
    ASSUME IInv, pc \in {"copy", "fallback"}, loop.len > 0,
           NEW m \in file.own \cup file.orig, PageOutcome(m, Page).kind \in {"EINVAL", "ERANGE"},
           loop.off <= file.size
    PROVE  m = <<>> \/ \E p \in 0..file.size \div PG : PageOutcome(m, p).kind = "ERANGE"
<1>1. loop.off \in Nat /\ file.size \in Nat /\ PG \in Nat \ {0} /\ Page \in Nat
  BY LoopFacts, FileFacts, FileAssumption DEF IInv, TypeOK
<1>2. Page <= file.size \div PG /\ file.size \div PG \in Nat
  BY <1>1, DivMono, DivMod DEF Page
<1>3. PageOutcome(m, Page).kind = "EINVAL" => m = <<>>
  BY DEF PageOutcome, Outcome
<1> QED BY <1>1, <1>2, <1>3

\* A page of the file or of the frag file.
LEMMA CopyPageInv == ASSUME IInv, CopyPage PROVE IInv'
<1> DEFINE o == PageOutcome(loop.map, Page)
           page == IF o.kind = "data" THEN DataPage(o) ELSE ZeroPage
<1>1. /\ pc = "copy" /\ loop.len > 0 /\ UNCHANGED faults
      /\ pc \in Live /\ file \in Files /\ faults \in Nat
      /\ OwnLoop \/ FragLoop
  BY DEF CopyPage, IInv, TypeOK, ProgressOK, Live
<1>2. CASE o.kind \in {"EINVAL", "ERANGE"}
  <2>1. Fail(o.kind) /\ o.kind \in Errors
    BY <1>2 DEF CopyPage, Errors
  <2>2. CASE OwnLoop
    <3>1. loop.map = The(file.own) /\ loop.off \in 0..MappedEnd /\ Mapped
      BY <2>2 DEF OwnLoop
    <3>2. The(file.own) \in file.own
      BY <1>1, <3>1, FileFacts DEF Mapped
    <3>3. loop.off <= file.size
      BY <1>1, <3>1, FileFacts
    <3>4. \E m \in file.own \cup file.orig :
            m = <<>> \/ \E p \in 0..file.size \div PG : PageOutcome(m, p).kind = "ERANGE"
      BY <1>1, <1>2, <3>1, <3>2, <3>3, PageRefused
    <3> QED BY <1>1, <2>1, <3>4, FailInv
  <2>3. CASE FragLoop
    <3>1. file.frag_type # 0
      BY <2>3 DEF FragLoop
    <3> QED BY <1>1, <2>1, <3>1, FailInv
  <2> QED BY <1>1, <2>2, <2>3
<1>3. CASE o.kind = "permhole" /\ loop.fb
  <2>1. /\ pc' = "fallback"
        /\ UNCHANGED <<file, fbp, buf, heap, bufOut, sizeOut, loop, resolved>>
    BY <1>3 DEF CopyPage
  <2>2. OwnLoop
    BY <1>1, <1>3 DEF FragLoop
  <2>3. OwnLoop'
    BY <1>1, <2>1, <2>2 DEF OwnLoop, Filled, Mapped, MappedEnd, MappedUnit, Sources
  <2>4. TypeOK' /\ BufferOK' /\ MemoOK'
    BY <1>1, <1>3, <2>1 DEF IInv, TypeOK, BufferOK, MemoOK, Live
  <2>5. ProgressOK'
    BY <1>1, <1>3, <2>1, <2>3 DEF IInv, ProgressOK, Page
  <2>6. RefusedOK'
    BY <2>1 DEF RefusedOK, Errors
  <2> QED BY <2>4, <2>5, <2>6 DEF IInv
<1>4. CASE o.kind \notin {"EINVAL", "ERANGE"} /\ ~(o.kind = "permhole" /\ loop.fb)
  <2>1. Put(page) /\ UNCHANGED <<file, fbp, heap, bufOut, sizeOut, resolved>>
    BY <1>4 DEF CopyPage
  <2>2. \A b \in loop.dst..loop.dst + Chunk - 1 :
          page[InPage + (b - loop.dst)] = ValueOf(o, loop.off + (b - loop.dst))
    BY <1>1, PageUnits
  <2>3. /\ loop.off \in Nat /\ loop.dst \in Nat /\ loop.len \in Nat /\ Chunk \in 1..loop.len
        /\ \A d \in 0..Chunk - 1 : (loop.off + d) \div PG = Page
    BY <1>1, LoopFacts
  <2> HIDE DEF page
  <2>4. CASE OwnLoop
    <3>1. /\ loop.map = The(file.own) /\ loop.dst = loop.off /\ loop.off \in 0..MappedEnd
          /\ loop.len = MappedEnd - loop.off /\ Mapped /\ loop.fb = fbp
      BY <2>4 DEF OwnLoop
    <3>2. ASSUME NEW b \in loop.dst..loop.dst + Chunk - 1, NEW m \in Sources
          PROVE  page[InPage + (b - loop.dst)] = MappedUnit(b, m)
      <4>1. b = loop.off + (b - loop.dst) /\ b - loop.dst \in 0..Chunk - 1 /\ b \in Nat
        BY <2>3, <3>1
      <4>2. b \div PG = Page
        BY <4>1, <2>3
      <4>3. b < MappedEnd /\ b < PageCount(The(file.own)) * PG
        <5>1. b < MappedEnd
          BY <2>3, <3>1, <4>1, <1>1, FileFacts
        <5> QED BY <5>1, <3>1, <4>1, <1>1, FileFacts DEF MappedEnd, Min2
      <4>4. o.kind = "permhole" => m = {}
        BY <1>4, <3>1 DEF Sources, IInv, MemoOK
      <4>5. MappedUnit(b, m) = ValueOf(o, b)
        BY <3>1, <4>2, <4>3, <4>4, <1>1, <4>1, FileFacts DEF MappedUnit, Mapped
      <4> QED BY <4>1, <4>5, <2>2
    <3>3. OwnLoop'
      BY <1>1, <2>1, <2>4, <3>2, OwnTurn
    <3> QED BY <1>1, <2>1, <3>3, TurnInv
  <2>5. CASE FragLoop
    <3>1. /\ loop.map = The(file.frag) /\ loop.dst \in FragOff..file.size
          /\ loop.off = file.frag_slot + (loop.dst - FragOff)
      BY <2>5 DEF FragLoop
    <3>2. ASSUME NEW b \in loop.dst..loop.dst + Chunk - 1
          PROVE  page[InPage + (b - loop.dst)] = FragUnit(b)
      <4>1. /\ loop.off + (b - loop.dst) = file.frag_slot + (b - FragOff)
            /\ b - loop.dst \in 0..Chunk - 1
        <5>1. FragOff \in Nat /\ file.size \in Nat /\ file.frag_slot \in Nat
          BY <1>1, FileFacts
        <5> QED BY <5>1, <2>3, <3>1
      <4>2. (file.frag_slot + (b - FragOff)) \div PG = Page
        BY <4>1, <2>3
      <4> QED BY <4>1, <4>2, <2>2, <3>1 DEF FragUnit
    <3>3. FragLoop'
      BY <1>1, <2>1, <2>5, <3>2, FragTurn
    <3> QED BY <1>1, <2>1, <3>3, TurnInv
  <2> QED BY <1>1, <2>4, <2>5
<1> QED BY <1>2, <1>3, <1>4

\* The own loop ends with all of the mapped part in the buffer, the loop over
\* the frag file with all of the file.
LEMMA CopyEndInv == ASSUME IInv, CopyEnd PROVE IInv'
<1>1. /\ pc = "copy" /\ loop.len = 0 /\ UNCHANGED <<file, fbp, buf, heap, loop, resolved, faults>>
      /\ file \in Files /\ (OwnLoop \/ FragLoop)
      /\ file.frag_type # 0 \/ file.inline = {}
      /\ file.size \in Nat /\ FragOff \in Nat /\ MappedEnd \in 0..file.size
  BY FileFacts DEF CopyEnd, IInv, TypeOK, ProgressOK
<1>2. CASE OwnLoop
  <2>1. /\ loop.next = "frag" /\ loop.off \in 0..MappedEnd /\ loop.len = MappedEnd - loop.off
        /\ Mapped /\ Filled(loop.off)
    BY <1>2 DEF OwnLoop
  <2>2. pc' = "frag" /\ UNCHANGED <<bufOut, sizeOut>>
    BY <2>1 DEF CopyEnd
  <2>3. loop.off = MappedEnd
    BY <1>1, <2>1
  <2>4. ASSUME NEW b \in 0..file.size - 1, NEW m \in Sources PROVE buf[b] = MappedUnit(b, m)
    <3>1. CASE b < MappedEnd
      BY <2>1, <2>3, <3>1 DEF Filled
    <3>2. CASE b >= MappedEnd
      <4>1. buf[b] = Zero
        BY <1>1, <2>1, <2>3, <3>2 DEF Filled
      <4>2. b >= PageCount(The(file.own)) * PG
        BY <1>1, <2>1, <3>2, FileFacts DEF MappedEnd, Min2
      <4> QED BY <4>1, <4>2 DEF MappedUnit
    <3> QED BY <3>1, <3>2, <1>1
  <2>5. Sources' = Sources
    BY <1>1 DEF Sources
  <2>6. TypeOK' /\ BufferOK' /\ MemoOK'
    BY <1>1, <2>2 DEF IInv, TypeOK, BufferOK, MemoOK, Live, Errors
  <2>7. ProgressOK' /\ RefusedOK'
    BY <1>1, <2>2, <2>4, <2>5, SameFile DEF ProgressOK, RefusedOK, Errors
  <2> QED BY <2>6, <2>7 DEF IInv
<1>3. CASE FragLoop
  <2>1. /\ loop.next = "ok" /\ loop.len = file.size - loop.dst
        /\ loop.dst \in FragOff..file.size /\ file.frag_type # 0
        /\ \A b \in 0..file.size - 1 :
             /\ b < FragOff => \A m \in Sources : buf[b] = MappedUnit(b, m)
             /\ b >= FragOff /\ b < loop.dst => buf[b] = FragUnit(b)
    BY <1>3 DEF FragLoop
  <2>2. pc' = "ok" /\ bufOut' = TRUE /\ sizeOut' = file.size
    BY <2>1 DEF CopyEnd, Succeed
  <2>3. loop.dst = file.size
    BY <1>1, <2>1
  <2>4. ASSUME NEW m \in Sources PROVE buf = Contents(m)
    <3>1. \A b \in 0..file.size - 1 :
            buf[b] = IF b >= FragOff THEN FragUnit(b) ELSE MappedUnit(b, m)
      BY <1>1, <2>1, <2>3
    <3>2. \A b \in 0..file.size - 1 : buf[b] = Contents(m)[b]
      BY <2>1, <3>1 DEF Contents, FragUnit
    <3>3. Contents(m) = [b \in 0..file.size - 1 |-> Contents(m)[b]]
      BY DEF Contents
    <3>4. buf = [b \in 0..file.size - 1 |-> buf[b]]
      BY <1>1 DEF IInv, BufferOK, Live
    <3> HIDE DEF Contents
    <3> QED BY <3>2, <3>3, <3>4
  <2>5. Sources' = Sources
    BY <1>1 DEF Sources
  <2>6. TypeOK' /\ BufferOK' /\ MemoOK'
    BY <1>1, <2>2 DEF IInv, TypeOK, BufferOK, MemoOK, Live, Errors
  <2>7. ProgressOK' /\ RefusedOK'
    BY <1>1, <2>2, <2>4, <2>5, SameFile DEF ProgressOK, RefusedOK, Errors
  <2> QED BY <2>6, <2>7 DEF IInv
<1> QED BY <1>1, <1>2, <1>3

-----------------------------------------------------------------------------
\* The first permanent hole settles where the holes are filled from; what was
\* copied before it does not depend on that.
LEMMA FallbackResolveInv == ASSUME IInv, FallbackResolve PROVE IInv'
<1>1. /\ pc = "fallback" /\ resolved = 0 /\ faults \in Nat /\ fbp
      /\ UNCHANGED <<file, fbp, pc, buf, heap, bufOut, sizeOut, loop>>
      /\ OwnLoop /\ loop.fb /\ loop.len > 0 /\ PageOutcome(loop.map, Page).kind = "permhole"
  BY DEF FallbackResolve, IInv, TypeOK, MemoOK, ProgressOK, OwnLoop
<1>2. \/ resolved' = (IF file.orig = {} THEN -1 ELSE 1) /\ faults' = faults
      \/ resolved' = -1 /\ faults' = faults + 1
  BY DEF FallbackResolve
<1>3. Sources' \subseteq Sources
  BY <1>1, <1>2 DEF Sources
<1>4. OwnLoop'
  <2>1. Filled(loop.off)'
    BY <1>1, <1>3, SameFile DEF OwnLoop, Filled
  <2> QED BY <1>1, <2>1, SameFile DEF OwnLoop
<1>5. TypeOK' /\ BufferOK'
  BY <1>1, <1>2 DEF IInv, TypeOK, BufferOK
<1>6. MemoOK'
  BY <1>1, <1>2 DEF IInv, MemoOK
<1>7. ProgressOK' /\ RefusedOK'
  BY <1>1, <1>4 DEF IInv, ProgressOK, RefusedOK, Errors, Page
<1> QED BY <1>5, <1>6, <1>7 DEF IInv

\* A turn that fills a permanent hole from the source that was settled on.
LEMMA HoleTurn ==
    ASSUME IInv, pc = "fallback", resolved # 0, NEW units, Put(units),
           UNCHANGED <<file, fbp, heap, bufOut, sizeOut, resolved, faults>>,
           \A b \in loop.dst..loop.dst + Chunk - 1 :
             units[InPage + (b - loop.dst)] =
               IF resolved = 1 THEN ValueOf(PageOutcome(The(file.orig), Page), loop.off + (b - loop.dst))
               ELSE Zero
    PROVE  IInv'
<1>1. /\ loop.len > 0 /\ PageOutcome(loop.map, Page).kind = "permhole" /\ OwnLoop
      /\ file \in Files /\ resolved \in {-1, 1} /\ (resolved = 1 => file.orig # {})
  BY DEF IInv, ProgressOK, TypeOK, MemoOK
<1>2. /\ loop.map = The(file.own) /\ loop.dst = loop.off /\ loop.off \in 0..MappedEnd
      /\ loop.len = MappedEnd - loop.off /\ Mapped
  BY <1>1 DEF OwnLoop
<1>3. /\ loop.off \in Nat /\ loop.len \in Nat /\ Chunk \in 1..loop.len
      /\ \A d \in 0..Chunk - 1 : (loop.off + d) \div PG = Page
  BY <1>1, LoopFacts
<1>4. ASSUME NEW b \in loop.dst..loop.dst + Chunk - 1, NEW m \in Sources
      PROVE  units[InPage + (b - loop.dst)] = MappedUnit(b, m)
  <2>1. b = loop.off + (b - loop.dst) /\ b - loop.dst \in 0..Chunk - 1 /\ b \in Nat
    BY <1>2, <1>3
  <2>2. b \div PG = Page
    BY <2>1, <1>3
  <2>3. b < MappedEnd
    BY <1>2, <1>3, <2>1, <1>1, FileFacts
  <2>4. b < PageCount(The(file.own)) * PG
    BY <2>3, <1>2, <2>1, <1>1, FileFacts DEF MappedEnd, Min2
  <2>5. ~(b >= PageCount(The(file.own)) * PG)
    BY <2>1, <2>4, <1>1, <1>2, FileFacts
  <2>6. MappedUnit(b, m) = IF m # {} THEN ValueOf(PageOutcome(The(m), Page), b) ELSE Zero
    BY <1>1, <1>2, <2>2, <2>5 DEF MappedUnit, ValueOf, Mapped
  <2>7. m = IF resolved = 1 THEN file.orig ELSE {}
    BY <1>1 DEF Sources
  <2> QED BY <1>1, <2>1, <2>6, <2>7
<1>5. OwnLoop'
  BY <1>1, <1>4, OwnTurn
<1> QED BY <1>1, <1>5, TurnInv

\* A hole without an original to fill it from.
LEMMA FallbackUnavailableInv == ASSUME IInv, FallbackUnavailable PROVE IInv'
<1>1. /\ pc = "fallback" /\ resolved = -1 /\ Put(ZeroPage)
      /\ UNCHANGED <<file, fbp, heap, bufOut, sizeOut, resolved, faults>>
  BY DEF FallbackUnavailable
<1>2. loop.len > 0
  BY <1>1 DEF IInv, ProgressOK
<1>3. ASSUME NEW b \in loop.dst..loop.dst + Chunk - 1
      PROVE  ZeroPage[InPage + (b - loop.dst)] = Zero
  <2>1. b - loop.dst \in 0..Chunk - 1
    BY <1>1, <1>2, LoopFacts
  <2>2. InPage + (b - loop.dst) \in 0..PG - 1
    BY <1>1, <1>2, <2>1, LoopFacts
  <2> QED BY <2>2 DEF ZeroPage
<1> QED BY <1>1, <1>3, HoleTurn

\* A hole filled from the original.
LEMMA FallbackPageInv == ASSUME IInv, FallbackPage PROVE IInv'
<1> DEFINE o == PageOutcome(The(file.orig), Page)
           page == IF o.kind = "data" THEN DataPage(o) ELSE ZeroPage
<1>1. /\ pc = "fallback" /\ resolved = 1 /\ UNCHANGED faults /\ loop.len > 0 /\ OwnLoop
      /\ file \in Files /\ faults \in Nat /\ file.orig # {} /\ pc \in Live
  BY DEF FallbackPage, IInv, ProgressOK, MemoOK, TypeOK, Live
<1>2. CASE o.kind \in {"EINVAL", "ERANGE"}
  <2>1. Fail(o.kind) /\ o.kind \in Errors
    BY <1>2 DEF FallbackPage, Errors
  <2>2. The(file.orig) \in file.orig
    BY <1>1, FileFacts
  <2>3. loop.off <= file.size
    BY <1>1, FileFacts DEF OwnLoop
  <2>4. \E m \in file.own \cup file.orig :
          m = <<>> \/ \E p \in 0..file.size \div PG : PageOutcome(m, p).kind = "ERANGE"
    BY <1>1, <1>2, <2>2, <2>3, PageRefused
  <2> QED BY <1>1, <2>1, <2>4, FailInv
<1>3. CASE o.kind \notin {"EINVAL", "ERANGE"}
  <2>1. Put(page) /\ UNCHANGED <<file, fbp, heap, bufOut, sizeOut, resolved>>
    BY <1>3 DEF FallbackPage
  <2>2. \A b \in loop.dst..loop.dst + Chunk - 1 :
          page[InPage + (b - loop.dst)] = ValueOf(o, loop.off + (b - loop.dst))
    BY <1>1, PageUnits
  <2> HIDE DEF page
  <2> QED BY <1>1, <2>1, <2>2, HoleTurn
<1> QED BY <1>2, <1>3

-----------------------------------------------------------------------------
\* read_frag_tail: no frag ends the call, a bad one refuses it, and a good one
\* starts the loop over the frag file.
LEMMA FragInv == ASSUME IInv, Frag PROVE IInv'
<1>1. /\ pc = "frag" /\ pc \in Live /\ UNCHANGED faults /\ file \in Files /\ faults \in Nat
      /\ \A b \in 0..file.size - 1, m \in Sources : buf[b] = MappedUnit(b, m)
      /\ file.frag_type # 0 \/ file.inline = {}
      /\ file.size \in Nat /\ FragOff \in Nat /\ file.frag_slot \in Nat
      /\ buf = [b \in 0..file.size - 1 |-> buf[b]]
  BY FileFacts DEF Frag, FragFrom, IInv, TypeOK, ProgressOK, BufferOK, Live
<1>2. CASE file.frag_type = 0
  <2>1. /\ pc' = "ok" /\ bufOut' = TRUE /\ sizeOut' = file.size
        /\ UNCHANGED <<file, fbp, buf, heap, loop, resolved>>
    BY <1>2 DEF Frag, FragFrom, Succeed
  <2>2. ASSUME NEW m \in Sources PROVE buf = Contents(m)
    <3>1. Contents(m) = [b \in 0..file.size - 1 |-> MappedUnit(b, m)]
      BY <1>1, <1>2 DEF Contents
    <3> QED BY <1>1, <3>1
  <2>3. Sources' = Sources
    BY <2>1 DEF Sources
  <2>4. TypeOK' /\ BufferOK' /\ MemoOK'
    BY <1>1, <2>1 DEF IInv, TypeOK, BufferOK, MemoOK, Live, Errors
  <2>5. ProgressOK' /\ RefusedOK'
    BY <2>1, <2>2, <2>3, SameFile DEF ProgressOK, RefusedOK, Errors
  <2> QED BY <2>4, <2>5 DEF IInv
<1>3. CASE /\ file.frag_type # 0
           /\ FragOff >= file.size \/ file.size - FragOff > file.frag_type \/ file.frag = {}
  <2>1. Fail("EINVAL") \/ Fail("ENODATA")
    BY <1>3 DEF Frag, FragFrom
  <2> QED BY <1>1, <1>3, <2>1, FailInv DEF Errors
<1>4. CASE /\ file.frag_type # 0
           /\ ~(FragOff >= file.size \/ file.size - FragOff > file.frag_type) /\ file.frag # {}
  <2>1. /\ pc' = "copy"
        /\ loop' = [map |-> The(file.frag), off |-> file.frag_slot, dst |-> FragOff,
                    len |-> file.size - FragOff, fb |-> FALSE, next |-> "ok"]
        /\ UNCHANGED <<file, fbp, buf, heap, bufOut, sizeOut, resolved>>
    BY <1>4 DEF Frag, FragFrom
  <2>2. /\ loop'.dst = FragOff /\ file.frag_slot = file.frag_slot + (FragOff - FragOff)
        /\ FragOff < file.size /\ FragOff \in FragOff..file.size
    BY <1>1, <1>4, <2>1
  <2>3. /\ FragOff' = FragOff /\ Sources' = Sources
    BY <2>1, SameFile DEF Sources
  <2>4. \A b \in 0..file.size - 1 :
          /\ b < FragOff => \A m \in Sources : buf'[b] = MappedUnit(b, m)
          /\ ~(b >= FragOff /\ b < FragOff)
    BY <1>1, <2>1
  <2>5. loop' = [map |-> The(file'.frag), off |-> file'.frag_slot + (loop'.dst - FragOff'),
                 dst |-> loop'.dst, len |-> file'.size - loop'.dst, fb |-> FALSE, next |-> "ok"]
    BY <2>1, <2>2, <2>3
  <2>6. FragLoop'
    BY <1>4, <2>1, <2>2, <2>3, <2>4, <2>5, SameFile DEF FragLoop
  <2>7. TypeOK' /\ BufferOK' /\ MemoOK'
    BY <1>1, <2>1 DEF IInv, TypeOK, BufferOK, MemoOK, Live, Errors
  <2>8. ProgressOK' /\ RefusedOK'
    BY <1>4, <2>1, <2>6 DEF ProgressOK, RefusedOK, Errors
  <2> QED BY <2>7, <2>8 DEF IInv
<1> QED BY <1>2, <1>3, <1>4

\* A fault of the disk frees the buffer.
LEMMA DiskFaultInv == ASSUME IInv, DiskFault PROVE IInv'
<1>1. pc \in Live /\ Fail("EIO") /\ faults' = faults + 1 /\ faults \in Nat
  BY DEF DiskFault, Fault, IInv, TypeOK, Live
<1> QED BY <1>1, FailInv DEF Errors

\* Stuttering.
LEMMA StutterInv == ASSUME IInv, UNCHANGED vars PROVE IInv'
<1>1. UNCHANGED <<file, fbp, pc, buf, heap, bufOut, sizeOut, loop, resolved, faults>>
  BY DEF vars
<1>2. Sources' = Sources /\ Page' = Page
  BY <1>1 DEF Sources, Page
<1>3. OwnLoop' = OwnLoop
  BY <1>1, <1>2, SameFile DEF OwnLoop, Filled
<1>4. FragLoop' = FragLoop
  BY <1>1, <1>2, SameFile DEF FragLoop
<1>5. TypeOK' /\ BufferOK' /\ MemoOK'
  BY <1>1 DEF IInv, TypeOK, BufferOK, MemoOK
<1>6. ProgressOK'
  BY <1>1, <1>2, <1>3, <1>4, SameFile DEF IInv, ProgressOK
<1>7. RefusedOK'
  BY <1>1 DEF IInv, RefusedOK
<1> QED BY <1>5, <1>6, <1>7 DEF IInv

\* Every step keeps the invariant.
LEMMA NextInv == IInv /\ [Next]_vars => IInv'
BY EarlyInv, AllocInv, ResolveInv, InlineInv, ExtentsInv, CopyPageInv, CopyEndInv,
   FallbackResolveInv, FallbackUnavailableInv, FallbackPageInv, FragInv, DiskFaultInv, StutterInv
   DEF Next, Returned

\* The invariant holds in every state that a call can reach.
THEOREM Invariance == Spec => []IInv
BY InitInv, NextInv, PTL DEF Spec

-----------------------------------------------------------------------------
(***************************************************************************)
(* A read that succeeds returns the file: the loops of copy_bitfile_bytes  *)
(* compute, page by page, what Contents defines unit by unit, and all of a *)
(* clone's permanent holes are filled in the same way.                     *)
(***************************************************************************)
THEOREM ReadsAreExact == Spec => []ReadExact
<1>1. IInv => ReadExact
  <2> SUFFICES ASSUME IInv, pc = "ok"
               PROVE  \E m \in {{}, IF fbp THEN file.orig ELSE {}} : buf = Contents(m)
    BY DEF ReadExact
  <2>1. \A m \in Sources : buf = Contents(m)
    BY DEF IInv, ProgressOK
  <2>2. CASE resolved = 1
    BY <2>1, <2>2 DEF Sources, IInv, MemoOK
  <2>3. CASE resolved # 1
    <3>1. {} \in Sources
      BY <2>3 DEF Sources
    <3> QED BY <2>1, <3>1
  <2> QED BY <2>2, <2>3
<1> QED BY <1>1, Invariance, PTL

(***************************************************************************)
(* Without a disk fault every permanent hole of a clone is filled from the *)
(* original (clone_fallback_resolve is not tried in vain).                 *)
(***************************************************************************)
THEOREM CleanReadsAreExact == Spec => []CleanReadExact
<1>1. IInv => CleanReadExact
  <2> SUFFICES ASSUME IInv, pc = "ok", faults = 0
               PROVE  buf = Contents(IF fbp THEN file.orig ELSE {})
    BY DEF CleanReadExact
  <2>1. \A m \in Sources : buf = Contents(m)
    BY DEF IInv, ProgressOK
  <2>2. (IF fbp THEN file.orig ELSE {}) \in Sources
    BY DEF Sources, IInv, MemoOK, TypeOK
  <2> QED BY <2>1, <2>2
<1> QED BY <1>1, Invariance, PTL

(***************************************************************************)
(* No memcpy of the call leaves the buffer, no path leaks it, and only a   *)
(* success hands it out.                                                   *)
(***************************************************************************)
THEOREM BuffersAreOwned == Spec => []BufferOwned
<1>1. IInv => BufferOwned
  <2> SUFFICES ASSUME IInv PROVE BufferOwned
    OBVIOUS
  <2>1. heap = 1 => DOMAIN buf = 0..file.size - 1
    BY DEF IInv, BufferOK
  <2>2. pc \in Errors => heap = 0 /\ ~bufOut /\ sizeOut = 0
    BY DEF IInv, BufferOK, Errors, Live
  <2>3. pc = "ok" => heap = 1 /\ bufOut /\ sizeOut = file.size
    BY DEF IInv, BufferOK, Live
  <2> QED BY <2>1, <2>2, <2>3 DEF BufferOwned
<1> QED BY <1>1, Invariance, PTL

(***************************************************************************)
(* A page past the end of a map is a hole and never an error.              *)
(***************************************************************************)
THEOREM SparseReadsSucceed == Spec => []SparseNeverFails
<1>1. IInv => SparseNeverFails
  BY DEF IInv, RefusedOK, SparseNeverFails
<1> QED BY <1>1, Invariance, PTL
=============================================================================
