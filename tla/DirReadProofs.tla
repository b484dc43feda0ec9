--------------------------- MODULE DirReadProofs ----------------------------
(***************************************************************************)
(* Proofs about DirRead, for every directory, map, damage and page size:   *)
(* the pages that are walked are the right ones (WalkIsSound), none is     *)
(* left out (NoPageLeftOut), and the entries of a page come out whatever   *)
(* one damaged header says (DamageContained).                              *)
(***************************************************************************)
EXTENDS DirRead, TLAPS, WellFoundedInduction

-----------------------------------------------------------------------------
\* Extent maps.

\* A set of naturals that is not empty has a least element.
LEMMA Least ==
    ASSUME NEW T, T \subseteq Nat, T # {}
    PROVE  \E x \in T : \A y \in T : x <= y
<1> DEFINE R == {ss \in Nat \X Nat : ss[1] < ss[2]}
<1>1. IsWellFoundedOn(R, Nat)
  BY NatLessThanWellFounded DEF OpToRel
<1>2. \A x, y \in Nat : y < x => <<y, x>> \in R
  OBVIOUS
<1> HIDE DEF R
<1>3. PICK x \in T : \A y \in T : ~(<<y, x>> \in R)
  BY <1>1, WFMin
<1>4. ASSUME NEW y \in T PROVE x <= y
  <2>1. ~(y < x)
    BY <1>2, <1>3
  <2> QED BY <2>1
<1> QED BY <1>4

\* The end of a descriptor is a 32-bit page number.
LEMMA PageEndType ==
    ASSUME NEW e \in Extent
    PROVE  PageEnd(e) \in 0..U32
<1>1. e.bs_page \in 0..U32 /\ U32 + 1 \in Nat \ {0}
  BY ExtentAssumption DEF Extent
<1>2. \A a \in Nat, p \in Nat \ {0} : a % p \in 0..p - 1
  OBVIOUS
<1>3. (e.bs_page + 1) % (U32 + 1) \in 0..U32
  <2> DEFINE a == e.bs_page + 1
             p == U32 + 1
  <2>1. a \in Nat /\ p \in Nat \ {0} /\ U32 = p - 1
    BY <1>1, ExtentAssumption
  <2> HIDE DEF a, p
  <2>2. a % p \in 0..p - 1
    BY <2>1, <1>2
  <2>3. a % p \in 0..U32
    BY <2>1, <2>2
  <2> QED BY <2>3 DEF a, p
<1> QED BY <1>1, <1>3 DEF PageEnd

(***************************************************************************)
(* advfs_extents_page_count returns the largest end of a descriptor: the   *)
(* maximum exists for every map, however its descriptors are ordered.      *)
(***************************************************************************)
LEMMA PageCountMax ==
    ASSUME NEW m \in Seq(Extent)
    PROVE  /\ PageCount(m) \in 0..U32
           /\ \A i \in 1..Len(m) : PageEnd(m[i]) <= PageCount(m)
<1> DEFINE ends == {0} \cup {PageEnd(m[i]) : i \in 1..Len(m)}
           above == {n \in Nat : \A i \in 1..Len(m) : n >= PageEnd(m[i])}
<1>1. \A i \in 1..Len(m) : PageEnd(m[i]) \in 0..U32
  BY PageEndType
<1>2. ends \subseteq 0..U32
  BY <1>1, ExtentAssumption
<1>3. U32 \in above
  BY <1>1, ExtentAssumption
<1>4. PICK n \in above : \A k \in above : n <= k
  <2>1. above \subseteq Nat /\ above # {}
    BY <1>3
  <2> HIDE DEF above
  <2> QED BY <2>1, Least
<1>5. n \in ends
  <2> SUFFICES ASSUME n \notin ends PROVE FALSE
    OBVIOUS
  <2>1. n # 0 /\ n - 1 \in Nat
    OBVIOUS
  <2>2. \A i \in 1..Len(m) : n # PageEnd(m[i]) /\ n >= PageEnd(m[i])
    OBVIOUS
  <2>3. n - 1 \in above
    BY <2>1, <2>2, <1>1
  <2> QED BY <2>3, <1>4
<1>6. \E k \in ends : \A i \in 1..Len(m) : k >= PageEnd(m[i])
  BY <1>5
<1>7. PageCount(m) \in ends /\ \A i \in 1..Len(m) : PageCount(m) >= PageEnd(m[i])
  BY <1>6 DEF PageCount
<1> QED BY <1>7, <1>2, <1>1

-----------------------------------------------------------------------------
\* The parts of a directory and of a walk.

PageType == [page : Nat, from : {"own", "orig"}]
ReportType == [page : Nat, blk : Nat, off : Nat, size : Nat, kind : {"live", "deleted"}]

\* The operators of DirRead that depend on the state, as functions of it.
TextOf(x, ws, p, k) ==
    IF \E w \in 1..Len(ws) :
         /\ ws[w].page = p
         /\ PageOutcome(IF ws[w].from = "own" THEN x.own ELSE The(x.orig), p).kind = "zero"
    THEN [o \in {0} |-> Zeros] ELSE x.text[k]

DamageOf(x, p, k) == {y \in x.damage : y.page = p /\ y.blk = k}

HdrOf(x, ws, p, k, o) ==
    LET b == TextOf(x, ws, p, k)
        y == {z \in DamageOf(x, p, k) : z.at = o}
    IN  IF y # {} THEN The(y).hdr ELSE IF o \in DOMAIN b THEN b[o] ELSE x.junk

WantedOf(x, b, e) ==
    {o \in DOMAIN b : /\ o < e
                      /\ \/ b[o].tag /\ "live" \in x.want
                         \/ ~b[o].tag /\ b[o].trail /\ "deleted" \in x.want}

CallbackOf(x, h) ==
    x.want \cap
      (IF ~Fits(h) THEN {} ELSE IF h.tag THEN {"live"}
       ELSE IF h.trail /\ h.name THEN {"deleted"} ELSE {})

AtOf(rs, p, k) == {rs[r].off : r \in {q \in 1..Len(rs) : rs[q].page = p /\ rs[q].blk = k}}

\* Block k of page p has been walked to its end.
Complete(x, ws, rs, p, k) ==
    LET b == TextOf(x, ws, p, k) IN
    IF DamageOf(x, p, k) = {} THEN AtOf(rs, p, k) = WantedOf(x, b, BLKSZ)
    ELSE WantedOf(x, b, The(x.damage).at) \subseteq AtOf(rs, p, k)

\* Block k of page p has been walked up to offset o: up to the damage the walk
\* is at the beginning of an entry.
Partial(x, ws, rs, p, k, o) ==
    LET b == TextOf(x, ws, p, k)
        a == The(x.damage).at
    IN  IF DamageOf(x, p, k) = {}
        THEN o \in DOMAIN b /\ AtOf(rs, p, k) = WantedOf(x, b, o)
        ELSE /\ o <= a => o \in DOMAIN b /\ WantedOf(x, b, o) \subseteq AtOf(rs, p, k)
             /\ o > a => WantedOf(x, b, a) \subseteq AtOf(rs, p, k)

-----------------------------------------------------------------------------
\* The element of a set that has one.
LEMMA TheOne ==
    ASSUME NEW S, S # {}
    PROVE  The(S) \in S
BY DEF The

\* A directory is of the shape that DirAssumption describes.
LEMMA DirFacts ==
    ASSUME NEW x \in Directories
    PROVE  /\ x.own \in Seq(Extent)
           /\ x.orig # {} => The(x.orig) \in Seq(Extent) /\ x.orig = {The(x.orig)}
           /\ x.clone \in BOOLEAN /\ x.want \subseteq {"live", "deleted"}
           /\ \A k \in 0..BLKS - 1 : Written(x.text[k])
           /\ x.junk \in Header
           /\ \A y \in x.damage : /\ y = The(x.damage)
                                  /\ y.at \in Nat /\ y.hdr \in Header
<1>1. /\ x.own \in Seq(Extent) /\ x.orig \in Optional(Seq(Extent))
      /\ x.clone \in BOOLEAN /\ x.want \subseteq {"live", "deleted"}
      /\ \A k \in 0..BLKS - 1 : Written(x.text[k])
      /\ x.damage \in Optional([page : Nat, blk : 0..BLKS - 1, at : Nat, hdr : Header])
      /\ x.junk \in Header
  BY DirAssumption
<1>2. ASSUME NEW S, NEW T \in Optional(S), NEW y \in T
      PROVE  y = The(T) /\ y \in S /\ T = {y}
  <2>1. The(T) \in T
    BY TheOne
  <2> QED BY <2>1, <1>2 DEF Optional
<1>3. x.orig # {} => The(x.orig) \in Seq(Extent) /\ x.orig = {The(x.orig)}
  BY <1>1, <1>2, TheOne
<1>4. ASSUME NEW y \in x.damage
      PROVE  y = The(x.damage) /\ y.at \in Nat /\ y.hdr \in Header
  <2> DEFINE D == [page : Nat, blk : 0..BLKS - 1, at : Nat, hdr : Header]
  <2>1. x.damage \in Optional(D)
    BY <1>1
  <2> HIDE DEF D
  <2>2. y = The(x.damage) /\ y \in D
    BY <2>1, <1>2, <1>4
  <2> QED BY <2>2 DEF D
<1> QED BY <1>1, <1>3, <1>4

\* A block of zeros is written the way blocks are.
LEMMA TextWritten ==
    ASSUME NEW x \in Directories, NEW ws, NEW p, NEW k \in 0..BLKS - 1
    PROVE  Written(TextOf(x, ws, p, k))
<1>1. Written([o \in {0} |-> Zeros])
  <2> DEFINE z == [o \in {0} |-> Zeros]
  <2>1. DOMAIN z = {0} /\ z[0] = Zeros /\ Zeros \in Header
    BY DEF Zeros, Header
  <2>2. ~Zeros.tag /\ ~Zeros.trail
    BY DEF Zeros
  <2>3. DOMAIN z \subseteq 0..BLKSZ
    BY <2>1, DirAssumption
  <2> HIDE DEF z
  <2>4. Written(z)
    BY <2>1, <2>2, <2>3 DEF Written
  <2> QED BY <2>4 DEF z
<1>2. Written(x.text[k])
  BY DirFacts
<1> QED BY <1>1, <1>2 DEF TextOf

\* The header that is read is one.
LEMMA HdrType ==
    ASSUME NEW x \in Directories, NEW ws, NEW p, NEW k \in 0..BLKS - 1, NEW o
    PROVE  HdrOf(x, ws, p, k, o) \in Header
<1> DEFINE b == TextOf(x, ws, p, k)
           y == {z \in DamageOf(x, p, k) : z.at = o}
<1>1. o \in DOMAIN b => b[o] \in Header
  BY TextWritten DEF Written
<1>2. y # {} => The(y).hdr \in Header
  <2> HAVE y # {}
  <2>1. The(y) \in y
    BY TheOne
  <2>2. The(y) \in x.damage
    BY <2>1 DEF DamageOf
  <2> QED BY <2>2, DirFacts
<1> QED BY <1>1, <1>2, DirFacts DEF HdrOf

\* What an appended report adds to the reports of a block.
LEMMA AtAppend ==
    ASSUME NEW rs \in Seq(ReportType), NEW r \in ReportType, NEW p, NEW k
    PROVE  AtOf(Append(rs, r), p, k) =
             AtOf(rs, p, k) \cup (IF r.page = p /\ r.blk = k THEN {r.off} ELSE {})
<1> DEFINE ts == Append(rs, r)
<1>1. /\ Len(ts) = Len(rs) + 1 /\ Len(rs) \in Nat
      /\ \A q \in 1..Len(rs) : ts[q] = rs[q]
      /\ ts[Len(rs) + 1] = r
  OBVIOUS
<1> HIDE DEF ts
<1>2. \A q \in 1..Len(ts) : q \in 1..Len(rs) \/ q = Len(rs) + 1
  BY <1>1
<1>3. \A q \in 1..Len(rs) : q \in 1..Len(ts)
  BY <1>1
<1>4. Len(rs) + 1 \in 1..Len(ts)
  BY <1>1
<1>5. AtOf(ts, p, k) = AtOf(rs, p, k) \cup (IF r.page = p /\ r.blk = k THEN {r.off} ELSE {})
  BY <1>1, <1>2, <1>3, <1>4, Zenon DEF AtOf
<1> QED BY <1>5 DEF ts

\* Loading another page does not change the text of this one.
LEMMA TextAppend ==
    ASSUME NEW x, NEW ws \in Seq(PageType), NEW w \in PageType, NEW p, NEW k, w.page # p
    PROVE  TextOf(x, Append(ws, w), p, k) = TextOf(x, ws, p, k)
<1> DEFINE vs == Append(ws, w)
<1>1. /\ Len(vs) = Len(ws) + 1 /\ Len(ws) \in Nat
      /\ \A q \in 1..Len(ws) : vs[q] = ws[q]
      /\ vs[Len(ws) + 1] = w
  OBVIOUS
<1> HIDE DEF vs
<1>2. \A q \in 1..Len(vs) : q \in 1..Len(ws) \/ q = Len(ws) + 1
  BY <1>1
<1>3. \A q \in 1..Len(ws) : q \in 1..Len(vs)
  BY <1>1
<1>4. TextOf(x, vs, p, k) = TextOf(x, ws, p, k)
  <2> DEFINE Z(q) == PageOutcome(IF q.from = "own" THEN x.own ELSE The(x.orig), p).kind = "zero"
  <2>1. (\E q \in 1..Len(vs) : vs[q].page = p /\ Z(vs[q]))
          <=> (\E q \in 1..Len(ws) : ws[q].page = p /\ Z(ws[q]))
    <3> HIDE DEF Z
    <3> QED BY <1>1, <1>2, <1>3
  <2> QED BY <2>1 DEF TextOf
<1> QED BY <1>4 DEF vs

-----------------------------------------------------------------------------
\* The entries that are wanted before the end of an entry are those before its
\* beginning, and itself if it is wanted.
LEMMA WantedStep ==
    ASSUME NEW x \in Directories, NEW b, Written(b), NEW o \in DOMAIN b, b[o] # Zeros
    PROVE  /\ o + b[o].size \in DOMAIN b /\ b[o].size >= HDR_SZ
           /\ WantedOf(x, b, o + b[o].size) =
                WantedOf(x, b, o) \cup (IF CallbackOf(x, b[o]) # {} THEN {o} ELSE {})
           /\ \A e \in Nat : o < e /\ e <= o + b[o].size =>
                WantedOf(x, b, e) \subseteq
                  WantedOf(x, b, o) \cup (IF CallbackOf(x, b[o]) # {} THEN {o} ELSE {})
<1>1. /\ DOMAIN b \subseteq Nat /\ o \in Nat
      /\ b[o] \in Header /\ b[o].size \in Nat
      /\ b[o].size >= HDR_SZ /\ o + b[o].size \in DOMAIN b
      /\ \A q \in DOMAIN b : q <= o \/ q >= o + b[o].size
  <2>1. DOMAIN b \subseteq 0..BLKSZ
    BY DEF Written
  <2>2. b[o] \in Header
    BY DEF Written
  <2> QED BY <2>1, <2>2 DEF Written, Header
<1>2. \A h \in Header : /\ h.tag \/ h.trail => Fits(h)
                        /\ h.tag \/ (h.trail => h.name)
        => (CallbackOf(x, h) # {} <=>
              \/ h.tag /\ "live" \in x.want
              \/ ~h.tag /\ h.trail /\ "deleted" \in x.want)
  BY DEF CallbackOf, Header
<1>3. CallbackOf(x, b[o]) # {} <=>
        \/ b[o].tag /\ "live" \in x.want
        \/ ~b[o].tag /\ b[o].trail /\ "deleted" \in x.want
  BY <1>1, <1>2 DEF Written
<1>4. \A q \in DOMAIN b : q < o + b[o].size <=> q < o \/ q = o
  BY <1>1 DEF HDR_SZ
<1>5. \A e \in Nat : e <= o + b[o].size => \A q \in DOMAIN b : q < e => q < o \/ q = o
  BY <1>1
<1>6. ~(o < o)
  BY <1>1
<1>7. WantedOf(x, b, o + b[o].size) =
        WantedOf(x, b, o) \cup (IF CallbackOf(x, b[o]) # {} THEN {o} ELSE {})
  <2> DEFINE n == o + b[o].size
             W(q) == \/ b[q].tag /\ "live" \in x.want
                     \/ ~b[q].tag /\ b[q].trail /\ "deleted" \in x.want
             C == CallbackOf(x, b[o]) # {}
  <2>1. C <=> W(o)
    BY <1>3
  <2>2. \A q \in DOMAIN b : q < n <=> q < o \/ q = o
    BY <1>4
  <2>3. \A e : WantedOf(x, b, e) = {q \in DOMAIN b : q < e /\ W(q)}
    BY DEF WantedOf
  <2> HIDE DEF n, W, C
  <2>4. WantedOf(x, b, n) = WantedOf(x, b, o) \cup (IF C THEN {o} ELSE {})
    BY <2>1, <2>2, <2>3, <1>6
  <2> QED BY <2>4 DEF n, C
<1>8. ASSUME NEW e \in Nat, e <= o + b[o].size
      PROVE  WantedOf(x, b, e) \subseteq
               WantedOf(x, b, o) \cup (IF CallbackOf(x, b[o]) # {} THEN {o} ELSE {})
  <2> DEFINE C == CallbackOf(x, b[o]) # {}
  <2>1. \A q \in DOMAIN b : q < e => q < o \/ q = o
    BY <1>5, <1>8
  <2>2. ASSUME NEW q \in WantedOf(x, b, e)
        PROVE  q \in WantedOf(x, b, o) \/ (C /\ q = o)
    BY <2>1, <1>3 DEF WantedOf
  <2> QED BY <2>2
<1> QED BY <1>1, <1>7, <1>8

\* After the last entry there is nothing more to want.
LEMMA WantedEnd ==
    ASSUME NEW x, NEW b, Written(b), NEW o \in DOMAIN b, b[o] = Zeros,
           NEW e \in Nat, o <= e
    PROVE  WantedOf(x, b, e) = WantedOf(x, b, o)
<1>1. DOMAIN b \subseteq Nat
  BY DirAssumption DEF Written
<1>2. ~b[o].tag /\ ~b[o].trail /\ b[o].size = 0
  BY DEF Zeros
<1>3. \A q \in DOMAIN b : q <= o
  BY <1>2 DEF Written, HDR_SZ
<1>4. ASSUME NEW q \in DOMAIN b, q # o
      PROVE  q < e <=> q < o
  BY <1>1, <1>3, <1>4
<1>5. o < e \/ ~(o < e)
  OBVIOUS
<1> QED BY <1>2, <1>4, <1>1 DEF WantedOf

\* The walk of a block begins at its first entry.
LEMMA PartialStart ==
    ASSUME NEW x \in Directories, NEW ws, NEW rs, NEW p, NEW k \in 0..BLKS - 1,
           AtOf(rs, p, k) = {}
    PROVE  Partial(x, ws, rs, p, k, 0)
<1> DEFINE b == TextOf(x, ws, p, k)
<1>1. Written(b)
  BY TextWritten
<1>2. 0 \in DOMAIN b /\ DOMAIN b \subseteq 0..BLKSZ
  BY <1>1 DEF Written
<1>3. WantedOf(x, b, 0) = {}
  BY <1>2, DirAssumption DEF WantedOf
<1>4. DamageOf(x, p, k) # {} => The(x.damage).at \in Nat
  BY DirFacts DEF DamageOf
<1> HIDE DEF b
<1> QED BY <1>2, <1>3, <1>4 DEF Partial, b

\* Before the damage the header that is read is the entry's own.
LEMMA HdrIntact ==
    ASSUME NEW x \in Directories, NEW ws, NEW p, NEW k, NEW o,
           o \in DOMAIN TextOf(x, ws, p, k),
           DamageOf(x, p, k) = {} \/ o # The(x.damage).at
    PROVE  HdrOf(x, ws, p, k, o) = TextOf(x, ws, p, k)[o]
<1> DEFINE y == {z \in DamageOf(x, p, k) : z.at = o}
<1>1. y = {}
  BY DirFacts DEF DamageOf
<1> QED BY <1>1 DEF HdrOf

\* A block that ends, for want of space or at a header that is not valid, has
\* given all it had to give.
LEMMA PartialEnd ==
    ASSUME NEW x \in Directories, NEW ws, NEW rs, NEW p, NEW k \in 0..BLKS - 1,
           NEW o \in Nat, Partial(x, ws, rs, p, k, o),
           o + HDR_SZ <= BLKSZ => EndsBlock(HdrOf(x, ws, p, k, o), o)
    PROVE  Complete(x, ws, rs, p, k)
<1> DEFINE b == TextOf(x, ws, p, k)
           a == The(x.damage).at
<1>1. Written(b) /\ DOMAIN b \subseteq 0..BLKSZ
  BY TextWritten DEF Written
<1>2. ASSUME o \in DOMAIN b, DamageOf(x, p, k) = {} \/ o # a
      PROVE  b[o] = Zeros
  <2>1. HdrOf(x, ws, p, k, o) = b[o]
    BY <1>2, HdrIntact
  <2>2. o + HDR_SZ <= BLKSZ => b[o].size < HDR_SZ \/ o + b[o].size > BLKSZ
    BY <2>1 DEF EndsBlock
  <2> HIDE DEF b
  <2> SUFFICES ASSUME b[o] # Zeros PROVE FALSE
    OBVIOUS
  <2>3. b[o].size >= HDR_SZ /\ o + b[o].size \in 0..BLKSZ /\ b[o].size \in Nat
    BY <1>1, <1>2 DEF Written, Header
  <2> QED BY <2>2, <2>3, DirAssumption DEF HDR_SZ
<1>3. CASE DamageOf(x, p, k) = {}
  <2>1. o \in DOMAIN b /\ AtOf(rs, p, k) = WantedOf(x, b, o)
    BY <1>3 DEF Partial
  <2>2. WantedOf(x, b, BLKSZ) = WantedOf(x, b, o)
    <3>1. o <= BLKSZ /\ BLKSZ \in Nat /\ b[o] = Zeros
      BY <2>1, <1>1, <1>2, <1>3, DirAssumption
    <3> HIDE DEF b
    <3> QED BY <3>1, <2>1, <1>1, WantedEnd
  <2> QED BY <2>1, <2>2, <1>3 DEF Complete
<1>4. CASE DamageOf(x, p, k) # {}
  <2>1. a \in Nat
    BY <1>4, DirFacts DEF DamageOf
  <2>2. CASE o > a
    BY <2>2, <1>4 DEF Partial, Complete
  <2>3. CASE o = a
    <3>1. WantedOf(x, b, a) \subseteq AtOf(rs, p, k)
      BY <2>1, <2>3, <1>4 DEF Partial
    <3> QED BY <3>1, <1>4 DEF Complete
  <2>4. CASE o < a
    <3>1. o \in DOMAIN b /\ WantedOf(x, b, o) \subseteq AtOf(rs, p, k)
      BY <2>1, <2>4, <1>4 DEF Partial
    <3>2. b[o] = Zeros
      BY <3>1, <2>1, <2>4, <1>2
    <3>3. WantedOf(x, b, a) = WantedOf(x, b, o)
      <4> HIDE DEF b, a
      <4> QED BY <3>1, <3>2, <2>1, <2>4, <1>1, WantedEnd
    <3> QED BY <3>1, <3>3, <1>4 DEF Complete
  <2> QED BY <2>1, <2>2, <2>3, <2>4
<1> QED BY <1>3, <1>4

\* One turn of walk_dir_block goes to the next entry, and to somewhere after
\* the damage when it reads the damaged header.
LEMMA PartialStep ==
    ASSUME NEW x \in Directories, NEW ws, NEW rs, NEW ts, NEW p, NEW k \in 0..BLKS - 1,
           NEW o \in Nat, Partial(x, ws, rs, p, k, o),
           ~EndsBlock(HdrOf(x, ws, p, k, o), o),
           AtOf(ts, p, k) = AtOf(rs, p, k) \cup
             (IF CallbackOf(x, HdrOf(x, ws, p, k, o)) # {} THEN {o} ELSE {})
    PROVE  Partial(x, ws, ts, p, k, o + HdrOf(x, ws, p, k, o).size)
<1> DEFINE b == TextOf(x, ws, p, k)
           a == The(x.damage).at
           h == HdrOf(x, ws, p, k, o)
           n == o + h.size
<1>1. Written(b) /\ DOMAIN b \subseteq 0..BLKSZ
  BY TextWritten DEF Written
<1>2. h \in Header
  BY HdrType
<1>3. h.size \in Nat /\ h.size >= HDR_SZ /\ n > o /\ n \in Nat
  BY <1>2 DEF EndsBlock, Header, HDR_SZ
<1>4. ASSUME o \in DOMAIN b, DamageOf(x, p, k) = {} \/ o # a
      PROVE  /\ n \in DOMAIN b
             /\ WantedOf(x, b, n) =
                  WantedOf(x, b, o) \cup (IF CallbackOf(x, h) # {} THEN {o} ELSE {})
             /\ \A e \in Nat : o < e /\ e <= n =>
                  WantedOf(x, b, e) \subseteq
                    WantedOf(x, b, o) \cup (IF CallbackOf(x, h) # {} THEN {o} ELSE {})
  <2>1. h = b[o]
    BY <1>4, HdrIntact
  <2>2. b[o] # Zeros
    BY <2>1, <1>3 DEF Zeros, HDR_SZ
  <2> HIDE DEF b, h
  <2> QED BY <2>1, <2>2, <1>1, <1>4, WantedStep
<1>5. CASE DamageOf(x, p, k) = {}
  <2>1. o \in DOMAIN b /\ AtOf(rs, p, k) = WantedOf(x, b, o)
    BY <1>5 DEF Partial
  <2>2. n \in DOMAIN b /\ AtOf(ts, p, k) = WantedOf(x, b, n)
    <3> HIDE DEF b, n, h
    <3> QED BY <2>1, <1>4, <1>5 DEF h
  <2> QED BY <2>2, <1>5 DEF Partial
<1>6. CASE DamageOf(x, p, k) # {}
  <2>1. a \in Nat
    BY <1>6, DirFacts DEF DamageOf
  <2>2. AtOf(rs, p, k) \subseteq AtOf(ts, p, k)
    OBVIOUS
  <2>3. CASE o >= a
    <3>1. WantedOf(x, b, a) \subseteq AtOf(rs, p, k)
      <4>1. CASE o > a
        BY <4>1, <1>6 DEF Partial
      <4>2. CASE o = a
        BY <4>2, <2>1, <1>6 DEF Partial
      <4> QED BY <4>1, <4>2, <2>3, <2>1
    <3>2. n > a
      BY <1>3, <2>1, <2>3
    <3>3. WantedOf(x, b, a) \subseteq AtOf(ts, p, k) /\ ~(n <= a)
      BY <3>1, <3>2, <2>2, <2>1, <1>3
    <3> QED BY <3>2, <3>3, <1>6 DEF Partial
  <2>4. CASE o < a
    <3>1. o \in DOMAIN b /\ WantedOf(x, b, o) \subseteq AtOf(rs, p, k)
      BY <2>1, <2>4, <1>6 DEF Partial
    <3>2. o # a
      BY <2>1, <2>4
    <3>3. WantedOf(x, b, o) \cup (IF CallbackOf(x, h) # {} THEN {o} ELSE {})
            \subseteq AtOf(ts, p, k)
      <4> HIDE DEF b
      <4> QED BY <3>1
    <3>4. n <= a => n \in DOMAIN b /\ WantedOf(x, b, n) \subseteq AtOf(ts, p, k)
      <4> HIDE DEF b, n, h
      <4> QED BY <3>1, <3>2, <3>3, <1>4
    <3>5. n > a => WantedOf(x, b, a) \subseteq AtOf(ts, p, k)
      <4>1. n > a => a <= n
        BY <2>1, <1>3
      <4> HIDE DEF b, n, h, a
      <4> QED BY <4>1, <3>1, <3>2, <3>3, <1>4, <2>1, <2>4
    <3> QED BY <3>4, <3>5, <1>6 DEF Partial
  <2> QED BY <2>1, <2>3, <2>4
<1> QED BY <1>5, <1>6

-----------------------------------------------------------------------------
TypeOK ==
    /\ d \in Directories /\ origOk \in BOOLEAN
    /\ pc \in {"own", "orig", "bound", "read", "block", "ok", "stopped", "error"}
    /\ maxPage \in Nat /\ pg \in Nat /\ blk \in 0..BLKS - 1 /\ off \in Nat
    /\ walked \in Seq(PageType) /\ reports \in Seq(ReportType) /\ faults \in Nat

\* The map of the directory is taken for a V3 clone's stub.
Stub == d.clone /\ PageCount(d.own) > MaxDirPages

\* Whether the original is a fallback is settled before the number of pages,
\* and the number of pages before the first page is read.
PhaseOK ==
    /\ pc \in {"own", "orig", "bound"} =>
         maxPage = 0 /\ pg = 0 /\ walked = <<>> /\ reports = <<>>
    /\ pc \in {"own", "orig"} => ~origOk /\ faults = 0
    /\ pc = "orig" => d.clone
    /\ origOk => d.clone /\ d.orig # {}
    /\ pc \notin {"own", "orig"} /\ faults = 0 /\ d.clone => origOk \/ d.orig \in {{}, {<<>>}}

\* The number of pages: allowed, in one of the maps, and all there are.
BoundOK ==
    /\ maxPage <= MaxDirPages
    /\ \E m \in {d.own} \cup d.orig : maxPage <= PageCount(m)
    /\ pc \in {"read", "block", "ok"} =>
         \A p \in 0..MaxDirPages - 1 :
           \/ ~Stub /\ p < PageCount(d.own)
           \/ origOk /\ p < PageCount(The(d.orig))
           => p < maxPage

\* The pages walked are the readable ones before the current one, and this one
\* while its blocks are.
WalkOK ==
    /\ pc \in {"block", "stopped"} => pg < maxPage
    /\ pc = "ok" => pg >= maxPage
    /\ \A i, j \in 1..Len(walked) : i < j => walked[i].page < walked[j].page
    /\ \A i \in 1..Len(walked) :
         /\ walked[i].page < maxPage
         /\ walked[i].page <= pg
         /\ pc \notin {"block", "stopped"} => walked[i].page < pg
         /\ walked[i].from = "own" <=> Holds(d.own, walked[i].page)
         /\ walked[i].from = "orig" => origOk /\ Holds(The(d.orig), walked[i].page)
    /\ pc \in {"block", "stopped"} => \E i \in 1..Len(walked) : walked[i].page = pg
    /\ \A p \in Nat :
         p < pg /\ (Holds(d.own, p) \/ (origOk /\ Holds(The(d.orig), p)))
         => \E i \in 1..Len(walked) : walked[i].page = p
    /\ pc = "error" /\ faults = 0 =>
         \E m \in {d.own} \cup d.orig, p \in 0..MaxDirPages : PageOutcome(m, p).kind \in Broken

\* Report r lies before offset o of block k of page p.
Before(r, p, k, o) ==
    \/ r.page < p
    \/ r.page = p /\ r.blk < k
    \/ r.page = p /\ r.blk = k /\ r.off + r.size <= o

\* The reports come in the order of the disk and lie in their blocks.
ReportOK ==
    /\ pc # "stopped" => \A i \in 1..Len(reports) : Before(reports[i], pg, blk, off)
    /\ \A i, j \in 1..Len(reports) :
         i < j => Before(reports[i], reports[j].page, reports[j].blk, reports[j].off)
    /\ \A i \in 1..Len(reports) :
         reports[i].size >= NAMED_SZ /\ reports[i].off + reports[i].size <= BLKSZ

\* Block k of page p lies before the current one.
Past(p, k) == p < pg \/ (p = pg /\ k < blk)

\* The blocks before the current one are complete, the current one is up to off.
BlockOK ==
    /\ \A i \in 1..Len(walked), k \in 0..BLKS - 1 :
         Past(walked[i].page, k) => Complete(d, walked, reports, walked[i].page, k)
    /\ pc = "block" => Partial(d, walked, reports, pg, blk, off)
    /\ pc \notin {"block", "stopped"} => blk = 0 /\ off = 0

IInv == TypeOK /\ PhaseOK /\ BoundOK /\ WalkOK /\ ReportOK /\ BlockOK

-----------------------------------------------------------------------------
\* The operators of DirRead are those above, of the current state.
LEMMA SameOperators ==
    /\ \A p, k : Text(p, k) = TextOf(d, walked, p, k)
    /\ \A p, k : Damage(p, k) = DamageOf(d, p, k)
    /\ \A o : Hdr(o) = HdrOf(d, walked, pg, blk, o)
    /\ \A b, e : Wanted(b, e) = WantedOf(d, b, e)
    /\ \A h : Callback(h) = CallbackOf(d, h)
<1>1. \A p, k : Text(p, k) = TextOf(d, walked, p, k)
  BY Zenon DEF Text, TextOf
<1>2. \A p, k : Damage(p, k) = DamageOf(d, p, k)
  BY Zenon DEF Damage, DamageOf
<1>3. \A o : Hdr(o) = HdrOf(d, walked, pg, blk, o)
  BY <1>1, <1>2, Zenon DEF Hdr, HdrOf
<1>4. \A b, e : Wanted(b, e) = WantedOf(d, b, e)
  BY Zenon DEF Wanted, WantedOf
<1>5. \A h : Callback(h) = CallbackOf(d, h)
  BY Zenon DEF Callback, CallbackOf
<1> QED BY <1>1, <1>2, <1>3, <1>4, <1>5

\* An empty map holds nothing and has no page.
LEMMA EmptyMap ==
    /\ \A p : ~Holds(<<>>, p)
    /\ PageCount(<<>>) = 0
<1>1. \A p : PageOutcome(<<>>, p).kind = "EINVAL"
  BY DEF PageOutcome, Outcome
<1>2. PageCount(<<>>) = 0
  <2> DEFINE e == <<>>
  <2>1. 1..Len(e) = {}
    OBVIOUS
  <2>2. {0} \cup {PageEnd(e[i]) : i \in 1..Len(e)} = {0}
    BY <2>1
  <2>3. \A n : \A i \in 1..Len(e) : n >= PageEnd(e[i])
    BY <2>1
  <2> HIDE DEF e
  <2>4. PageCount(e) \in {0}
    BY <2>2, <2>3 DEF PageCount
  <2> QED BY <2>4 DEF e
<1> QED BY <1>1, <1>2 DEF Holds, Readable

\* Where the current page comes from.
LEMMA SourceFacts ==
    /\ Source \in {"own", "orig", "none", "error"}
    /\ Source = "own" <=> Holds(d.own, pg)
    /\ Source = "orig" => origOk /\ Holds(The(d.orig), pg)
    /\ Source = "none" => ~(origOk /\ Holds(The(d.orig), pg))
    /\ Source = "error" => \/ PageOutcome(d.own, pg).kind \in Broken
                           \/ origOk /\ PageOutcome(The(d.orig), pg).kind \in Broken
<1>1. OwnKind \in Readable <=> Holds(d.own, pg)
  BY EmptyMap DEF OwnKind, Holds, Readable
<1>2. OrigKind \in Readable <=> origOk /\ Holds(The(d.orig), pg)
  BY DEF OrigKind, Holds, Readable
<1>3. OwnKind \in Broken => PageOutcome(d.own, pg).kind \in Broken
  BY DEF OwnKind, Broken
<1>4. OrigKind \in Broken => origOk /\ PageOutcome(The(d.orig), pg).kind \in Broken
  BY DEF OrigKind, Broken
<1> QED BY <1>1, <1>2, <1>3, <1>4 DEF Source

\* The number of pages is a 32-bit one.
LEMMA PagesType ==
    ASSUME TypeOK, PhaseOK
    PROVE  PagesToRead \in Nat /\ PageCount(d.own) \in Nat
           /\ (origOk => PageCount(The(d.orig)) \in Nat)
<1>1. PageCount(d.own) \in Nat
  BY DirFacts, PageCountMax, ExtentAssumption DEF TypeOK
<1>2. origOk => PageCount(The(d.orig)) \in Nat
  BY DirFacts, PageCountMax, ExtentAssumption DEF TypeOK, PhaseOK
<1> QED BY <1>1, <1>2 DEF PagesToRead

-----------------------------------------------------------------------------
\* The invariant holds before the first request.
LEMMA InitIInv == Init => IInv
<1> SUFFICES ASSUME Init PROVE IInv
  OBVIOUS
<1> USE DEF Init
<1>1. TypeOK
  <2>1. origOk \in BOOLEAN
    OBVIOUS
  <2>2. blk \in 0..BLKS - 1
    BY ExtentAssumption
  <2>3. walked \in Seq(PageType) /\ reports \in Seq(ReportType)
    OBVIOUS
  <2> QED BY <2>1, <2>2, <2>3 DEF TypeOK
<1>2. PhaseOK
  BY DEF PhaseOK
<1>3. BoundOK
  <2>1. PageCount(d.own) \in Nat
    BY <1>1, <1>2, PagesType
  <2> QED BY <2>1, DirAssumption DEF BoundOK
<1>4. WalkOK
  BY DEF WalkOK
<1>5. ReportOK
  BY DEF ReportOK
<1>6. BlockOK
  BY DEF BlockOK
<1> QED BY <1>1, <1>2, <1>3, <1>4, <1>5, <1>6 DEF IInv

\* What a step leaves alone.
LEMMA DirStays ==
    ASSUME [Next]_vars
    PROVE  d' = d
BY DEF Next, Read, Resolve, ResolveFails, ResolveOrig, ResolveOrigFails, Bound, Skip, Load,
       MapFails, PageFails, Finish, Entry, NextBlock, Returned, vars

\* One turn of the loop, in terms of the header that is read.
LEMMA EntryFacts ==
    ASSUME TypeOK, Entry
    PROVE  /\ pc = "block" /\ Hdr(off) \in Header
           /\ Hdr(off).size \in Nat /\ Hdr(off).size >= HDR_SZ /\ off + Hdr(off).size <= BLKSZ
           /\ \/ Callback(Hdr(off)) = {} /\ pc' = pc /\ reports' = reports
              \/ \E kind \in {"live", "deleted"} :
                   /\ Callback(Hdr(off)) # {} /\ Fits(Hdr(off))
                   /\ reports' = Append(reports, [page |-> pg, blk |-> blk, off |-> off,
                                                  size |-> Hdr(off).size, kind |-> kind])
           /\ pc' \in {"block", "stopped"}
           /\ off' = IF pc' = "stopped" THEN off ELSE off + Hdr(off).size
           /\ UNCHANGED <<d, origOk, maxPage, pg, blk, walked, faults>>
<1> DEFINE h == Hdr(off)
<1>1. /\ pc = "block" /\ ~EndsBlock(h, off)
      /\ IF Callback(h) = {} THEN UNCHANGED <<pc, reports>>
         ELSE /\ reports' = Append(reports, [page |-> pg, blk |-> blk, off |-> off,
                                             size |-> h.size, kind |-> The(Callback(h))])
              /\ pc' \in {"block", "stopped"}
      /\ off' = IF pc' = "stopped" THEN off ELSE off + h.size
      /\ UNCHANGED <<d, origOk, maxPage, pg, blk, walked, faults>>
  BY DEF Entry
<1>2. h \in Header
  BY SameOperators, HdrType DEF TypeOK
<1>3. h.size \in Nat /\ h.size >= HDR_SZ /\ off + h.size <= BLKSZ
  BY <1>1, <1>2, DirAssumption DEF EndsBlock, Header, HDR_SZ, TypeOK
<1>4. Callback(h) # {} => Fits(h) /\ The(Callback(h)) \in {"live", "deleted"}
  <2>1. Callback(h) \subseteq {"live", "deleted"}
    BY DEF Callback
  <2>2. Callback(h) # {} => Fits(h)
    BY DEF Callback
  <2> HIDE DEF h
  <2> QED BY <2>1, <2>2, TheOne
<1>5. \/ Callback(h) = {} /\ pc' = pc /\ reports' = reports
      \/ \E kind \in {"live", "deleted"} :
           /\ Callback(h) # {} /\ Fits(h)
           /\ reports' = Append(reports, [page |-> pg, blk |-> blk, off |-> off,
                                          size |-> h.size, kind |-> kind])
  <2> HIDE DEF h
  <2> QED BY <1>1, <1>4
<1>6. pc' \in {"block", "stopped"}
  <2> HIDE DEF h
  <2> QED BY <1>1
<1> HIDE DEF h
<1> QED BY <1>1, <1>2, <1>3, <1>5, <1>6 DEF h

\* Every step keeps the types.
LEMMA TypeNext ==
    ASSUME IInv, [Next]_vars
    PROVE  TypeOK'
<1> USE DEF IInv
<1>1. CASE Resolve
  BY <1>1 DEF Resolve, TypeOK, walk
<1>2. CASE ResolveFails
  BY <1>2 DEF ResolveFails, TypeOK, walk
<1>3. CASE ResolveOrig
  BY <1>3 DEF ResolveOrig, TypeOK, walk
<1>4. CASE ResolveOrigFails
  BY <1>4 DEF ResolveOrigFails, TypeOK, walk
<1>5. CASE Bound
  BY <1>5, PagesType, DirAssumption DEF Bound, TypeOK, walk
<1>6. CASE Skip
  BY <1>6 DEF Skip, TypeOK, walk
<1>7. CASE Load
  <2>1. Source \in {"own", "orig"} /\ blk' = 0 /\ off' = 0 /\ pc' = "block"
    BY <1>7 DEF Load
  <2>2. [page |-> pg, from |-> Source] \in PageType
    BY <2>1 DEF TypeOK, PageType
  <2>3. walked' \in Seq(PageType)
    BY <1>7, <2>2 DEF Load, TypeOK
  <2>4. blk' \in 0..BLKS - 1
    BY <2>1, ExtentAssumption
  <2> QED BY <1>7, <2>1, <2>3, <2>4 DEF Load, TypeOK
<1>8. CASE MapFails
  BY <1>8 DEF MapFails, TypeOK, walk
<1>9. CASE PageFails
  BY <1>9 DEF PageFails, TypeOK, walk
<1>10. CASE Finish
  BY <1>10 DEF Finish, TypeOK, walk
<1>11. CASE Entry
  <2> DEFINE h == Hdr(off)
             r(kind) == [page |-> pg, blk |-> blk, off |-> off, size |-> h.size, kind |-> kind]
  <2>1. h.size \in Nat
    BY <1>11, EntryFacts
  <2>2. off' \in Nat
    <3>1. off' = IF pc' = "stopped" THEN off ELSE off + h.size
      BY <1>11, EntryFacts
    <3> HIDE DEF h
    <3> QED BY <2>1, <3>1 DEF TypeOK
  <2>3. \A kind \in {"live", "deleted"} : r(kind) \in ReportType
    <3> HIDE DEF h
    <3> QED BY <2>1 DEF TypeOK, ReportType
  <2>4. reports' \in Seq(ReportType)
    <3>1. reports' = reports \/ \E kind \in {"live", "deleted"} : reports' = Append(reports, r(kind))
      BY <1>11, EntryFacts
    <3> HIDE DEF r
    <3> QED BY <3>1, <2>3 DEF TypeOK
  <2>5. pc' \in {"block", "stopped"} /\ UNCHANGED <<d, origOk, maxPage, pg, blk, walked, faults>>
    BY <1>11, EntryFacts
  <2> HIDE DEF h
  <2> QED BY <2>2, <2>4, <2>5 DEF TypeOK
<1>12. CASE NextBlock
  <2>1. blk' \in 0..BLKS - 1
    BY <1>12, ExtentAssumption DEF NextBlock, TypeOK
  <2> QED BY <1>12, <2>1 DEF NextBlock, TypeOK
<1>13. CASE Returned \/ UNCHANGED vars
  BY <1>13 DEF Returned, TypeOK, vars
<1> QED BY <1>1, <1>2, <1>3, <1>4, <1>5, <1>6, <1>7, <1>8, <1>9, <1>10, <1>11, <1>12, <1>13
        DEF Next, Read

\* Every step keeps what is known at its program counter.
LEMMA PhaseNext ==
    ASSUME IInv, [Next]_vars
    PROVE  PhaseOK'
<1> USE DEF IInv
<1>1. CASE Resolve
  BY <1>1 DEF Resolve, PhaseOK, walk
<1>2. CASE ResolveFails
  BY <1>2 DEF ResolveFails, PhaseOK, TypeOK, walk
<1>3. CASE ResolveOrig
  BY <1>3 DEF ResolveOrig, PhaseOK, walk
<1>4. CASE ResolveOrigFails
  BY <1>4 DEF ResolveOrigFails, PhaseOK, TypeOK, walk
<1>5. CASE Bound
  BY <1>5 DEF Bound, PhaseOK, walk
<1>6. CASE Skip
  BY <1>6 DEF Skip, PhaseOK, walk
<1>7. CASE Load
  BY <1>7 DEF Load, PhaseOK, walk
<1>8. CASE MapFails
  BY <1>8 DEF MapFails, PhaseOK, walk
<1>9. CASE PageFails
  BY <1>9 DEF PageFails, PhaseOK, TypeOK, walk
<1>10. CASE Finish
  BY <1>10 DEF Finish, PhaseOK, walk
<1>11. CASE Entry
  <2>1. /\ pc = "block" /\ pc' \in {"block", "stopped"}
        /\ UNCHANGED <<d, origOk, maxPage, pg, blk, walked, faults>>
    BY <1>11, EntryFacts
  <2> QED BY <2>1 DEF PhaseOK
<1>12. CASE NextBlock
  BY <1>12 DEF NextBlock, PhaseOK
<1>13. CASE Returned \/ UNCHANGED vars
  BY <1>13 DEF Returned, PhaseOK, vars
<1> QED BY <1>1, <1>2, <1>3, <1>4, <1>5, <1>6, <1>7, <1>8, <1>9, <1>10, <1>11, <1>12, <1>13
        DEF Next, Read

\* The number of pages that advfs_dir_read_full_clone settles on is right: the
\* one place that changes it is Bound.
LEMMA BoundNext ==
    ASSUME IInv, [Next]_vars
    PROVE  BoundOK'
<1> USE DEF IInv
<1>1. CASE Bound
  <2> DEFINE c == PageCount(d.own)
             o == PageCount(The(d.orig))
  <2>1. c \in Nat /\ (origOk => o \in Nat) /\ PagesToRead \in Nat
    BY PagesType
  <2>2. UNCHANGED <<d, origOk>> /\ maxPage = 0 /\ (origOk => d.clone /\ d.orig # {})
    BY <1>1 DEF Bound, PhaseOK
  <2>3. origOk => The(d.orig) \in d.orig
    BY <2>2, TheOne
  <2>4. Stub <=> d.clone /\ c > MaxDirPages
    BY DEF Stub
  <2>5. Stub' <=> Stub
    BY <2>2 DEF Stub
  <2>6. CASE d.own = <<>> /\ ~origOk
    <3>1. maxPage' = 0 /\ c = 0
      BY <1>1, <2>6, <2>2, EmptyMap DEF Bound
    <3>2. \A p \in 0..MaxDirPages - 1 : ~(p < c)
      BY <3>1
    <3> QED BY <3>1, <3>2, <2>2, <2>6, DirAssumption DEF BoundOK
  <2>7. CASE ~(d.own = <<>> /\ ~origOk)
    <3>1. maxPage' = IF PagesToRead > MaxDirPages THEN MaxDirPages ELSE PagesToRead
      BY <1>1, <2>7 DEF Bound
    <3>2. PagesToRead = IF ~origOk THEN c ELSE IF c > MaxDirPages \/ c <= o THEN o ELSE c
      BY DEF PagesToRead
    <3>3. maxPage' <= MaxDirPages
      BY <3>1, <2>1, DirAssumption
    <3>4. \E m \in {d.own} \cup d.orig : maxPage' <= PageCount(m)
      <4>1. maxPage' <= PagesToRead
        BY <3>1, <2>1, DirAssumption
      <4>2. CASE PagesToRead = c
        BY <4>1, <4>2
      <4>3. CASE origOk /\ PagesToRead = o
        BY <4>1, <4>3, <2>3
      <4> HIDE DEF c, o
      <4> QED BY <4>2, <4>3, <3>2
    <3>5. ASSUME NEW p \in 0..MaxDirPages - 1,
                 (~Stub /\ p < c) \/ (origOk /\ p < o)
          PROVE  p < maxPage'
      <4>1. p < PagesToRead
        <5>1. origOk => d.clone
          BY <2>2
        <5> HIDE DEF c, o
        <5> QED BY <3>2, <3>5, <2>1, <2>4, <5>1, DirAssumption
      <4> QED BY <4>1, <3>1, <2>1, DirAssumption
    <3> HIDE DEF c, o
    <3> QED BY <3>3, <3>4, <3>5, <2>2, <2>5 DEF BoundOK, c, o
  <2> QED BY <2>6, <2>7
<1>2. CASE ~Bound
  <2>1. /\ UNCHANGED <<d, maxPage>>
        /\ pc' \in {"read", "block", "ok"} => pc \in {"read", "block", "ok"} /\ UNCHANGED origOk
    <3>1. CASE Entry
      BY <3>1, EntryFacts
    <3>2. CASE ~Entry
      BY <1>2, <3>2 DEF Next, Read, Resolve, ResolveFails, ResolveOrig, ResolveOrigFails, Skip, Load,
         MapFails, PageFails, Finish, NextBlock, Returned, vars
    <3> QED BY <3>1, <3>2
  <2>2. Stub' <=> Stub
    BY <2>1 DEF Stub
  <2> QED BY <2>1, <2>2 DEF BoundOK
<1> QED BY <1>1, <1>2

\* Pages walked have numbers.
LEMMA PageNumbers ==
    ASSUME TypeOK
    PROVE  \A i \in 1..Len(walked) : walked[i].page \in Nat
<1> SUFFICES ASSUME NEW i \in 1..Len(walked) PROVE walked[i].page \in Nat
  OBVIOUS
<1>1. walked[i] \in PageType
  BY DEF TypeOK
<1> QED BY <1>1 DEF PageType

\* The pages walked: Load adds the current one, Skip and the end of a page's
\* last block go on to the next.
LEMMA WalkNext ==
    ASSUME IInv, [Next]_vars
    PROVE  WalkOK'
<1> USE DEF IInv
<1>1. CASE Resolve
  BY <1>1 DEF Resolve, WalkOK, PhaseOK, walk
<1>2. CASE ResolveFails
  BY <1>2 DEF ResolveFails, WalkOK, PhaseOK, TypeOK, walk
<1>3. CASE ResolveOrig
  BY <1>3 DEF ResolveOrig, WalkOK, PhaseOK, walk
<1>4. CASE ResolveOrigFails
  BY <1>4 DEF ResolveOrigFails, WalkOK, PhaseOK, TypeOK, walk
<1>5. CASE Bound
  BY <1>5 DEF Bound, WalkOK, PhaseOK, walk
<1>6. CASE Skip
  <2>1. ~Holds(d.own, pg) /\ ~(origOk /\ Holds(The(d.orig), pg))
    BY <1>6, SourceFacts DEF Skip
  <2>2. /\ pc = "read" /\ pg \in Nat /\ pg' = pg + 1
        /\ UNCHANGED <<d, origOk, pc, maxPage, walked, faults>>
    BY <1>6 DEF Skip, walk, TypeOK
  <2>3. \A p \in Nat : p < pg + 1 => p < pg \/ p = pg
    BY <2>2
  <2>4. \A i \in 1..Len(walked) : walked[i].page < pg
    BY <2>2 DEF WalkOK
  <2>5. \A i \in 1..Len(walked) : walked[i].page \in Nat
    BY PageNumbers
  <2>6. \A i \in 1..Len(walked) : walked[i].page < pg + 1 /\ walked[i].page <= pg + 1
    BY <2>2, <2>4, <2>5
  <2> QED BY <2>1, <2>2, <2>3, <2>6 DEF WalkOK
<1>7. CASE Load
  <2> DEFINE w == [page |-> pg, from |-> Source]
             n == Len(walked)
  <2>1. /\ pc = "read" /\ pc' = "block" /\ pg < maxPage /\ Source \in {"own", "orig"}
        /\ walked' = Append(walked, w) /\ UNCHANGED <<d, origOk, maxPage, pg, faults>>
    BY <1>7 DEF Load
  <2>2. n \in Nat /\ Len(walked') = n + 1 /\ walked'[n + 1] = w
        /\ \A i \in 1..n : walked'[i] = walked[i]
    BY <2>1 DEF TypeOK
  <2>3. w.page = pg /\ w.from = Source
    OBVIOUS
  <2>4. /\ w.from = "own" <=> Holds(d.own, w.page)
        /\ w.from = "orig" => origOk /\ Holds(The(d.orig), w.page)
    BY <2>3, SourceFacts
  <2> HIDE DEF w, n
  <2>5. \A i \in 1..n : walked[i].page < pg
    BY <2>1 DEF WalkOK, n
  <2>6. \A i \in 1..n + 1 : i \in 1..n \/ i = n + 1
    BY <2>2
  <2>7. ASSUME NEW i \in 1..n + 1, NEW j \in 1..n + 1, i < j
        PROVE  walked'[i].page < walked'[j].page
    <3>1. i \in 1..n
      BY <2>7, <2>2
    <3>2. CASE j \in 1..n
      BY <3>1, <3>2, <2>2, <2>7 DEF WalkOK, n
    <3>3. CASE j = n + 1
      BY <3>1, <3>3, <2>2, <2>3, <2>5
    <3> QED BY <3>2, <3>3, <2>6
  <2>8. ASSUME NEW i \in 1..n + 1
        PROVE  /\ walked'[i].page < maxPage /\ walked'[i].page <= pg
               /\ walked'[i].from = "own" <=> Holds(d.own, walked'[i].page)
               /\ walked'[i].from = "orig" => origOk /\ Holds(The(d.orig), walked'[i].page)
    <3>1. CASE i \in 1..n
      BY <3>1, <2>2 DEF WalkOK, n
    <3>2. CASE i = n + 1
      <4>1. pg <= pg
        BY DEF TypeOK
      <4> QED BY <3>2, <4>1, <2>1, <2>2, <2>3, <2>4
    <3> QED BY <3>1, <3>2, <2>6
  <2>9. n + 1 \in 1..n + 1 /\ walked'[n + 1].page = pg
    BY <2>2, <2>3
  <2>10. ASSUME NEW p \in Nat, p < pg,
                Holds(d.own, p) \/ (origOk /\ Holds(The(d.orig), p))
         PROVE  \E i \in 1..n + 1 : walked'[i].page = p
    <3>1. PICK i \in 1..n : walked[i].page = p
      BY <2>10 DEF WalkOK, n
    <3>2. i \in 1..n + 1
      BY <2>2
    <3> QED BY <3>1, <3>2, <2>2
  <2> QED BY <2>1, <2>2, <2>7, <2>8, <2>9, <2>10 DEF WalkOK
<1>8. CASE MapFails
  <2>1. /\ pc = "read" /\ pc' = "error" /\ pg < maxPage /\ Source = "error"
        /\ UNCHANGED <<d, origOk, maxPage, pg, walked, faults>>
    BY <1>8 DEF MapFails, walk
  <2>2. \E m \in {d.own} \cup d.orig : PageOutcome(m, pg).kind \in Broken
    <3>1. origOk => The(d.orig) \in d.orig
      BY TheOne DEF PhaseOK
    <3> QED BY <2>1, <3>1, SourceFacts
  <2>3. pg \in 0..MaxDirPages
    BY <2>1, DirAssumption DEF TypeOK, BoundOK
  <2> QED BY <2>1, <2>2, <2>3 DEF WalkOK
<1>9. CASE PageFails
  BY <1>9 DEF PageFails, WalkOK, TypeOK, walk
<1>10. CASE Finish
  BY <1>10 DEF Finish, WalkOK, walk
<1>11. CASE Entry
  <2>1. /\ pc = "block" /\ pc' \in {"block", "stopped"}
        /\ UNCHANGED <<d, origOk, maxPage, pg, blk, walked, faults>>
    BY <1>11, EntryFacts
  <2> QED BY <2>1 DEF WalkOK
<1>12. CASE NextBlock
  <2>1. pc = "block" /\ UNCHANGED <<d, origOk, maxPage, walked, faults>>
    BY <1>12 DEF NextBlock
  <2>2. CASE UNCHANGED <<pc, pg>>
    BY <2>1, <2>2 DEF WalkOK
  <2>3. CASE pc' = "read" /\ pg' = pg + 1
    <3>1. \A p \in Nat : p < pg + 1 => p < pg \/ p = pg
      BY DEF TypeOK
    <3>2. \A i \in 1..Len(walked) : walked[i].page \in Nat /\ walked[i].page <= pg
      BY PageNumbers DEF WalkOK
    <3>3. \A i \in 1..Len(walked) : walked[i].page < pg + 1 /\ walked[i].page <= pg + 1
      BY <3>2 DEF TypeOK
    <3>4. \E i \in 1..Len(walked) : walked[i].page = pg
      BY <2>1 DEF WalkOK
    <3>5. ASSUME NEW p \in Nat, p < pg',
                 Holds(d.own, p) \/ (origOk /\ Holds(The(d.orig), p))
          PROVE  \E i \in 1..Len(walked) : walked[i].page = p
      BY <2>3, <3>1, <3>4, <3>5 DEF WalkOK
    <3> QED BY <2>1, <2>3, <3>3, <3>5 DEF WalkOK
  <2> QED BY <1>12, <2>2, <2>3 DEF NextBlock
<1>13. CASE Returned \/ UNCHANGED vars
  <2>1. UNCHANGED <<d, origOk, pc, maxPage, pg, walked, faults>>
    BY <1>13 DEF Returned, vars
  <2> QED BY <2>1 DEF WalkOK
<1> QED BY <1>1, <1>2, <1>3, <1>4, <1>5, <1>6, <1>7, <1>8, <1>9, <1>10, <1>11, <1>12, <1>13
        DEF Next, Read

\* The reports: an entry's comes after all the earlier ones, since the walk only
\* ever goes forward.
LEMMA ReportNext ==
    ASSUME IInv, [Next]_vars
    PROVE  ReportOK'
<1> USE DEF IInv
<1>1. \A i \in 1..Len(reports) : reports[i] \in ReportType
  BY DEF TypeOK
<1>2. \A i \in 1..Len(reports) :
        /\ reports[i].page \in Nat /\ reports[i].blk \in Nat
        /\ reports[i].off \in Nat /\ reports[i].size \in Nat
  BY <1>1 DEF ReportType
<1>3. CASE Entry
  <2> DEFINE h == Hdr(off)
             r(kind) == [page |-> pg, blk |-> blk, off |-> off, size |-> h.size, kind |-> kind]
             n == Len(reports)
  <2>1. /\ pc = "block" /\ pc' \in {"block", "stopped"} /\ h.size \in Nat
        /\ h.size >= HDR_SZ /\ off + h.size <= BLKSZ
        /\ off' = IF pc' = "stopped" THEN off ELSE off + h.size
        /\ UNCHANGED <<d, origOk, maxPage, pg, blk, walked, faults>>
    BY <1>3, EntryFacts
  <2>2. \/ pc' = pc /\ reports' = reports
        \/ \E kind \in {"live", "deleted"} :
             Fits(h) /\ reports' = Append(reports, r(kind))
    BY <1>3, EntryFacts
  <2>3. /\ pg \in Nat /\ blk \in Nat /\ off \in Nat /\ n \in Nat
    BY ExtentAssumption DEF TypeOK
  <2> HIDE DEF h
  <2>4. ASSUME NEW i \in 1..n
        PROVE  Before(reports[i], pg, blk, off) /\ Before(reports[i], pg, blk, off + h.size)
    <3>1. Before(reports[i], pg, blk, off)
      BY <2>1 DEF ReportOK
    <3> QED BY <3>1, <2>1, <2>3, <1>2 DEF Before
  <2>5. CASE pc' = pc /\ reports' = reports
    <3>1. off' = off + h.size
      BY <2>5, <2>1
    <3> QED BY <2>1, <2>4, <2>5, <3>1 DEF ReportOK
  <2>6. ASSUME NEW kind \in {"live", "deleted"}, Fits(h), reports' = Append(reports, r(kind))
        PROVE  ReportOK'
    <3>1. /\ Len(reports') = n + 1 /\ reports'[n + 1] = r(kind)
          /\ \A i \in 1..n : reports'[i] = reports[i]
      BY <2>6 DEF TypeOK
    <3>2. /\ r(kind).page = pg /\ r(kind).blk = blk /\ r(kind).off = off /\ r(kind).size = h.size
      OBVIOUS
    <3>3. h.size >= NAMED_SZ
      BY <2>6 DEF Fits
    <3> HIDE DEF r, n
    <3>4. \A i \in 1..n + 1 : i \in 1..n \/ i = n + 1
      BY <2>3
    <3>5. ASSUME NEW i \in 1..n + 1
          PROVE  reports'[i].size >= NAMED_SZ /\ reports'[i].off + reports'[i].size <= BLKSZ
      BY <3>1, <3>2, <3>3, <3>4, <2>1 DEF ReportOK, n
    <3>6. ASSUME NEW i \in 1..n + 1, NEW j \in 1..n + 1, i < j
          PROVE  Before(reports'[i], reports'[j].page, reports'[j].blk, reports'[j].off)
      <4>1. i \in 1..n
        BY <3>6, <2>3
      <4>2. CASE j \in 1..n
        BY <4>1, <4>2, <3>1, <3>6 DEF ReportOK, n
      <4>3. CASE j = n + 1
        BY <4>1, <4>3, <3>1, <3>2, <2>4
      <4> QED BY <4>2, <4>3, <3>4
    <3>7. ASSUME pc' # "stopped", NEW i \in 1..n + 1
          PROVE  Before(reports'[i], pg', blk', off')
      <4>1. off' = off + h.size /\ pg' = pg /\ blk' = blk
        BY <3>7, <2>1
      <4>2. Before(r(kind), pg, blk, off + h.size)
        BY <3>2, <2>1, <2>3 DEF Before
      <4> QED BY <4>1, <4>2, <2>4, <3>1, <3>4
    <3> QED BY <3>1, <3>5, <3>6, <3>7 DEF ReportOK
  <2> QED BY <2>2, <2>5, <2>6
<1>4. CASE ~Entry
  <2>1. /\ UNCHANGED reports
        /\ pc' # "stopped" => pc # "stopped"
        /\ \/ UNCHANGED <<pg, blk, off>>
           \/ pg' = pg + 1
           \/ pg' = pg /\ blk' = blk + 1
           \/ pc = "read" /\ UNCHANGED pg /\ blk' = 0 /\ off' = 0
    BY <1>4 DEF Next, Read, Resolve, ResolveFails, ResolveOrig, ResolveOrigFails, Bound, Skip, Load,
       MapFails, PageFails, Finish, NextBlock, Returned, vars, walk
  <2>2. ASSUME NEW i \in 1..Len(reports), Before(reports[i], pg, blk, off)
        PROVE  Before(reports[i], pg', blk', off')
    <3>1. CASE UNCHANGED <<pg, blk, off>>
      BY <3>1, <2>2
    <3>2. CASE pg' = pg + 1
      <4>1. pg \in Nat
        BY DEF TypeOK
      <4> QED BY <3>2, <4>1, <2>2, <1>2 DEF Before
    <3>3. CASE pg' = pg /\ blk' = blk + 1
      <4>1. blk \in Nat
        BY ExtentAssumption DEF TypeOK
      <4> QED BY <3>3, <4>1, <2>2, <1>2 DEF Before
    <3>4. CASE pc = "read" /\ UNCHANGED pg /\ blk' = 0 /\ off' = 0
      BY <3>4, <2>2 DEF BlockOK
    <3> QED BY <2>1, <3>1, <3>2, <3>3, <3>4
  <2> QED BY <2>1, <2>2 DEF ReportOK
<1> QED BY <1>3, <1>4

\* A block stays complete while neither its text nor its reports change.
LEMMA CompleteStays ==
    ASSUME NEW x, NEW ws, NEW vs, NEW rs, NEW ts, NEW p, NEW k,
           TextOf(x, vs, p, k) = TextOf(x, ws, p, k), AtOf(ts, p, k) = AtOf(rs, p, k),
           Complete(x, ws, rs, p, k)
    PROVE  Complete(x, vs, ts, p, k)
BY DEF Complete

\* Nothing has been reported yet of a block after the current position.
LEMMA NothingAhead ==
    ASSUME NEW rs \in Seq(ReportType), NEW p \in Nat, NEW k \in Nat, NEW q \in Nat, NEW l \in Nat,
           NEW o \in Nat, q < p \/ (q = p /\ l < k) \/ (q = p /\ l = k /\ o = 0),
           \A i \in 1..Len(rs) : rs[i].size >= NAMED_SZ,
           \A i \in 1..Len(rs) : Before(rs[i], q, l, o)
    PROVE  AtOf(rs, p, k) = {}
<1>1. ASSUME NEW i \in 1..Len(rs), rs[i].page = p, rs[i].blk = k PROVE FALSE
  <2>1. rs[i] \in ReportType
    OBVIOUS
  <2>2. rs[i].off \in Nat /\ rs[i].size \in Nat
    BY <2>1 DEF ReportType
  <2> QED BY <1>1, <2>2 DEF Before, NAMED_SZ
<1> QED BY <1>1 DEF AtOf

\* The blocks: a turn of the loop extends the current one, its end completes it.
LEMMA BlockNext ==
    ASSUME IInv, [Next]_vars
    PROVE  BlockOK'
<1> USE DEF IInv
<1>1. /\ d \in Directories /\ pg \in Nat /\ blk \in 0..BLKS - 1 /\ blk \in Nat /\ off \in Nat
      /\ walked \in Seq(PageType) /\ reports \in Seq(ReportType)
  BY ExtentAssumption DEF TypeOK
<1>2. d' = d
  BY DirStays
<1>3. \A i \in 1..Len(walked) : walked[i].page \in Nat /\ walked[i].page <= pg
  BY PageNumbers DEF WalkOK
<1>4. CASE Entry
  <2> DEFINE h == Hdr(off)
             r(kind) == [page |-> pg, blk |-> blk, off |-> off, size |-> h.size, kind |-> kind]
             add == IF Callback(h) # {} THEN {off} ELSE {}
  <2>1. /\ pc = "block" /\ pc' \in {"block", "stopped"} /\ h.size \in Nat
        /\ off' = IF pc' = "stopped" THEN off ELSE off + h.size
        /\ UNCHANGED <<d, origOk, maxPage, pg, blk, walked, faults>>
    BY <1>4, EntryFacts
  <2>2. ASSUME NEW p, NEW k
        PROVE  AtOf(reports', p, k) = AtOf(reports, p, k) \cup (IF pg = p /\ blk = k THEN add ELSE {})
    <3>1. CASE Callback(h) = {} /\ reports' = reports
      BY <3>1
    <3>2. ASSUME NEW kind \in {"live", "deleted"}, Callback(h) # {},
                 reports' = Append(reports, r(kind))
          PROVE  AtOf(reports', p, k) = AtOf(reports, p, k) \cup (IF pg = p /\ blk = k THEN add ELSE {})
      <4>1. r(kind) \in ReportType
        <5> HIDE DEF h
        <5> QED BY <1>1, <2>1 DEF ReportType
      <4>2. /\ r(kind).page = pg /\ r(kind).blk = blk /\ r(kind).off = off /\ add = {off}
        BY <3>2
      <4> HIDE DEF r, add
      <4> QED BY <4>1, <4>2, <3>2, <1>1, AtAppend
    <3>3. \/ Callback(h) = {} /\ reports' = reports
          \/ \E kind \in {"live", "deleted"} : Callback(h) # {} /\ reports' = Append(reports, r(kind))
      BY <1>4, EntryFacts
    <3> QED BY <3>1, <3>2, <3>3
  <2>3. ASSUME NEW i \in 1..Len(walked), NEW k \in 0..BLKS - 1, Past(walked[i].page, k)
        PROVE  Complete(d, walked, reports', walked[i].page, k)
    <3>1. ~(pg = walked[i].page /\ blk = k)
      BY <2>3, <1>1 DEF Past
    <3>2. AtOf(reports', walked[i].page, k) = AtOf(reports, walked[i].page, k)
      <4>1. AtOf(reports', walked[i].page, k) =
              AtOf(reports, walked[i].page, k)
                \cup (IF pg = walked[i].page /\ blk = k THEN add ELSE {})
        BY <2>2
      <4> HIDE DEF add
      <4> QED BY <3>1, <4>1
    <3>3. Complete(d, walked, reports, walked[i].page, k)
      BY <2>3 DEF BlockOK
    <3> QED BY <3>2, <3>3, CompleteStays
  <2>4. pc' = "block" => Partial(d, walked, reports', pg, blk, off')
    <3> HAVE pc' = "block"
    <3>1. h = HdrOf(d, walked, pg, blk, off) /\ Callback(h) = CallbackOf(d, h)
      BY SameOperators
    <3>2. Partial(d, walked, reports, pg, blk, off)
      BY <2>1 DEF BlockOK
    <3>3. ~EndsBlock(h, off)
      BY <1>4 DEF Entry
    <3>4. AtOf(reports', pg, blk) = AtOf(reports, pg, blk) \cup add
      BY <2>2
    <3>5. off' = off + h.size
      BY <2>1
    <3> HIDE DEF h
    <3> QED BY <3>1, <3>2, <3>3, <3>4, <3>5, <1>1, PartialStep
  <2>5. \A p, k : Past(p, k)' <=> Past(p, k)
    BY <2>1 DEF Past
  <2> QED BY <2>1, <2>3, <2>4, <2>5 DEF BlockOK
<1>5. CASE NextBlock
  <2>1. /\ pc = "block" /\ UNCHANGED <<d, walked, reports>> /\ off' = 0
        /\ off + HDR_SZ <= BLKSZ => EndsBlock(Hdr(off), off)
    BY <1>5 DEF NextBlock
  <2>2. Complete(d, walked, reports, pg, blk)
    <3>1. Hdr(off) = HdrOf(d, walked, pg, blk, off)
      BY SameOperators
    <3>2. Partial(d, walked, reports, pg, blk, off)
      BY <2>1 DEF BlockOK
    <3> QED BY <2>1, <3>1, <3>2, <1>1, PartialEnd
  <2>3. ASSUME NEW i \in 1..Len(walked), NEW k \in 0..BLKS - 1,
               Past(walked[i].page, k) \/ (walked[i].page = pg /\ k = blk)
        PROVE  Complete(d, walked, reports, walked[i].page, k)
    BY <2>2, <2>3 DEF BlockOK
  <2>4. CASE blk + 1 < BLKS
    <3>1. blk' = blk + 1 /\ UNCHANGED <<pc, pg>>
      BY <1>5, <2>4 DEF NextBlock
    <3>2. ASSUME NEW i \in 1..Len(walked), NEW k \in 0..BLKS - 1, Past(walked[i].page, k)'
          PROVE  Past(walked[i].page, k) \/ (walked[i].page = pg /\ k = blk)
      BY <3>1, <3>2, <2>1, <1>1 DEF Past
    <3>3. Partial(d, walked, reports, pg, blk + 1, 0)
      <4>1. AtOf(reports, pg, blk + 1) = {}
        <5>1. \A i \in 1..Len(reports) : reports[i].size >= NAMED_SZ /\ Before(reports[i], pg, blk, off)
          BY <2>1 DEF ReportOK
        <5>2. blk + 1 \in Nat /\ blk < blk + 1
          BY <1>1
        <5> QED BY <5>1, <5>2, <1>1, NothingAhead
      <4>2. blk + 1 \in 0..BLKS - 1
        BY <2>4, <1>1, ExtentAssumption
      <4> QED BY <4>1, <4>2, <1>1, PartialStart
    <3> QED BY <2>1, <2>3, <3>1, <3>2, <3>3 DEF BlockOK
  <2>5. CASE ~(blk + 1 < BLKS)
    <3>1. blk' = 0 /\ pc' = "read" /\ pg' = pg + 1
      BY <1>5, <2>5 DEF NextBlock
    <3>2. ASSUME NEW i \in 1..Len(walked), NEW k \in 0..BLKS - 1
          PROVE  Past(walked[i].page, k) \/ (walked[i].page = pg /\ k = blk)
      BY <2>5, <1>1, <1>3, ExtentAssumption DEF Past
    <3> QED BY <2>1, <2>3, <3>1, <3>2 DEF BlockOK
  <2> QED BY <2>4, <2>5
<1>6. CASE Load
  <2> DEFINE w == [page |-> pg, from |-> Source]
             n == Len(walked)
  <2>1. /\ pc = "read" /\ pc' = "block" /\ blk' = 0 /\ off' = 0
        /\ walked' = Append(walked, w) /\ UNCHANGED <<d, pg, reports>>
    BY <1>6 DEF Load
  <2>2. n \in Nat /\ Len(walked') = n + 1 /\ walked'[n + 1] = w /\ w.page = pg
        /\ \A i \in 1..n : walked'[i] = walked[i]
    BY <2>1, <1>1
  <2>3. w \in PageType
    BY <1>6, <1>1 DEF Load, PageType
  <2> HIDE DEF w, n
  <2>4. ASSUME NEW i \in 1..n + 1, NEW k \in 0..BLKS - 1,
               walked'[i].page < pg \/ (walked'[i].page = pg /\ k < 0)
        PROVE  Complete(d, walked', reports, walked'[i].page, k)
    <3>1. walked'[i].page < pg
      <4>1. ~(k < 0)
        OBVIOUS
      <4> QED BY <2>4, <4>1
    <3>2. i \in 1..n /\ walked'[i] = walked[i]
      BY <3>1, <2>2, <1>1
    <3>3. Complete(d, walked, reports, walked[i].page, k)
      BY <3>1, <3>2 DEF BlockOK, Past, n
    <3>4. TextOf(d, walked', walked[i].page, k) = TextOf(d, walked, walked[i].page, k)
      <4>1. w.page # walked[i].page
        BY <3>1, <3>2, <2>2, <1>1, <1>3 DEF n
      <4> QED BY <4>1, <2>1, <2>3, <1>1, TextAppend
    <3> QED BY <3>2, <3>3, <3>4, CompleteStays
  <2>5. Partial(d, walked', reports, pg, 0, 0)
    <3>1. \A i \in 1..Len(reports) : reports[i].size >= NAMED_SZ /\ Before(reports[i], pg, 0, 0)
      BY <2>1 DEF ReportOK, BlockOK
    <3>2. AtOf(reports, pg, 0) = {}
      BY <3>1, <1>1, NothingAhead
    <3>3. 0 \in 0..BLKS - 1
      BY ExtentAssumption
    <3> QED BY <3>2, <3>3, <1>1, PartialStart
  <2> QED BY <2>1, <2>2, <2>4, <2>5 DEF BlockOK, Past
<1>7. CASE Skip
  <2>1. /\ pc = "read" /\ pg' = pg + 1 /\ UNCHANGED <<d, pc, blk, off, walked, reports>>
    BY <1>7 DEF Skip, walk
  <2>2. \A i \in 1..Len(walked), k \in 0..BLKS - 1 : Past(walked[i].page, k)
    BY <2>1 DEF WalkOK, Past
  <2> QED BY <2>1, <2>2 DEF BlockOK
<1>8. CASE ~Entry /\ ~NextBlock /\ ~Load /\ ~Skip
  <2>1. /\ UNCHANGED <<d, pg, blk, off, walked, reports>>
        /\ pc' \in {"block", "stopped"} => pc' = pc
        /\ pc' # pc => pc \notin {"block", "stopped"}
    BY <1>8 DEF Next, Read, Resolve, ResolveFails, ResolveOrig, ResolveOrigFails, Bound,
       MapFails, PageFails, Finish, Returned, vars, walk
  <2>2. \A p, k : Past(p, k)' <=> Past(p, k)
    BY <2>1 DEF Past
  <2> QED BY <2>1, <2>2 DEF BlockOK
<1> QED BY <1>4, <1>5, <1>6, <1>7, <1>8

-----------------------------------------------------------------------------
\* IInv is an inductive invariant of the directory read.
THEOREM Invariance == Spec => []IInv
<1>1. IInv /\ [Next]_vars => IInv'
  BY TypeNext, PhaseNext, BoundNext, WalkNext, ReportNext, BlockNext DEF IInv
<1> QED BY <1>1, InitIInv, PTL DEF Spec

\* advfs_dir_read_full_clone walks the pages of any directory in order and once
\* each, from the directory's own fileset wherever that holds the page, and
\* never past MAX_DIR_PAGES or past the end of both maps.
THEOREM WalksAreSound == Spec => []WalkIsSound
<1>1. IInv => WalkIsSound
  <2> SUFFICES ASSUME IInv, NEW i \in 1..Len(walked)
               PROVE  LET w == walked[i] IN
                      /\ w.page < MaxDirPages
                      /\ \E m \in {d.own} \cup d.orig : w.page < PageCount(m)
                      /\ w.from = "own" <=> Holds(d.own, w.page)
                      /\ w.from = "orig" => d.clone /\ \E m \in d.orig : Holds(m, w.page)
    BY DEF IInv, WalkOK, WalkIsSound
  <2> USE DEF IInv
  <2>1. walked[i].page \in Nat /\ walked[i].page < maxPage /\ maxPage \in Nat
    BY PageNumbers DEF WalkOK, TypeOK
  <2>2. walked[i].page < MaxDirPages
    BY <2>1, DirAssumption DEF BoundOK
  <2>3. PICK m \in {d.own} \cup d.orig : maxPage <= PageCount(m)
    BY DEF BoundOK
  <2>4. PageCount(m) \in Nat
    <3>1. m \in Seq(Extent)
      BY DirFacts DEF TypeOK
    <3> QED BY <3>1, PageCountMax, ExtentAssumption
  <2>5. walked[i].page < PageCount(m)
    BY <2>1, <2>3, <2>4
  <2>6. origOk => d.clone /\ The(d.orig) \in d.orig
    BY TheOne DEF PhaseOK
  <2> QED BY <2>2, <2>5, <2>6 DEF WalkOK
<1> QED BY <1>1, Invariance, PTL

\* A read that meets no fault leaves out no page that the directory, or the
\* original of a clone, has, and fails only on a map that is out of range.
THEOREM NoPageIsLeftOut == Spec => []NoPageLeftOut
<1>1. IInv => NoPageLeftOut
  <2> SUFFICES ASSUME IInv PROVE NoPageLeftOut
    OBVIOUS
  <2> USE DEF IInv
  <2>1. ASSUME pc = "ok", faults = 0, NEW p \in 0..MaxDirPages - 1,
               \/ ~Stub /\ p < PageCount(d.own) /\ Holds(d.own, p)
               \/ d.clone /\ \E m \in d.orig : p < PageCount(m) /\ Holds(m, p)
        PROVE  \E i \in 1..Len(walked) : walked[i].page = p
    <3>1. \A m \in d.orig : m = The(d.orig)
      BY DirFacts DEF TypeOK
    <3>2. (d.clone /\ \E m \in d.orig : p < PageCount(m) /\ Holds(m, p))
            => origOk /\ p < PageCount(The(d.orig)) /\ Holds(The(d.orig), p)
      <4>1. d.clone => origOk \/ d.orig \in {{}, {<<>>}}
        BY <2>1 DEF PhaseOK
      <4>2. \A m \in d.orig : Holds(m, p) => d.orig \notin {{}, {<<>>}}
        BY EmptyMap
      <4> QED BY <3>1, <4>1, <4>2
    <3>3. p < maxPage
      BY <2>1, <3>2 DEF BoundOK
    <3>4. p < pg /\ p \in Nat
      BY <2>1, <3>3 DEF WalkOK, TypeOK
    <3> QED BY <2>1, <3>2, <3>4 DEF WalkOK
  <2>2. pc = "error" /\ faults = 0 =>
          \E m \in {d.own} \cup d.orig, p \in 0..MaxDirPages : PageOutcome(m, p).kind \in Broken
    BY DEF WalkOK
  <2> QED BY <2>1, <2>2 DEF NoPageLeftOut, Stub
<1> QED BY <1>1, Invariance, PTL

\* walk_dir_block reports exactly the wanted entries of every block without
\* damage, and those before the damage of a damaged one, in order, each within
\* its block.
THEOREM DamageIsContained == Spec => []DamageContained
<1>1. IInv => DamageContained
  <2> SUFFICES ASSUME IInv PROVE DamageContained
    OBVIOUS
  <2> USE DEF IInv
  <2>1. ASSUME NEW i \in 1..Len(walked), NEW k \in 0..BLKS - 1,
               Past(walked[i].page, k)
        PROVE  LET p == walked[i].page
                   b == Text(p, k)
               IN  IF Damage(p, k) = {} THEN AtOf(reports, p, k) = Wanted(b, BLKSZ)
                   ELSE Wanted(b, The(d.damage).at) \subseteq AtOf(reports, p, k)
    <3>1. Complete(d, walked, reports, walked[i].page, k)
      BY <2>1 DEF BlockOK
    <3> QED BY <3>1, SameOperators DEF Complete
  <2>2. ASSUME NEW i \in 1..Len(reports), NEW j \in 1..Len(reports), i < j
        PROVE  \/ reports[i].page < reports[j].page
               \/ reports[i].page = reports[j].page /\ reports[i].blk < reports[j].blk
               \/ /\ reports[i].page = reports[j].page /\ reports[i].blk = reports[j].blk
                  /\ reports[i].off + reports[i].size <= reports[j].off
    BY <2>2 DEF ReportOK, Before
  <2>3. \A i \in 1..Len(reports) :
          reports[i].size >= NAMED_SZ /\ reports[i].off + reports[i].size <= BLKSZ
    BY DEF ReportOK
  <2> QED BY <2>1, <2>2, <2>3, Zenon DEF DamageContained, AtOf, Past
<1> QED BY <1>1, Invariance, PTL
=============================================================================
