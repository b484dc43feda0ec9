--------------------------- MODULE ExtentsProofs ----------------------------
(***************************************************************************)
(* Proofs about Extents, for every chain, every set of columns and all     *)
(* limits: the walk collects the chain's descriptors (RawIsChain), the     *)
(* columns partition them (ColumnsPartition), and the flat map of a        *)
(* striped file says what the striping rule says (FlatMapIsStriped).       *)
(***************************************************************************)
EXTENDS Extents, TLAPS, FiniteSetTheorems, SequenceTheorems, WellFoundedInduction

\* A set of naturals that is not empty has a least element.
LEMMA Least ==
    ASSUME NEW T, T \subseteq Nat, T # {}
    PROVE  \E x \in T : \A y \in T : x <= y
<1> DEFINE R == {ss \in Nat \X Nat : ss[1] < ss[2]}
<1>1. IsWellFoundedOn(R, Nat)
  BY NatLessThanWellFounded DEF OpToRel
<1>2. \A x, y \in Nat : y < x => <<y, x>> \in R
  OBVIOUS
<1> HIDE DEF R
<1>3. PICK x \in T : \A y \in T : ~(<<y, x>> \in R)
  BY <1>1, WFMin
<1>4. ASSUME NEW y \in T PROVE x <= y
  <2>1. ~(y < x)
    BY <1>2, <1>3
  <2> QED BY <2>1
<1> QED BY <1>4

\* Induction over the naturals, for sets.
LEMMA NatInd ==
    ASSUME NEW S, 0 \in S, \A n \in Nat : n \in S => n + 1 \in S
    PROVE  Nat \subseteq S
<1> SUFFICES ASSUME Nat \ S # {} PROVE FALSE
  OBVIOUS
<1>1. PICK x \in Nat \ S : \A y \in Nat \ S : x <= y
  BY Least
<1>2. x # 0 /\ x - 1 \in Nat
  BY <1>1
<1>3. x - 1 \in S
  BY <1>1, <1>2
<1> QED BY <1>1, <1>2, <1>3

-----------------------------------------------------------------------------
\* What descriptor e says of page p, unless it is the last of its map.
Says(e, p) ==
    IF e.vd_blk \in {I!PERM_HOLE, 0} THEN I!Outcome("permhole")
    ELSE IF e.vd_blk = I!XTNT_TERM \/ e.vd_blk + (p - e.bs_page) * BLKS > U32 THEN I!Outcome("zero")
    ELSE [kind |-> "data", vd |-> e.vd_index, blk |-> e.vd_blk + (p - e.bs_page) * BLKS]

\* The markers are the two largest 32-bit numbers.
LEMMA Numbers ==
    /\ U32 \in Nat /\ U32 >= 2 /\ BLKS \in Nat \ {0}
    /\ I!XTNT_TERM = U32 /\ I!PERM_HOLE = U32 - 1 /\ I!Boundary = {U32, U32 - 1}
BY ExtentsAssumption DEF I!XTNT_TERM, I!PERM_HOLE, I!Boundary

\* The elements of a map are descriptors.
LEMMA ElementType ==
    ASSUME NEW m \in Seq(I!Extent), NEW i \in 1..Len(m)
    PROVE  /\ m[i] \in I!Extent
           /\ m[i].bs_page \in Nat /\ m[i].bs_page <= U32
           /\ m[i].vd_blk \in Nat /\ m[i].vd_blk <= U32 /\ m[i].vd_index \in Nat
<1>1. m[i] \in I!Extent
  OBVIOUS
<1> QED BY <1>1, Numbers DEF I!Extent

\* A descriptor that covers a page and is the only one to do so is the one found.
LEMMA CoverFound ==
    ASSUME NEW m \in Seq(I!Extent), NEW p \in Nat, NEW i \in 1..Len(m), I!Covers(m, i, p),
           \A j \in 1..i - 1 : ~I!Covers(m, j, p)
    PROVE  I!FirstCover(m, p) = i
<1> DEFINE Q(k) == I!Covers(m, k, p) /\ \A j \in 1..k - 1 : ~I!Covers(m, j, p)
<1>1. i \in 1..Len(m) /\ Q(i)
  OBVIOUS
<1>2. ASSUME NEW k \in 1..Len(m), Q(k) PROVE k = i
  <2>1. ~(i \in 1..k - 1) /\ ~(k \in 1..i - 1)
    BY <1>1, <1>2
  <2> QED BY <2>1
<1>3. I!FirstCover(m, p) = CHOOSE k \in 1..Len(m) : Q(k)
  BY DEF I!FirstCover
<1> HIDE DEF Q
<1> QED BY <1>1, <1>2, <1>3

\* The descriptor found is the first that covers the page, if one does.
LEMMA FirstCoverIs ==
    ASSUME NEW m \in Seq(I!Extent), NEW p \in Nat
    PROVE  \/ I!FirstCover(m, p) = 0 /\ \A j \in 1..Len(m) : ~I!Covers(m, j, p)
           \/ /\ I!FirstCover(m, p) \in 1..Len(m) /\ I!Covers(m, I!FirstCover(m, p), p)
              /\ \A j \in 1..I!FirstCover(m, p) - 1 : ~I!Covers(m, j, p)
<1>1. CASE \E i \in 1..Len(m) : I!Covers(m, i, p)
  <2> DEFINE C == {i \in 1..Len(m) : I!Covers(m, i, p)}
  <2>1. C \subseteq Nat /\ C # {}
    BY <1>1
  <2>2. PICK i \in C : \A j \in C : i <= j
    <3> HIDE DEF C
    <3> QED BY <2>1, Least
  <2>3. \A j \in 1..i - 1 : ~I!Covers(m, j, p)
    BY <2>2
  <2>4. I!FirstCover(m, p) = i
    BY <2>2, <2>3, CoverFound
  <2> QED BY <2>2, <2>3, <2>4
<1>2. CASE ~\E i \in 1..Len(m) : I!Covers(m, i, p)
  BY <1>2 DEF I!FirstCover
<1> QED BY <1>1, <1>2

\* The page read from an inner descriptor is the one the descriptor names.
LEMMA InnerOutcome ==
    ASSUME NEW m \in Seq(I!Extent), NEW p \in Nat, NEW i \in 1..Len(m),
           I!FirstCover(m, p) = i, i < Len(m) \/ m[i].vd_blk \notin I!Boundary
    PROVE  I!Normal(I!PageOutcome(m, p)) = Says(m[i], p)
<1>1. m # <<>> /\ i # 0
  OBVIOUS
<1>2. m[i].vd_blk \in Nat /\ m[i].bs_page \in Nat
  BY ElementType
<1> DEFINE b == m[i].vd_blk + (p - m[i].bs_page) * BLKS
<1>3. I!BlockOf(m, i, p) = b
  BY DEF I!BlockOf
<1>4. I!PageOutcome(m, p) =
        IF m[i].vd_blk \in {I!PERM_HOLE, 0} THEN I!Outcome("permhole")
        ELSE IF m[i].vd_blk = I!XTNT_TERM THEN I!Outcome("zero")
        ELSE IF b > U32 THEN I!Outcome("ERANGE")
        ELSE [kind |-> "data", vd |-> m[i].vd_index, blk |-> b]
  BY <1>1, <1>3 DEF I!PageOutcome
<1> HIDE DEF b
<1> QED BY <1>4 DEF I!Normal, Says, I!Outcome, b

\* Descriptors in the order of their pages, also of those that are not neighbours.
LEMMA Sorted ==
    ASSUME NEW m \in Seq(I!Extent), \A i \in 1..Len(m) - 1 : m[i].bs_page <= m[i + 1].bs_page
    PROVE  \A i, j \in 1..Len(m) : i <= j => m[i].bs_page <= m[j].bs_page
<1> SUFFICES ASSUME NEW i \in 1..Len(m) PROVE \A j \in 1..Len(m) : i <= j => m[i].bs_page <= m[j].bs_page
  OBVIOUS
<1> DEFINE S == {k \in Nat : i + k <= Len(m) => m[i].bs_page <= m[i + k].bs_page}
<1>1. 0 \in S
  <2>1. m[i].bs_page \in Nat /\ i + 0 = i
    BY ElementType
  <2> QED BY <2>1
<1>2. ASSUME NEW k \in Nat, k \in S PROVE k + 1 \in S
  <2> SUFFICES ASSUME i + (k + 1) <= Len(m) PROVE m[i].bs_page <= m[i + (k + 1)].bs_page
    OBVIOUS
  <2>1. i + k \in 1..Len(m) - 1 /\ i + k \in 1..Len(m) /\ i + (k + 1) \in 1..Len(m) /\ i + (k + 1) = (i + k) + 1
    OBVIOUS
  <2> DEFINE x == m[i].bs_page
             y == m[i + k].bs_page
             z == m[i + (k + 1)].bs_page
  <2>2. x \in Nat /\ y \in Nat /\ z \in Nat
    BY <2>1, ElementType
  <2>3. x <= y
    BY <1>2, <2>1
  <2>4. y <= z
    BY <2>1
  <2> HIDE DEF x, y, z
  <2>5. x <= z
    BY <2>2, <2>3, <2>4
  <2> QED BY <2>5 DEF x, z
<1> HIDE DEF S
<1>3. Nat \subseteq S
  BY <1>1, <1>2, NatInd
<1>4. ASSUME NEW j \in 1..Len(m), i <= j PROVE m[i].bs_page <= m[j].bs_page
  <2>1. j - i \in Nat /\ i + (j - i) = j /\ j <= Len(m)
    BY <1>4
  <2> QED BY <1>3, <2>1 DEF S
<1> QED BY <1>4

\* A map in order that begins at page 0 covers every page.
LEMMA AllCovered ==
    ASSUME NEW m \in Seq(I!Extent), m # <<>>, m[1].bs_page = 0, NEW p \in Nat
    PROVE  I!FirstCover(m, p) \in 1..Len(m) /\ I!Covers(m, I!FirstCover(m, p), p)
           /\ \A j \in 1..I!FirstCover(m, p) - 1 : ~I!Covers(m, j, p)
<1>1. Len(m) \in Nat /\ Len(m) >= 1
  OBVIOUS
<1>2. \E i \in 1..Len(m) : I!Covers(m, i, p)
  <2> SUFFICES ASSUME \A i \in 1..Len(m) : ~I!Covers(m, i, p) PROVE FALSE
    OBVIOUS
  <2> DEFINE S == {k \in Nat : k + 1 <= Len(m) => m[k + 1].bs_page <= p}
  <2>1. 0 \in S
    OBVIOUS
  <2>2. ASSUME NEW k \in Nat, k \in S PROVE k + 1 \in S
    <3> SUFFICES ASSUME (k + 1) + 1 <= Len(m) PROVE m[(k + 1) + 1].bs_page <= p
      OBVIOUS
    <3>1. k + 1 \in 1..Len(m) /\ (k + 1) + 1 \in 1..Len(m) /\ k + 1 < Len(m)
      OBVIOUS
    <3>2. m[k + 1].bs_page \in Nat /\ m[(k + 1) + 1].bs_page \in Nat
      BY <3>1, ElementType
    <3>3. m[k + 1].bs_page <= p
      BY <2>2, <3>1
    <3> QED BY <3>1, <3>2, <3>3 DEF I!Covers
  <2> HIDE DEF S
  <2>3. Nat \subseteq S
    BY <2>1, <2>2, NatInd
  <2>4. Len(m) - 1 \in Nat /\ (Len(m) - 1) + 1 = Len(m) /\ Len(m) \in 1..Len(m)
    BY <1>1
  <2>5. m[Len(m)].bs_page <= p
    BY <2>3, <2>4 DEF S
  <2>6. m[Len(m)].bs_page \in Nat
    BY <2>4, ElementType
  <2> QED BY <2>4, <2>5, <2>6 DEF I!Covers
<1> QED BY <1>2, FirstCoverIs

\* advfs_extents_page_count is a number, and the greatest of the ends.
LEMMA PageCountIs ==
    ASSUME NEW m \in Seq(I!Extent)
    PROVE  /\ I!PageCount(m) \in Nat
           /\ \A n \in Nat : /\ n = 0 \/ \E i \in 1..Len(m) : I!PageEnd(m[i]) = n
                             /\ \A i \in 1..Len(m) : I!PageEnd(m[i]) <= n
                             => I!PageCount(m) = n
<1> DEFINE e(i) == I!PageEnd(m[i])
           ends == {0} \cup {e(i) : i \in 1..Len(m)}
<1>1. ASSUME NEW i \in 1..Len(m) PROVE e(i) \in Nat /\ e(i) <= U32
  <2>1. m[i].bs_page \in Nat /\ m[i].bs_page <= U32
    BY ElementType
  <2> DEFINE x == m[i].bs_page
  <2> HIDE DEF x
  <2>2. (x + 1) % (U32 + 1) \in 0..U32
    BY <2>1, Numbers DEF x
  <2> QED BY <2>1, <2>2, Numbers DEF I!PageEnd, x
<1>2. I!PageCount(m) = CHOOSE n \in ends : \A i \in 1..Len(m) : n >= e(i)
  BY DEF I!PageCount
<1> HIDE DEF e
<1> DEFINE above == {n \in Nat : \A i \in 1..Len(m) : e(i) <= n}
<1>3. PICK b \in above : \A n \in above : b <= n
  <2>1. U32 \in above /\ above \subseteq Nat
    BY <1>1, Numbers
  <2> HIDE DEF above
  <2> QED BY <2>1, Least
<1>4. b \in ends
  <2> SUFFICES ASSUME b \notin ends PROVE FALSE
    OBVIOUS
  <2>1. b # 0 /\ \A i \in 1..Len(m) : e(i) # b /\ e(i) <= b
    BY <1>3
  <2>2. b - 1 \in above
    BY <2>1, <1>1, <1>3
  <2> QED BY <2>2, <1>3
<1>5. \A i \in 1..Len(m) : b >= e(i)
  BY <1>1, <1>3
<1>6. I!PageCount(m) \in ends /\ \A i \in 1..Len(m) : I!PageCount(m) >= e(i)
  BY <1>2, <1>4, <1>5
<1>7. I!PageCount(m) \in Nat
  BY <1>1, <1>6
<1>8. ASSUME NEW n \in Nat, n = 0 \/ \E i \in 1..Len(m) : e(i) = n, \A i \in 1..Len(m) : e(i) <= n
      PROVE  I!PageCount(m) = n
  <2>1. I!PageCount(m) <= n
    BY <1>6, <1>7, <1>8
  <2>2. n <= I!PageCount(m)
    BY <1>1, <1>6, <1>7, <1>8
  <2> QED BY <1>7, <2>1, <2>2
<1> QED BY <1>7, <1>8 DEF e

\* The sum of the columns' page counts is a number.
LEMMA ColumnPagesType ==
    ASSUME cols \in Seq(Seq(I!Extent))
    PROVE  I!ColumnPages \in Nat
<1> DEFINE N == Len(cols)
           B(g, c) == IF c = 0 THEN 0 ELSE g[c - 1] + I!PageCount(cols[c])
           sum == CHOOSE g : g = [c \in 0..N |-> B(g, c)]
           S == {n \in Nat : n <= N => \E g : g = [c \in 0..n |-> B(g, c)]}
<1>1. N \in Nat
  OBVIOUS
<1>2. \A c \in 1..N : I!PageCount(cols[c]) \in Nat
  <2> DEFINE M == Seq(I!Extent)
  <2> HIDE DEF M
  <2>1. cols \in Seq(M)
    BY DEF M
  <2>2. \A c \in 1..N : cols[c] \in M
    BY <2>1
  <2> QED BY <2>2, PageCountIs DEF M
<1>3. 0 \in S
  <2> DEFINE g == [c \in 0..0 |-> 0]
  <2>1. g = [c \in 0..0 |-> B(g, c)]
    OBVIOUS
  <2> HIDE DEF g
  <2> QED BY <2>1
<1>4. ASSUME NEW n \in Nat, n \in S PROVE n + 1 \in S
  <2> SUFFICES ASSUME n + 1 <= N PROVE \E g : g = [c \in 0..n + 1 |-> B(g, c)]
    OBVIOUS
  <2>1. PICK g : g = [c \in 0..n |-> B(g, c)]
    BY <1>1, <1>4
  <2> DEFINE h == [c \in 0..n + 1 |-> IF c = n + 1 THEN g[n] + I!PageCount(cols[n + 1]) ELSE g[c]]
  <2>2. h[n + 1] = g[n] + I!PageCount(cols[n + 1]) /\ \A c \in 0..n : h[c] = g[c]
    OBVIOUS
  <2>3. \A c \in 0..n : g[c] = B(g, c)
    <3> HIDE DEF B
    <3> QED BY <2>1
  <2>4. ASSUME NEW c \in 0..n + 1 PROVE h[c] = B(h, c)
    <3> HIDE DEF h
    <3>1. CASE c = n + 1
      <4>1. c # 0 /\ c - 1 = n /\ n \in 0..n
        BY <3>1
      <4> QED BY <3>1, <4>1, <2>2
    <3>2. CASE c \in 1..n
      <4>1. c \in 0..n /\ c - 1 \in 0..n /\ c # 0
        BY <3>2
      <4> QED BY <4>1, <2>2, <2>3
    <3>3. CASE c = 0
      <4>1. 0 \in 0..n
        OBVIOUS
      <4> QED BY <3>3, <4>1, <2>2, <2>3
    <3> QED BY <3>1, <3>2, <3>3
  <2>5. h = [c \in 0..n + 1 |-> B(h, c)]
    <3>1. h = [c \in 0..n + 1 |-> h[c]]
      OBVIOUS
    <3> HIDE DEF h, B
    <3> QED BY <3>1, <2>4
  <2> HIDE DEF h, B
  <2> QED BY <2>5
<1>5. N \in S
  <2> HIDE DEF S
  <2> QED BY <1>1, <1>3, <1>4, NatInd
<1>6. sum = [c \in 0..N |-> B(sum, c)]
  <2>1. \E g : g = [c \in 0..N |-> B(g, c)]
    <3> HIDE DEF B
    <3> QED BY <1>1, <1>5
  <2> HIDE DEF B
  <2> QED BY <2>1
<1>7. I!ColumnPages = sum[N]
  BY Zenon DEF I!ColumnPages
<1> HIDE DEF sum, B
<1>8. \A c \in 0..N : sum[c] = B(sum, c)
  BY <1>6
<1> DEFINE P == {n \in Nat : n <= N => sum[n] \in Nat}
<1>9. 0 \in P
  BY <1>1, <1>8 DEF B
<1>10. ASSUME NEW n \in Nat, n \in P PROVE n + 1 \in P
  <2> SUFFICES ASSUME n + 1 <= N PROVE sum[n + 1] \in Nat
    OBVIOUS
  <2>1. n + 1 \in 0..N /\ n + 1 \in 1..N /\ n + 1 # 0 /\ (n + 1) - 1 = n /\ n <= N
    BY <1>1
  <2>2. sum[n + 1] = sum[n] + I!PageCount(cols[n + 1]) /\ sum[n] \in Nat
    BY <1>8, <1>10, <2>1 DEF B
  <2> QED BY <1>2, <2>1, <2>2
<1>11. N \in P
  <2> HIDE DEF P
  <2> QED BY <1>1, <1>9, <1>10, NatInd
<1> QED BY <1>1, <1>7, <1>11

-----------------------------------------------------------------------------
\* What Sound asks of one column.
SoundColumn(m) ==
    /\ m # <<>> => m[1].bs_page = 0
    /\ \A i \in 1..Len(m) - 1 : m[i].bs_page <= m[i + 1].bs_page
    /\ \A i \in 1..Len(m) :
         \/ m[i].vd_blk = I!XTNT_TERM
         \/ m[i].vd_blk = I!PERM_HOLE /\ i < Len(m)
         \/ m[i].vd_blk # 0 /\ \A b \in I!Boundary : (b - m[i].vd_blk) % BLKS # 0

\* The bytes j pages into a run that col_lookup gives block blk of volume vd.
Run(blk, vd, j) ==
    IF blk = I!PERM_HOLE THEN I!Outcome("permhole")
    ELSE IF blk = I!XTNT_TERM \/ blk + j * BLKS > U32 THEN I!Outcome("zero")
    ELSE [kind |-> "data", vd |-> vd, blk |-> blk + j * BLKS]

\* col_lookup returns a descriptor's fields, whatever the column.
LEMMA LookupType ==
    ASSUME NEW m \in Seq(I!Extent), NEW xm \in Nat
    PROVE  /\ I!ColLookup(m, xm).blk \in 0..U32 /\ I!ColLookup(m, xm).vd \in Nat
           /\ I!ColLookup(m, xm).run \in Nat \ {0}
<1> DEFINE i == I!FirstCover(m, xm)
           end == IF i < Len(m) THEN m[i + 1].bs_page ELSE U32
           l == I!ColLookup(m, xm)
<1>1. i = 0 \/ (i \in 1..Len(m) /\ I!Covers(m, i, xm))
  BY FirstCoverIs
<1>2. end \in Nat
  <2>1. i < Len(m) /\ i \in Nat => i + 1 \in 1..Len(m)
    OBVIOUS
  <2> HIDE DEF i
  <2> QED BY <2>1, <1>1, ElementType, Numbers
<1>3. l = IF i = 0 \/ xm >= end
          THEN [blk |-> I!XTNT_TERM, vd |-> 0, run |-> U32]
          ELSE [blk |-> IF m[i].vd_blk \in I!Boundary THEN m[i].vd_blk
                        ELSE IF I!BlockOf(m, i, xm) > U32 THEN I!XTNT_TERM
                        ELSE I!BlockOf(m, i, xm),
                vd  |-> m[i].vd_index,
                run |-> end - xm]
  BY DEF I!ColLookup
<1>4. CASE i = 0 \/ xm >= end
  BY <1>3, <1>4, Numbers
<1>5. CASE ~(i = 0 \/ xm >= end)
  <2>1. i \in 1..Len(m) /\ I!Covers(m, i, xm)
    BY <1>1, <1>5
  <2> HIDE DEF i, end, l
  <2>2. xm < end /\ end - xm \in Nat \ {0}
    BY <1>2, <1>5
  <2>3. m[i].vd_blk \in 0..U32 /\ m[i].vd_index \in Nat
    BY <2>1, ElementType, Numbers
  <2>4. I!BlockOf(m, i, xm) \in Nat
    <3>1. m[i].bs_page \in Nat /\ xm - m[i].bs_page \in Nat
      BY <2>1, ElementType DEF I!Covers
    <3>2. (xm - m[i].bs_page) * BLKS \in Nat
      BY <3>1, Numbers
    <3> QED BY <2>3, <3>2 DEF I!BlockOf
  <2> QED BY <1>3, <1>5, <2>2, <2>3, <2>4, Numbers DEF l
<1> QED BY <1>4, <1>5

\* Multiples of the block count leave no remainder.
LEMMA Multiple ==
    ASSUME NEW p \in Nat \ {0}, NEW k \in Nat
    PROVE  (k * p) % p = 0
OBVIOUS

\* Products distribute.
LEMMA Distribute ==
    ASSUME NEW p \in Nat, NEW q \in Nat, NEW j \in Nat
    PROVE  q * p \in Nat /\ j * p \in Nat /\ (q + j) * p = q * p + j * p
OBVIOUS

\* What a run of storage says j pages later.
LEMMA SaysLater ==
    ASSUME NEW e \in I!Extent, NEW p \in Nat, NEW j \in Nat, p >= e.bs_page,
           e.vd_blk \notin I!Boundary \cup {0}
    PROVE  Says(e, p + j) =
             IF e.vd_blk + (p - e.bs_page) * BLKS + j * BLKS > U32 THEN I!Outcome("zero")
             ELSE [kind |-> "data", vd |-> e.vd_index,
                   blk |-> e.vd_blk + (p - e.bs_page) * BLKS + j * BLKS]
<1> DEFINE q == p - e.bs_page
<1>1. e.bs_page \in Nat /\ q \in Nat /\ e.vd_blk \in Nat /\ (p + j) - e.bs_page = q + j
  BY Numbers DEF I!Extent
<1>2. e.vd_blk + ((p + j) - e.bs_page) * BLKS = e.vd_blk + q * BLKS + j * BLKS
  <2>1. (q + j) * BLKS = q * BLKS + j * BLKS /\ q * BLKS \in Nat /\ j * BLKS \in Nat
    <3> HIDE DEF q
    <3> QED BY <1>1, Numbers, Distribute
  <2> QED BY <1>1, <2>1
<1> DEFINE x == e.vd_blk + ((p + j) - e.bs_page) * BLKS
<1>3. Says(e, p + j) =
        IF e.vd_blk \in {I!PERM_HOLE, 0} THEN I!Outcome("permhole")
        ELSE IF e.vd_blk = I!XTNT_TERM \/ x > U32 THEN I!Outcome("zero")
        ELSE [kind |-> "data", vd |-> e.vd_index, blk |-> x]
  BY DEF Says
<1>4. x = e.vd_blk + q * BLKS + j * BLKS
  BY <1>2
<1> HIDE DEF x
<1>5. Says(e, p + j) =
        IF x > U32 THEN I!Outcome("zero")
        ELSE [kind |-> "data", vd |-> e.vd_index, blk |-> x]
  BY <1>3 DEF I!Boundary
<1> QED BY <1>4, <1>5

\* The pages of a run are the bytes its column has there.
LEMMA LookupRun ==
    ASSUME NEW m \in Seq(I!Extent), SoundColumn(m), NEW xm \in Nat, NEW j \in Nat,
           xm + j < U32, j < I!ColLookup(m, xm).run
    PROVE  /\ I!Normal(I!PageOutcome(m, xm + j)) =
                Run(I!ColLookup(m, xm).blk, I!ColLookup(m, xm).vd, j)
           /\ I!ColLookup(m, xm).blk # 0
<1> DEFINE i == I!FirstCover(m, xm)
           end == IF i < Len(m) THEN m[i + 1].bs_page ELSE U32
           l == I!ColLookup(m, xm)
<1>1. l = IF i = 0 \/ xm >= end
          THEN [blk |-> I!XTNT_TERM, vd |-> 0, run |-> U32]
          ELSE [blk |-> IF m[i].vd_blk \in I!Boundary THEN m[i].vd_blk
                        ELSE IF I!BlockOf(m, i, xm) > U32 THEN I!XTNT_TERM
                        ELSE I!BlockOf(m, i, xm),
                vd  |-> m[i].vd_index,
                run |-> end - xm]
  BY DEF I!ColLookup
<1>2. CASE m = <<>>
  <2>1. Len(m) = 0 /\ i = 0
    BY <1>2 DEF I!FirstCover
  <2>2. I!PageOutcome(m, xm + j) = I!Outcome("EINVAL")
    BY <1>2 DEF I!PageOutcome
  <2>3. l.blk = U32
    BY <1>1, <2>1, Numbers
  <2> QED BY <2>2, <2>3, Numbers DEF I!Normal, I!Outcome, Run
<1>3. CASE m # <<>>
  <2>1. m[1].bs_page = 0 /\ Len(m) \in Nat
    BY <1>3 DEF SoundColumn
  <2>2. i \in 1..Len(m) /\ I!Covers(m, i, xm) /\ \A k \in 1..i - 1 : ~I!Covers(m, k, xm)
    BY <1>3, <2>1, AllCovered
  <2> HIDE DEF i
  <2>3. i < Len(m) => i + 1 \in 1..Len(m)
    BY <2>1, <2>2
  <2>4. end \in Nat /\ end <= U32
    BY <2>3, ElementType, Numbers
  <2>5. xm < end
    BY <2>2, Numbers DEF I!Covers
  <2> HIDE DEF end
  <2>6. l.run = end - xm /\ l.vd = m[i].vd_index
        /\ l.blk = IF m[i].vd_blk \in I!Boundary THEN m[i].vd_blk
                   ELSE IF I!BlockOf(m, i, xm) > U32 THEN I!XTNT_TERM
                   ELSE I!BlockOf(m, i, xm)
    BY <1>1, <2>2, <2>4, <2>5
  <2>7. xm + j < end
    BY <2>4, <2>5, <2>6
  <2>8. I!FirstCover(m, xm + j) = i
    <3>1. I!Covers(m, i, xm + j)
      <4>1. m[i].bs_page \in Nat
        BY <2>2, ElementType
      <4> QED BY <4>1, <2>2, <2>7 DEF I!Covers, end
    <3>2. ASSUME NEW k \in 1..i - 1 PROVE ~I!Covers(m, k, xm + j)
      <4>1. k \in 1..Len(m) /\ k + 1 \in 1..Len(m) /\ k < Len(m) /\ k + 1 <= i
        BY <2>1, <2>2
      <4>2. m[k + 1].bs_page <= m[i].bs_page
        BY <4>1, <2>2, Sorted DEF SoundColumn
      <4>3. m[k + 1].bs_page \in Nat /\ m[i].bs_page \in Nat
        BY <4>1, <2>2, ElementType
      <4> QED BY <4>1, <4>2, <4>3, <2>2 DEF I!Covers
    <3> QED BY <3>1, <3>2, <2>2, CoverFound
  <2> DEFINE v == m[i].vd_blk
             q == xm - m[i].bs_page
  <2>9. v \in Nat /\ v <= U32 /\ m[i].bs_page \in Nat /\ q \in Nat /\ m[i].vd_index \in Nat
    BY <2>2, ElementType DEF I!Covers
  <2>10. CASE v \in I!Boundary /\ i = Len(m)
    <3>1. v = I!XTNT_TERM
      <4>1. \/ v = I!XTNT_TERM
            \/ v = I!PERM_HOLE /\ i < Len(m)
            \/ \A b \in I!Boundary : (b - v) % BLKS # 0
        BY <2>2 DEF SoundColumn
      <4>2. ~(i < Len(m))
        BY <2>1, <2>10
      <4> HIDE DEF v
      <4>3. ASSUME \A b \in I!Boundary : (b - v) % BLKS # 0 PROVE FALSE
        <5>1. (v - v) % BLKS # 0
          BY <4>3, <2>10
        <5>2. v - v = 0 * BLKS
          BY <2>9, Numbers
        <5> QED BY <5>1, <5>2, Numbers, Multiple
      <4> QED BY <4>1, <4>2, <4>3
    <3>2. I!PageOutcome(m, xm + j) = I!Outcome("ENOENT")
      BY <2>10, <1>3, <2>1, <2>8 DEF I!PageOutcome
    <3> QED BY <3>1, <3>2, <2>6, <2>10, Numbers DEF Run, I!Normal, I!Outcome
  <2>11. CASE v \in I!Boundary /\ i < Len(m)
    <3>1. I!Normal(I!PageOutcome(m, xm + j)) = Says(m[i], xm + j)
      BY <2>2, <2>8, <2>11, InnerOutcome
    <3> QED BY <3>1, <2>6, <2>9, <2>11, Numbers DEF Run, Says
  <2>12. CASE v \notin I!Boundary
    <3>1. I!Normal(I!PageOutcome(m, xm + j)) = Says(m[i], xm + j)
      BY <2>2, <2>8, <2>12, InnerOutcome
    <3>2. v # 0 /\ \A b \in I!Boundary : (b - v) % BLKS # 0
      BY <2>2, <2>12 DEF SoundColumn, I!Boundary
    <3> DEFINE b == v + q * BLKS
               jb == j * BLKS
    <3>3. I!BlockOf(m, i, xm) = b
      BY DEF I!BlockOf
    <3>4. Says(m[i], xm + j) =
            IF b + jb > U32 THEN I!Outcome("zero")
            ELSE [kind |-> "data", vd |-> m[i].vd_index, blk |-> b + jb]
      <4>1. m[i] \in I!Extent /\ xm >= m[i].bs_page
        BY <2>2, ElementType DEF I!Covers
      <4>2. m[i].vd_blk \notin I!Boundary \cup {0}
        BY <2>12, <3>2
      <4> QED BY <4>1, <4>2, SaysLater
    <3>5. b \in Nat /\ b # 0 /\ jb \in Nat /\ q * BLKS \in Nat
      <4> HIDE DEF v, q
      <4> QED BY <3>2, <2>9, Numbers, Distribute
    <3>6. b \notin I!Boundary
      <4> SUFFICES ASSUME b \in I!Boundary PROVE FALSE
        OBVIOUS
      <4>1. b - v = q * BLKS
        BY <3>5, <2>9
      <4> QED BY <4>1, <3>2, <2>9, Numbers, Multiple
    <3> HIDE DEF v, q
    <3>7. CASE b > U32
      <4>1. l.blk = U32
        BY <3>7, <3>3, <2>6, <2>12, Numbers DEF v
      <4>2. b + jb > U32
        BY <3>7, <3>5, Numbers
      <4> QED BY <4>1, <4>2, <3>1, <3>4, Numbers DEF Run
    <3>8. CASE ~(b > U32)
      <4>1. l.blk = b
        BY <3>8, <3>3, <2>6, <2>12 DEF v
      <4> QED BY <4>1, <3>1, <3>4, <3>5, <3>6, <2>6 DEF Run, I!Boundary
    <3> QED BY <3>7, <3>8
  <2> QED BY <2>2, <2>10, <2>11, <2>12
<1> QED BY <1>2, <1>3

-----------------------------------------------------------------------------
\* Quotient and remainder, and that they are the only such numbers.
LEMMA DivMod ==
    ASSUME NEW a \in Nat, NEW p \in Nat \ {0}
    PROVE  a \div p \in Nat /\ a % p \in 0..p - 1 /\ a = (a \div p) * p + (a % p)
OBVIOUS

\* Quotient and remainder are unique.
LEMMA DivModUnique ==
    ASSUME NEW p \in Nat \ {0}, NEW q \in Nat, NEW r \in 0..p - 1
    PROVE  (q * p + r) \div p = q /\ (q * p + r) % p = r
OBVIOUS

\* The pages of one segment.
LEMMA SameSegment ==
    ASSUME NEW p \in Nat \ {0}, NEW a \in Nat, NEW d \in Nat, (a % p) + d < p
    PROVE  (a + d) \div p = a \div p /\ (a + d) % p = (a % p) + d
<1> DEFINE q == a \div p
           r == a % p
<1>1. q \in Nat /\ r \in 0..p - 1 /\ a = q * p + r
  BY DivMod
<1>2. r + d \in 0..p - 1
  BY <1>1
<1> HIDE DEF q, r
<1>3. a + d = q * p + (r + d)
  BY <1>1
<1>4. (q * p + (r + d)) \div p = q /\ (q * p + (r + d)) % p = r + d
  BY <1>1, <1>2, DivModUnique
<1> QED BY <1>3, <1>4 DEF q, r

\* Products are monotonic.
LEMMA TimesMono ==
    ASSUME NEW a \in Nat, NEW b \in Nat, NEW c \in Nat, a <= b
    PROVE  a * c \in Nat /\ b * c \in Nat /\ a * c <= b * c
OBVIOUS

\* A quotient is not above its dividend.
LEMMA DivBelow ==
    ASSUME NEW a \in Nat, NEW p \in Nat \ {0}
    PROVE  a \div p \in Nat /\ a \div p <= a
OBVIOUS

(***************************************************************************)
(* The column of a file page exists, its page there is no later than the   *)
(* file page, and the pages of a segment are consecutive in one column.    *)
(***************************************************************************)
LEMMA ColumnOfPage ==
    ASSUME Len(cols) \in Nat \ {0}, seg \in Nat \ {0}, NEW f \in Nat, NEW j \in Nat, (f % seg) + j < seg
    PROVE  /\ I!Column(f) \in 1..Len(cols)
           /\ I!ColumnPage(f) \in Nat /\ I!ColumnPage(f) <= f
           /\ I!Column(f + j) = I!Column(f) /\ I!ColumnPage(f + j) = I!ColumnPage(f) + j
<1> DEFINE q == f \div seg
           r == f % seg
           n == Len(cols)
           k == q \div n
<1>1. q \in Nat /\ r \in Nat /\ f = q * seg + r
  <2>1. q \in Nat /\ r \in 0..seg - 1 /\ f = q * seg + r
    BY DivMod
  <2> HIDE DEF q, r
  <2> QED BY <2>1
<1>2. (f + j) \div seg = q /\ (f + j) % seg = r + j
  BY SameSegment
<1>3. I!Column(f) = 1 + (q % n) /\ I!ColumnPage(f) = k * seg + r
  BY DEF I!Column, I!ColumnPage
<1>4. I!Column(f + j) = 1 + (q % n) /\ I!ColumnPage(f + j) = k * seg + (r + j)
  BY <1>2 DEF I!Column, I!ColumnPage
<1> HIDE DEF q, r
<1>5. k \in Nat /\ k <= q /\ q % n \in 0..n - 1
  BY <1>1, DivBelow, DivMod
<1> HIDE DEF k, n
<1>6. k * seg \in Nat /\ q * seg \in Nat /\ k * seg <= q * seg
  BY <1>1, <1>5, TimesMono
<1> DEFINE a == k * seg
           b == q * seg
<1> HIDE DEF a, b
<1>7. I!ColumnPage(f) = a + r /\ I!ColumnPage(f + j) = a + (r + j) /\ f = b + r /\ a \in Nat /\ b \in Nat /\ a <= b
  BY <1>1, <1>3, <1>4, <1>6 DEF a, b
<1>8. I!ColumnPage(f) \in Nat /\ I!ColumnPage(f) <= f /\ I!ColumnPage(f + j) = I!ColumnPage(f) + j
  BY <1>1, <1>7
<1>9. n \in Nat
  BY DEF n
<1>10. I!Column(f) \in 1..n /\ I!Column(f + j) = I!Column(f)
  BY <1>3, <1>4, <1>5, <1>9
<1> QED BY <1>8, <1>10 DEF n

\* The columns are maps.
LEMMA ColumnType ==
    ASSUME cols \in Seq(Seq(I!Extent))
    PROVE  Len(cols) \in Nat /\ \A c \in 1..Len(cols) : cols[c] \in Seq(I!Extent)
<1> DEFINE M == Seq(I!Extent)
<1> HIDE DEF M
<1>1. cols \in Seq(M)
  BY DEF M
<1> QED BY <1>1 DEF M

\* The run that the loop emits at file page f has the bytes of its pages.
LEMMA RunIsStriped ==
    ASSUME cols \in Seq(Seq(I!Extent)), cols # <<>>, seg \in Nat \ {0}, Sound,
           NEW f \in Nat, NEW j \in Nat, f + j < U32, (f % seg) + j < seg,
           j < I!ColLookup(cols[I!Column(f)], I!ColumnPage(f)).run
    PROVE  LET l == I!ColLookup(cols[I!Column(f)], I!ColumnPage(f)) IN
           I!StripedPage(f + j) = Run(l.blk, l.vd, j) /\ l.blk # 0
<1>1. Len(cols) \in Nat \ {0}
  BY EmptySeq, ColumnType
<1> DEFINE c == I!Column(f)
           xm == I!ColumnPage(f)
<1>2. c \in 1..Len(cols) /\ xm \in Nat /\ xm <= f /\ I!Column(f + j) = c /\ I!ColumnPage(f + j) = xm + j
  BY <1>1, ColumnOfPage
<1>3. I!StripedPage(f + j) = I!Normal(I!PageOutcome(cols[c], xm + j))
  BY <1>2 DEF I!StripedPage
<1> HIDE DEF c, xm
<1>4. cols[c] \in Seq(I!Extent)
  BY <1>2, ColumnType
<1>5. SoundColumn(cols[c])
  BY <1>2 DEF Sound, SoundColumn
<1>6. xm + j < U32
  BY <1>2, Numbers
<1>7. j < I!ColLookup(cols[c], xm).run
  BY DEF c, xm
<1>8. I!Normal(I!PageOutcome(cols[c], xm + j)) =
         Run(I!ColLookup(cols[c], xm).blk, I!ColLookup(cols[c], xm).vd, j)
      /\ I!ColLookup(cols[c], xm).blk # 0
  BY <1>2, <1>4, <1>5, <1>6, <1>7, LookupRun
<1> QED BY <1>3, <1>8 DEF c, xm

-----------------------------------------------------------------------------
(***************************************************************************)
(* The interleaver's part of the invariant.  StripeShape: the descriptors  *)
(* written so far begin below fpage, in order, and a finished map ends     *)
(* with its terminator.  StripeRight: every page below fpage has a         *)
(* descriptor that says what the striping rule says of it.                 *)
(***************************************************************************)
StripeType ==
    /\ cols \in Seq(Seq(I!Extent)) /\ seg \in Nat
    /\ total \in 0..U32 /\ fpage \in Nat /\ fpage <= total
    /\ out \in Seq(I!Extent) /\ Len(out) <= MAX_EXTENTS

StripeShape ==
    /\ ipc \in {"idle", "start"} => fpage = 0 /\ total = 0 /\ out = <<>>
    /\ ipc = "loop" => cols # <<>> /\ seg # 0
    /\ \A i \in 1..Len(out) - 1 : out[i].bs_page <= out[i + 1].bs_page
    /\ \A i \in 1..Len(out) : out[i].bs_page < fpage \/ (ipc = "done" /\ i = Len(out))
    /\ ipc = "done" =>
         /\ fpage = total /\ out # <<>>
         /\ out[Len(out)] = [bs_page |-> total, vd_blk |-> I!XTNT_TERM, vd_index |-> 0]

StripeRight ==
    Sound =>
      /\ \A i \in 1..Len(out) : out[i].vd_blk # 0
      /\ \A p \in 0..fpage - 1 :
           \E i \in 1..Len(out) : I!Covers(out, i, p) /\ Says(out[i], p) = I!StripedPage(p)

StripeInv == StripeType /\ StripeShape /\ StripeRight

\* Appending a descriptor of later pages changes no page before them.
LEMMA CoversAppended ==
    ASSUME NEW m \in Seq(I!Extent), NEW e \in I!Extent, NEW p \in Nat, p < e.bs_page,
           NEW i \in 1..Len(m), I!Covers(m, i, p)
    PROVE  I!Covers(Append(m, e), i, p) /\ Append(m, e)[i] = m[i]
<1>1. Len(Append(m, e)) = Len(m) + 1 /\ Append(m, e)[i] = m[i] /\ Len(m) \in Nat
  OBVIOUS
<1>2. CASE i = Len(m)
  <2>1. Append(m, e)[i + 1] = e
    BY <1>2
  <2> QED BY <1>1, <1>2, <2>1 DEF I!Covers
<1>3. CASE i < Len(m)
  <2>1. Append(m, e)[i + 1] = m[i + 1]
    BY <1>3
  <2> QED BY <1>1, <1>3, <2>1 DEF I!Covers
<1> QED BY <1>1, <1>2, <1>3

\* A map in order has no other descriptor for the page.
LEMMA CoverIsFirst ==
    ASSUME NEW m \in Seq(I!Extent), \A i \in 1..Len(m) - 1 : m[i].bs_page <= m[i + 1].bs_page,
           NEW p \in Nat, NEW i \in 1..Len(m), I!Covers(m, i, p)
    PROVE  I!FirstCover(m, p) = i
<1>1. ASSUME NEW k \in 1..i - 1 PROVE ~I!Covers(m, k, p)
  <2>1. k \in 1..Len(m) /\ k + 1 \in 1..Len(m) /\ k < Len(m) /\ k + 1 <= i
    OBVIOUS
  <2>2. m[k + 1].bs_page <= m[i].bs_page
    BY <2>1, Sorted
  <2>3. m[k + 1].bs_page \in Nat /\ m[i].bs_page \in Nat
    BY <2>1, ElementType
  <2> QED BY <2>1, <2>2, <2>3 DEF I!Covers
<1> QED BY <1>1, CoverFound

\* The invariant gives the property of the flat map.
LEMMA StripeInvImplies ==
    ASSUME StripeInv
    PROVE  FlatMapIsStriped
<1>1. out \in Seq(I!Extent) /\ Len(out) \in Nat /\ fpage \in Nat /\ total \in Nat /\ fpage <= total /\ total <= U32
  BY Numbers DEF StripeInv, StripeType
<1>2. \A i \in 1..Len(out) - 1 : out[i].bs_page <= out[i + 1].bs_page
  BY DEF StripeInv, StripeShape
<1>3. ASSUME Sound PROVE I!PrefixCorrect
  <2> DEFINE e == [bs_page |-> fpage, vd_blk |-> I!XTNT_TERM, vd_index |-> 0]
             m == Append(out, e)
  <2>1. e \in I!Extent
    BY <1>1, Numbers DEF I!Extent
  <2> SUFFICES ASSUME NEW p \in 0..fpage - 1
               PROVE  I!Normal(I!PageOutcome(m, p)) = I!StripedPage(p)
    BY DEF I!PrefixCorrect
  <2>2. p \in Nat /\ p < e.bs_page
    BY <1>1
  <2>3. PICK i \in 1..Len(out) : I!Covers(out, i, p) /\ Says(out[i], p) = I!StripedPage(p)
    BY <1>3 DEF StripeInv, StripeRight
  <2> HIDE DEF e
  <2>4. m \in Seq(I!Extent) /\ Len(m) = Len(out) + 1 /\ i \in 1..Len(m) /\ i < Len(m)
    BY <2>1, <1>1
  <2>5. I!Covers(m, i, p) /\ m[i] = out[i]
    BY <2>1, <2>2, <2>3, <1>1, CoversAppended
  <2>6. \A k \in 1..Len(m) - 1 : m[k].bs_page <= m[k + 1].bs_page
    <3> SUFFICES ASSUME NEW k \in 1..Len(m) - 1 PROVE m[k].bs_page <= m[k + 1].bs_page
      OBVIOUS
    <3>1. k \in 1..Len(out)
      BY <2>4, <1>1
    <3>2. CASE k = Len(out)
      <4>1. m[k] = out[k] /\ m[k + 1] = e
        BY <3>2, <2>1, <3>1, <1>1
      <4>2. out[k].bs_page <= fpage
        <5>1. out[k].bs_page \in Nat
          BY <3>1, <1>1, ElementType
        <5> QED BY <5>1, <3>1, <3>2, <1>1 DEF StripeInv, StripeShape
      <4> QED BY <4>1, <4>2 DEF e
    <3>3. CASE k < Len(out)
      <4>1. m[k] = out[k] /\ m[k + 1] = out[k + 1] /\ k \in 1..Len(out) - 1
        BY <3>1, <3>3, <2>1, <1>1
      <4> QED BY <4>1, <1>2
    <3> QED BY <3>1, <3>2, <3>3, <1>1
  <2> HIDE DEF m
  <2>7. I!FirstCover(m, p) = i
    BY <2>2, <2>4, <2>5, <2>6, CoverIsFirst
  <2>8. I!Normal(I!PageOutcome(m, p)) = Says(m[i], p)
    BY <2>2, <2>4, <2>7, InnerOutcome
  <2> QED BY <2>3, <2>5, <2>8
<1>4. I!CountIsTotal
  <2> SUFFICES ASSUME ipc = "done" PROVE I!PageCount(out) = total /\ I!PageOutcome(out, total).kind = "ENOENT"
    BY DEF I!CountIsTotal
  <2> DEFINE n == Len(out)
  <2>1. n \in 1..Len(out) /\ out # <<>> /\ out[n] = [bs_page |-> total, vd_blk |-> I!XTNT_TERM, vd_index |-> 0]
    BY <1>1, EmptySeq DEF StripeInv, StripeShape
  <2>2. I!PageEnd(out[n]) = total
    BY <2>1 DEF I!PageEnd, I!Boundary
  <2>3. ASSUME NEW i \in 1..Len(out) PROVE I!PageEnd(out[i]) <= total
    <3>1. CASE i = n
      BY <3>1, <2>2, <1>1
    <3>2. CASE i # n
      <4> DEFINE x == out[i].bs_page
      <4>1. x \in Nat /\ x < total
        BY <3>2, <1>1, ElementType DEF StripeInv, StripeShape
      <4> HIDE DEF x
      <4>2. (x + 1) % (U32 + 1) = x + 1
        <5>1. x + 1 \in 0..(U32 + 1) - 1 /\ U32 + 1 \in Nat \ {0} /\ 0 * (U32 + 1) + (x + 1) = x + 1
          BY <4>1, <1>1, Numbers
        <5> QED BY <5>1, DivModUnique
      <4> QED BY <4>1, <4>2, <1>1 DEF I!PageEnd, x
    <3> QED BY <3>1, <3>2
  <2>4. I!PageCount(out) = total
    BY <1>1, <2>1, <2>2, <2>3, PageCountIs
  <2>5. I!Covers(out, n, total)
    BY <2>1, <1>1 DEF I!Covers
  <2>6. I!FirstCover(out, total) = n
    BY <2>1, <2>5, <1>1, <1>2, CoverIsFirst
  <2>7. I!PageOutcome(out, total) = I!Outcome("ENOENT")
    BY <2>1, <2>6, <1>1 DEF I!PageOutcome, I!Boundary
  <2> QED BY <2>4, <2>7 DEF I!Outcome
<1> QED BY <1>3, <1>4 DEF FlatMapIsStriped, StripeInv, StripeType

\* The pages of the next run: some, all in one segment, in one run and in the file.
LEMMA RunLengthIs ==
    ASSUME StripeInv, ipc = "loop", fpage < total, NEW r \in Nat \ {0}
    PROVE  LET n == I!RunLength(r) IN
           /\ n \in Nat /\ n > 0 /\ n <= r /\ fpage + n <= total
           /\ \A j \in 0..n - 1 : (fpage % seg) + j < seg
<1>1. seg \in Nat \ {0} /\ fpage \in Nat /\ total \in Nat
  BY Numbers DEF StripeInv, StripeType, StripeShape
<1> DEFINE x == fpage % seg
<1>2. x \in 0..seg - 1
  BY <1>1, DivMod
<1> HIDE DEF x
<1>3. I!RunLength(r) =
        LET a == IF r < seg - x THEN r ELSE seg - x
            b == IF total - fpage < a THEN total - fpage ELSE a
        IN  IF b = 0 THEN 1 ELSE b
  BY DEF I!RunLength, x
<1> QED BY <1>1, <1>2, <1>3 DEF x

\* What the last descriptor says of the pages of a run that is merged into it.
LEMMA MergedSays ==
    ASSUME NEW e \in I!Extent, NEW f \in Nat, e.bs_page < f, e.vd_blk # 0,
           NEW blk, NEW vd, NEW j \in Nat,
           \/ e.vd_blk \in I!Boundary /\ blk = e.vd_blk
           \/ /\ e.vd_blk \notin I!Boundary /\ blk \notin I!Boundary
              /\ e.vd_index = vd
              /\ e.vd_blk + (f - e.bs_page) * BLKS = blk
    PROVE  Says(e, f + j) = Run(blk, vd, j)
<1>1. CASE e.vd_blk \in I!Boundary /\ blk = e.vd_blk
  <2>1. I!PERM_HOLE # I!XTNT_TERM
    BY Numbers
  <2> QED BY <1>1, <2>1 DEF Says, Run, I!Boundary
<1>2. CASE /\ e.vd_blk \notin I!Boundary /\ blk \notin I!Boundary
           /\ e.vd_index = vd
           /\ e.vd_blk + (f - e.bs_page) * BLKS = blk
  <2>1. f >= e.bs_page
    BY Numbers DEF I!Extent
  <2>2. Says(e, f + j) = IF blk + j * BLKS > U32 THEN I!Outcome("zero")
                         ELSE [kind |-> "data", vd |-> vd, blk |-> blk + j * BLKS]
    BY <1>2, <2>1, SaysLater
  <2> QED BY <1>2, <2>2 DEF Run, I!Boundary
<1> QED BY <1>1, <1>2

\* What a new descriptor says of the pages of its run.
LEMMA NewSays ==
    ASSUME NEW e, e.bs_page \in Nat, e.vd_blk \in Nat \ {0}, NEW j \in Nat
    PROVE  Says(e, e.bs_page + j) = Run(e.vd_blk, e.vd_index, j)
<1>1. (e.bs_page + j) - e.bs_page = j
  OBVIOUS
<1> QED BY <1>1, Numbers DEF Says, Run

\* The striping rule depends on the columns and the segment size only.
LEMMA StepFrame ==
    ASSUME UNCHANGED <<cols, seg>>
    PROVE  Sound' = Sound /\ \A p : I!StripedPage(p)' = I!StripedPage(p)
BY DEF Sound, I!StripedPage, I!Column, I!ColumnPage

\* A run written keeps the invariant of the interleaver.
LEMMA StripeStep ==
    ASSUME StripeInv, I!Step
    PROVE  StripeInv'
<1> DEFINE l == I!ColLookup(cols[I!Column(fpage)], I!ColumnPage(fpage))
           n == I!RunLength(l.run)
           e == [bs_page |-> fpage, vd_blk |-> l.blk, vd_index |-> l.vd]
           merged == out # <<>> /\ I!Merges(out[Len(out)], l.blk, l.vd)
<1>1. /\ ipc = "loop" /\ fpage < total
      /\ IF ~merged /\ Len(out) >= MAX_EXTENTS
         THEN ipc' = "EOVERFLOW" /\ UNCHANGED <<fpage, out>>
         ELSE /\ fpage' = fpage + n
              /\ IF merged THEN UNCHANGED out ELSE out' = Append(out, e)
              /\ UNCHANGED ipc
      /\ UNCHANGED <<cols, seg, total>>
  BY DEF I!Step, I!Append1
<1>2. /\ cols \in Seq(Seq(I!Extent)) /\ cols # <<>> /\ Len(cols) \in Nat \ {0} /\ seg \in Nat \ {0}
      /\ fpage \in Nat /\ total \in Nat /\ total <= U32
      /\ out \in Seq(I!Extent) /\ Len(out) \in Nat /\ MAX_EXTENTS \in Nat
  BY <1>1, Numbers, ColumnType, EmptySeq, ChainAssumption DEF StripeInv, StripeType, StripeShape
<1>3. l.blk \in 0..U32 /\ l.vd \in Nat /\ l.run \in Nat \ {0}
  <2>1. fpage % seg \in 0..seg - 1
    BY <1>2, DivMod
  <2>2. (fpage % seg) + 0 < seg
    BY <2>1, <1>2
  <2>3. I!Column(fpage) \in 1..Len(cols) /\ I!ColumnPage(fpage) \in Nat
    BY <1>2, <2>2, ColumnOfPage
  <2>4. cols[I!Column(fpage)] \in Seq(I!Extent)
    BY <1>2, <2>3, ColumnType
  <2> QED BY <2>3, <2>4, LookupType
<1>4. /\ n \in Nat /\ n > 0 /\ n <= l.run /\ fpage + n <= total
      /\ \A j \in 0..n - 1 : (fpage % seg) + j < seg
  BY <1>1, <1>3, RunLengthIs
<1>5. Sound' = Sound /\ \A p : I!StripedPage(p)' = I!StripedPage(p)
  BY <1>1, StepFrame
<1>6. ASSUME Sound, NEW j \in 0..n - 1
      PROVE  I!StripedPage(fpage + j) = Run(l.blk, l.vd, j) /\ l.blk # 0
  <2>1. j \in Nat /\ fpage + j < U32 /\ j < l.run /\ (fpage % seg) + j < seg
    <3> HIDE DEF l, n
    <3>1. j \in Nat /\ fpage + j < U32 /\ j < l.run
      BY <1>2, <1>3, <1>4, Numbers
    <3> QED BY <3>1, <1>4
  <2> QED BY <1>2, <1>6, <2>1, RunIsStriped
<1> HIDE DEF l, n
<1>7. CASE ~merged /\ Len(out) >= MAX_EXTENTS
  <2>1. ipc' = "EOVERFLOW" /\ UNCHANGED <<fpage, out, cols, seg, total>>
    BY <1>1, <1>7
  <2>2. StripeType' /\ StripeShape'
    BY <2>1, <1>1 DEF StripeInv, StripeType, StripeShape
  <2>3. StripeRight'
    BY <2>1, <1>5 DEF StripeInv, StripeRight
  <2> QED BY <2>2, <2>3 DEF StripeInv
<1>8. CASE merged
  <2>1. fpage' = fpage + n /\ UNCHANGED <<ipc, out, cols, seg, total>>
    BY <1>1, <1>8
  <2>2. StripeType'
    BY <2>1, <1>2, <1>4 DEF StripeInv, StripeType
  <2>3. StripeShape'
    <3>1. ASSUME NEW i \in 1..Len(out) PROVE out[i].bs_page < fpage + n
      BY <1>1, <1>2, <1>4, ElementType DEF StripeInv, StripeShape
    <3> QED BY <2>1, <3>1, <1>1 DEF StripeInv, StripeShape
  <2>4. ASSUME Sound, NEW p \in 0..(fpage + n) - 1
        PROVE \E i \in 1..Len(out) : I!Covers(out, i, p) /\ Says(out[i], p) = I!StripedPage(p)
    <3>1. CASE p < fpage
      BY <3>1, <2>4, <1>2, <1>4 DEF StripeInv, StripeRight
    <3>2. CASE p >= fpage
      <4> DEFINE k == Len(out)
                 j == p - fpage
      <4>1. k \in 1..Len(out) /\ j \in 0..n - 1 /\ j \in Nat /\ p = fpage + j /\ p \in Nat
        BY <3>2, <1>2, <1>4, <1>8, EmptySeq
      <4>2. out[k].bs_page < fpage /\ out[k].vd_blk # 0 /\ out[k] \in I!Extent /\ out[k].bs_page \in Nat
        BY <4>1, <2>4, <1>1, <1>2, ElementType DEF StripeInv, StripeShape, StripeRight
      <4>3. I!Covers(out, k, p)
        BY <4>1, <4>2, <3>2, <1>2 DEF I!Covers
      <4>4. I!StripedPage(p) = Run(l.blk, l.vd, j)
        BY <4>1, <1>6, <2>4
      <4> HIDE DEF j
      <4>5. Says(out[k], fpage + j) = Run(l.blk, l.vd, j)
        <5>1. \/ out[k].vd_blk \in I!Boundary /\ l.blk = out[k].vd_blk
              \/ /\ out[k].vd_blk \notin I!Boundary /\ l.blk \notin I!Boundary
                 /\ out[k].vd_index = l.vd
                 /\ out[k].vd_blk + (fpage - out[k].bs_page) * BLKS = l.blk
          BY <1>8 DEF I!Merges
        <5> HIDE DEF k
        <5> QED BY <5>1, <4>1, <4>2, <1>2, MergedSays
      <4> QED BY <4>1, <4>3, <4>4, <4>5
    <3> QED BY <3>1, <3>2, <1>2, <1>4
  <2>5. StripeRight'
    BY <2>1, <2>4, <1>5 DEF StripeInv, StripeRight
  <2> QED BY <2>2, <2>3, <2>5 DEF StripeInv
<1>9. CASE ~merged /\ ~(Len(out) >= MAX_EXTENTS)
  <2>1. fpage' = fpage + n /\ out' = Append(out, e) /\ UNCHANGED <<ipc, cols, seg, total>>
    BY <1>1, <1>9
  <2>2. e \in I!Extent /\ e.bs_page = fpage
    BY <1>1, <1>2, <1>3, Numbers DEF I!Extent
  <2> HIDE DEF e, merged
  <2> DEFINE m == Append(out, e)
  <2>3. m \in Seq(I!Extent) /\ Len(m) = Len(out) + 1 /\ m[Len(m)] = e /\ \A i \in 1..Len(out) : m[i] = out[i]
    BY <2>2, <1>2
  <2>4. StripeType'
    BY <2>1, <2>3, <1>2, <1>4, <1>9 DEF StripeInv, StripeType
  <2>5. \A i \in 1..Len(out) : out[i].bs_page < fpage /\ out[i].bs_page \in Nat
    BY <1>1, <1>2, ElementType DEF StripeInv, StripeShape
  <2> HIDE DEF m
  <2>6. StripeShape'
    <3>1. ASSUME NEW i \in 1..Len(m) PROVE m[i].bs_page < fpage + n
      <4>1. i = Len(m) \/ i \in 1..Len(out)
        BY <2>3, <1>2
      <4>2. fpage < fpage + n
        BY <1>2, <1>4
      <4>3. m[i].bs_page <= fpage /\ m[i].bs_page \in Nat
        BY <4>1, <2>2, <2>3, <2>5, <1>2
      <4> QED BY <4>2, <4>3, <1>2, <1>4
    <3>2. ASSUME NEW i \in 1..Len(m) - 1 PROVE m[i].bs_page <= m[i + 1].bs_page
      <4>1. i \in 1..Len(out)
        BY <2>3, <1>2
      <4>2. CASE i = Len(out)
        <5>1. m[i] = out[i] /\ m[i + 1] = e
          BY <4>1, <4>2, <2>3, <1>2
        <5> QED BY <5>1, <4>1, <2>2, <2>5, <1>2
      <4>3. CASE i < Len(out)
        <5>1. i \in 1..Len(out) - 1 /\ i + 1 \in 1..Len(out)
          BY <4>1, <4>3, <1>2
        <5> QED BY <4>1, <5>1, <2>3 DEF StripeInv, StripeShape
      <4> QED BY <4>1, <4>2, <4>3, <1>2
    <3> QED BY <2>1, <3>1, <3>2, <1>1 DEF StripeInv, StripeShape, m
  <2>7. ASSUME Sound, NEW i \in 1..Len(m) PROVE m[i].vd_blk # 0
    <3>1. l.blk # 0
      <4>1. 0 \in 0..n - 1
        BY <1>4
      <4> QED BY <4>1, <1>6, <2>7
    <3>2. e.vd_blk = l.blk
      BY DEF e
    <3>3. i = Len(m) \/ i \in 1..Len(out)
      BY <2>3, <1>2
    <3> QED BY <3>1, <3>2, <3>3, <2>3, <2>7 DEF StripeInv, StripeRight
  <2>8. ASSUME Sound, NEW p \in 0..(fpage + n) - 1
        PROVE \E i \in 1..Len(m) : I!Covers(m, i, p) /\ Says(m[i], p) = I!StripedPage(p)
    <3>1. CASE p < fpage
      <4>1. PICK i \in 1..Len(out) : I!Covers(out, i, p) /\ Says(out[i], p) = I!StripedPage(p)
        BY <3>1, <2>8, <1>2, <1>4 DEF StripeInv, StripeRight
      <4>2. p \in Nat /\ p < e.bs_page
        BY <3>1, <2>2, <1>2, <1>4
      <4>3. I!Covers(m, i, p) /\ m[i] = out[i]
        BY <4>1, <4>2, <2>2, <1>2, CoversAppended DEF m
      <4>4. i \in 1..Len(m)
        BY <2>3, <1>2
      <4> QED BY <4>1, <4>3, <4>4
    <3>2. CASE p >= fpage
      <4> DEFINE k == Len(m)
                 j == p - fpage
      <4>1. k \in 1..Len(m) /\ j \in 0..n - 1 /\ j \in Nat /\ p = fpage + j /\ p \in Nat
        BY <3>2, <1>2, <1>4, <2>3
      <4>2. I!Covers(m, k, p)
        BY <4>1, <2>2, <2>3, <3>2, <1>2 DEF I!Covers
      <4>3. I!StripedPage(p) = Run(l.blk, l.vd, j) /\ l.blk # 0 /\ l.blk \in Nat
        BY <4>1, <1>3, <1>6, <2>8
      <4> HIDE DEF j
      <4>4. Says(e, fpage + j) = Run(l.blk, l.vd, j)
        <5>1. e.bs_page = fpage /\ e.vd_blk = l.blk /\ e.vd_index = l.vd
          BY DEF e
        <5>2. e.bs_page \in Nat /\ e.vd_blk \in Nat \ {0}
          BY <5>1, <4>3, <1>2
        <5>3. Says(e, e.bs_page + j) = Run(e.vd_blk, e.vd_index, j)
          BY <5>2, <4>1, NewSays
        <5> QED BY <5>1, <5>3
      <4> QED BY <4>1, <4>2, <4>3, <4>4, <2>3
    <3> QED BY <3>1, <3>2, <1>2, <1>4
  <2>9. StripeRight'
    BY <2>1, <2>7, <2>8, <1>5 DEF StripeInv, StripeRight, m
  <2> QED BY <2>4, <2>6, <2>9 DEF StripeInv
<1> QED BY <1>7, <1>8, <1>9

\* The checks at the start of the interleaver keep it.
LEMMA StripeStart ==
    ASSUME StripeInv, I!Start
    PROVE  StripeInv'
<1>1. ipc = "start" /\ UNCHANGED <<cols, seg, fpage, out>> /\ fpage = 0 /\ out = <<>> /\ total = 0
  BY DEF I!Start, StripeInv, StripeShape
<1>2. \/ ipc' \in {"EINVAL", "ERANGE"} /\ total' = total
      \/ /\ ipc' = "loop" /\ total' = I!ColumnPages /\ ~(I!ColumnPages > U32)
         /\ ~(Len(cols) < 1) /\ seg # 0
  BY DEF I!Start
<1>3. I!ColumnPages \in Nat
  BY ColumnPagesType DEF StripeInv, StripeType
<1>4. total' \in 0..U32
  BY <1>1, <1>2, <1>3, Numbers
<1>5. StripeType'
  BY <1>1, <1>4, Numbers DEF StripeInv, StripeType
<1>6. ipc' \notin {"idle", "start", "done"} /\ (ipc' = "loop" => cols # <<>> /\ seg # 0)
  BY <1>2
<1>7. Len(out) = 0
  BY <1>1
<1>8. StripeShape'
  BY <1>1, <1>6, <1>7 DEF StripeShape
<1>9. StripeRight'
  BY <1>1, <1>7 DEF StripeRight
<1> QED BY <1>5, <1>8, <1>9 DEF StripeInv

\* The terminator keeps it.
LEMMA StripeFinish ==
    ASSUME StripeInv, I!Finish
    PROVE  StripeInv'
<1> DEFINE e == [bs_page |-> total, vd_blk |-> I!XTNT_TERM, vd_index |-> 0]
           m == Append(out, e)
<1>1. /\ ipc = "loop" /\ fpage = total /\ UNCHANGED <<cols, seg, total, fpage>>
      /\ \/ ipc' = "EOVERFLOW" /\ UNCHANGED out
         \/ ipc' = "done" /\ out' = m /\ Len(out) < MAX_EXTENTS
  <2>1. Len(out) \in Nat /\ MAX_EXTENTS \in Nat
    BY ChainAssumption DEF StripeInv, StripeType
  <2> QED BY <2>1 DEF I!Finish, I!Append1
<1>2. fpage \in Nat /\ total \in Nat /\ total <= U32 /\ out \in Seq(I!Extent) /\ Len(out) \in Nat
      /\ MAX_EXTENTS \in Nat
  BY Numbers, ChainAssumption DEF StripeInv, StripeType
<1>3. Sound' = Sound /\ \A p : I!StripedPage(p)' = I!StripedPage(p)
  BY <1>1, StepFrame
<1>4. CASE ipc' = "EOVERFLOW" /\ UNCHANGED out
  <2>1. StripeType' /\ StripeShape'
    BY <1>1, <1>4 DEF StripeInv, StripeType, StripeShape
  <2>2. StripeRight'
    BY <1>1, <1>3, <1>4 DEF StripeInv, StripeRight
  <2> QED BY <2>1, <2>2 DEF StripeInv
<1>5. CASE ipc' = "done" /\ out' = m /\ Len(out) < MAX_EXTENTS
  <2>1. e \in I!Extent /\ e.bs_page = total /\ e.vd_blk = U32
    BY <1>2, Numbers DEF I!Extent
  <2>2. e = [bs_page |-> total, vd_blk |-> I!XTNT_TERM, vd_index |-> 0]
    OBVIOUS
  <2> HIDE DEF e
  <2>3. m \in Seq(I!Extent) /\ Len(m) = Len(out) + 1 /\ m[Len(m)] = e /\ \A i \in 1..Len(out) : m[i] = out[i]
    BY <2>1, <1>2
  <2>4. StripeType'
    BY <2>3, <1>1, <1>2, <1>5 DEF StripeInv, StripeType
  <2>5. \A i \in 1..Len(out) : out[i].bs_page < fpage /\ out[i].bs_page \in Nat
    BY <1>1, <1>2, ElementType DEF StripeInv, StripeShape
  <2> HIDE DEF m
  <2>6. StripeShape'
    <3>1. ASSUME NEW i \in 1..Len(m) PROVE m[i].bs_page < fpage \/ i = Len(m)
      <4>1. i = Len(m) \/ i \in 1..Len(out)
        BY <2>3, <1>2
      <4> QED BY <4>1, <2>3, <2>5
    <3>2. ASSUME NEW i \in 1..Len(m) - 1 PROVE m[i].bs_page <= m[i + 1].bs_page
      <4>1. i \in 1..Len(out)
        BY <2>3, <1>2
      <4>2. CASE i = Len(out)
        <5>1. m[i] = out[i] /\ m[i + 1] = e
          BY <4>1, <4>2, <2>3, <1>2
        <5> QED BY <5>1, <4>1, <2>1, <2>5, <1>1, <1>2
      <4>3. CASE i < Len(out)
        <5>1. i \in 1..Len(out) - 1 /\ i + 1 \in 1..Len(out)
          BY <4>1, <4>3, <1>2
        <5> QED BY <4>1, <5>1, <2>3 DEF StripeInv, StripeShape
      <4> QED BY <4>1, <4>2, <4>3, <1>2
    <3>3. m # <<>>
      BY <2>3, <1>2
    <3> QED BY <3>1, <3>2, <3>3, <2>2, <2>3, <1>1, <1>5 DEF StripeShape
  <2>7. ASSUME Sound, NEW i \in 1..Len(m) PROVE m[i].vd_blk # 0
    <3>1. i = Len(m) \/ i \in 1..Len(out)
      BY <2>3, <1>2
    <3> QED BY <3>1, <2>1, <2>3, <2>7, Numbers DEF StripeInv, StripeRight
  <2>8. ASSUME Sound, NEW p \in 0..fpage - 1
        PROVE \E i \in 1..Len(m) : I!Covers(m, i, p) /\ Says(m[i], p) = I!StripedPage(p)
    <3>1. PICK i \in 1..Len(out) : I!Covers(out, i, p) /\ Says(out[i], p) = I!StripedPage(p)
      BY <2>8 DEF StripeInv, StripeRight
    <3>2. p \in Nat /\ p < e.bs_page
      BY <2>1, <1>1, <1>2
    <3>3. I!Covers(m, i, p) /\ m[i] = out[i]
      BY <3>1, <3>2, <2>1, <1>2, CoversAppended DEF m
    <3>4. i \in 1..Len(m)
      BY <2>3, <1>2
    <3> QED BY <3>1, <3>3, <3>4
  <2>9. StripeRight'
    BY <2>7, <2>8, <1>1, <1>3, <1>5 DEF StripeInv, StripeRight
  <2> QED BY <2>4, <2>6, <2>9 DEF StripeInv
<1> QED BY <1>1, <1>4, <1>5

-----------------------------------------------------------------------------
(***************************************************************************)
(* The walk.  Chain(t, f) gives the reference its values without a         *)
(* recursive definition: t[k] is the cell of hop k, and f[n][k] holds the  *)
(* descriptors of the hops n, ..., k - 1.                                  *)
(***************************************************************************)
Address == (Attached \cup Vds \cup {0}) \X (Mcids \cup {0})
Tagged == [desc : Descriptors, vd : Nat]

Origin == <<IF domain /\ prim.chain_vd # 0 THEN prim.chain_vd ELSE PrimVd, prim.chain>>
Link(c, a) == <<IF domain /\ c.next_vd # 0 THEN c.next_vd ELSE a[1], c.next>>

Shadows(t) == {n \in 0..hops - 1 : disk[t[n]].kind = "shadow"}

Links(t) ==
    /\ t = [k \in 0..hops |-> t[k]]
    /\ t[0] = Origin /\ t[hops] = Here
    /\ \A k \in 0..hops - 1 :
         t[k] \in DOMAIN disk /\ disk[t[k]] \in Records /\ t[k + 1] = Link(disk[t[k]], t[k])

Sums(t, f) ==
    \A n \in 0..hops :
      /\ f[n] = [k \in n..hops |-> f[n][k]]
      /\ f[n][n] = <<>> /\ f[n][hops] \in Seq(Tagged)
      /\ \A k \in n..hops - 1 : f[n][k + 1] = f[n][k] \o Collected(disk[t[k]], t[k], t[k][1])

Ranks(t, f) ==
    IsStripe =>
      /\ Len(col_start) = Cardinality(Shadows(t))
      /\ \A n \in Shadows(t) :
           col_start[Cardinality({m \in Shadows(t) : m <= n})] = Len(raw) - Len(f[n][hops])

Chain(t, f) ==
    /\ Links(t) /\ Sums(t, f) /\ Ranks(t, f)
    /\ found_shadow <=> Shadows(t) # {}
    /\ Shadows(t) = {} => raw = Collected(prim, Primary, PrimVd) \o f[0][hops]
    /\ \A n \in Shadows(t) : (\A m \in Shadows(t) : n <= m) => raw = f[n][hops]

ChainType ==
    /\ domain \in BOOLEAN /\ prim \in Primaries
    /\ \A a \in DOMAIN disk : disk[a] \in Cells /\ (domain => a[1] \in Attached)
    /\ raw \in Seq(Tagged) /\ Len(raw) <= MAX_EXTENTS
    /\ col_start \in Seq(Nat) /\ Len(col_start) <= MAX_STRIPE_COLS
    /\ found_shadow \in BOOLEAN
    /\ Here \in Address /\ hops \in Nat

ChainShape ==
    /\ pc = "start" => /\ raw = <<>> /\ col_start = <<>> /\ found_shadow = FALSE /\ hops = 0
                       /\ DOMAIN disk = {}
    /\ pc = "interleave" => IsStripe /\ Len(col_start) >= 2 /\ prim.segment_size # 0
    /\ found_shadow <=> col_start # <<>>
    /\ col_start # <<>> => col_start[1] = 0
    /\ \A i \in 1..Len(col_start) : col_start[i] <= Len(raw)
    /\ domain => \A i \in 1..Len(raw) : raw[i].vd \in Attached /\ raw[i].vd = raw[i].desc[1][1]

ChainInv ==
    /\ ChainType /\ ChainShape
    /\ pc \notin {"start", "EOVERFLOW"} => \E t, f : Chain(t, f)

\* Only one function has the chain's cells as its values.
LEMMA TrailIs ==
    ASSUME hops \in Nat, NEW t, Links(t)
    PROVE  Trail = t
<1> DEFINE B(g, n) == IF n = 0 THEN Origin ELSE Link(disk[g[n - 1]], g[n - 1])
<1>1. Trail = CHOOSE g : g = [n \in 0..hops |-> B(g, n)]
  BY Zenon DEF Trail, Origin, Link
<1>2. t = [n \in 0..hops |-> B(t, n)]
  <2>1. ASSUME NEW n \in 0..hops PROVE t[n] = B(t, n)
    <3>1. CASE n = 0
      BY <3>1 DEF Links
    <3>2. CASE n # 0
      <4>1. n - 1 \in 0..hops - 1 /\ (n - 1) + 1 = n
        BY <3>2
      <4> QED BY <3>2, <4>1 DEF Links
    <3> QED BY <3>1, <3>2
  <2>2. t = [n \in 0..hops |-> t[n]]
    BY DEF Links
  <2> HIDE DEF B
  <2> QED BY <2>1, <2>2
<1>3. ASSUME NEW g, g = [n \in 0..hops |-> B(g, n)] PROVE g = t
  <2>1. \A n \in 0..hops : g[n] = B(g, n) /\ t[n] = B(t, n)
    <3> HIDE DEF B
    <3> QED BY <1>2, <1>3
  <2> DEFINE S == {n \in Nat : n <= hops => g[n] = t[n]}
  <2>2. 0 \in S
    BY <2>1
  <2>3. ASSUME NEW n \in Nat, n \in S PROVE n + 1 \in S
    <3> SUFFICES ASSUME n + 1 <= hops PROVE g[n + 1] = t[n + 1]
      OBVIOUS
    <3>1. n + 1 \in 0..hops /\ n + 1 # 0 /\ (n + 1) - 1 = n /\ g[n] = t[n]
      BY <2>3
    <3> QED BY <2>1, <3>1
  <2> HIDE DEF S
  <2>4. Nat \subseteq S
    BY <2>2, <2>3, NatInd
  <2>5. \A n \in 0..hops : g[n] = t[n]
    BY <2>4 DEF S
  <2>6. g = [n \in 0..hops |-> g[n]] /\ t = [n \in 0..hops |-> t[n]]
    <3> HIDE DEF B
    <3> QED BY <1>3, <1>2
  <2> QED BY <2>5, <2>6
<1> HIDE DEF B
<1> QED BY <1>1, <1>2, <1>3

\* Only one function accumulates the descriptors from hop n on.
LEMMA FromIs ==
    ASSUME hops \in Nat, NEW n \in 0..hops, NEW t, t = Trail, NEW f, f = [k \in n..hops |-> f[k]],
           f[n] = <<>>,
           \A k \in n..hops - 1 : f[k + 1] = f[k] \o Collected(disk[t[k]], t[k], t[k][1])
    PROVE  From(n) = f[hops]
<1> DEFINE B(g, k) == IF k = n THEN <<>> ELSE g[k - 1] \o Collected(disk[t[k - 1]], t[k - 1], t[k - 1][1])
           h == CHOOSE g : g = [k \in n..hops |-> B(g, k)]
<1>1. From(n) = h[hops]
  BY Zenon DEF From
<1>2. f = [k \in n..hops |-> B(f, k)]
  <2>1. ASSUME NEW k \in n..hops PROVE f[k] = B(f, k)
    <3>1. CASE k = n
      BY <3>1
    <3>2. CASE k # n
      <4>1. k - 1 \in n..hops - 1 /\ (k - 1) + 1 = k
        BY <3>2
      <4> QED BY <3>2, <4>1
    <3> QED BY <3>1, <3>2
  <2> HIDE DEF B
  <2> QED BY <2>1
<1>3. ASSUME NEW g, g = [k \in n..hops |-> B(g, k)] PROVE g = f
  <2>1. \A k \in n..hops : g[k] = B(g, k) /\ f[k] = B(f, k)
    <3> HIDE DEF B
    <3> QED BY <1>2, <1>3
  <2> DEFINE S == {k \in Nat : n + k <= hops => g[n + k] = f[n + k]}
  <2>2. 0 \in S
    <3>1. n \in n..hops /\ n + 0 = n
      OBVIOUS
    <3> QED BY <2>1, <3>1
  <2>3. ASSUME NEW k \in Nat, k \in S PROVE k + 1 \in S
    <3> SUFFICES ASSUME n + (k + 1) <= hops PROVE g[n + (k + 1)] = f[n + (k + 1)]
      OBVIOUS
    <3> DEFINE j == n + (k + 1)
    <3>1. j \in n..hops /\ j # n /\ j - 1 = n + k
      OBVIOUS
    <3>2. g[n + k] = f[n + k]
      BY <2>3
    <3> HIDE DEF j
    <3>3. g[j - 1] = f[j - 1]
      BY <3>1, <3>2
    <3>4. g[j] = B(g, j) /\ f[j] = B(f, j)
      <4> HIDE DEF B
      <4> QED BY <2>1, <3>1
    <3>5. B(g, j) = B(f, j)
      BY <3>1, <3>3
    <3> HIDE DEF B
    <3>6. g[j] = f[j]
      BY <3>4, <3>5
    <3> QED BY <3>6 DEF j
  <2> HIDE DEF S
  <2>4. Nat \subseteq S
    BY <2>2, <2>3, NatInd
  <2>5. ASSUME NEW k \in n..hops PROVE g[k] = f[k]
    <3>1. k - n \in Nat /\ n + (k - n) = k /\ k <= hops
      OBVIOUS
    <3> QED BY <2>4, <3>1 DEF S
  <2>6. g = [k \in n..hops |-> g[k]]
    <3> HIDE DEF B
    <3> QED BY <1>3
  <2> QED BY <2>5, <2>6
<1> HIDE DEF B
<1>4. h = f
  BY <1>2, <1>3
<1> QED BY <1>1, <1>4

\* The reference in terms of Chain's functions.
LEMMA ReferenceIs ==
    ASSUME hops \in Nat, NEW t, NEW f, Chain(t, f)
    PROVE  /\ ShadowHops = Shadows(t)
           /\ \A n \in 0..hops : From(n) = f[n][hops]
<1>1. Trail = t
  BY TrailIs DEF Chain
<1>2. ShadowHops = Shadows(t)
  BY <1>1 DEF ShadowHops, Shadows
<1>3. ASSUME NEW n \in 0..hops PROVE From(n) = f[n][hops]
  <2> DEFINE g == f[n]
  <2>1. /\ g = [k \in n..hops |-> g[k]] /\ g[n] = <<>>
        /\ \A k \in n..hops - 1 : g[k + 1] = g[k] \o Collected(disk[t[k]], t[k], t[k][1])
    BY DEF Chain, Sums
  <2> HIDE DEF g
  <2>2. From(n) = g[hops]
    BY <1>1, <2>1, FromIs
  <2> QED BY <2>2 DEF g
<1> QED BY <1>2, <1>3

\* The invariant says what was collected.
LEMMA ChainInvRaw ==
    ASSUME ChainInv
    PROVE  RawIsChain
<1>1. hops \in Nat
  BY DEF ChainInv, ChainType
<1>2. ASSUME pc # "start", pc # "EOVERFLOW"
      PROVE  raw = IF ShadowHops = {} THEN Collected(prim, Primary, PrimVd) \o From(0) ELSE From(FirstShadow)
  <2>1. PICK t, f : Chain(t, f)
    BY <1>2 DEF ChainInv
  <2>2. ShadowHops = Shadows(t) /\ \A n \in 0..hops : From(n) = f[n][hops]
    BY <1>1, <2>1, ReferenceIs
  <2>3. CASE ShadowHops = {}
    <3>1. 0 \in 0..hops
      BY <1>1
    <3>2. raw = Collected(prim, Primary, PrimVd) \o f[0][hops]
      BY <2>1, <2>2, <2>3 DEF Chain
    <3> QED BY <2>2, <2>3, <3>1, <3>2
  <2>4. CASE ShadowHops # {}
    <3>1. ShadowHops \subseteq Nat /\ ShadowHops \subseteq 0..hops
      BY <1>1 DEF ShadowHops
    <3>2. PICK n \in ShadowHops : \A m \in ShadowHops : n <= m
      BY <2>4, <3>1, Least
    <3>3. FirstShadow \in ShadowHops /\ \A m \in ShadowHops : FirstShadow <= m
      BY <3>2 DEF FirstShadow
    <3>4. raw = f[FirstShadow][hops]
      BY <2>1, <2>2, <3>3 DEF Chain
    <3> QED BY <2>2, <2>4, <3>1, <3>3, <3>4
  <2> QED BY <2>3, <2>4
<1> QED BY <1>2 DEF RawIsChain, ChainInv, ChainShape

\* It says that the columns partition what was collected.
LEMMA ChainInvColumns ==
    ASSUME ChainInv
    PROVE  ColumnsPartition
<1>1. hops \in Nat /\ Len(raw) <= MAX_EXTENTS /\ Len(col_start) <= MAX_STRIPE_COLS /\ prim.segment_size \in Nat
      /\ Len(col_start) \in Nat
  BY DEF ChainInv, ChainType, Primaries
<1>2. ASSUME pc = "interleave"
      PROVE  /\ prim.segment_size > 0
             /\ Len(col_start) >= 2
             /\ Len(col_start) = Cardinality(ShadowHops)
             /\ col_start[1] = 0
             /\ \A n \in ShadowHops :
                  col_start[Cardinality({m \in ShadowHops : m <= n})] = Len(raw) - Len(From(n))
  <2>1. IsStripe /\ Len(col_start) >= 2 /\ prim.segment_size # 0
    BY <1>2 DEF ChainInv, ChainShape
  <2>2. PICK t, f : Chain(t, f)
    BY <1>2 DEF ChainInv
  <2>3. ShadowHops = Shadows(t) /\ \A n \in 0..hops : From(n) = f[n][hops]
    BY <1>1, <2>2, ReferenceIs
  <2>4. ShadowHops \subseteq 0..hops
    BY <1>1 DEF ShadowHops
  <2>5. Ranks(t, f)
    BY <2>2 DEF Chain
  <2>6. Len(col_start) = Cardinality(ShadowHops)
    BY <2>1, <2>3, <2>5 DEF Ranks
  <2>7. \A n \in ShadowHops :
          col_start[Cardinality({m \in ShadowHops : m <= n})] = Len(raw) - Len(From(n))
    BY <2>1, <2>3, <2>4, <2>5 DEF Ranks
  <2>8. col_start[1] = 0
    <3>1. col_start # <<>>
      BY <2>1, <1>1
    <3> QED BY <3>1 DEF ChainInv, ChainShape
  <2> QED BY <1>1, <2>1, <2>6, <2>7, <2>8
<1> QED BY <1>1, <1>2 DEF ColumnsPartition

-----------------------------------------------------------------------------
\* collect_array's descriptors carry their cell's address and volume.
LEMMA CollectedIs ==
    ASSUME NEW r, r.x_cnt \in Nat, NEW at \in Address, NEW vd \in Nat
    PROVE  /\ Collected(r, at, vd) \in Seq(Tagged)
           /\ \A i \in 1..Len(Collected(r, at, vd)) :
                Collected(r, at, vd)[i].vd = vd /\ Collected(r, at, vd)[i].desc[1] = at
<1> DEFINE n == IF r.x_cnt > BMT_XTNTS THEN BMT_XTNTS ELSE r.x_cnt
           c == [k \in 1..n |-> [desc |-> <<at, k>>, vd |-> vd]]
<1>1. n \in Nat /\ n <= BMT_XTNTS /\ BMT_XTNTS \in Nat
  BY ChainAssumption
<1>2. Collected(r, at, vd) = c
  BY DEF Collected
<1> HIDE DEF n
<1>3. \A k \in 1..n : <<at, k>> \in Descriptors
  BY <1>1 DEF Descriptors, Address
<1>4. \A k \in 1..n : [desc |-> <<at, k>>, vd |-> vd] \in Tagged
  BY <1>3 DEF Tagged
<1>5. c \in Seq(Tagged) /\ Len(c) = n
  BY <1>1, <1>4
<1>6. \A k \in 1..n : c[k].vd = vd /\ c[k].desc[1] = at
  OBVIOUS
<1> HIDE DEF c
<1> QED BY <1>2, <1>5, <1>6

\* What holds of the elements of two sequences holds of their concatenation.
LEMMA ConcatIs ==
    ASSUME NEW T, NEW a \in Seq(T), NEW b \in Seq(T)
    PROVE  /\ a \o b \in Seq(T) /\ Len(a \o b) = Len(a) + Len(b) /\ Len(a) \in Nat /\ Len(b) \in Nat
           /\ \A i \in 1..Len(a \o b) :
                \/ i \in 1..Len(a) /\ (a \o b)[i] = a[i]
                \/ i - Len(a) \in 1..Len(b) /\ (a \o b)[i] = b[i - Len(a)]
OBVIOUS

\* The addresses that links lead to.
LEMMA AddressTypes ==
    ASSUME ChainType
    PROVE  /\ PrimVd \in Attached \cup {0} /\ PrimVd \in Nat /\ (domain => PrimVd \in Attached)
           /\ Primary \in Address /\ Origin \in Address
           /\ chain_vd \in Nat /\ chain_vd \in Attached \cup Vds \cup {0} /\ chain_mcid \in Mcids \cup {0}
           /\ prim.x_cnt \in Nat
           /\ \A c \in Records : Link(c, Here) \in Address /\ c.x_cnt \in Nat
<1>1. /\ domain \in BOOLEAN /\ prim.vd \in Attached \cup {0} /\ prim.chain_vd \in Vds
      /\ prim.chain \in Mcids \cup {0} /\ prim.x_cnt \in Counts /\ Here \in Address
  BY DEF ChainType, Primaries
<1>2. chain_vd \in Attached \cup Vds \cup {0} /\ chain_mcid \in Mcids \cup {0}
  BY <1>1 DEF Here, Address
<1>3. PrimVd \in Attached \cup {0} /\ PrimVd \in Nat /\ (domain => PrimVd \in Attached)
  <2>1. DefaultVd \in Attached /\ Attached \cup {0} \subseteq Nat
    BY ChainAssumption
  <2>2. CASE domain /\ prim.vd = 0
    BY <2>1, <2>2 DEF PrimVd
  <2>3. CASE ~(domain /\ prim.vd = 0)
    <3>1. PrimVd = prim.vd
      BY <2>3 DEF PrimVd
    <3>2. domain => prim.vd # 0
      BY <2>3
    <3> QED BY <1>1, <2>1, <3>1, <3>2
  <2> QED BY <2>2, <2>3
<1>4. Primary \in Address /\ Origin \in Address
  BY <1>1, <1>3 DEF Primary, Origin, Address
<1>5. \A c \in Records : c.next_vd \in Vds /\ c.next \in Mcids \cup {0} /\ c.x_cnt \in Counts
  BY DEF Records
<1>6. \A c \in Records : Link(c, Here) \in Address
  BY <1>2, <1>5 DEF Link, Here, Address
<1>7. Attached \cup Vds \cup {0} \subseteq Nat /\ Counts \subseteq Nat
  BY ChainAssumption
<1>8. chain_vd \in Nat /\ prim.x_cnt \in Nat /\ \A c \in Records : c.x_cnt \in Nat
  BY <1>1, <1>2, <1>5, <1>7
<1> QED BY <1>2, <1>3, <1>4, <1>6, <1>8

\* The primary record starts the chain.
LEMMA PrimaryStep ==
    ASSUME ChainInv, ReadPrimary
    PROVE  ChainInv'
<1> DEFINE c == Collected(prim, Primary, PrimVd)
<1>1. /\ pc = "start" /\ UNCHANGED <<domain, prim, disk, col_start, found_shadow, hops>>
      /\ \/ Len(c) > MAX_EXTENTS /\ pc' = "EOVERFLOW" /\ UNCHANGED <<raw, chain_vd, chain_mcid>>
         \/ /\ ~(Len(c) > MAX_EXTENTS) /\ pc' = "walk" /\ raw' = c /\ Here' = Origin
  BY DEF ReadPrimary, Here, Origin
<1>2. /\ raw = <<>> /\ col_start = <<>> /\ found_shadow = FALSE /\ hops = 0 /\ DOMAIN disk = {}
      /\ Len(col_start) = 0
  BY <1>1 DEF ChainInv, ChainShape
<1>3. c \in Seq(Tagged) /\ \A i \in 1..Len(c) : c[i].vd = PrimVd /\ c[i].desc[1] = Primary
  BY AddressTypes, CollectedIs DEF ChainInv
<1>4. Len(c) \in Nat /\ MAX_EXTENTS \in Nat
  BY <1>3, ChainAssumption
<1> HIDE DEF c
<1>5. CASE pc' = "EOVERFLOW" /\ UNCHANGED <<raw, chain_vd, chain_mcid>>
  <2>1. ChainType'
    BY <1>1, <1>5 DEF ChainInv, ChainType, Here
  <2>2. ChainShape'
    BY <1>1, <1>2, <1>5 DEF ChainInv, ChainShape
  <2> QED BY <2>1, <2>2, <1>5 DEF ChainInv
<1>6. CASE ~(Len(c) > MAX_EXTENTS) /\ pc' = "walk" /\ raw' = c /\ Here' = Origin
  <2>1. ChainType'
    <3>1. Origin \in Address
      BY AddressTypes DEF ChainInv
    <3> QED BY <3>1, <1>1, <1>3, <1>4, <1>6 DEF ChainInv, ChainType
  <2>2. ChainShape'
    <3>1. domain => \A i \in 1..Len(c) : c[i].vd \in Attached /\ c[i].vd = c[i].desc[1][1]
      BY <1>3, AddressTypes DEF ChainInv, Primary
    <3> QED BY <3>1, <1>1, <1>2, <1>6 DEF ChainShape
  <2>3. \E t, f : Chain(t, f)'
    <3>0. PICK o : o = Origin
      OBVIOUS
    <3> DEFINE t == [k \in 0..0 |-> o]
               f == [n \in 0..0 |-> [k \in n..0 |-> <<>>]]
    <3>1. Origin' = o
      BY <3>0, <1>1 DEF Origin, PrimVd
    <3>2. t = [k \in 0..0 |-> t[k]] /\ t[0] = o /\ 0..0 - 1 = {} /\ 0 \in 0..0
      OBVIOUS
    <3>3. f[0][0] = <<>> /\ f[0] = [k \in 0..0 |-> f[0][k]] /\ \A n \in 0..0 : n = 0
      OBVIOUS
    <3> HIDE DEF t, f
    <3>4. Links(t)'
      <4>1. Here' = o /\ hops' = 0
        BY <3>0, <1>1, <1>2, <1>6
      <4> QED BY <3>1, <3>2, <4>1 DEF Links
    <3>5. Sums(t, f)'
      <4>1. <<>> \in Seq(Tagged)
        OBVIOUS
      <4>2. \A n \in 0..0 : n..0 - 1 = {}
        OBVIOUS
      <4> QED BY <4>1, <4>2, <3>3, <1>1, <1>2 DEF Sums
    <3>6. Shadows(t)' = {}
      BY <1>1, <1>2 DEF Shadows
    <3>7. Ranks(t, f)'
      <4>1. Cardinality({}) = 0
        BY FS_EmptySet
      <4> QED BY <4>1, <3>6, <1>1, <1>2 DEF Ranks
    <3>8. raw' = c \o f[0][0] /\ c = Collected(prim, Primary, PrimVd)' /\ hops' = 0
      <4>1. c \o <<>> = c
        BY <1>3
      <4> QED BY <4>1, <3>3, <1>1, <1>2, <1>6 DEF c, Collected, Primary, PrimVd
    <3>9. Chain(t, f)'
      BY <3>4, <3>5, <3>6, <3>7, <3>8, <1>1, <1>2 DEF Chain
    <3> QED BY <3>9
  <2> QED BY <2>1, <2>2, <2>3 DEF ChainInv
<1> QED BY <1>1, <1>5, <1>6

\* What a hop does to the disk: a cell may be revealed, and none changes.
Grown ==
    /\ \A a \in DOMAIN disk : a \in DOMAIN disk' /\ disk'[a] = disk[a]
    /\ \A a \in DOMAIN disk' : disk'[a] \in Cells /\ (domain => a[1] \in Attached)
    /\ UNCHANGED <<domain, prim>>

\* The cell was read and its link followed.
Passed(cell) ==
    /\ Grown /\ cell \in Records
    /\ Here \in DOMAIN disk' /\ disk'[Here] = cell
    /\ hops' = hops + 1 /\ Here' = Link(cell, Here)

\* One more cell, and one more cell's descriptors c.
LongerTrail(t, h, b) == [k \in 0..h + 1 |-> IF k = h + 1 THEN b ELSE t[k]]
LongerSums(f, h, c) ==
    [n \in 0..h + 1 |-> [k \in n..h + 1 |->
       IF k <= h THEN f[n][k] ELSE IF n = k THEN <<>> ELSE f[n][h] \o c]]

\* The longer trail extends the shorter one.
LEMMA LongerTrailIs ==
    ASSUME NEW h \in Nat, NEW t, NEW b
    PROVE  /\ LongerTrail(t, h, b) = [k \in 0..h + 1 |-> LongerTrail(t, h, b)[k]]
           /\ LongerTrail(t, h, b)[h + 1] = b
           /\ \A k \in 0..h : LongerTrail(t, h, b)[k] = t[k]
BY DEF LongerTrail

SumsGrow(g, f, h, c) ==
    /\ \A n \in 0..h + 1 : g[n] = [k \in n..h + 1 |-> g[n][k]]
    /\ \A n \in 0..h : \A k \in n..h : g[n][k] = f[n][k]
    /\ \A n \in 0..h : g[n][h + 1] = f[n][h] \o c
    /\ g[h + 1][h + 1] = <<>>

\* The longer sums extend the shorter ones.
LEMMA LongerSumsIs ==
    ASSUME NEW h \in Nat, NEW f, NEW c
    PROVE  SumsGrow(LongerSums(f, h, c), f, h, c)
<1> DEFINE g == LongerSums(f, h, c)
           G(n) == [k \in n..h + 1 |->
                      IF k <= h THEN f[n][k] ELSE IF n = k THEN <<>> ELSE f[n][h] \o c]
<1>1. \A n \in 0..h + 1 : g[n] = G(n)
  BY DEF LongerSums
<1>2. \A n \in 0..h + 1 : G(n) = [k \in n..h + 1 |-> G(n)[k]]
  OBVIOUS
<1>3. \A n \in 0..h : \A k \in n..h : G(n)[k] = f[n][k]
  OBVIOUS
<1>4. \A n \in 0..h : G(n)[h + 1] = f[n][h] \o c
  OBVIOUS
<1>5. G(h + 1)[h + 1] = <<>>
  OBVIOUS
<1>6. (\A n \in 0..h : n \in 0..h + 1) /\ h + 1 \in 0..h + 1
  OBVIOUS
<1> HIDE DEF G, g
<1>7. \A n \in 0..h + 1 : g[n] = [k \in n..h + 1 |-> g[n][k]]
  BY <1>1, <1>2
<1>8. \A n \in 0..h : \A k \in n..h : g[n][k] = f[n][k]
  BY <1>1, <1>3, <1>6
<1>9. \A n \in 0..h : g[n][h + 1] = f[n][h] \o c
  BY <1>1, <1>4, <1>6
<1>10. g[h + 1][h + 1] = <<>>
  BY <1>1, <1>5, <1>6
<1>11. SumsGrow(g, f, h, c)
  BY <1>7, <1>8, <1>9, <1>10 DEF SumsGrow
<1> QED BY <1>11 DEF g

\* The longer functions are the chain's after the hop.
LEMMA PassedLinks ==
    ASSUME ChainType, NEW t, Links(t), NEW cell, Passed(cell),
           NEW h, h = hops, NEW b, b = Link(cell, Here)
    PROVE  /\ Links(LongerTrail(t, h, b))'
           /\ Shadows(LongerTrail(t, h, b))' =
                Shadows(t) \cup (IF cell.kind = "shadow" THEN {h} ELSE {})
<1> DEFINE u == LongerTrail(t, h, b)
<1>1. h \in Nat /\ hops' = h + 1
  BY DEF ChainType, Passed
<1>2. u = [k \in 0..h + 1 |-> u[k]] /\ u[h + 1] = b /\ \A k \in 0..h : u[k] = t[k]
  BY <1>1, LongerTrailIs
<1> HIDE DEF u
<1>3. t[0] = Origin /\ t[h] = Here
  BY DEF Links
<1>4. \A k \in 0..h - 1 :
        t[k] \in DOMAIN disk /\ disk[t[k]] \in Records /\ t[k + 1] = Link(disk[t[k]], t[k])
  BY DEF Links
<1>5. Origin' = Origin /\ \A x, a : Link(x, a)' = Link(x, a)
  BY DEF Passed, Grown, Origin, PrimVd, Link
<1>6. ASSUME NEW k \in 0..h - 1
      PROVE  u[k] = t[k] /\ u[k] \in DOMAIN disk' /\ disk'[u[k]] = disk[t[k]]
  <2>1. k \in 0..h
    BY <1>1
  <2>2. u[k] = t[k] /\ t[k] \in DOMAIN disk
    BY <2>1, <1>2, <1>4
  <2> QED BY <2>2 DEF Passed, Grown
<1>7. u[h] = Here /\ Here \in DOMAIN disk' /\ disk'[Here] = cell /\ cell \in Records
  BY <1>1, <1>2, <1>3 DEF Passed
<1>8. ASSUME NEW k \in 0..h
      PROVE  u[k] \in DOMAIN disk' /\ disk'[u[k]] \in Records /\ u[k + 1] = Link(disk'[u[k]], u[k])
  <2>1. CASE k = h
    BY <2>1, <1>2, <1>7
  <2>2. CASE k # h
    <3>1. k \in 0..h - 1 /\ k + 1 \in 0..h
      BY <2>2, <1>1
    <3> QED BY <3>1, <1>2, <1>4, <1>6
  <2> QED BY <2>1, <2>2
<1>9. u[0] = Origin /\ Here' = b /\ 0..(h + 1) - 1 = 0..h
  BY <1>1, <1>2, <1>3 DEF Passed
<1>10. Links(u)'
  BY <1>1, <1>2, <1>5, <1>8, <1>9 DEF Links
<1>11. Shadows(u)' = Shadows(t) \cup (IF cell.kind = "shadow" THEN {h} ELSE {})
  <2>1. Shadows(u)' = {n \in 0..h : disk'[u[n]].kind = "shadow"}
    BY <1>1, <1>9 DEF Shadows
  <2>2. Shadows(t) = {n \in 0..h - 1 : disk[t[n]].kind = "shadow"}
    BY DEF Shadows
  <2>3. \A n \in 0..h - 1 : disk'[u[n]].kind = disk[t[n]].kind
    BY <1>6
  <2>4. disk'[u[h]].kind = cell.kind
    BY <1>7
  <2>5. \A n : n \in 0..h <=> n \in 0..h - 1 \/ n = h
    BY <1>1
  <2> QED BY <2>1, <2>2, <2>3, <2>4, <2>5
<1> QED BY <1>10, <1>11 DEF u

\* The sums of a hop are the longer sums.
LEMMA PassedSums ==
    ASSUME ChainType, NEW t, NEW f, Links(t), Sums(t, f), NEW cell, Passed(cell),
           NEW h, h = hops, NEW b, NEW c, c = Collected(cell, Here, chain_vd), c \in Seq(Tagged)
    PROVE  Sums(LongerTrail(t, h, b), LongerSums(f, h, c))'
<1> DEFINE u == LongerTrail(t, h, b)
           g == LongerSums(f, h, c)
<1>1. h \in Nat /\ hops' = h + 1
  BY DEF ChainType, Passed
<1>2. /\ \A k \in 0..h : u[k] = t[k]
      /\ \A n \in 0..h + 1 : g[n] = [k \in n..h + 1 |-> g[n][k]]
      /\ \A n \in 0..h : \A k \in n..h : g[n][k] = f[n][k]
      /\ \A n \in 0..h : g[n][h + 1] = f[n][h] \o c
      /\ g[h + 1][h + 1] = <<>>
  <2>1. \A k \in 0..h : u[k] = t[k]
    BY <1>1, LongerTrailIs
  <2>2. /\ \A n \in 0..h + 1 : g[n] = [k \in n..h + 1 |-> g[n][k]]
        /\ \A n \in 0..h : \A k \in n..h : g[n][k] = f[n][k]
        /\ \A n \in 0..h : g[n][h + 1] = f[n][h] \o c
        /\ g[h + 1][h + 1] = <<>>
    <3>1. SumsGrow(g, f, h, c)
      BY <1>1, LongerSumsIs
    <3> HIDE DEF g
    <3> QED BY <3>1 DEF SumsGrow
  <2> QED BY <2>1, <2>2
<1> HIDE DEF u, g
<1>3. \A n \in 0..h :
        /\ f[n][n] = <<>> /\ f[n][h] \in Seq(Tagged)
        /\ \A k \in n..h - 1 : f[n][k + 1] = f[n][k] \o Collected(disk[t[k]], t[k], t[k][1])
  BY DEF Sums
<1>4. ASSUME NEW k \in 0..h - 1 PROVE u[k] = t[k] /\ disk'[u[k]] = disk[t[k]]
  <2>1. k \in 0..h
    BY <1>1
  <2>2. u[k] = t[k] /\ t[k] \in DOMAIN disk
    BY <2>1, <1>2 DEF Links
  <2> QED BY <2>2 DEF Passed, Grown
<1>5. u[h] = Here /\ disk'[u[h]] = cell /\ u[h][1] = chain_vd
  <2>1. u[h] = Here
    BY <1>1, <1>2 DEF Links
  <2> QED BY <2>1 DEF Passed, Here
<1>6. c = Collected(disk'[u[h]], u[h], u[h][1])
  BY <1>5
<1>7. ASSUME NEW n \in 0..h + 1
      PROVE  /\ g[n] = [k \in n..h + 1 |-> g[n][k]]
             /\ g[n][n] = <<>> /\ g[n][h + 1] \in Seq(Tagged)
             /\ \A k \in n..(h + 1) - 1 : g[n][k + 1] = g[n][k] \o Collected(disk'[u[k]], u[k], u[k][1])
  <2>1. CASE n = h + 1
    <3>1. n..(h + 1) - 1 = {}
      BY <2>1, <1>1
    <3>2. g[n][n] = <<>> /\ g[n][h + 1] = <<>>
      BY <2>1, <1>2
    <3>3. <<>> \in Seq(Tagged)
      BY EmptySeq
    <3> QED BY <3>1, <3>2, <3>3, <1>2
  <2>2. CASE n # h + 1
    <3>1. n \in 0..h /\ n \in n..h /\ h \in n..h
      BY <2>2, <1>1
    <3>2. g[n][n] = <<>>
      BY <3>1, <1>2, <1>3
    <3>3. g[n][h + 1] = f[n][h] \o c /\ g[n][h] = f[n][h]
      BY <3>1, <1>2
    <3>4. g[n][h + 1] \in Seq(Tagged)
      <4>1. f[n][h] \in Seq(Tagged)
        BY <3>1, <1>3
      <4>2. f[n][h] \o c \in Seq(Tagged)
        BY <4>1, ConcatProperties
      <4> QED BY <4>2, <3>3
    <3>5. ASSUME NEW k \in n..(h + 1) - 1
          PROVE  g[n][k + 1] = g[n][k] \o Collected(disk'[u[k]], u[k], u[k][1])
      <4>1. CASE k = h
        BY <4>1, <3>3, <1>6
      <4>2. CASE k # h
        <5>1. k \in n..h - 1 /\ k \in n..h /\ k + 1 \in n..h /\ k \in 0..h - 1
          BY <4>2, <3>1, <1>1
        <5>2. g[n][k + 1] = f[n][k + 1] /\ g[n][k] = f[n][k]
          BY <5>1, <3>1, <1>2
        <5>3. f[n][k + 1] = f[n][k] \o Collected(disk[t[k]], t[k], t[k][1])
          BY <5>1, <3>1, <1>3
        <5> QED BY <5>1, <5>2, <5>3, <1>4
      <4> QED BY <4>1, <4>2
    <3> QED BY <3>2, <3>4, <3>5, <1>2
  <2> QED BY <2>1, <2>2
<1>8. Sums(u, g)'
  BY <1>1, <1>7 DEF Sums
<1> QED BY <1>8 DEF u, g

\* A hop that ends the walk keeps what was collected.
LEMMA FailStep ==
    ASSUME ChainInv, pc = "walk", Grown, NEW err, Fail(err), err # "start",
           err = "interleave" => IsStripe /\ Len(col_start) >= 2 /\ prim.segment_size # 0
    PROVE  ChainInv'
<1>1. /\ pc' = err /\ UNCHANGED <<raw, col_start, found_shadow, chain_vd, chain_mcid, hops>>
      /\ UNCHANGED <<domain, prim>>
  BY DEF Fail, Grown
<1>2. ChainType'
  BY <1>1 DEF ChainInv, ChainType, Grown, Here
<1>3. ChainShape'
  BY <1>1 DEF ChainInv, ChainShape, IsStripe
<1>4. PICK t, f : Chain(t, f)
  BY DEF ChainInv
<1>5. ASSUME NEW k \in 0..hops - 1 PROVE t[k] \in DOMAIN disk' /\ disk'[t[k]] = disk[t[k]]
  BY <1>4 DEF Chain, Links, Grown
<1>6. Links(t)'
  BY <1>1, <1>4, <1>5 DEF Chain, Links, Origin, PrimVd, Link, Here
<1>7. Sums(t, f)'
  <2>1. \A n \in 0..hops : \A k \in n..hops - 1 : k \in 0..hops - 1
    BY DEF ChainInv, ChainType
  <2>2. \A n \in 0..hops : \A k \in n..hops - 1 : disk'[t[k]] = disk[t[k]]
    BY <1>5, <2>1
  <2>3. ASSUME NEW n \in 0..hops
        PROVE  /\ f[n] = [k \in n..hops |-> f[n][k]]
               /\ f[n][n] = <<>> /\ f[n][hops] \in Seq(Tagged)
               /\ \A k \in n..hops - 1 : f[n][k + 1] = f[n][k] \o Collected(disk'[t[k]], t[k], t[k][1])
    <3>1. Sums(t, f)
      BY <1>4 DEF Chain
    <3>2. f[n] = [k \in n..hops |-> f[n][k]]
      BY <3>1 DEF Sums
    <3>3. f[n][n] = <<>> /\ f[n][hops] \in Seq(Tagged)
      BY <3>1 DEF Sums
    <3>4. ASSUME NEW k \in n..hops - 1
          PROVE  f[n][k + 1] = f[n][k] \o Collected(disk'[t[k]], t[k], t[k][1])
      BY <2>2, <3>1 DEF Sums
    <3> QED BY <3>2, <3>3, <3>4
  <2> QED BY <1>1, <2>3 DEF Sums
<1>8. Shadows(t)' = Shadows(t)
  BY <1>1, <1>5 DEF Shadows
<1>9. Ranks(t, f)'
  BY <1>1, <1>4, <1>8 DEF Chain, Ranks, IsStripe
<1>10. Collected(prim, Primary, PrimVd)' = Collected(prim, Primary, PrimVd)
  BY <1>1 DEF Collected, Primary, PrimVd
<1>11. Chain(t, f)'
  BY <1>1, <1>4, <1>6, <1>7, <1>8, <1>9, <1>10 DEF Chain
<1> QED BY <1>2, <1>3, <1>11 DEF ChainInv

\* An element's rank in a finite set of numbers, and a new greatest element's.
LEMMA RankIs ==
    ASSUME NEW h \in Nat, NEW S, S \subseteq 0..h - 1
    PROVE  /\ IsFiniteSet(S) /\ Cardinality(S) \in Nat
           /\ \A n \in S : Cardinality({m \in S : m <= n}) \in 1..Cardinality(S)
           /\ \A n \in S : {m \in S \cup {h} : m <= n} = {m \in S : m <= n}
           /\ {m \in S \cup {h} : m <= h} = S \cup {h}
           /\ Cardinality(S \cup {h}) = Cardinality(S) + 1
<1>1. IsFiniteSet(S)
  <2>1. IsFiniteSet(0..h - 1)
    BY FS_Interval
  <2> QED BY <2>1, FS_Subset
<1>2. Cardinality(S) \in Nat
  BY <1>1, FS_CardinalityType
<1>3. ASSUME NEW n \in S PROVE Cardinality({m \in S : m <= n}) \in 1..Cardinality(S)
  <2> DEFINE R == {m \in S : m <= n}
  <2>1. R \in SUBSET S /\ R # {}
    OBVIOUS
  <2> HIDE DEF R
  <2>2. IsFiniteSet(R) /\ Cardinality(R) <= Cardinality(S)
    BY <1>1, <2>1, FS_Subset
  <2>3. Cardinality(R) # 0 /\ Cardinality(R) \in Nat
    BY <2>1, <2>2, FS_EmptySet, FS_CardinalityType
  <2>4. Cardinality(R) \in 1..Cardinality(S)
    BY <1>2, <2>2, <2>3
  <2> QED BY <2>4 DEF R
<1>4. \A n \in S : {m \in S \cup {h} : m <= n} = {m \in S : m <= n}
  OBVIOUS
<1>5. {m \in S \cup {h} : m <= h} = S \cup {h}
  <2>1. \A m \in S \cup {h} : m <= h
    OBVIOUS
  <2> QED BY <2>1
<1>6. h \notin S
  OBVIOUS
<1>7. Cardinality(S \cup {h}) = Cardinality(S) + 1
  BY <1>1, <1>6, FS_AddElement
<1> QED BY <1>1, <1>2, <1>3, <1>4, <1>5, <1>7

\* What both kinds of records do to the types.
LEMMA PassedTypes ==
    ASSUME ChainInv, NEW cell, Passed(cell), domain => chain_vd \in Attached,
           NEW kept, kept = raw \/ kept = <<>>, NEW c, c = Collected(cell, Here, chain_vd),
           raw' = kept \o c
    PROVE  /\ c \in Seq(Tagged) /\ kept \in Seq(Tagged) /\ raw' \in Seq(Tagged)
           /\ Len(raw') = Len(kept) + Len(c) /\ Len(c) \in Nat /\ Len(kept) \in Nat
           /\ Here' \in Address /\ hops' \in Nat
           /\ domain => \A i \in 1..Len(raw') :
                          raw'[i].vd \in Attached /\ raw'[i].vd = raw'[i].desc[1][1]
<1>1. ChainType /\ cell \in Records /\ Here \in Address /\ hops \in Nat
  BY DEF ChainInv, ChainType, Passed
<1>2. cell.x_cnt \in Nat /\ chain_vd \in Nat /\ Link(cell, Here) \in Address
  BY <1>1, AddressTypes
<1>3. c \in Seq(Tagged) /\ \A i \in 1..Len(c) : c[i].vd = chain_vd /\ c[i].desc[1] = Here
  BY <1>1, <1>2, CollectedIs
<1>4. kept \in Seq(Tagged)
  BY EmptySeq DEF ChainInv, ChainType
<1>5. /\ kept \o c \in Seq(Tagged) /\ Len(kept \o c) = Len(kept) + Len(c)
      /\ Len(kept) \in Nat /\ Len(c) \in Nat
      /\ \A i \in 1..Len(kept \o c) :
           \/ i \in 1..Len(kept) /\ (kept \o c)[i] = kept[i]
           \/ i - Len(kept) \in 1..Len(c) /\ (kept \o c)[i] = c[i - Len(kept)]
  BY <1>3, <1>4, ConcatIs
<1>6. domain => \A i \in 1..Len(kept) : kept[i].vd \in Attached /\ kept[i].vd = kept[i].desc[1][1]
  BY DEF ChainInv, ChainShape
<1>7. Here[1] = chain_vd
  BY DEF Here
<1>8. domain => \A i \in 1..Len(raw') : raw'[i].vd \in Attached /\ raw'[i].vd = raw'[i].desc[1][1]
  <2> SUFFICES ASSUME domain, NEW i \in 1..Len(raw')
               PROVE  raw'[i].vd \in Attached /\ raw'[i].vd = raw'[i].desc[1][1]
    OBVIOUS
  <2>1. CASE i \in 1..Len(kept) /\ raw'[i] = kept[i]
    BY <1>6, <2>1
  <2>2. CASE i - Len(kept) \in 1..Len(c) /\ raw'[i] = c[i - Len(kept)]
    <3> DEFINE j == i - Len(kept)
    <3>1. c[j].vd = chain_vd /\ c[j].desc[1] = Here
      BY <1>3, <2>2
    <3> QED BY <3>1, <2>2, <1>7
  <2> QED BY <1>5, <2>1, <2>2
<1> QED BY <1>1, <1>2, <1>3, <1>4, <1>5, <1>8 DEF Passed

\* Concatenation of tagged descriptors is associative.
LEMMA TaggedAssociative ==
    \A x, y, z \in Seq(Tagged) : (x \o y) \o z = x \o (y \o z)
<1> SUFFICES ASSUME NEW S PROVE \A x, y, z \in Seq(S) : (x \o y) \o z = x \o (y \o z)
  OBVIOUS
<1> QED BY ConcatAssociative

\* BSR_XTRA_XTNTS: the descriptors are appended.
LEMMA XtraStep ==
    ASSUME ChainInv, pc = "walk", NEW cell, Passed(cell), cell.kind = "xtra",
           domain => chain_vd \in Attached,
           NEW c, c = Collected(cell, Here, chain_vd),
           raw' = raw \o c, Len(raw') <= MAX_EXTENTS, UNCHANGED <<pc, col_start, found_shadow>>
    PROVE  ChainInv'
<1>1. /\ c \in Seq(Tagged) /\ raw \in Seq(Tagged) /\ raw' \in Seq(Tagged)
      /\ Len(raw') = Len(raw) + Len(c) /\ Len(c) \in Nat /\ Len(raw) \in Nat
      /\ Here' \in Address /\ hops' \in Nat
      /\ domain => \A i \in 1..Len(raw') :
                     raw'[i].vd \in Attached /\ raw'[i].vd = raw'[i].desc[1][1]
  BY PassedTypes
<1>2. UNCHANGED <<domain, prim>> /\ hops' = hops + 1
  BY DEF Passed, Grown
<1>3. ChainType'
  BY <1>1, <1>2 DEF ChainInv, ChainType, Passed, Grown
<1>4. ChainShape'
  <2>1. \A i \in 1..Len(col_start) : col_start[i] \in Nat /\ col_start[i] <= Len(raw')
    BY <1>1 DEF ChainInv, ChainType, ChainShape
  <2> QED BY <1>1, <1>2, <2>1 DEF ChainInv, ChainShape
<1>5. PICK t, f : Chain(t, f)
  BY DEF ChainInv
<1>6. PICK h : h = hops
  OBVIOUS
<1>7. PICK b : b = Link(cell, Here)
  OBVIOUS
<1> DEFINE u == LongerTrail(t, h, b)
           g == LongerSums(f, h, c)
<1>8. Links(u)' /\ Shadows(u)' = Shadows(t)
  BY <1>5, <1>6, <1>7, PassedLinks DEF Chain, ChainInv
<1>9. Sums(u, g)'
  BY <1>1, <1>5, <1>6, PassedSums DEF Chain, ChainInv
<1>10. h \in Nat /\ hops' = h + 1 /\ Shadows(t) \subseteq 0..h
  BY <1>2, <1>6 DEF ChainInv, ChainType, Shadows
<1>11. \A n \in 0..h : g[n][h + 1] = f[n][h] \o c
  <2>1. SumsGrow(g, f, h, c)
    BY <1>10, LongerSumsIs
  <2> HIDE DEF g
  <2> QED BY <2>1 DEF SumsGrow
<1>12. \A n \in 0..h : f[n][h] \in Seq(Tagged)
  BY <1>5, <1>6 DEF Chain, Sums
<1> HIDE DEF u, g
<1>13. Shadows(t) = {} => raw' = Collected(prim, Primary, PrimVd) \o g[0][h + 1]
  <2> DEFINE p == Collected(prim, Primary, PrimVd)
  <2> SUFFICES ASSUME Shadows(t) = {} PROVE raw' = p \o g[0][h + 1]
    OBVIOUS
  <2>1. p \in Seq(Tagged)
    BY AddressTypes, CollectedIs DEF ChainInv
  <2>2. raw = p \o f[0][h] /\ 0 \in 0..h
    BY <1>5, <1>6, <1>10 DEF Chain
  <2> HIDE DEF p
  <2> DEFINE q == f[0][h]
  <2>3. q \in Seq(Tagged) /\ g[0][h + 1] = q \o c
    BY <1>11, <1>12, <2>2
  <2>4. (p \o q) \o c = p \o (q \o c)
    <3> HIDE DEF q
    <3>1. c \in Seq(Tagged)
      BY <1>1
    <3>2. q \in Seq(Tagged)
      BY <2>3
    <3> QED BY <2>1, <3>1, <3>2, TaggedAssociative
  <2> QED BY <2>2, <2>3, <2>4
<1>14. \A n \in Shadows(t) : (\A m \in Shadows(t) : n <= m) => raw' = g[n][h + 1]
  BY <1>5, <1>6, <1>10, <1>11 DEF Chain
<1>15. Ranks(u, g)'
  <2>1. ASSUME NEW n \in Shadows(t)
        PROVE  Len(raw') - Len(g[n][h + 1]) = Len(raw) - Len(f[n][h])
    <3> DEFINE q == f[n][h]
    <3>1. q \in Seq(Tagged) /\ g[n][h + 1] = q \o c
      BY <1>10, <1>11, <1>12
    <3> HIDE DEF q
    <3>2. Len(q \o c) = Len(q) + Len(c) /\ Len(q) \in Nat
      BY <3>1, <1>1, ConcatIs
    <3>3. Len(raw') - (Len(q) + Len(c)) = Len(raw) - Len(q)
      BY <3>2, <1>1
    <3> QED BY <3>1, <3>2, <3>3 DEF q
  <2>2. Ranks(t, f)
    BY <1>5 DEF Chain
  <2> QED BY <2>1, <2>2, <1>2, <1>6, <1>8, <1>10 DEF Ranks, IsStripe
<1>16. Collected(prim, Primary, PrimVd)' = Collected(prim, Primary, PrimVd)
  BY <1>2 DEF Collected, Primary, PrimVd
<1>17. Chain(u, g)'
  <2>1. found_shadow' <=> Shadows(u)' # {}
    BY <1>5, <1>8 DEF Chain
  <2>2. Shadows(u)' = {} => raw' = Collected(prim, Primary, PrimVd)' \o g[0][hops']
    BY <1>8, <1>10, <1>13, <1>16
  <2>3. \A n \in Shadows(u)' : (\A m \in Shadows(u)' : n <= m) => raw' = g[n][hops']
    BY <1>8, <1>10, <1>14
  <2> QED BY <1>8, <1>9, <1>15, <2>1, <2>2, <2>3 DEF Chain
<1> QED BY <1>3, <1>4, <1>17 DEF ChainInv

\* BSR_SHADOW_XTNTS: the first one replaces the stubs, each one starts a column.
LEMMA ShadowStep ==
    ASSUME ChainInv, pc = "walk", NEW cell, Passed(cell), cell.kind = "shadow",
           domain => chain_vd \in Attached,
           NEW kept, kept = IF found_shadow THEN raw ELSE <<>>,
           NEW c, c = Collected(cell, Here, chain_vd),
           ~(Len(col_start) >= MAX_STRIPE_COLS /\ IsStripe),
           raw' = kept \o c, Len(raw') <= MAX_EXTENTS, UNCHANGED pc, found_shadow' = TRUE,
           col_start' = IF Len(col_start) >= MAX_STRIPE_COLS THEN col_start
                        ELSE Append(col_start, Len(kept))
    PROVE  ChainInv'
<1>1. /\ c \in Seq(Tagged) /\ kept \in Seq(Tagged) /\ raw' \in Seq(Tagged)
      /\ Len(raw') = Len(kept) + Len(c) /\ Len(c) \in Nat /\ Len(kept) \in Nat
      /\ Here' \in Address /\ hops' \in Nat
      /\ domain => \A i \in 1..Len(raw') :
                     raw'[i].vd \in Attached /\ raw'[i].vd = raw'[i].desc[1][1]
  BY PassedTypes
<1>2. UNCHANGED <<domain, prim>> /\ hops' = hops + 1
  BY DEF Passed, Grown
<1>3. /\ col_start \in Seq(Nat) /\ Len(col_start) \in Nat /\ Len(col_start) <= MAX_STRIPE_COLS
      /\ MAX_STRIPE_COLS \in Nat \ {0} /\ found_shadow \in BOOLEAN
  BY ChainAssumption DEF ChainInv, ChainType
<1>4. /\ found_shadow <=> col_start # <<>>
      /\ found_shadow => kept = raw
      /\ ~found_shadow => kept = <<>> /\ Len(kept) = 0 /\ Len(col_start) = 0
  BY DEF ChainInv, ChainShape
<1>5. \A i \in 1..Len(col_start) : col_start[i] \in Nat /\ col_start[i] <= Len(kept)
  <2>1. CASE found_shadow
    BY <2>1, <1>3, <1>4 DEF ChainInv, ChainShape
  <2>2. CASE ~found_shadow
    BY <2>2, <1>4
  <2> QED BY <2>1, <2>2
<1>6. CASE Len(col_start) >= MAX_STRIPE_COLS
  \* The file is not striped: boundaries are no longer recorded.
  <2>1. col_start' = col_start /\ ~IsStripe /\ Len(col_start) # 0 /\ found_shadow
    BY <1>3, <1>4, <1>6
  <2> QED
    <3>1. ChainType'
      BY <1>1, <1>2, <2>1 DEF ChainInv, ChainType, Passed, Grown
    <3>2. ChainShape'
      <4>1. \A i \in 1..Len(col_start) : col_start[i] <= Len(raw')
        BY <1>1, <1>5
      <4> QED BY <1>1, <1>2, <1>4, <2>1, <4>1 DEF ChainInv, ChainShape
    <3>3. PICK t, f : Chain(t, f)
      BY DEF ChainInv
    <3>4. PICK h : h = hops
      OBVIOUS
    <3>5. PICK b : b = Link(cell, Here)
      OBVIOUS
    <3> DEFINE u == LongerTrail(t, h, b)
               g == LongerSums(f, h, c)
    <3>6. Links(u)' /\ Shadows(u)' = Shadows(t) \cup {h}
      BY <3>3, <3>4, <3>5, PassedLinks DEF Chain, ChainInv
    <3>7. Sums(u, g)'
      BY <1>1, <3>3, <3>4, PassedSums DEF Chain, ChainInv
    <3>8. h \in Nat /\ hops' = h + 1 /\ Shadows(t) \subseteq 0..h - 1 /\ Shadows(t) # {}
      BY <1>2, <2>1, <3>3, <3>4 DEF ChainInv, ChainType, Shadows, Chain
    <3>9. ASSUME NEW n \in Shadows(t) \cup {h}, \A m \in Shadows(t) \cup {h} : n <= m
          PROVE  raw' = g[n][h + 1]
      <4>1. n \in Shadows(t) /\ \A m \in Shadows(t) : n <= m
        BY <3>8, <3>9
      <4>2. raw = f[n][h] /\ n \in 0..h
        BY <3>3, <3>4, <3>8, <4>1 DEF Chain
      <4>3. SumsGrow(g, f, h, c)
        BY <3>8, LongerSumsIs
      <4> HIDE DEF g
      <4>4. g[n][h + 1] = f[n][h] \o c
        BY <4>2, <4>3 DEF SumsGrow
      <4> QED BY <4>2, <4>4, <1>4, <2>1
    <3> HIDE DEF u, g
    <3>10. Ranks(u, g)'
      BY <1>2, <2>1 DEF Ranks, IsStripe
    <3>11. Chain(u, g)'
      BY <3>6, <3>7, <3>8, <3>9, <3>10 DEF Chain
    <3> QED BY <3>1, <3>2, <3>11 DEF ChainInv
<1>7. CASE ~(Len(col_start) >= MAX_STRIPE_COLS)
  <2> DEFINE s == Append(col_start, Len(kept))
  <2>1. /\ col_start' = s /\ s \in Seq(Nat) /\ Len(s) = Len(col_start) + 1
        /\ Len(s) <= MAX_STRIPE_COLS /\ s # <<>> /\ s[Len(s)] = Len(kept)
        /\ \A i \in 1..Len(col_start) : s[i] = col_start[i]
    BY <1>1, <1>3, <1>7
  <2> HIDE DEF s
  <2>2. ChainType'
    BY <1>1, <1>2, <2>1 DEF ChainInv, ChainType, Passed, Grown
  <2>3. ChainShape'
    <3>1. ASSUME NEW i \in 1..Len(s) PROVE s[i] <= Len(raw')
      <4>1. i = Len(s) \/ i \in 1..Len(col_start)
        BY <2>1, <1>3
      <4>2. s[i] \in Nat /\ s[i] <= Len(kept)
        BY <4>1, <2>1, <1>1, <1>5
      <4> QED BY <4>2, <1>1
    <3>2. s[1] = 0
      <4>1. CASE found_shadow
        <5>1. col_start # <<>> /\ 1 \in 1..Len(col_start)
          BY <4>1, <1>3, <1>4, EmptySeq
        <5> QED BY <5>1, <2>1 DEF ChainInv, ChainShape
      <4>2. CASE ~found_shadow
        BY <4>2, <2>1, <1>4
      <4> QED BY <4>1, <4>2
    <3> QED BY <1>1, <1>2, <2>1, <3>1, <3>2 DEF ChainInv, ChainShape
  <2>4. PICK t, f : Chain(t, f)
    BY DEF ChainInv
  <2>5. PICK h : h = hops
    OBVIOUS
  <2>6. PICK b : b = Link(cell, Here)
    OBVIOUS
  <2> DEFINE u == LongerTrail(t, h, b)
             g == LongerSums(f, h, c)
  <2>7. Links(u)' /\ Shadows(u)' = Shadows(t) \cup {h}
    BY <2>4, <2>5, <2>6, PassedLinks DEF Chain, ChainInv
  <2>8. Sums(u, g)'
    BY <1>1, <2>4, <2>5, PassedSums DEF Chain, ChainInv
  <2>9. h \in Nat /\ hops' = h + 1 /\ Shadows(t) \subseteq 0..h - 1
    BY <1>2, <2>5 DEF ChainInv, ChainType, Shadows
  <2>10. found_shadow <=> Shadows(t) # {}
    BY <2>4 DEF Chain
  <2>11. \A n \in 0..h : g[n][h + 1] = f[n][h] \o c /\ f[n][h] \in Seq(Tagged) /\ f[n][n] = <<>>
    <3>1. SumsGrow(g, f, h, c)
      BY <2>9, LongerSumsIs
    <3>2. \A n \in 0..h : f[n][h] \in Seq(Tagged) /\ f[n][n] = <<>>
      BY <2>4, <2>5 DEF Chain, Sums
    <3> HIDE DEF g
    <3> QED BY <3>1, <3>2 DEF SumsGrow
  <2> HIDE DEF u, g
  <2>12. g[h][h + 1] = c
    <3>1. h \in 0..h
      BY <2>9
    <3>2. g[h][h + 1] = <<>> \o c
      BY <3>1, <2>11
    <3> QED BY <3>2, <1>1, ConcatEmptySeq
  <2>13. ASSUME NEW n \in Shadows(t) \cup {h}, \A m \in Shadows(t) \cup {h} : n <= m
         PROVE  raw' = g[n][h + 1]
    <3>1. CASE Shadows(t) = {}
      <4>1. n = h /\ kept = <<>> /\ raw' = <<>> \o c
        BY <3>1, <2>10, <1>4
      <4> QED BY <4>1, <2>12, <1>1, ConcatEmptySeq
    <3>2. CASE Shadows(t) # {}
      <4>1. n \in Shadows(t) /\ \A m \in Shadows(t) : n <= m
        BY <3>2, <2>9, <2>13
      <4>2. raw = f[n][h] /\ n \in 0..h
        BY <2>4, <2>5, <2>9, <4>1 DEF Chain
      <4> QED BY <3>2, <4>2, <2>10, <2>11, <1>4
    <3> QED BY <3>1, <3>2
  <2>14. Ranks(u, g)'
    <3> DEFINE S == Shadows(t)
               T == S \cup {h}
    <3> SUFFICES ASSUME IsStripe
                 PROVE  /\ Len(s) = Cardinality(T)
                        /\ \A n \in T : s[Cardinality({m \in T : m <= n})] = Len(raw') - Len(g[n][h + 1])
      BY <1>2, <2>1, <2>7, <2>9 DEF Ranks, IsStripe
    <3>1. /\ Len(col_start) = Cardinality(S)
          /\ \A n \in S : col_start[Cardinality({m \in S : m <= n})] = Len(raw) - Len(f[n][h])
      BY <2>4, <2>5 DEF Chain, Ranks
    <3>2. S \subseteq 0..h - 1 /\ h \in Nat
      BY <2>9
    <3> HIDE DEF S
    <3>3. /\ Cardinality(S) \in Nat /\ Cardinality(T) = Cardinality(S) + 1
          /\ \A n \in S : Cardinality({m \in S : m <= n}) \in 1..Cardinality(S)
          /\ \A n \in S : {m \in T : m <= n} = {m \in S : m <= n}
          /\ {m \in T : m <= h} = T
      BY <3>2, RankIs
    <3>4. Len(s) = Cardinality(T)
      BY <3>1, <3>3, <2>1
    <3>5. ASSUME NEW n \in S
          PROVE  s[Cardinality({m \in T : m <= n})] = Len(raw') - Len(g[n][h + 1])
      <4> DEFINE k == Cardinality({m \in S : m <= n})
                 q == f[n][h]
      <4>1. k \in 1..Len(col_start) /\ Cardinality({m \in T : m <= n}) = k
        BY <3>1, <3>3
      <4>2. s[k] = Len(raw) - Len(q)
        BY <4>1, <3>1, <2>1
      <4>3. q \in Seq(Tagged) /\ g[n][h + 1] = q \o c
        <5>1. n \in 0..h
          BY <3>2
        <5> QED BY <5>1, <2>11
      <4>4. found_shadow /\ kept = raw
        BY <2>10, <1>4 DEF S
      <4> HIDE DEF q
      <4>5. Len(q \o c) = Len(q) + Len(c) /\ Len(q) \in Nat
        BY <4>3, <1>1, ConcatIs
      <4>6. Len(raw') - (Len(q) + Len(c)) = Len(raw) - Len(q)
        BY <4>4, <4>5, <1>1
      <4> HIDE DEF k
      <4> QED BY <4>1, <4>2, <4>3, <4>5, <4>6
    <3>6. s[Cardinality({m \in T : m <= h})] = Len(raw') - Len(g[h][h + 1])
      <4>1. s[Cardinality({m \in T : m <= h})] = Len(kept)
        BY <3>3, <3>4, <2>1
      <4>2. Len(raw') - Len(c) = Len(kept)
        BY <1>1
      <4> QED BY <4>1, <4>2, <2>12
    <3> QED BY <3>4, <3>5, <3>6
  <2>15. Chain(u, g)'
    <3>1. Shadows(u)' # {}
      BY <2>7
    <3>2. \A n \in Shadows(u)' : (\A m \in Shadows(u)' : n <= m) => raw' = g[n][hops']
      BY <2>7, <2>9, <2>13
    <3> QED BY <2>7, <2>8, <2>14, <3>1, <3>2 DEF Chain
  <2> QED BY <2>2, <2>3, <2>15 DEF ChainInv
<1> QED BY <1>6, <1>7

\* What the walk returns is interleaved only if it can be.
LEMMA OutcomeIs ==
    /\ Outcome # "start"
    /\ ChainType /\ Outcome = "interleave" =>
         IsStripe /\ Len(col_start) >= 2 /\ prim.segment_size # 0
BY DEF Outcome

\* Every kind of cell.
LEMMA HopStep ==
    ASSUME ChainInv, pc = "walk", NEW cell \in Cells, Grown, Here \in DOMAIN disk', disk'[Here] = cell,
           domain => chain_vd \in Attached, Hop(cell)
    PROVE  ChainInv'
<1>1. cell.kind \in {"xtra", "shadow", "none", "small", "badcell", "unreadable"}
      /\ (cell.kind \in {"xtra", "shadow"} => cell \in Records)
  <2>1. CASE cell \in Records
    BY <2>1 DEF Records
  <2>2. CASE cell \in [kind : {"none", "small", "badcell", "unreadable"}]
    BY <2>2
  <2> QED BY <2>1, <2>2 DEF Cells
<1> DEFINE c == Collected(cell, Here, chain_vd)
<1>2. CASE cell.kind = "unreadable"
  <2>1. Fail("EIO")
    BY <1>2 DEF Hop
  <2> QED BY <2>1, FailStep
<1>3. CASE cell.kind \in {"badcell", "small"}
  <2>1. Fail("EILSEQ")
    BY <1>3 DEF Hop
  <2> QED BY <2>1, FailStep
<1>4. CASE cell.kind = "none"
  <2>1. Fail(Outcome)
    BY <1>4 DEF Hop
  <2>2. PICK err : err = Outcome
    OBVIOUS
  <2> QED BY <2>1, <2>2, OutcomeIs, FailStep DEF ChainInv
<1>5. CASE cell.kind = "xtra"
  <2>1. Xtra(cell)
    BY <1>5 DEF Hop
  <2>2. PICK r : r = raw \o c
    OBVIOUS
  <2>3. CASE Len(r) > MAX_EXTENTS
    <3>1. Fail("EOVERFLOW")
      BY <2>1, <2>2, <2>3 DEF Xtra
    <3> QED BY <3>1, FailStep
  <2>4. CASE ~(Len(r) > MAX_EXTENTS)
    <3>1. Follow(cell, r) /\ UNCHANGED <<col_start, found_shadow>>
      BY <2>1, <2>2, <2>4 DEF Xtra
    <3>2. Passed(cell) /\ raw' = r /\ UNCHANGED pc
      BY <3>1, <1>1, <1>5 DEF Follow, Passed, Here, Link
    <3>3. raw' = raw \o c /\ raw \in Seq(Tagged)
      BY <2>2, <3>2 DEF ChainInv, ChainType
    <3>4. raw' \in Seq(Tagged)
      BY <3>2, <3>3, PassedTypes
    <3>5. Len(raw') <= MAX_EXTENTS
      <4>1. Len(raw') \in Nat /\ MAX_EXTENTS \in Nat
        BY <3>4, ChainAssumption
      <4> QED BY <4>1, <3>2, <2>4
    <3> QED BY <3>1, <3>2, <3>3, <3>5, <1>5, XtraStep
  <2> QED BY <2>3, <2>4
<1>6. CASE cell.kind = "shadow"
  <2>1. Shadow(cell)
    BY <1>6 DEF Hop
  <2>2. PICK kept : kept = IF found_shadow THEN raw ELSE <<>>
    OBVIOUS
  <2>3. PICK r : r = kept \o c
    OBVIOUS
  <2>4. CASE Len(col_start) >= MAX_STRIPE_COLS /\ IsStripe
    <3>1. Fail("EILSEQ")
      BY <2>1, <2>4 DEF Shadow
    <3> QED BY <3>1, FailStep
  <2>5. CASE ~(Len(col_start) >= MAX_STRIPE_COLS /\ IsStripe) /\ Len(r) > MAX_EXTENTS
    <3>1. Fail("EOVERFLOW")
      BY <2>1, <2>2, <2>3, <2>5 DEF Shadow
    <3> QED BY <3>1, FailStep
  <2>6. CASE ~(Len(col_start) >= MAX_STRIPE_COLS /\ IsStripe) /\ ~(Len(r) > MAX_EXTENTS)
    <3>1. /\ Follow(cell, r) /\ found_shadow' = TRUE
          /\ col_start' = IF Len(col_start) >= MAX_STRIPE_COLS THEN col_start
                          ELSE Append(col_start, Len(kept))
      BY <2>1, <2>2, <2>3, <2>6 DEF Shadow
    <3>2. Passed(cell) /\ raw' = r /\ UNCHANGED pc
      BY <3>1, <1>1, <1>6 DEF Follow, Passed, Here, Link
    <3>3. raw' = kept \o c /\ (kept = raw \/ kept = <<>>)
      BY <2>2, <2>3, <3>2
    <3>4. raw' \in Seq(Tagged)
      BY <3>2, <3>3, PassedTypes
    <3>5. Len(raw') <= MAX_EXTENTS
      <4>1. Len(raw') \in Nat /\ MAX_EXTENTS \in Nat
        BY <3>4, ChainAssumption
      <4> QED BY <4>1, <3>2, <2>6
    <3> QED BY <3>1, <3>2, <3>3, <3>5, <1>6, <2>2, <2>6, ShadowStep
  <2> QED BY <2>4, <2>5, <2>6
<1> QED BY <1>1, <1>2, <1>3, <1>4, <1>5, <1>6

\* The invariant of the chain depends on its variables only.
LEMMA ChainFrame ==
    ASSUME ChainInv, UNCHANGED vars
    PROVE  ChainInv'
<1>1. UNCHANGED <<domain, prim, disk, pc, raw, col_start, found_shadow, chain_vd, chain_mcid, hops>>
  BY DEF vars
<1>2. ChainType' /\ ChainShape'
  BY <1>1 DEF ChainInv, ChainType, ChainShape, Here, IsStripe
<1>3. ASSUME NEW t, NEW f, Chain(t, f) PROVE Chain(t, f)'
  <2>1. Links(t)' /\ Shadows(t)' = Shadows(t)
    BY <1>1, <1>3 DEF Chain, Links, Origin, PrimVd, Link, Here, Shadows
  <2>2. Sums(t, f)'
    BY <1>1, <1>3 DEF Chain, Sums
  <2>3. Ranks(t, f)'
    BY <1>1, <1>3, <2>1 DEF Chain, Ranks, IsStripe
  <2>4. Collected(prim, Primary, PrimVd)' = Collected(prim, Primary, PrimVd)
    BY <1>1 DEF Collected, Primary, PrimVd
  <2> QED BY <1>1, <1>3, <2>1, <2>2, <2>3, <2>4 DEF Chain
<1> QED BY <1>1, <1>2, <1>3 DEF ChainInv

\* Every step of the chain walk keeps its invariant.
LEMMA WalkStep ==
    ASSUME ChainInv, ReadPrimary \/ EndOfChain \/ HopUnattached \/ HopNew \/ HopAgain
    PROVE  ChainInv'
<1>1. \A a \in DOMAIN disk : disk[a] \in Cells /\ (domain => a[1] \in Attached)
  BY DEF ChainInv, ChainType
<1>2. Here[1] = chain_vd
  BY DEF Here
<1>3. CASE ReadPrimary
  BY <1>3, PrimaryStep
<1>4. CASE EndOfChain
  <2>1. PICK err : err = Outcome
    OBVIOUS
  <2>2. pc = "walk" /\ Grown /\ Fail(err)
    BY <1>1, <1>4, <2>1 DEF EndOfChain, Grown, Fail
  <2> QED BY <2>1, <2>2, OutcomeIs, FailStep DEF ChainInv
<1>5. CASE HopUnattached
  <2>1. pc = "walk" /\ Grown /\ Fail("ENOENT")
    BY <1>1, <1>5 DEF HopUnattached, Walking, Grown
  <2> QED BY <2>1, FailStep
<1>6. CASE HopNew
  <2>1. PICK cell \in Cells :
          /\ disk' = [a \in DOMAIN disk \cup {Here} |-> IF a = Here THEN cell ELSE disk[a]]
          /\ Hop(cell)
    BY <1>6 DEF HopNew
  <2>2. /\ pc = "walk" /\ (domain => chain_vd \in Attached) /\ Here \notin DOMAIN disk
        /\ UNCHANGED <<domain, prim>>
    BY <1>6 DEF HopNew, Walking
  <2>3. Here \in DOMAIN disk' /\ disk'[Here] = cell /\ \A a \in DOMAIN disk : a \in DOMAIN disk' /\ disk'[a] = disk[a]
    BY <2>1, <2>2
  <2>4. \A a \in DOMAIN disk' : disk'[a] \in Cells /\ (domain => a[1] \in Attached)
    BY <2>1, <2>2, <1>1, <1>2
  <2>5. Grown
    BY <2>2, <2>3, <2>4 DEF Grown
  <2> QED BY <2>1, <2>2, <2>3, <2>5, HopStep
<1>7. CASE HopAgain
  <2>1. /\ pc = "walk" /\ Here \in DOMAIN disk /\ Hop(disk[Here]) /\ UNCHANGED <<domain, prim, disk>>
    BY <1>7 DEF HopAgain, Walking
  <2>2. PICK cell : cell = disk[Here]
    OBVIOUS
  <2>3. Hop(cell) /\ cell \in Cells /\ Here \in DOMAIN disk' /\ disk'[Here] = cell /\ Grown
        /\ (domain => chain_vd \in Attached)
    BY <2>1, <2>2, <1>1, <1>2 DEF Grown
  <2> QED BY <2>1, <2>3, HopStep
<1> QED BY <1>3, <1>4, <1>5, <1>6, <1>7

-----------------------------------------------------------------------------
\* A column of the walk is a map.
LEMMA RawColumnType ==
    ASSUME ChainInv, NEW c \in 1..Len(col_start)
    PROVE  RawColumn(c) \in Seq(I!Extent)
<1>1. /\ raw \in Seq(Tagged) /\ Len(raw) \in Nat /\ col_start \in Seq(Nat) /\ Len(col_start) \in Nat
      /\ \A i \in 1..Len(col_start) : col_start[i] \in Nat /\ col_start[i] <= Len(raw)
  BY DEF ChainInv, ChainType, ChainShape
<1> DEFINE a == col_start[c]
           e == ColumnEnd(c)
           E(i) == LET r == raw[a + i] IN
                   [bs_page |-> Value(r.desc).bs_page, vd_blk |-> Value(r.desc).vd_blk, vd_index |-> r.vd]
<1>2. a \in Nat /\ e \in Nat /\ e <= Len(raw)
  <2>1. c < Len(col_start) => c + 1 \in 1..Len(col_start)
    BY <1>1
  <2> QED BY <1>1, <2>1 DEF ColumnEnd
<1>3. RawColumn(c) = [i \in 1..e - a |-> E(i)]
  BY DEF RawColumn
<1> HIDE DEF a, e
<1>4. ASSUME NEW i \in 1..e - a PROVE E(i) \in I!Extent
  <2>1. a + i \in 1..Len(raw)
    BY <1>1, <1>2
  <2> DEFINE r == raw[a + i]
  <2>2. r \in Tagged
    BY <1>1, <2>1
  <2> HIDE DEF r
  <2>3. r.desc \in Descriptors /\ r.vd \in Nat
    BY <2>2 DEF Tagged
  <2>4. Value(r.desc).bs_page \in 0..U32 /\ Value(r.desc).vd_blk \in 0..U32
    BY <2>3, ExtentsAssumption
  <2> QED BY <2>3, <2>4 DEF I!Extent, r
<1> HIDE DEF E
<1>5. CASE e - a \in Nat
  BY <1>3, <1>4, <1>5
<1>6. CASE e - a \notin Nat
  <2>1. 1..e - a = 1..0
    BY <1>2, <1>6
  <2>2. RawColumn(c) = <<>>
    BY <1>3, <2>1
  <2> QED BY <2>2, EmptySeq
<1> QED BY <1>5, <1>6

\* The interleaver begins in its invariant.
LEMMA InterleaveStep ==
    ASSUME ChainInv, StripeInv, Interleave
    PROVE  StripeInv'
<1>1. /\ ipc = "idle" /\ ipc' = "start" /\ cols' = [c \in 1..Len(col_start) |-> RawColumn(c)]
      /\ seg' = prim.segment_size /\ UNCHANGED <<total, fpage, out>>
  BY DEF Interleave
<1>2. fpage = 0 /\ total = 0 /\ out = <<>> /\ Len(out) = 0
  BY <1>1 DEF StripeInv, StripeShape
<1>3. seg' \in Nat /\ Len(col_start) \in Nat
  BY <1>1 DEF ChainInv, ChainType, Primaries
<1>4. cols' \in Seq(Seq(I!Extent))
  <2> DEFINE M == Seq(I!Extent)
  <2>1. \A c \in 1..Len(col_start) : RawColumn(c) \in M
    BY RawColumnType
  <2> HIDE DEF M
  <2>2. [c \in 1..Len(col_start) |-> RawColumn(c)] \in Seq(M)
    BY <1>3, <2>1
  <2> QED BY <1>1, <2>2 DEF M
<1>5. StripeType'
  BY <1>1, <1>3, <1>4 DEF StripeInv, StripeType
<1>6. StripeShape'
  BY <1>1, <1>2 DEF StripeShape
<1>7. StripeRight'
  BY <1>1, <1>2 DEF StripeRight
<1> QED BY <1>5, <1>6, <1>7 DEF StripeInv

\* The invariant of the interleaver depends on its variables only.
LEMMA StripeFrame ==
    ASSUME StripeInv, UNCHANGED istate
    PROVE  StripeInv'
<1>1. UNCHANGED <<cols, seg, ipc, total, fpage, out>>
  BY DEF istate
<1>2. Sound' = Sound /\ \A p : I!StripedPage(p)' = I!StripedPage(p)
  BY <1>1, StepFrame
<1>3. StripeType' /\ StripeShape'
  BY <1>1 DEF StripeInv, StripeType, StripeShape
<1>4. StripeRight'
  BY <1>1, <1>2 DEF StripeInv, StripeRight
<1> QED BY <1>3, <1>4 DEF StripeInv

IInv == ChainInv /\ StripeInv

\* The invariant holds at the start of a walk or of the interleaver.
LEMMA InitIInv ==
    ASSUME ExtentsInit
    PROVE  IInv
<1>1. /\ domain \in BOOLEAN /\ prim \in Primaries /\ disk = <<>> /\ pc = "start"
      /\ raw = <<>> /\ col_start = <<>> /\ found_shadow = FALSE
      /\ chain_vd = 0 /\ chain_mcid = 0 /\ hops = 0
  BY PrimsAssumption DEF ExtentsInit, Init
<1>2. /\ cols \in Seq(Seq(I!Extent)) /\ seg \in Nat /\ ipc \in {"idle", "start"}
      /\ total = 0 /\ fpage = 0 /\ out = <<>>
  <2>1. CASE cols = <<>> /\ seg = 0 /\ ipc = "idle" /\ total = 0 /\ fpage = 0 /\ out = <<>>
    BY <2>1, EmptySeq
  <2>2. CASE I!Init
    BY <2>2, ExtentsAssumption DEF I!Init
  <2> QED BY <2>1, <2>2 DEF ExtentsInit
<1>3. Len(raw) = 0 /\ Len(col_start) = 0 /\ Len(out) = 0 /\ DOMAIN disk = {}
  BY <1>1, <1>2
<1>4. ChainType
  <2>1. Here \in Address
    BY <1>1 DEF Here, Address
  <2>2. raw \in Seq(Tagged) /\ col_start \in Seq(Nat)
    BY <1>1, EmptySeq
  <2>3. found_shadow \in BOOLEAN
    BY <1>1
  <2>4. Len(raw) <= MAX_EXTENTS /\ Len(col_start) <= MAX_STRIPE_COLS /\ hops \in Nat
    BY <1>1, <1>3, ChainAssumption
  <2>5. \A a \in DOMAIN disk : disk[a] \in Cells /\ (domain => a[1] \in Attached)
    BY <1>3
  <2> QED BY <1>1, <2>1, <2>2, <2>3, <2>4, <2>5 DEF ChainType
<1>5. ChainShape
  BY <1>1, <1>3 DEF ChainShape
<1>6. StripeType
  <2>1. out \in Seq(I!Extent)
    BY <1>2, EmptySeq
  <2> QED BY <1>2, <1>3, <2>1, ChainAssumption, Numbers DEF StripeType
<1>7. StripeShape /\ StripeRight
  BY <1>2, <1>3 DEF StripeShape, StripeRight
<1> QED BY <1>1, <1>4, <1>5, <1>6, <1>7 DEF IInv, ChainInv, StripeInv

\* Every step keeps the invariant.
LEMMA NextIInv ==
    ASSUME IInv, [ExtentsNext]_allvars
    PROVE  IInv'
<1>1. CASE Walk
  BY <1>1, WalkStep, StripeFrame DEF Walk, IInv
<1>2. CASE Interleave
  <2>1. UNCHANGED vars
    BY <1>2 DEF Interleave
  <2> QED BY <1>2, <2>1, InterleaveStep, ChainFrame DEF IInv
<1>3. CASE Merge
  <2>1. UNCHANGED vars /\ (I!Start \/ I!Step \/ I!Finish)
    BY <1>3 DEF Merge
  <2>2. ChainInv'
    BY <2>1, ChainFrame DEF IInv
  <2>3. StripeInv'
    BY <2>1, StripeStart, StripeStep, StripeFinish DEF IInv
  <2> QED BY <2>2, <2>3 DEF IInv
<1>4. CASE UNCHANGED allvars
  <2>1. UNCHANGED vars /\ UNCHANGED istate
    BY <1>4 DEF allvars
  <2> QED BY <2>1, ChainFrame, StripeFrame DEF IInv
<1> QED BY <1>1, <1>2, <1>3, <1>4 DEF ExtentsNext

\* The invariant of a whole call of extents_read_core or of the interleaver.
THEOREM Invariance == ExtentsSpec => []IInv
<1>1. ExtentsInit => IInv
  BY InitIInv
<1>2. IInv /\ [ExtentsNext]_allvars => IInv'
  BY NextIInv
<1> QED BY <1>1, <1>2, PTL DEF ExtentsSpec

(***************************************************************************)
(* extents_read_core collects exactly the chain: for every chain, also a   *)
(* circular one and one over several volumes, and for all limits.          *)
(***************************************************************************)
THEOREM WalkCollectsChain == ExtentsSpec => []RawIsChain
<1>1. IInv => RawIsChain
  BY ChainInvRaw DEF IInv
<1> QED BY <1>1, Invariance, PTL

(***************************************************************************)
(* The arrays raw and col_start are never overrun, and what is handed to   *)
(* the interleaver is a partition of the map by its shadow records.        *)
(***************************************************************************)
THEOREM ColumnsArePartition == ExtentsSpec => []ColumnsPartition
<1>1. IInv => ColumnsPartition
  BY ChainInvColumns DEF IInv
<1> QED BY <1>1, Invariance, PTL

(***************************************************************************)
(* advfs_extents_stripe_interleave: on any columns its output stays within *)
(* the array and a finished map has the pages of its columns; on sound     *)
(* ones every page of the map is what the striping rule says, at every     *)
(* point of the loop.                                                      *)
(***************************************************************************)
THEOREM FlatMapsAreStriped == ExtentsSpec => []FlatMapIsStriped
<1>1. IInv => FlatMapIsStriped
  BY StripeInvImplies DEF IInv
<1> QED BY <1>1, Invariance, PTL
=============================================================================
