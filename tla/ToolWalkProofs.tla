--------------------------- MODULE ToolWalkProofs ---------------------------
(***************************************************************************)
(* Proofs about Namespace and ToolWalk, for any directory structure: paths *)
(* lead to the one object they denote, what getattr and readdir say of it  *)
(* holds, the recursive count reads each directory once and is exact, and  *)
(* the scan prints one row for each route to a deleted entry.              *)
(***************************************************************************)
EXTENDS ToolWalk, TLAPS, FiniteSetTheorems, WellFoundedInduction

-----------------------------------------------------------------------------
\* A set of naturals that is not empty has a least element.
LEMMA Least ==
    ASSUME NEW T, T \subseteq Nat, T # {}
    PROVE  \E x \in T : \A y \in T : x <= y
<1> DEFINE R == {ss \in Nat \X Nat : ss[1] < ss[2]}
<1>1. IsWellFoundedOn(R, Nat)
  BY NatLessThanWellFounded DEF OpToRel
<1>2. \A x, y \in Nat : y < x => <<y, x>> \in R
  OBVIOUS
<1> HIDE DEF R
<1>3. PICK x \in T : \A y \in T : ~(<<y, x>> \in R)
  BY <1>1, WFMin
<1>4. ASSUME NEW y \in T PROVE x <= y
  <2>1. ~(y < x)
    BY <1>2, <1>3
  <2> QED BY <2>1
<1> QED BY <1>4

\* Induction.
LEMMA NatInd ==
    ASSUME NEW S, 0 \in S, \A n \in Nat : n \in S => n + 1 \in S
    PROVE  Nat \subseteq S
<1> SUFFICES ASSUME Nat \ S # {} PROVE FALSE
  OBVIOUS
<1>1. PICK x \in Nat \ S : \A y \in Nat \ S : x <= y
  BY Least
<1>2. x # 0 /\ x - 1 \in Nat
  BY <1>1
<1>3. x - 1 \in S
  BY <1>1, <1>2
<1> QED BY <1>1, <1>2, <1>3

\* f[k] is the result of k rounds from a, each a step of F.
IsRounds(f, N, X, a, F) ==
    f \in [0..N -> X] /\ f[0] = a /\ \A k \in 1..N : f[k] = F[<<k, f[k - 1]>>]

\* Such a recursion has a result.
LEMMA Rounds ==
    ASSUME NEW X, NEW a \in X, NEW F \in [Nat \X X -> X], NEW N \in Nat
    PROVE  \E f : IsRounds(f, N, X, a, F)
<1> DEFINE Is(f, n) == f \in [0..n -> X] /\ f[0] = a /\ \A k \in 1..n : f[k] = F[<<k, f[k - 1]>>]
           S == {n \in Nat : \E f : Is(f, n)}
<1>1. 0 \in S
  <2> DEFINE f == [k \in 0..0 |-> a]
  <2>1. Is(f, 0)
    OBVIOUS
  <2> HIDE DEF f, Is
  <2> QED BY <2>1
<1>2. ASSUME NEW n \in Nat, n \in S PROVE n + 1 \in S
  <2>1. PICK f : Is(f, n)
    BY <1>2
  <2> DEFINE g == [k \in 0..n + 1 |-> IF k = n + 1 THEN F[<<n + 1, f[n]>>] ELSE f[k]]
  <2>2. f[n] \in X /\ F[<<n + 1, f[n]>>] \in X
    BY <2>1
  <2>3. g \in [0..n + 1 -> X] /\ g[0] = a
    BY <2>1, <2>2
  <2>4. \A k \in 1..n : g[k] = f[k] /\ g[k - 1] = f[k - 1]
    OBVIOUS
  <2>5. g[n + 1] = F[<<n + 1, f[n]>>] /\ g[n] = f[n] /\ (n + 1) - 1 = n
    OBVIOUS
  <2> HIDE DEF g
  <2>6. ASSUME NEW k \in 1..n + 1 PROVE g[k] = F[<<k, g[k - 1]>>]
    <3>1. CASE k \in 1..n
      BY <2>1, <2>4, <3>1
    <3>2. CASE k = n + 1
      BY <2>5, <3>2
    <3> QED BY <3>1, <3>2
  <2>7. Is(g, n + 1)
    BY <2>3, <2>6
  <2> HIDE DEF Is
  <2> QED BY <2>7
<1>3. N \in S
  <2> HIDE DEF S
  <2> QED BY <1>1, <1>2, NatInd
<1> QED BY <1>3 DEF IsRounds

-----------------------------------------------------------------------------
\* The type of the variables of paths.
PathType ==
    /\ tree \in Trees /\ req \in Requests
    /\ pc \in {"start", "walk", "walking", "answered"}
    /\ cur \in Tags /\ isDir \in BOOLEAN /\ i \in Nat \ {0}
    /\ attr \in {"none", "dir"} \cup Kinds /\ faults \in Nat

\* The entries of a tag are a sequence of entries.
LEMMA ReadType ==
    ASSUME PathType, NEW x \in Tags
    PROVE  /\ Read(x) \in Seq(Entry) /\ Len(Read(x)) \in Nat
           /\ \A k \in 1..Len(Read(x)) : Read(x)[k] \in Entry
<1>1. Read(x) \in Seq(Entry)
  BY DEF PathType, Trees, Read
<1> HIDE DEF Entry
<1>2. \A s \in Seq(Entry) : Len(s) \in Nat /\ \A k \in 1..Len(s) : s[k] \in Entry
  OBVIOUS
<1> QED BY <1>1, <1>2

\* A path is a sequence.
LEMMA PathLen ==
    ASSUME PathType
    PROVE  Len(req.path) \in Nat /\ req.cap \in Nat
BY DEF PathType, Requests

\* The two ways to say what a name leads to agree.
LEMMA FirstLeads ==
    ASSUME PathType, NEW x \in Tags, NEW n, ~Unreadable(x), NEW y
    PROVE  y \in FirstNamed(x, n) <=> Leads(x, n, y)
<1> DEFINE s == Read(x)
           S == {k \in 1..Len(s) : ~s[k].dead /\ s[k].name = n}
<1>1. Len(s) \in Nat
  BY ReadType
<1>2. y \in FirstNamed(x, n) <=> \E k \in S : (\A l \in S : k <= l) /\ s[k].to = y
  BY DEF FirstNamed
<1>3. Leads(x, n, y) <=>
        \E k \in 1..Len(s) : /\ ~s[k].dead /\ \A j \in 1..k - 1 : s[j].dead \/ s[j].name # s[k].name
                             /\ s[k].name = n /\ s[k].to = y
  BY DEF Leads
<1>4. ASSUME NEW k \in S, \A l \in S : k <= l
      PROVE  \A j \in 1..k - 1 : s[j].dead \/ s[j].name # s[k].name
  <2> SUFFICES ASSUME NEW j \in 1..k - 1, ~s[j].dead, s[j].name = s[k].name PROVE FALSE
    OBVIOUS
  <2>1. j \in 1..Len(s) /\ j < k
    BY <1>1
  <2>2. j \in S
    BY <2>1
  <2> QED BY <2>1, <2>2, <1>4, <1>1
<1>5. ASSUME NEW k \in 1..Len(s), ~s[k].dead, s[k].name = n,
             \A j \in 1..k - 1 : s[j].dead \/ s[j].name # s[k].name
      PROVE  k \in S /\ \A l \in S : k <= l
  <2> SUFFICES ASSUME NEW l \in S, ~(k <= l) PROVE FALSE
    BY <1>5
  <2>1. l \in 1..k - 1
    BY <1>1
  <2> QED BY <2>1, <1>5
<1> HIDE DEF s
<1> QED BY <1>2, <1>3, <1>4, <1>5

\* A name leads to one tag.
LEMMA LeadsUnique ==
    ASSUME PathType, NEW x \in Tags, NEW n, NEW y, NEW z, Leads(x, n, y), Leads(x, n, z)
    PROVE  y = z
<1> DEFINE s == Read(x)
           First(k) == ~s[k].dead /\ \A j \in 1..k - 1 : s[j].dead \/ s[j].name # s[k].name
<1>1. Len(s) \in Nat
  BY ReadType
<1>2. PICK k \in 1..Len(s) : First(k) /\ s[k].name = n /\ s[k].to = y
  BY DEF Leads
<1>3. PICK l \in 1..Len(s) : First(l) /\ s[l].name = n /\ s[l].to = z
  BY DEF Leads
<1> HIDE DEF s
<1>4. ~(k < l)
  <2>1. k < l => k \in 1..l - 1
    BY <1>1
  <2> QED BY <2>1, <1>2, <1>3
<1>5. ~(l < k)
  <2>1. l < k => l \in 1..k - 1
    BY <1>1
  <2> QED BY <2>1, <1>2, <1>3
<1>6. k = l
  BY <1>4, <1>5, <1>1
<1> QED BY <1>2, <1>3, <1>6

\* What a name leads to is a tag.
LEMMA LeadsType ==
    ASSUME PathType, NEW x \in Tags, NEW n, NEW y, Leads(x, n, y)
    PROVE  y \in Tags
<1>1. PICK k \in 1..Len(Read(x)) : Read(x)[k].to = y
  BY DEF Leads
<1>2. Read(x)[k] \in Entry
  BY ReadType
<1> QED BY <1>1, <1>2 DEF Entry

-----------------------------------------------------------------------------
\* Two chains agree as far as both go.
LEMMA ChainUnique ==
    ASSUME PathType, NEW m \in Nat, NEW n \in Nat, m <= n,
           NEW v \in [0..m -> Tags], NEW w \in [0..n -> Tags], Chain(v, m), Chain(w, n)
    PROVE  \A k \in 0..m : v[k] = w[k]
<1> DEFINE T == {k \in 0..m : v[k] # w[k]}
<1> SUFFICES ASSUME T # {} PROVE FALSE
  OBVIOUS
<1>1. PICK k \in T : \A l \in T : k <= l
  <2>1. T \subseteq Nat
    OBVIOUS
  <2> HIDE DEF T
  <2> QED BY <2>1, Least
<1>2. k # 0
  BY <1>1 DEF Chain
<1>3. k \in 1..m /\ k \in 1..n /\ k - 1 \in 0..m
  BY <1>1, <1>2
<1>4. v[k - 1] = w[k - 1]
  BY <1>1, <1>3
<1>5. v[k - 1] \in Tags
  BY <1>3
<1>6. IF ~IsName(k) THEN v[k] = v[k - 1] ELSE Leads(v[k - 1], req.path[k], v[k])
  BY <1>3 DEF Chain
<1>7. IF ~IsName(k) THEN w[k] = w[k - 1] ELSE Leads(w[k - 1], req.path[k], w[k])
  BY <1>3 DEF Chain
<1>8. v[k] = w[k]
  BY <1>4, <1>5, <1>6, <1>7, LeadsUnique
<1> QED BY <1>8, <1>1

\* A chain along the whole path ends in the one tag the path denotes.
LEMMA ChainDenotes ==
    ASSUME PathType, NEW v \in [0..Len(req.path) -> Tags], Chain(v, Len(req.path))
    PROVE  Denoted = {v[Len(req.path)]}
<1> DEFINE n == Len(req.path)
<1>1. n \in Nat
  BY PathLen
<1>2. ASSUME NEW w \in [0..n -> Tags], Chain(w, n) PROVE w[n] = v[n]
  BY <1>1, <1>2, ChainUnique
<1> QED BY <1>2 DEF Denoted

\* Every object a path denotes is at the end of a chain that goes through
\* what the first components of the path led to.
LEMMA DenotedPrefix ==
    ASSUME PathType, NEW m \in 0..Len(req.path), NEW v \in [0..m -> Tags], Chain(v, m),
           Denoted # {}
    PROVE  \E w \in [0..Len(req.path) -> Tags] : Chain(w, Len(req.path)) /\ w[m] = v[m]
<1>1. PICK w \in [0..Len(req.path) -> Tags] : Chain(w, Len(req.path))
  BY DEF Denoted
<1>2. m \in Nat /\ Len(req.path) \in Nat /\ m <= Len(req.path) /\ m \in 0..m
  BY PathLen
<1>3. v[m] = w[m]
  BY <1>1, <1>2, ChainUnique
<1> QED BY <1>1, <1>3

\* A chain grows by one component.
LEMMA ChainGrows ==
    ASSUME PathType, NEW m \in Nat, NEW v \in [0..m -> Tags], Chain(v, m), NEW x \in Tags,
           IF ~IsName(m + 1) THEN x = v[m]
           ELSE /\ Leads(v[m], req.path[m + 1], x)
                /\ (\E j \in 1..m : IsName(j)) => StatKind(v[m]) = "dir"
    PROVE  \E w \in [0..m + 1 -> Tags] : Chain(w, m + 1) /\ w[m + 1] = x
<1> DEFINE w == [k \in 0..m + 1 |-> IF k = m + 1 THEN x ELSE v[k]]
<1>1. w \in [0..m + 1 -> Tags] /\ w[m + 1] = x /\ w[0] = v[0] /\ w[m] = v[m]
  OBVIOUS
<1>2. \A k \in 1..m : w[k] = v[k] /\ w[k - 1] = v[k - 1]
  OBVIOUS
<1> HIDE DEF w
<1>3. ASSUME NEW k \in 1..m + 1
      PROVE  IF ~IsName(k) THEN w[k] = w[k - 1]
             ELSE /\ Leads(w[k - 1], req.path[k], w[k])
                  /\ (\E j \in 1..k - 1 : IsName(j)) => StatKind(w[k - 1]) = "dir"
  <2>1. CASE k \in 1..m
    BY <2>1, <1>2 DEF Chain
  <2>2. CASE k = m + 1
    <3>1. k - 1 = m
      BY <2>2
    <3> QED BY <3>1, <2>2, <1>1
  <2> QED BY <2>1, <2>2
<1>4. Chain(w, m + 1)
  BY <1>1, <1>3 DEF Chain
<1> QED BY <1>1, <1>4
-----------------------------------------------------------------------------
\* The inductive invariant of paths.

\* A name was looked up before component k.
Moved(k) == \E j \in 1..k - 1 : IsName(j)

\* The type getattr gives x when nothing fails.
Guess(x) == IF x = Root \/ (~Unreadable(x) /\ Live(x) # <<>>) THEN "dir" ELSE "reg"
AttrOf(x) == IF StatKind(x) # "bad" THEN StatKind(x) ELSE Guess(x)

\* While a path is looked up: cur is the end of the chain along the components
\* before i, and where the next name would be looked up it is a directory.
OnChain ==
    pc = "walk" =>
      /\ Len(req.path) <= MaxPath /\ i \in 1..Len(req.path) + 1
      /\ \E v \in [0..i - 1 -> Tags] : Chain(v, i - 1) /\ v[i - 1] = cur
      /\ Fuse /\ i > 1 /\ i <= Len(req.path) => StatKind(cur) = "dir"
      /\ ~Fuse /\ isDir => faults = 0 /\ cur \in Dirs /\ (Moved(i) => StatKind(cur) = "dir")
      /\ ~Fuse /\ ~isDir => Moved(i) /\ (faults = 0 => StatKind(cur) # "dir")

\* What getattr answered is the type of what the path denotes.
AttrRight ==
    attr # "none" =>
      /\ Fuse /\ Len(req.path) <= MaxPath
      /\ faults = 0 => \E d \in Tags : Denoted = {d} /\ attr = AttrOf(d)

\* Before a path is looked up.
AtStart == pc = "start" /\ attr = "none" => cur = Root /\ faults = 0

\* A walk is the tool's, of a directory.
WalkOfTool == pc = "walking" => ~Fuse /\ req.op \in {"count", "scan"} /\ cur \in Dirs

\* An error without a fault says that the path denotes nothing.
ErrorsRight ==
    pc = "answered" /\ i <= Len(req.path) /\ answer \in {"ENOENT", "ENOTDIR", "EIO", "ENODATA"}
       /\ faults = 0 => Denoted = {}

PathInv ==
    /\ PathType /\ OnChain /\ AttrRight /\ AtStart /\ WalkOfTool
    /\ ErrorsRight /\ GetattrMatches

\* What a path denotes depends on the structure and the request only.
LEMMA Frame ==
    ASSUME tree' = tree, req' = req
    PROVE  /\ Denoted' = Denoted /\ Fuse' = Fuse
           /\ \A v, n : Chain(v, n)' = Chain(v, n)
           /\ \A x : StatKind(x)' = StatKind(x) /\ AttrOf(x)' = AttrOf(x)
           /\ \A k : Moved(k)' = Moved(k)
<1>1. Fuse' = Fuse
  BY DEF Fuse
<1>2. \A x : StatKind(x)' = StatKind(x) /\ Unreadable(x)' = Unreadable(x) /\ Read(x)' = Read(x)
  BY DEF StatKind, Read, Unreadable, Fuse
<1>3. \A x : Live(x)' = Live(x)
  BY <1>2 DEF Live
<1>4. \A k : IsName(k)' = IsName(k)
  BY DEF IsName, Fuse
<1>5. \A x, n, y : Leads(x, n, y)' = Leads(x, n, y)
  BY <1>2 DEF Leads
<1>6. \A v, n : Chain(v, n)' = Chain(v, n)
  BY <1>2, <1>4, <1>5 DEF Chain
<1>7. Denoted' = Denoted
  BY <1>6 DEF Denoted
<1>8. \A x : AttrOf(x)' = AttrOf(x)
  BY <1>2, <1>3 DEF AttrOf, Guess
<1>9. \A k : Moved(k)' = Moved(k)
  BY <1>4 DEF Moved
<1> QED BY <1>1, <1>2, <1>6, <1>7, <1>8, <1>9

\* At the end of the path cur is what it denotes.
LEMMA FoundDenoted ==
    ASSUME PathType, OnChain, Found
    PROVE  Denoted = {cur} /\ i = Len(req.path) + 1
<1>1. i = Len(req.path) + 1 /\ i - 1 = Len(req.path) /\ Len(req.path) \in Nat
  BY PathLen DEF OnChain, Found, PathType
<1>2. PICK v \in [0..i - 1 -> Tags] : Chain(v, i - 1) /\ v[i - 1] = cur
  BY DEF OnChain, Found
<1> QED BY <1>1, <1>2, ChainDenotes

\* If the path denotes something, the next name leads on, from a directory to
\* a directory unless the path ends there.
LEMMA DenotedNext ==
    ASSUME PathType, OnChain, pc = "walk", i <= Len(req.path), IsName(i), Denoted # {}
    PROVE  \E y \in Tags : /\ Leads(cur, req.path[i], y)
                           /\ Moved(i) => StatKind(cur) = "dir"
                           /\ i < Len(req.path) /\ IsName(i + 1) => StatKind(y) = "dir"
<1> DEFINE n == Len(req.path)
<1>1. n \in Nat /\ i - 1 \in 0..n /\ i \in 1..n
  BY PathLen DEF PathType
<1>2. PICK v \in [0..i - 1 -> Tags] : Chain(v, i - 1) /\ v[i - 1] = cur
  BY DEF OnChain
<1>3. PICK w \in [0..n -> Tags] : Chain(w, n) /\ w[i - 1] = cur
  BY <1>1, <1>2, DenotedPrefix
<1>4. Leads(cur, req.path[i], w[i]) /\ (Moved(i) => StatKind(cur) = "dir")
  BY <1>1, <1>3 DEF Chain, Moved
<1>5. ASSUME i < n, IsName(i + 1) PROVE StatKind(w[i]) = "dir"
  <2>1. i + 1 \in 1..n /\ (i + 1) - 1 = i /\ i \in 1..(i + 1) - 1
    BY <1>1, <1>5
  <2> QED BY <2>1, <1>3, <1>5 DEF Chain
<1>6. w[i] \in Tags
  BY <1>1
<1> QED BY <1>4, <1>5, <1>6

\* The chain goes on to what the next component leads to.
LEMMA NextOnChain ==
    ASSUME PathType, OnChain, pc = "walk", NEW x \in Tags,
           IF ~IsName(i) THEN x = cur
           ELSE /\ Leads(cur, req.path[i], x)
                /\ Moved(i) => StatKind(cur) = "dir"
    PROVE  \E w \in [0..i -> Tags] : Chain(w, i) /\ w[i] = x
<1>1. PICK v \in [0..i - 1 -> Tags] : Chain(v, i - 1) /\ v[i - 1] = cur
  BY DEF OnChain
<1>2. i - 1 \in Nat /\ (i - 1) + 1 = i
  BY DEF PathType
<1>3. \E w \in [0..(i - 1) + 1 -> Tags] : Chain(w, (i - 1) + 1) /\ w[(i - 1) + 1] = x
  BY <1>1, <1>2, ChainGrows DEF Moved
<1> QED BY <1>2, <1>3

\* An error of a lookup says that the path denotes nothing.
LEMMA LookupErrorRight ==
    ASSUME PathType, OnChain, pc = "walk", i <= Len(req.path), IsName(i),
           LookupError(req.path[i]) # {}
    PROVE  Denoted = {}
<1> SUFFICES ASSUME Denoted # {} PROVE FALSE
  OBVIOUS
<1>1. PICK y \in Tags : Leads(cur, req.path[i], y)
  BY DenotedNext
<1>2. ~Unreadable(cur)
  BY <1>1 DEF Leads
<1>3. y \in FirstNamed(cur, req.path[i])
  BY <1>1, <1>2, FirstLeads DEF PathType
<1> QED BY <1>2, <1>3 DEF LookupError

\* What a lookup without an error finds is what the name leads to.
LEMMA LookupRight ==
    ASSUME PathType, LookupError(req.path[i]) = {}, NEW x \in FirstNamed(cur, req.path[i])
    PROVE  Leads(cur, req.path[i], x) /\ x \in Tags
<1>1. ~Unreadable(cur)
  BY DEF LookupError
<1>2. Leads(cur, req.path[i], x)
  BY <1>1, FirstLeads DEF PathType
<1> QED BY <1>2, LeadsType DEF PathType

-----------------------------------------------------------------------------
\* The initial states.
LEMMA PathInitial == Init => PathInv
<1> SUFFICES ASSUME Init PROVE PathInv
  OBVIOUS
<1> USE DEF Init, NamespaceInit
<1>1. PathType
  BY NamespaceAssumption DEF PathType, Tags
<1>2. pc = "start" /\ attr = "none"
  OBVIOUS
<1> QED BY <1>1, <1>2 DEF PathInv, OnChain, AttrRight, AtStart, WalkOfTool, ErrorsRight, GetattrMatches

\* An answer, with what it says about the path.
LEMMA AnswerKeeps ==
    ASSUME PathInv, NEW a, Answered(a), faults' \in Nat,
           i <= Len(req.path) /\ a \in {"ENOENT", "ENOTDIR", "EIO", "ENODATA"} /\ faults' = 0
             => Denoted = {},
           faults' # 0 \/ faults' = faults,
           GetattrMatches'
    PROVE  PathInv'
<1>1. /\ tree' = tree /\ req' = req /\ pc' = "answered" /\ answer' = a
      /\ cur' = cur /\ isDir' = isDir /\ i' = i /\ attr' = attr
  BY DEF Answered
<1>2. PathType'
  BY <1>1 DEF PathInv, PathType
<1>3. AttrRight'
  BY <1>1, Frame DEF PathInv, AttrRight
<1>4. ErrorsRight'
  BY <1>1, Frame DEF ErrorsRight
<1> QED BY <1>1, <1>2, <1>3, <1>4 DEF PathInv, OnChain, AtStart, WalkOfTool

\* A path that denotes nothing was not given a type without a fault.
LEMMA AttrMeans ==
    ASSUME PathInv, attr # "none", faults = 0
    PROVE  \E d \in Tags : Denoted = {d} /\ attr = AttrOf(d)
BY DEF PathInv, AttrRight

\* So an answer that is right about a path that denotes nothing, and one after
\* a fault, keep the invariant.
LEMMA ErrorKeeps ==
    ASSUME PathInv, NEW a, Answered(a), faults' = faults, Denoted = {}
    PROVE  PathInv'
<1>1. faults' \in Nat
  BY DEF PathInv, PathType
<1>2. attr # "none" => faults # 0
  BY AttrMeans
<1>3. GetattrMatches'
  BY <1>2 DEF GetattrMatches, Answered
<1> QED BY <1>1, <1>3, AnswerKeeps

\* An answer after a fault promises nothing.
LEMMA FaultKeeps ==
    ASSUME PathInv, NEW a, Answered(a), Fault
    PROVE  PathInv'
<1>1. faults' \in Nat /\ faults' # 0
  BY DEF PathInv, PathType, Fault
<1>2. GetattrMatches'
  BY <1>1 DEF GetattrMatches
<1> QED BY <1>1, <1>2, AnswerKeeps

\* So does an answer at the end of the path that fits the type it was given.
LEMMA FoundKeeps ==
    ASSUME PathInv, Found, NEW a, Answered(a), faults' = faults,
           attr # "none" /\ faults = 0 /\ attr = AttrOf(cur) =>
             /\ req.op = "readdir" /\ attr = "dir" => a = "ok" \/ Unreadable(cur)
             /\ req.op = "readdir" /\ attr # "dir" /\ StatKind(cur) # "bad" => a = "ENOTDIR"
             /\ req.op = "readlink" /\ req.cap > 0 => (a = "ok" <=> attr = "lnk")
             /\ req.op = "open" /\ attr # "dir" => a = "ok"
    PROVE  PathInv'
<1>1. faults' \in Nat
  BY DEF PathInv, PathType
<1>2. Denoted = {cur} /\ ~(i <= Len(req.path))
  BY FoundDenoted, PathLen DEF PathInv
<1>3. attr # "none" /\ faults = 0 => attr = AttrOf(cur)
  BY <1>2, AttrMeans
<1>4. GetattrMatches'
  BY <1>3, Frame DEF GetattrMatches, Answered, Unreadable, StatKind
<1> QED BY <1>1, <1>2, <1>4, AnswerKeeps

-----------------------------------------------------------------------------
\* The actions on paths, one by one.

\* An operation refused before its path is looked up says nothing about it.
LEMMA RefuseKeeps ==
    ASSUME PathInv, Refuse
    PROVE  PathInv'
<1>1. PICK a \in Early : Answered(a)
  BY DEF Refuse
<1>2. faults' = faults /\ faults \in Nat
  BY DEF Refuse, PathInv, PathType
<1>3. a \in {"EROFS", "EINVAL", "ok", "ENAMETOOLONG"}
  BY DEF Early
<1>4. attr # "none" => Len(req.path) <= MaxPath
  BY DEF PathInv, AttrRight
<1>5. Len(req.path) \in Nat /\ MaxPath \in Nat
  BY PathLen, NamespaceAssumption DEF PathInv
<1>6. attr # "none" =>
        /\ req.op \notin {"readdir", "open"}
        /\ req.op = "readlink" => req.cap = 0
  BY <1>4, <1>5 DEF Early, Op
<1>7. req' = req /\ attr' = attr
  BY <1>1 DEF Answered
<1>8. GetattrMatches'
  BY <1>6, <1>7 DEF GetattrMatches
<1> QED BY <1>1, <1>2, <1>3, <1>8, AnswerKeeps

\* The lookup starts at the root, of which the empty chain leads.
LEMMA StartKeeps ==
    ASSUME PathInv, Start
    PROVE  PathInv'
<1> USE DEF Start
<1>1. PathType'
  BY NamespaceAssumption DEF PathInv, PathType, Tags
<1>2. Len(req.path) \in Nat /\ MaxPath \in Nat
  BY PathLen, NamespaceAssumption DEF PathInv
<1>3. Len(req.path) <= MaxPath
  <2> SUFFICES ASSUME Len(req.path) > MaxPath PROVE \E a : a \in Early
    BY <1>2
  <2> QED BY DEF Early
<1>4. OnChain'
  <2> DEFINE v == [k \in 0..0 |-> Root]
  <2>1. v \in [0..0 -> Tags] /\ v[0] = Root
    BY NamespaceAssumption DEF Tags
  <2>2. Chain(v, 0)
    BY <2>1 DEF Chain
  <2> HIDE DEF v
  <2>3. Chain(v, 0)'
    BY <2>2, Frame
  <2>4. i' = 1 /\ i' - 1 = 0 /\ ~Moved(i)'
    BY DEF Moved
  <2>5. ~Fuse' => faults' = 0
    BY DEF PathInv, AttrRight, AtStart, Fuse
  <2> QED BY <2>1, <2>3, <2>4, <2>5, <1>2, <1>3, NamespaceAssumption DEF OnChain
<1>5. AttrRight'
  BY Frame DEF PathInv, AttrRight
<1> QED BY <1>1, <1>4, <1>5 DEF PathInv, AtStart, WalkOfTool, ErrorsRight, GetattrMatches

\* The chain in the next state.
LEMMA ChainCarries ==
    ASSUME tree' = tree, req' = req, NEW m \in Nat, i' = m + 1, NEW x, cur' = x,
           \E w \in [0..m -> Tags] : Chain(w, m) /\ w[m] = x
    PROVE  (\E v \in [0..i - 1 -> Tags] : Chain(v, i - 1) /\ v[i - 1] = cur)'
<1>1. PICK w \in [0..m -> Tags] : Chain(w, m) /\ w[m] = x
  OBVIOUS
<1>2. Chain(w, m)'
  BY <1>1, Frame
<1>3. i' - 1 = m
  OBVIOUS
<1>4. Chain(w, i - 1)'
  BY <1>2, <1>3 DEF Chain
<1> QED BY <1>1, <1>3, <1>4

\* The mounted file system's lookup of one component.
LEMMA FuseComponentKeeps ==
    ASSUME PathInv, FuseComponent
    PROVE  PathInv'
<1>1. /\ Fuse /\ pc = "walk" /\ i <= Len(req.path) /\ faults' = faults
      /\ \/ \E a \in LookupError(req.path[i]) : Answered(a)
         \/ /\ LookupError(req.path[i]) = {}
            /\ \E x \in FirstNamed(cur, req.path[i]) :
                 IF i < Len(req.path) /\ StatKind(x) # "dir"
                 THEN Answered(IF StatKind(x) = "bad" THEN "ENODATA" ELSE "ENOTDIR")
                 ELSE cur' = x /\ i' = i + 1 /\ UNCHANGED <<tree, req, pc, isDir, attr, answer>>
  BY DEF FuseComponent
<1>2. IsName(i) /\ IsName(i + 1)
  BY <1>1 DEF IsName
<1>3. CASE \E a \in LookupError(req.path[i]) : Answered(a)
  <2>1. Denoted = {}
    BY <1>1, <1>2, <1>3, LookupErrorRight DEF PathInv
  <2> QED BY <1>1, <1>3, <2>1, ErrorKeeps
<1>4. ASSUME LookupError(req.path[i]) = {}, NEW x \in FirstNamed(cur, req.path[i]),
             i < Len(req.path), StatKind(x) # "dir",
             Answered(IF StatKind(x) = "bad" THEN "ENODATA" ELSE "ENOTDIR")
      PROVE  PathInv'
  <2>1. Leads(cur, req.path[i], x)
    BY <1>4, LookupRight DEF PathInv
  <2>2. Denoted = {}
    <3> SUFFICES ASSUME Denoted # {} PROVE FALSE
      OBVIOUS
    <3>1. PICK y \in Tags : Leads(cur, req.path[i], y) /\ StatKind(y) = "dir"
      BY <1>1, <1>2, <1>4, DenotedNext DEF PathInv
    <3>2. x = y
      BY <2>1, <3>1, LeadsUnique DEF PathInv, PathType
    <3> QED BY <3>1, <3>2, <1>4
  <2> QED BY <1>1, <1>4, <2>2, ErrorKeeps
<1>5. ASSUME LookupError(req.path[i]) = {}, NEW x \in FirstNamed(cur, req.path[i]),
             ~(i < Len(req.path) /\ StatKind(x) # "dir"),
             cur' = x, i' = i + 1, UNCHANGED <<tree, req, pc, isDir, attr, answer>>
      PROVE  PathInv'
  <2>1. Leads(cur, req.path[i], x) /\ x \in Tags
    BY <1>5, LookupRight DEF PathInv
  <2>2. PathType'
    BY <1>1, <1>5, <2>1 DEF PathInv, PathType
  <2>3. Moved(i) => StatKind(cur) = "dir"
    BY <1>1, PathLen DEF Moved, PathInv, OnChain, PathType
  <2>4. PICK w \in [0..i -> Tags] : Chain(w, i) /\ w[i] = x
    BY <1>1, <1>2, <2>1, <2>3, NextOnChain DEF PathInv
  <2>5. i' - 1 = i /\ i' \in 1..Len(req.path) + 1
    BY <1>1, <1>5, PathLen DEF PathInv, PathType
  <2>6. OnChain'
    <3>1. (\E v \in [0..i - 1 -> Tags] : Chain(v, i - 1) /\ v[i - 1] = cur)'
      <4>1. PICK m : m = i
        OBVIOUS
      <4>2. m \in Nat
        BY <4>1 DEF PathInv, PathType
      <4> QED BY <1>5, <2>4, <4>1, <4>2, ChainCarries
    <3>2. Fuse' /\ StatKind(x)' = StatKind(x)
      BY <1>1, <1>5, Frame
    <3>3. i' <= Len(req'.path) => StatKind(cur)' = "dir"
      <4>1. i' <= Len(req.path) => i < Len(req.path)
        BY <1>5, PathLen DEF PathInv, PathType
      <4> QED BY <4>1, <1>5, <3>2 DEF StatKind
    <3> QED BY <1>1, <1>5, <2>5, <3>1, <3>2, <3>3 DEF OnChain, PathInv
  <2>7. AttrRight'
    BY <1>1, <1>5, Frame DEF PathInv, AttrRight
  <2> QED BY <1>1, <1>5, <2>2, <2>6, <2>7 DEF PathInv, AtStart, WalkOfTool, ErrorsRight, GetattrMatches
<1> QED BY <1>1, <1>3, <1>4, <1>5

\* An advance of the tool by one component, to x, known or not known to be a
\* directory.
LEMMA ToolAdvances ==
    ASSUME PathInv, ~Fuse, pc = "walk", i <= Len(req.path), NEW x \in Tags,
           IF ~IsName(i) THEN x = cur /\ isDir' = isDir
           ELSE /\ isDir /\ Leads(cur, req.path[i], x)
                /\ isDir' \in BOOLEAN /\ (isDir' => StatKind(x) = "dir")
                /\ (faults' = 0 /\ ~isDir' => StatKind(x) # "dir"),
           cur' = x, i' = i + 1, faults' \in Nat, faults' = 0 => faults = 0,
           isDir' => faults' = faults,
           UNCHANGED <<tree, req, pc, attr, answer>>
    PROVE  PathInv'
<1>1. PathType'
  BY DEF PathInv, PathType
<1>2. IsName(i) /\ Moved(i) => StatKind(cur) = "dir"
  BY DEF PathInv, OnChain
<1>3. \E w \in [0..i -> Tags] : Chain(w, i) /\ w[i] = x
  BY <1>2, NextOnChain DEF PathInv
<1>4. PICK m : m = i
  OBVIOUS
<1>5. m \in Nat \ {0} /\ i' = m + 1 /\ (m + 1) - 1 = m
  BY <1>4 DEF PathInv, PathType
<1>6. (\E v \in [0..i - 1 -> Tags] : Chain(v, i - 1) /\ v[i - 1] = cur)'
  BY <1>3, <1>4, <1>5, ChainCarries
<1>7. Moved(i)' <=> Moved(m) \/ IsName(m)
  <2>1. Moved(m + 1)' = Moved(m + 1)
    BY Frame
  <2>2. Moved(i)' = Moved(m + 1)'
    BY <1>5 DEF Moved
  <2>3. 1..(m + 1) - 1 = (1..m - 1) \cup {m}
    BY <1>5
  <2> QED BY <2>1, <2>2, <2>3 DEF Moved
<1>8. Fuse' = Fuse /\ StatKind(cur)' = StatKind(x)
  BY Frame DEF StatKind
<1>9. i' \in 1..Len(req'.path) + 1
  BY <1>4, <1>5, PathLen DEF PathInv
<1>10. StatKind(x) = "dir" => x \in Dirs
  BY DEF StatKind, Tags, Kinds
<1>11. OnChain'
  <2>1. isDir' => faults' = 0 /\ cur' \in Dirs /\ (Moved(i)' => StatKind(cur)' = "dir")
    BY <1>4, <1>7, <1>8, <1>10 DEF PathInv, OnChain
  <2>2. ~isDir' => Moved(i)' /\ (faults' = 0 => StatKind(cur)' # "dir")
    BY <1>4, <1>7, <1>8 DEF PathInv, OnChain
  <2> QED BY <1>6, <1>8, <1>9, <2>1, <2>2 DEF OnChain, PathInv
<1>12. AttrRight'
  BY Frame DEF PathInv, AttrRight
<1> QED BY <1>1, <1>11, <1>12 DEF PathInv, AtStart, WalkOfTool, ErrorsRight, GetattrMatches

\* The tool's lookup of one component, "." included.
LEMMA ToolComponentKeeps ==
    ASSUME PathInv, ToolComponent
    PROVE  PathInv'
<1> DEFINE n == req.path[i]
<1>1. /\ ~Fuse /\ pc = "walk" /\ i <= Len(req.path) /\ faults' = faults
      /\ IF n = "." THEN i' = i + 1 /\ UNCHANGED <<tree, req, pc, cur, isDir, attr, answer>>
         ELSE IF ~isDir THEN Answered("ENOTDIR")
         ELSE \/ \E a \in LookupError(n) : Answered(a)
              \/ /\ LookupError(n) = {}
                 /\ \E x \in FirstNamed(cur, n) : cur' = x /\ isDir' = (StatKind(x) = "dir")
                 /\ i' = i + 1 /\ UNCHANGED <<tree, req, pc, attr, answer>>
  BY DEF ToolComponent
<1>2. IsName(i) <=> n # "."
  BY <1>1 DEF IsName
<1>3. faults' \in Nat /\ cur \in Tags
  BY <1>1 DEF PathInv, PathType
<1>4. CASE n = "."
  BY <1>1, <1>2, <1>3, <1>4, ToolAdvances
<1>5. CASE n # "." /\ ~isDir
  <2>1. Denoted = {} \/ faults # 0
    <3> SUFFICES ASSUME Denoted # {}, faults = 0 PROVE FALSE
      OBVIOUS
    <3>1. Moved(i) /\ StatKind(cur) # "dir"
      BY <1>1, <1>5 DEF PathInv, OnChain
    <3>2. Moved(i) => StatKind(cur) = "dir"
      BY <1>1, <1>2, <1>5, DenotedNext DEF PathInv
    <3> QED BY <3>1, <3>2
  <2>2. CASE Denoted = {}
    BY <1>1, <1>5, <2>2, ErrorKeeps
  <2>3. CASE faults # 0
    <3>1. GetattrMatches'
      BY <1>1, <2>3 DEF GetattrMatches
    <3> QED BY <1>1, <1>3, <1>5, <2>3, <3>1, AnswerKeeps
  <2> QED BY <2>1, <2>2, <2>3
<1>6. CASE n # "." /\ isDir /\ \E a \in LookupError(n) : Answered(a)
  <2>1. Denoted = {}
    BY <1>1, <1>2, <1>6, LookupErrorRight DEF PathInv
  <2> QED BY <1>1, <1>6, <2>1, ErrorKeeps
<1>7. ASSUME n # ".", isDir, LookupError(n) = {}, NEW x \in FirstNamed(cur, n),
             cur' = x, isDir' = (StatKind(x) = "dir"), i' = i + 1,
             UNCHANGED <<tree, req, pc, attr, answer>>
      PROVE  PathInv'
  <2>1. Leads(cur, n, x) /\ x \in Tags
    BY <1>7, LookupRight DEF PathInv
  <2>2. isDir' \in BOOLEAN /\ (isDir' <=> StatKind(x) = "dir")
    BY <1>7
  <2> QED BY <1>1, <1>2, <1>3, <1>7, <2>1, <2>2, ToolAdvances
<1> QED BY <1>1, <1>4, <1>5, <1>6, <1>7

\* Faults below a lookup and below the tool's stat.
LEMMA ComponentFaultsKeep ==
    ASSUME PathInv, ComponentFails \/ StatFails
    PROVE  PathInv'
<1>1. CASE ComponentFails
  BY <1>1, FaultKeeps DEF ComponentFails
<1>2. CASE StatFails
  <2>1. /\ ~Fuse /\ pc = "walk" /\ i <= Len(req.path) /\ req.path[i] # "." /\ isDir
        /\ LookupError(req.path[i]) = {}
        /\ cur' \in FirstNamed(cur, req.path[i]) /\ isDir' = FALSE /\ i' = i + 1
        /\ faults' = faults + 1
        /\ UNCHANGED <<tree, req, pc, attr, rows, answer>>
    BY <1>2 DEF StatFails, Fault
  <2>2. PICK x \in FirstNamed(cur, req.path[i]) : cur' = x
    BY <2>1
  <2>3. Leads(cur, req.path[i], x) /\ x \in Tags
    BY <2>1, <2>2, LookupRight DEF PathInv
  <2>4. faults' \in Nat /\ faults' # 0
    BY <2>1 DEF PathInv, PathType
  <2>5. IsName(i)
    BY <2>1 DEF IsName
  <2> QED BY <2>1, <2>2, <2>3, <2>4, <2>5, ToolAdvances
<1> QED BY <1>1, <1>2

\* getattr: the answer is the type of what the path denotes.
LEMMA GetattrKeeps ==
    ASSUME PathInv, Getattr \/ GetattrFails
    PROVE  PathInv'
<1>1. PICK k : Got(k) /\ k \in {StatKind(cur), Synthesized, "reg"}
  BY DEF Getattr, GetattrFails
<1>2. k \in {"dir"} \cup Kinds
  BY <1>1 DEF StatKind, Synthesized, Kinds, PathInv, PathType, Tags
<1>3. /\ pc' = "start" /\ attr' = k /\ Found /\ Op = "getattr"
      /\ UNCHANGED <<tree, req, cur, isDir, i, rows, answer>>
  BY <1>1 DEF Got
<1>4. faults' \in Nat
  BY DEF PathInv, PathType, Getattr, GetattrFails, Fault
<1>5. PathType'
  BY <1>2, <1>3, <1>4 DEF PathInv, PathType
<1>6. Fuse
  BY <1>3 DEF Op, PathInv, PathType, Requests
<1>7. Len(req.path) <= MaxPath /\ Denoted = {cur} /\ cur \in Tags
  BY <1>3, FoundDenoted DEF PathInv, OnChain, Found, PathType
<1>8. faults' = 0 => attr' = AttrOf(cur)
  <2>1. faults' = 0 => Getattr
    BY DEF GetattrFails, Fault, PathInv, PathType
  <2> QED BY <2>1 DEF Getattr, Got, AttrOf, Guess, Synthesized
<1>9. AttrRight'
  <2>1. Denoted' = {cur} /\ AttrOf(cur)' = AttrOf(cur)
    BY <1>3, <1>7, Frame DEF AttrOf, Guess, StatKind, Unreadable, Live, Read, Fuse
  <2>2. PICK d \in Tags : d = cur
    BY <1>7
  <2>3. AttrOf(d)' = AttrOf(d) /\ Fuse'
    BY <1>3, <1>6, Frame
  <2> QED BY <1>3, <1>7, <1>8, <2>1, <2>2, <2>3 DEF AttrRight
<1> QED BY <1>2, <1>3, <1>5, <1>9 DEF Kinds, PathInv, OnChain, AtStart, WalkOfTool, ErrorsRight, GetattrMatches

\* readdir, open, readlink: each answers what the type promised.
LEMMA OperationsKeep ==
    ASSUME PathInv, Readdir \/ Open \/ Readlink
    PROVE  PathInv'
<1>0. StatKind(cur) \in {"dir"} \cup Kinds /\ Guess(cur) \in {"dir", "reg"}
  BY DEF StatKind, Guess, Kinds, PathInv, PathType, Tags
<1>1. CASE Readdir
  <2>1. PICK a \in {"ENOTDIR", "EIO", "ok"} :
          /\ Answered(a) /\ Found /\ Op = "readdir" /\ faults' = faults
          /\ a = "ENOTDIR" <=> StatKind(cur) \notin {"bad", "dir"}
          /\ a = "EIO" => Unreadable(cur)
    BY <1>1 DEF Readdir
  <2>2. attr # "none" => req.op = "readdir"
    BY <2>1 DEF Op
  <2> QED BY <1>0, <2>1, <2>2, FoundKeeps DEF AttrOf
<1>2. CASE Open
  <2>1. PICK a : /\ Answered(a) /\ Found /\ Op = "open" /\ faults' = faults
                 /\ a = IF StatKind(cur) = "dir" THEN "EISDIR" ELSE "ok"
    BY <1>2 DEF Open
  <2>2. attr # "none" => req.op = "open"
    BY <2>1 DEF Op
  <2> QED BY <1>0, <2>1, <2>2, FoundKeeps DEF AttrOf
<1>3. CASE Readlink
  <2>1. PICK a : /\ Answered(a) /\ Found /\ Op = "readlink" /\ faults' = faults
                 /\ a = IF StatKind(cur) = "bad" THEN "ENODATA"
                        ELSE IF StatKind(cur) # "lnk" THEN "EINVAL" ELSE "ok"
    BY <1>3 DEF Readlink
  <2>2. attr # "none" => req.op = "readlink"
    BY <2>1 DEF Op
  <2> QED BY <1>0, <2>1, <2>2, FoundKeeps DEF AttrOf
<1> QED BY <1>1, <1>2, <1>3

\* The tool's answers, and those of an operation that met a fault.
LEMMA OtherAnswersKeep ==
    ASSUME PathInv, OpFails \/ List \/ ListFails \/ NotDirectory
    PROVE  PathInv'
<1>1. CASE OpFails \/ ListFails
  BY <1>1, FaultKeeps DEF OpFails, ListFails
<1>2. CASE List \/ NotDirectory
  <2>1. PICK a : Answered(a) /\ Found /\ faults' = faults /\ Op \in {"list", "count"}
    <3>1. CASE List
      BY <3>1 DEF List
    <3>2. CASE NotDirectory
      BY <3>2 DEF NotDirectory, Op, PathInv, PathType, Requests, Fuse
    <3> QED BY <1>2, <3>1, <3>2
  <2>2. attr # "none" => req.op \in {"list", "count"}
    BY <2>1 DEF Op
  <2> QED BY <2>1, <2>2, FoundKeeps
<1> QED BY <1>1, <1>2

\* A walk begins at what the path led to, and leaves the path alone.
LEMMA BeginKeeps ==
    ASSUME PathInv, Begin
    PROVE  PathInv'
<1>1. /\ pc' = "walking"
      /\ UNCHANGED <<tree, req, cur, isDir, i, attr, rows, answer, faults>>
  BY DEF Begin
<1>2. ~Fuse /\ req.op \in {"count", "scan"}
  BY DEF Begin, Scan, PathInv, PathType, Requests, Fuse
<1>3. PathType'
  BY <1>1 DEF PathInv, PathType
<1>4. AttrRight'
  BY <1>1, Frame DEF PathInv, AttrRight
<1>5. cur \in Dirs
  BY <1>2, NamespaceAssumption DEF Begin, Found, Scan, PathInv, OnChain, AtStart, AttrRight
<1>6. WalkOfTool'
  BY <1>1, <1>2, <1>5 DEF WalkOfTool, Fuse
<1> QED BY <1>1, <1>3, <1>4, <1>6 DEF PathInv, OnChain, AtStart, WalkOfTool, ErrorsRight, GetattrMatches

\* The steps of a walk do not touch the path, and only add faults.
LEMMA WalkFrame ==
    ASSUME Walk
    PROVE  /\ pc = "walking" /\ UNCHANGED <<tree, req, cur, isDir, i, attr, rows, answer, pc>>
           /\ faults' \in {faults, faults + 1}
<1> USE DEF Walking, At, Fault
<1>1. ASSUME NEW x \in Dirs, CallRefused(x) \/ CallFails(x) \/ Call(x)
      PROVE  /\ Walking /\ pc' = pc /\ faults' \in {faults, faults + 1}
  BY <1>1 DEF CallRefused, CallFails, Call
<1>2. ASSUME NEW e, Pass(e) \/ Row(e) \/ Descend(e) \/ PathTooLong(e) \/ Count(e) \/ EntryFails(e)
      PROVE  /\ Walking /\ pc' = pc /\ faults' \in {faults, faults + 1}
  BY <1>2 DEF Pass, Row, Descend, PathTooLong, Count, EntryFails
<1>3. CASE EndLoop
  BY <1>3 DEF EndLoop
<1> QED BY <1>1, <1>2, <1>3 DEF Walk

\* A walk leaves the path as it was found, and its report answers it.
LEMMA WalkKeeps ==
    ASSUME PathInv, Walk \/ Report
    PROVE  PathInv'
<1>1. CASE Walk
  <2>1. /\ pc = "walking" /\ UNCHANGED <<tree, req, cur, isDir, i, attr, rows, answer, pc>>
        /\ faults' \in {faults, faults + 1}
    BY <1>1, WalkFrame
  <2>2. PathType'
    BY <2>1 DEF PathInv, PathType
  <2>3. AttrRight'
    BY <2>1, Frame DEF PathInv, AttrRight, PathType
  <2>4. WalkOfTool'
    BY <2>1 DEF PathInv, WalkOfTool, Fuse
  <2> QED BY <2>1, <2>2, <2>3, <2>4 DEF PathInv, OnChain, AtStart, ErrorsRight, GetattrMatches
<1>2. CASE Report
  <2>1. pc = "walking" /\ Answered("ok") /\ faults' = faults
    BY <1>2 DEF Report
  <2>2. req.op \in {"count", "scan"} /\ faults' \in Nat /\ req' = req
    BY <2>1 DEF PathInv, WalkOfTool, PathType, Answered
  <2>3. GetattrMatches'
    BY <2>2 DEF GetattrMatches
  <2> QED BY <2>1, <2>2, <2>3, AnswerKeeps
<1> QED BY <1>1, <1>2

\* Every step keeps the invariant of paths.
LEMMA PathStep1 ==
    PathInv /\ [Next]_vars => PathInv'
<1> SUFFICES ASSUME PathInv, [Next]_vars PROVE PathInv'
  OBVIOUS
<1>1. CASE Finished \/ UNCHANGED vars
  <2>1. UNCHANGED pathVars
    BY <1>1 DEF Finished, vars
  <2>2. UNCHANGED <<tree, req, pc, cur, isDir, i, attr, rows, answer, faults>>
    BY <2>1 DEF pathVars
  <2>3. PathType' /\ WalkOfTool' /\ AtStart'
    BY <2>2 DEF PathInv, PathType, WalkOfTool, AtStart, Fuse
  <2>4. AttrRight' /\ ErrorsRight'
    BY <2>2, Frame DEF PathInv, AttrRight, ErrorsRight
  <2>5. GetattrMatches'
    BY <2>2, Frame DEF PathInv, GetattrMatches, Unreadable, StatKind
  <2>6. OnChain'
    <3> SUFFICES ASSUME pc = "walk" PROVE OnChain'
      BY <2>2 DEF OnChain
    <3>1. PICK m : m = i - 1
      OBVIOUS
    <3>2. PICK x : x = cur
      OBVIOUS
    <3>3. m \in Nat /\ i' = m + 1 /\ cur' = x
      BY <2>2, <3>1, <3>2 DEF PathInv, PathType
    <3>4. \E w \in [0..m -> Tags] : Chain(w, m) /\ w[m] = x
      BY <3>1, <3>2 DEF PathInv, OnChain
    <3>5. (\E v \in [0..i - 1 -> Tags] : Chain(v, i - 1) /\ v[i - 1] = cur)'
      BY <2>2, <3>3, <3>4, ChainCarries
    <3>6. Moved(i)' = Moved(i) /\ StatKind(cur)' = StatKind(cur) /\ Fuse' = Fuse
      BY <2>2 DEF Moved, IsName, StatKind, Fuse
    <3> QED BY <2>2, <3>5, <3>6 DEF PathInv, OnChain
  <2> QED BY <2>3, <2>4, <2>5, <2>6 DEF PathInv
<1>2. CASE PathStep
  BY <1>2, RefuseKeeps, StartKeeps, FuseComponentKeeps, ToolComponentKeeps, ComponentFaultsKeep,
     GetattrKeeps, OperationsKeep, OtherAnswersKeep DEF PathStep
<1>3. CASE Begin \/ NotDirectory \/ Walk \/ Report
  BY <1>3, BeginKeeps, OtherAnswersKeep, WalkKeeps
<1> QED BY <1>1, <1>2, <1>3 DEF Next

\* At every point of a lookup the object reached is the end of the one chain
\* that the components before it name, and what getattr answered was its type.
THEOREM PathsAlways == Spec => []PathInv
<1> QED BY PathInitial, PathStep1, PTL DEF Spec

\* Both programs resolve a path to the one object it denotes.
THEOREM ResolvesRightAlways == Spec => []ResolvesRight
<1>1. PathInv => ResolvesRight
  BY FoundDenoted DEF PathInv, ResolvesRight, ErrorsRight
<1> QED BY <1>1, PathsAlways, PTL

\* An operation never contradicts the getattr before it, also where getattr made
\* the type up because FS_STAT was missing.
THEOREM GetattrMatchesAlways == Spec => []GetattrMatches
<1>1. PathInv => GetattrMatches
  BY DEF PathInv
<1> QED BY <1>1, PathsAlways, PTL

-----------------------------------------------------------------------------
\* Listings.

\* f[k] holds the live ones among the first k entries of s.
LiveUpto(f, s) ==
    /\ f \in [0..Len(s) -> Seq(Entry)] /\ f[0] = <<>>
    /\ \A k \in 1..Len(s) : f[k] = IF s[k].dead THEN f[k - 1] ELSE Append(f[k - 1], s[k])

\* Live drops the deleted entries one by one.
LEMMA LiveIs ==
    ASSUME PathType, NEW x \in Tags
    PROVE  \E f : LiveUpto(f, Read(x)) /\ Live(x) = f[Len(Read(x))]
<1> DEFINE s == Read(x)
           N == Len(s)
           B(g, k) == IF k = 0 THEN <<>> ELSE IF s[k].dead THEN g[k - 1] ELSE Append(g[k - 1], s[k])
           h == CHOOSE g : g = [k \in 0..N |-> B(g, k)]
           X == Seq(Entry)
<1>1. N \in Nat /\ \A k \in 1..N : s[k] \in Entry
  BY ReadType
<1>2. Live(x) = h[N]
  BY Zenon DEF Live
<1>3. \E g \in [0..N -> X] : g[0] = <<>> /\ \A k \in 1..N : g[k] = B(g, k)
  <2> DEFINE F == [p \in Nat \X X |-> IF p[1] \in 1..N /\ ~s[p[1]].dead THEN Append(p[2], s[p[1]])
                                      ELSE p[2]]
  <2>1. F \in [Nat \X X -> X]
    <3> HIDE DEF s
    <3>1. ASSUME NEW k \in Nat, NEW q \in X PROVE k \in 1..N => Append(q, s[k]) \in X
      BY <1>1
    <3> QED BY <3>1
  <2>2. <<>> \in X
    OBVIOUS
  <2>3. \A k \in 1..N, q \in X : F[<<k, q>>] = IF s[k].dead THEN q ELSE Append(q, s[k])
    BY <1>1
  <2> HIDE DEF F, X, N
  <2>4. PICK g \in [0..N -> X] : g[0] = <<>> /\ \A k \in 1..N : g[k] = F[<<k, g[k - 1]>>]
    <3>1. PICK e \in X : e = <<>>
      BY <2>2
    <3>2. N \in Nat
      BY <1>1
    <3>3. \E g : IsRounds(g, N, X, e, F)
      BY <2>1, <3>2, Rounds
    <3> QED BY <3>1, <3>3 DEF IsRounds
  <2>5. ASSUME NEW k \in 1..N PROVE g[k] = B(g, k)
    <3>1. k - 1 \in 0..N /\ k # 0
      BY <1>1
    <3>2. g[k - 1] \in X
      BY <3>1
    <3> HIDE DEF s
    <3> QED BY <2>3, <2>4, <3>1, <3>2
  <2> QED BY <2>4, <2>5
<1>4. PICK g \in [0..N -> X] : g[0] = <<>> /\ \A k \in 1..N : g[k] = B(g, k)
  BY <1>3
<1>5. g = [k \in 0..N |-> B(g, k)]
  <2>1. \A k \in 0..N : g[k] = B(g, k)
    <3>1. g[0] = B(g, 0)
      BY <1>4
    <3>2. 0..N = {0} \cup 1..N
      BY <1>1
    <3> HIDE DEF B
    <3> QED BY <1>4, <3>1, <3>2
  <2>2. g = [k \in 0..N |-> g[k]]
    OBVIOUS
  <2> HIDE DEF B
  <2> QED BY <2>1, <2>2
<1>6. h = [k \in 0..N |-> B(h, k)]
  <2> HIDE DEF B
  <2> QED BY <1>5
<1>7. \A k \in 0..N : h[k] = B(h, k)
  <2> HIDE DEF h, B
  <2> QED BY <1>6
<1>8. h = g
  <2> DEFINE S == {k \in Nat : k <= N => h[k] = g[k]}
  <2> HIDE DEF h, s
  <2>1. 0 \in S
    BY <1>1, <1>4, <1>7
  <2>2. ASSUME NEW k \in Nat, k \in S PROVE k + 1 \in S
    <3> SUFFICES ASSUME k + 1 <= N PROVE h[k + 1] = g[k + 1]
      OBVIOUS
    <3>1. k + 1 \in 1..N /\ k + 1 \in 0..N /\ (k + 1) - 1 = k /\ h[k] = g[k] /\ k + 1 # 0
      BY <1>1, <2>2
    <3>2. h[k + 1] = B(h, k + 1) /\ g[k + 1] = B(g, k + 1)
      BY <3>1, <1>4, <1>7
    <3> QED BY <3>1, <3>2
  <2>3. \A k \in 0..N : h[k] = g[k]
    <3>1. \A k \in Nat : k \in S
      <4> HIDE DEF S
      <4> QED BY <2>1, <2>2, NatInd
    <3> QED BY <1>1, <3>1
  <2>4. h = [k \in 0..N |-> h[k]] /\ g = [k \in 0..N |-> g[k]]
    <3>1. g = [k \in 0..N |-> g[k]]
      OBVIOUS
    <3>2. h = [k \in 0..N |-> h[k]]
      <4> HIDE DEF B
      <4> QED BY <1>6
    <3> QED BY <3>1, <3>2
  <2> QED BY <2>3, <2>4
<1>9. LiveUpto(g, s)
  <2>1. \A k \in 1..N : k # 0
    BY <1>1
  <2> QED BY <1>4, <2>1 DEF LiveUpto
<1> HIDE DEF h, s
<1> QED BY <1>2, <1>8, <1>9 DEF s

\* Positions of the entries of q called n; how often n is among the names q, and
\* among the names of the live entries of s.
Called(q, n) == {j \in 1..Len(q) : q[j].name = n}
Often(q, n) == Cardinality({k \in 1..Len(q) : q[k] = n})
OftenLive(s, n) == Cardinality({k \in 1..Len(s) : s[k].name = n /\ ~s[k].dead})

\* Among the live entries a name comes as often as it is a live entry's name.
LEMMA LiveCount ==
    ASSUME NEW s \in Seq(Entry), NEW f, LiveUpto(f, s), NEW n
    PROVE  Cardinality(Called(f[Len(s)], n)) = OftenLive(s, n)
<1> DEFINE N == Len(s)
           A(k) == Called(f[k], n)
           B(k) == {j \in 1..k : s[j].name = n /\ ~s[j].dead}
           S == {k \in Nat : k <= N => IsFiniteSet(A(k)) /\ IsFiniteSet(B(k))
                                        /\ Cardinality(A(k)) = Cardinality(B(k))}
<1>1. N \in Nat
  OBVIOUS
<1>2. \A k \in 0..N : f[k] \in Seq(Entry)
  BY DEF LiveUpto
<1>3. 0 \in S
  <2>1. A(0) = {} /\ B(0) = {}
    BY DEF LiveUpto, Called
  <2> QED BY <2>1, FS_EmptySet
<1>4. ASSUME NEW k \in Nat, k \in S PROVE k + 1 \in S
  <2> SUFFICES ASSUME k + 1 <= N
               PROVE  /\ IsFiniteSet(A(k + 1)) /\ IsFiniteSet(B(k + 1))
                      /\ Cardinality(A(k + 1)) = Cardinality(B(k + 1))
    OBVIOUS
  <2>1. k + 1 \in 1..N /\ (k + 1) - 1 = k /\ k \in 0..N /\ k <= N
    BY <1>1
  <2>2. IsFiniteSet(A(k)) /\ IsFiniteSet(B(k)) /\ Cardinality(A(k)) = Cardinality(B(k))
    BY <1>4, <2>1
  <2>3. f[k + 1] = IF s[k + 1].dead THEN f[k] ELSE Append(f[k], s[k + 1])
    BY <2>1 DEF LiveUpto
  <2>4. 1..k + 1 = (1..k) \cup {k + 1} /\ k + 1 \notin 1..k
    OBVIOUS
  <2>5. B(k + 1) = IF s[k + 1].name = n /\ ~s[k + 1].dead THEN B(k) \cup {k + 1} ELSE B(k)
    BY <2>4
  <2>6. k + 1 \notin B(k)
    BY <2>4
  <2>7. CASE s[k + 1].dead
    BY <2>2, <2>3, <2>5, <2>7
  <2>8. CASE ~s[k + 1].dead
    <3> DEFINE m == Len(f[k]) + 1
    <3>1. f[k] \in Seq(Entry) /\ Len(f[k]) \in Nat /\ s[k + 1] \in Entry
      BY <1>2, <2>1
    <3>2. /\ Len(f[k + 1]) = m /\ f[k + 1][m] = s[k + 1]
          /\ \A j \in 1..Len(f[k]) : f[k + 1][j] = f[k][j]
      BY <2>3, <2>8, <3>1
    <3>3. 1..m = (1..Len(f[k])) \cup {m} /\ m \notin 1..Len(f[k])
      BY <3>1
    <3>4. A(k + 1) = (IF s[k + 1].name = n THEN A(k) \cup {m} ELSE A(k)) /\ m \notin A(k)
      <4> HIDE DEF m
      <4> QED BY <3>2, <3>3 DEF Called
    <3> HIDE DEF A, B, m
    <3>5. CASE s[k + 1].name = n
      <4>1. A(k + 1) = A(k) \cup {m} /\ B(k + 1) = B(k) \cup {k + 1}
        BY <2>5, <2>8, <3>4, <3>5
      <4>2. IsFiniteSet(A(k) \cup {m}) /\ Cardinality(A(k) \cup {m}) = Cardinality(A(k)) + 1
        BY <2>2, <3>4, FS_AddElement
      <4>3. IsFiniteSet(B(k) \cup {k + 1}) /\ Cardinality(B(k) \cup {k + 1}) = Cardinality(B(k)) + 1
        BY <2>2, <2>6, FS_AddElement
      <4> QED BY <2>2, <4>1, <4>2, <4>3
    <3>6. CASE s[k + 1].name # n
      BY <2>2, <2>5, <3>4, <3>6
    <3> QED BY <3>5, <3>6
  <2> QED BY <2>7, <2>8
<1>5. N \in S
  <2> HIDE DEF S
  <2> QED BY <1>1, <1>3, <1>4, NatInd
<1> QED BY <1>1, <1>5 DEF OftenLive

\* readdir supplies the dot entries that are not among the names.
LEMMA DotsIs ==
    ASSUME NEW Z, "." \in Z, ".." \in Z, NEW q \in Seq(Z)
    PROVE  /\ Dots(q) \in Seq(Z)
           /\ \A n : Often(Dots(q), n) =
                IF n \in {".", ".."} /\ (\A k \in 1..Len(q) : q[k] # n) THEN 1 ELSE 0
<1> DEFINE a == \E k \in 1..Len(q) : q[k] = "."
           b == \E k \in 1..Len(q) : q[k] = ".."
           D(n) == {j \in 1..Len(Dots(q)) : Dots(q)[j] = n}
<1>1. Dots(q) = (IF a THEN <<>> ELSE <<".">>) \o (IF b THEN <<>> ELSE <<"..">>)
  BY DEF Dots
<1>2. /\ a /\ b => Dots(q) = <<>>
      /\ a /\ ~b => Dots(q) = <<"..">>
      /\ ~a /\ b => Dots(q) = <<".">>
      /\ ~a /\ ~b => Dots(q) = <<".">> \o <<"..">>
  <2>1. <<>> \o <<>> = <<>> /\ <<>> \o <<"..">> = <<"..">> /\ <<".">> \o <<>> = <<".">>
    OBVIOUS
  <2> HIDE DEF a, b
  <2> QED BY <1>1, <2>1
<1>3. ASSUME NEW n
      PROVE  \/ D(n) = {} /\ ~(n = "." /\ ~a) /\ ~(n = ".." /\ ~b)
             \/ (\E j : D(n) = {j}) /\ ((n = "." /\ ~a) \/ (n = ".." /\ ~b))
  <2>1. CASE a /\ b
    BY <1>2, <2>1
  <2>2. CASE a /\ ~b
    <3>1. Len(Dots(q)) = 1 /\ Dots(q)[1] = ".."
      BY <1>2, <2>2
    <3>2. D(n) = IF n = ".." THEN {1} ELSE {}
      BY <3>1
    <3> QED BY <2>2, <3>2
  <2>3. CASE ~a /\ b
    <3>1. Len(Dots(q)) = 1 /\ Dots(q)[1] = "."
      BY <1>2, <2>3
    <3>2. D(n) = IF n = "." THEN {1} ELSE {}
      BY <3>1
    <3> QED BY <2>3, <3>2
  <2>4. CASE ~a /\ ~b
    <3>1. Len(Dots(q)) = 2 /\ Dots(q)[1] = "." /\ Dots(q)[2] = ".."
      BY <1>2, <2>4
    <3>2. D(n) = IF n = "." THEN {1} ELSE IF n = ".." THEN {2} ELSE {}
      BY <3>1
    <3> QED BY <2>4, <3>2
  <2> QED BY <2>1, <2>2, <2>3, <2>4
<1>4. Dots(q) \in Seq(Z)
  <2>1. <<>> \in Seq(Z) /\ <<".">> \in Seq(Z) /\ <<"..">> \in Seq(Z)
    OBVIOUS
  <2>2. \A u, t \in Seq(Z) : u \o t \in Seq(Z)
    OBVIOUS
  <2> QED BY <1>2, <2>1, <2>2
<1>5. ASSUME NEW n
      PROVE  Cardinality(D(n)) =
               IF n \in {".", ".."} /\ (\A k \in 1..Len(q) : q[k] # n) THEN 1 ELSE 0
  <2> HIDE DEF D
  <2> QED BY <1>3, FS_EmptySet, FS_Singleton
<1> QED BY <1>4, <1>5 DEF Often

\* What ListingComplete asks of the names r handed out for a directory with
\* entries s, of which l are the live ones.
GoodListing(r, s, l, cap) ==
    /\ Len(r) < cap =>
         \A n \in {s[k].name : k \in 1..Len(s)} \cup {".", ".."} :
           Often(r, n) = IF n \in {".", ".."} /\ OftenLive(s, n) = 0 THEN 1 ELSE OftenLive(s, n)
    /\ \A k \in 1..Len(r) : k <= Len(l) => r[k] = l[k].name

\* Positions of n in a concatenation.
LEMMA ConcatCount ==
    ASSUME NEW Z, NEW p \in Seq(Z), NEW q \in Seq(Z), NEW n
    PROVE  Often(p \o q, n) = Often(p, n) + Often(q, n)
<1> DEFINE A == {k \in 1..Len(p) : p[k] = n}
           B == {k \in 1..Len(q) : q[k] = n}
           m == Len(p)
           C == {k \in m + 1..m + Len(q) : q[k - m] = n}
<1>1. m \in Nat /\ Len(q) \in Nat
  OBVIOUS
<1>2. Len(p \o q) = m + Len(q) /\ \A k \in 1..m + Len(q) : (p \o q)[k] = IF k <= m THEN p[k] ELSE q[k - m]
  OBVIOUS
<1>3. {k \in 1..Len(p \o q) : (p \o q)[k] = n} = A \cup C
  <2>1. \A k : k \in 1..m + Len(q) <=> k \in 1..m \/ k \in m + 1..m + Len(q)
    BY <1>1
  <2>2. \A k \in m + 1..m + Len(q) : ~(k <= m)
    BY <1>1
  <2>3. \A k \in 1..m : k <= m
    BY <1>1
  <2> HIDE DEF m
  <2> QED BY <1>2, <2>1, <2>2, <2>3 DEF m
<1>4. A \cap C = {}
  BY <1>1
<1>5. IsFiniteSet(A) /\ IsFiniteSet(B) /\ IsFiniteSet(C)
  <2>1. IsFiniteSet(1..m) /\ IsFiniteSet(1..Len(q)) /\ IsFiniteSet(m + 1..m + Len(q))
    BY <1>1, FS_Interval
  <2>2. A \in SUBSET (1..m) /\ B \in SUBSET (1..Len(q)) /\ C \in SUBSET (m + 1..m + Len(q))
    OBVIOUS
  <2> HIDE DEF A, B, C, m
  <2> QED BY <2>1, <2>2, FS_Subset
<1>6. Cardinality(C) = Cardinality(B)
  <2> DEFINE g == [k \in B |-> m + k]
  <2>1. g \in [B -> C]
    BY <1>1
  <2>2. \A k, l \in B : g[k] = g[l] => k = l
    BY <1>1
  <2>3. \A k \in C : k - m \in B /\ g[k - m] = k
    BY <1>1
  <2>4. g \in Bijection(B, C)
    <3> HIDE DEF g, B, C
    <3> QED BY <2>1, <2>2, <2>3 DEF Bijection, Injection, Surjection, IsInjective
  <2>5. ExistsBijection(B, C)
    BY <2>4 DEF ExistsBijection
  <2> QED BY <1>5, <2>5, FS_Bijection
<1>7. Cardinality(A \cup C) = Cardinality(A) + Cardinality(C)
  <2>1. /\ Cardinality(A \cup C) = Cardinality(A) + Cardinality(C) - Cardinality(A \cap C)
        /\ Cardinality(A) \in Nat /\ Cardinality(C) \in Nat
    <3> HIDE DEF A, B, C
    <3> QED BY <1>5, FS_Union, FS_CardinalityType
  <2>2. Cardinality(A \cap C) = 0
    BY <1>4, FS_EmptySet
  <2> HIDE DEF A, C
  <2> QED BY <2>1, <2>2
<1> HIDE DEF A, B, C
<1> QED BY <1>3, <1>6, <1>7 DEF A, B, Often

\* readdir hands out the right names.
LEMMA ListingIs ==
    ASSUME PathType
    PROVE  GoodListing(Listing(Names(Live(cur))), Read(cur), Live(cur), req.cap)
<1> DEFINE s == Read(cur)
           l == Live(cur)
           q == Names(l)
           d == Dots(q)
           all == q \o d
           fit == IF Len(all) < req.cap THEN Len(all) ELSE req.cap
           r == SubSeq(all, 1, fit)
           Z == STRING \cup {".", ".."}
<1>1. cur \in Tags /\ req.cap \in Nat
  BY PathLen DEF PathType
<1>2. s \in Seq(Entry)
  BY <1>1, ReadType
<1>3. PICK f : LiveUpto(f, s) /\ l = f[Len(s)]
  BY <1>1, LiveIs
<1>4. l \in Seq(Entry)
  <2>1. Len(s) \in 0..Len(s)
    <3>1. Len(s) \in Nat
      BY <1>1, ReadType
    <3> HIDE DEF s
    <3> QED BY <3>1
  <2> HIDE DEF s, l
  <2> QED BY <1>3, <2>1 DEF LiveUpto
<1>5. Listing(q) = r
  BY DEF Listing
<1> HIDE DEF s, l
<1>6. q \in Seq(Z) /\ Len(q) = Len(l) /\ Len(l) \in Nat /\ \A k \in 1..Len(l) : q[k] = l[k].name
  <2>1. \A k \in 1..Len(l) : l[k].name \in Z
    <3> HIDE DEF Z
    <3>1. \A e \in Entry : e.name \in STRING
      BY DEF Entry
    <3>2. \A k \in 1..Len(l) : l[k] \in Entry
      <4> HIDE DEF l
      <4>1. ASSUME NEW E, l \in Seq(E) PROVE \A k \in 1..Len(l) : l[k] \in E
        BY <4>1
      <4> QED BY <1>4, <4>1
    <3> QED BY <3>1, <3>2 DEF Z
  <2>2. Len(l) \in Nat
    BY <1>4
  <2> HIDE DEF Z
  <2> QED BY <2>1, <2>2 DEF Names
<1>7. /\ d \in Seq(Z)
      /\ \A n : Often(d, n) =
                IF n \in {".", ".."} /\ (\A k \in 1..Len(q) : q[k] # n) THEN 1 ELSE 0
  <2>1. "." \in Z /\ ".." \in Z
    OBVIOUS
  <2> HIDE DEF Z, q
  <2> QED BY <1>6, <2>1, DotsIs
<1> HIDE DEF Z, q, d
<1>8. Len(all) = Len(q) + Len(d) /\ Len(d) \in Nat /\ all \in Seq(Z) /\ \A k \in 1..Len(q) : all[k] = q[k]
  BY <1>6, <1>7
<1> HIDE DEF all
<1>9. Len(r) = fit /\ fit \in 0..Len(all) /\ \A k \in 1..fit : r[k] = all[k]
  BY <1>1, <1>6, <1>8
<1>10. ASSUME NEW k \in 1..Len(r), k <= Len(l) PROVE r[k] = l[k].name
  <2>1. k \in 1..fit /\ k \in 1..Len(q)
    BY <1>9, <1>10, <1>6
  <2> HIDE DEF fit
  <2> QED BY <1>6, <1>8, <1>9, <2>1
<1>11. ASSUME Len(r) < req.cap, NEW n
       PROVE  Often(r, n) = IF n \in {".", ".."} /\ OftenLive(s, n) = 0 THEN 1 ELSE OftenLive(s, n)
  <2>1. fit = Len(all)
    BY <1>1, <1>8, <1>9, <1>11, <1>6
  <2>2. Often(r, n) = Often(all, n)
    <3> HIDE DEF fit, r
    <3> QED BY <1>9, <2>1 DEF Often
  <2>3. Often(all, n) = Often(q, n) + Often(d, n)
    BY <1>6, <1>7, ConcatCount DEF all
  <2> DEFINE Q == {k \in 1..Len(q) : q[k] = n}
  <2>4. Q = Called(l, n)
    BY <1>6 DEF Called
  <2>5. Often(q, n) = OftenLive(s, n)
    <3>1. Cardinality(Called(l, n)) = OftenLive(s, n)
      BY <1>2, <1>3, LiveCount
    <3> QED BY <2>4, <3>1 DEF Often
  <2>6. Often(q, n) \in Nat /\ (Often(q, n) = 0 <=> Q = {})
    <3>1. IsFiniteSet(1..Len(q))
      BY <1>6, FS_Interval
    <3>2. Q \in SUBSET (1..Len(q)) /\ Often(q, n) = Cardinality(Q)
      BY DEF Often
    <3> HIDE DEF Q
    <3>3. IsFiniteSet(Q)
      BY <3>1, <3>2, FS_Subset
    <3>4. Cardinality(Q) \in Nat /\ (Cardinality(Q) = 0 <=> Q = {})
      BY <3>3, FS_EmptySet, FS_CardinalityType
    <3> QED BY <3>2, <3>4
  <2>7. Q = {} <=> \A k \in 1..Len(q) : q[k] # n
    OBVIOUS
  <2>8. Often(d, n) = IF n \in {".", ".."} /\ Q = {} THEN 1 ELSE 0
    BY <1>7, <2>7
  <2> HIDE DEF Q, r
  <2> QED BY <2>2, <2>3, <2>5, <2>6, <2>8
<1> HIDE DEF r, fit
<1>12. GoodListing(r, s, l, req.cap)
  BY <1>10, <1>11 DEF GoodListing
<1> QED BY <1>5, <1>12 DEF q, s, l

\* The property, in terms of GoodListing.
LEMMA ListingMeans ==
    ListingComplete <=>
      (pc = "answered" /\ answer = "ok" =>
         /\ Op = "list" => (isDir => rows = Names(Read(cur))) /\ (~isDir => Len(rows) = 1)
         /\ Op = "readdir" => GoodListing(rows, Read(cur), Live(cur), req.cap))
BY DEF ListingComplete, GoodListing, Often, OftenLive

\* An answer to something else than a listing.
LEMMA NoListing ==
    ASSUME NEW a, Answered(a), a # "ok" \/ Op \notin {"list", "readdir"}
    PROVE  ListingComplete'
<1>1. answer' = a /\ Op' = Op
  BY DEF Answered, Op, Fuse
<1> QED BY <1>1 DEF ListingComplete

\* A listing of readdir.
LEMMA ReaddirLists ==
    ASSUME PathType, Answered("ok"), Op = "readdir", rows' = Listing(Names(Live(cur)))
    PROVE  ListingComplete'
<1>1. tree' = tree /\ req' = req /\ cur' = cur /\ Op' = Op /\ PathType
  BY DEF Answered, Op, Fuse
<1>2. Read(cur)' = Read(cur) /\ Live(cur)' = Live(cur)
  BY <1>1 DEF Live, Read, Fuse
<1>3. GoodListing(rows', Read(cur), Live(cur), req.cap)
  BY ListingIs
<1>4. GoodListing(rows, Read(cur), Live(cur), req.cap)'
  BY <1>1, <1>2, <1>3 DEF GoodListing
<1>5. (pc = "answered" /\ answer = "ok" =>
         /\ Op = "list" => (isDir => rows = Names(Read(cur))) /\ (~isDir => Len(rows) = 1)
         /\ Op = "readdir" => GoodListing(rows, Read(cur), Live(cur), req.cap))'
  BY <1>1, <1>4
<1> QED BY <1>5 DEF ListingComplete, GoodListing, Often, OftenLive

\* Only a listing touches the rows of an answer that lists.
LEMMA ListingStep ==
    PathInv /\ ListingComplete /\ [Next]_vars => ListingComplete'
<1> SUFFICES ASSUME PathInv, ListingComplete, [Next]_vars PROVE ListingComplete'
  OBVIOUS
<1>0. PathType
  BY DEF PathInv
<1>1. CASE pc' # "answered"
  BY <1>1 DEF ListingComplete
<1>2. CASE Finished \/ UNCHANGED vars
  <2>1. UNCHANGED <<tree, req, pc, cur, isDir, i, attr, rows, answer, faults>>
    BY <1>2 DEF Finished, vars, pathVars
  <2>2. Read(cur)' = Read(cur) /\ Live(cur)' = Live(cur) /\ Op' = Op
    BY <2>1 DEF Live, Read, Fuse, Op
  <2>3. GoodListing(rows, Read(cur), Live(cur), req.cap)' =
          GoodListing(rows, Read(cur), Live(cur), req.cap)
    BY <2>1, <2>2 DEF GoodListing
  <2>4. Names(Read(cur))' = Names(Read(cur))
    BY <2>1, <2>2 DEF Names
  <2>5. pc = "answered" /\ answer = "ok" =>
         /\ Op = "list" => (isDir => rows = Names(Read(cur))) /\ (~isDir => Len(rows) = 1)
         /\ Op = "readdir" => GoodListing(rows, Read(cur), Live(cur), req.cap)
    BY ListingMeans
  <2>6. (pc = "answered" /\ answer = "ok" =>
         /\ Op = "list" => (isDir => rows = Names(Read(cur))) /\ (~isDir => Len(rows) = 1)
         /\ Op = "readdir" => GoodListing(rows, Read(cur), Live(cur), req.cap))'
    BY <2>1, <2>2, <2>3, <2>4, <2>5
  <2> QED BY <2>6 DEF ListingComplete, GoodListing, Often, OftenLive
<1>3. CASE Refuse
  <2>1. PICK a \in Early : Answered(a)
    BY <1>3 DEF Refuse
  <2>2. a = "ok" => Op = "statfs"
    BY DEF Early
  <2> QED BY <2>1, <2>2, NoListing
<1>4. CASE Start \/ StatFails \/ Getattr \/ GetattrFails \/ Begin
  <2>1. pc' # "answered"
    BY <1>4 DEF Start, StatFails, Getattr, GetattrFails, Got, Begin
  <2> QED BY <1>1, <2>1
<1>5. CASE FuseComponent \/ ToolComponent \/ ComponentFails
  <2>1. pc' # "answered" \/ \E a \in {"EIO", "ENOENT", "ENODATA", "ENOTDIR"} : Answered(a)
    BY <1>5 DEF FuseComponent, ToolComponent, ComponentFails, LookupError
  <2> QED BY <1>1, <2>1, NoListing
<1>6. CASE Readdir
  BY <1>0, <1>6, NoListing, ReaddirLists DEF Readdir
<1>7. CASE Open \/ Readlink
  BY <1>7, NoListing DEF Open, Readlink
<1>8. CASE OpFails
  BY <1>0, <1>8, NoListing, ReaddirLists DEF OpFails
<1>9. CASE List
  <2>1. Op = "list"
    BY <1>9 DEF List
  <2>2. CASE Answered("EIO")
    BY <2>2, NoListing
  <2>3. CASE Answered("ok") /\ (isDir => rows' = Names(Read(cur))) /\ (~isDir => rows' = <<LastName>>)
    <3>1. UNCHANGED <<tree, req, cur, isDir, attr>>
      BY <2>3 DEF Answered
    <3>2. Read(cur)' = Read(cur) /\ Op' = "list"
      BY <2>1, <3>1 DEF Read, Fuse, Op
    <3>3. ~isDir => Len(rows') = 1
      BY <2>3
    <3> QED BY <2>3, <3>1, <3>2, <3>3 DEF ListingComplete, Names
  <2> QED BY <1>9, <2>2, <2>3 DEF List
<1>10. CASE ListFails \/ NotDirectory
  BY <1>10, NoListing DEF ListFails, NotDirectory
<1>11. CASE Walk
  <2>1. pc' # "answered"
    BY <1>11, WalkFrame
  <2> QED BY <1>1, <2>1
<1>12. CASE Report
  <2>1. Op \notin {"list", "readdir"}
    BY <1>12 DEF Report, PathInv, WalkOfTool, Op
  <2> QED BY <1>12, <2>1, NoListing DEF Report
<1> QED BY <1>2, <1>3, <1>4, <1>5, <1>6, <1>7, <1>8, <1>9, <1>10, <1>11, <1>12 DEF Next, PathStep

\* A listing has every live entry as often as the directory has it, the dot
\* entries once if the directory lacks them, and is only ever cut at its end.
THEOREM ListingCompleteAlways == Spec => []ListingComplete
<1>1. Init => ListingComplete
  BY DEF Init, NamespaceInit, ListingComplete
<1> QED BY <1>1, ListingStep, PathsAlways, PTL DEF Spec

-----------------------------------------------------------------------------
\* The inductive invariant of walks.

Frames == [dir : Dirs, loop : {"dead", "live"}, k : Nat \ {0}]
Counters == {"reg", "lnk", "other", "dirs", "errors", "deleted", "recoverable"}

\* The types, with the bound on the stack; nothing is walked before a walk
\* begins, and no call is left when there is an answer.
WalkType ==
    /\ call = {} \/ \E x \in Dirs : call = {x}
    /\ stack \in Seq(Frames) /\ Len(stack) <= MaxDepth + 1
    /\ visited \in SUBSET Dirs /\ listed \in [Dirs -> Nat] /\ cnt \in [Counters -> Nat]
    /\ pc # "walking" => call = {} /\ stack = <<>>
    /\ pc \in {"start", "walk"} =>
         /\ visited = {} /\ listed = [x \in Dirs |-> 0] /\ cnt = [c \in Counters |-> 0]

\* The count remembers every directory it reads, and no two of its calls are
\* in the same directory.
Once ==
    ~Scan =>
      /\ \A x \in Dirs : listed[x] \in {0, 1} /\ (listed[x] = 1 => x \in visited /\ ~Unreadable(x))
      /\ \A j \in 1..Len(stack) : stack[j].loop = "live" /\ listed[stack[j].dir] = 1
      /\ \A j, l \in 1..Len(stack) : stack[j].dir = stack[l].dir => j = l

\* No entry leads out of C.
Closed(C) == \A x \in C, y \in Dirs : ~Unreadable(x) /\ LeadsTo(x, y) # {} => y \in C

\* Whatever the count visits can be reached from where it started.
InReach ==
    ~Scan => \A C \in SUBSET Dirs : cur \in C /\ Closed(C) => visited \cup call \subseteq C

\* The structure is within the depth limit.
Small == \E C \in SUBSET Dirs : cur \in C /\ Closed(C) /\ Cardinality(C) <= MaxDepth + 1

\* Entry j of directory x is still to be looked at.
Pending(x, j) == \E l \in 1..Len(stack) : stack[l].dir = x /\ stack[l].k <= j

\* The entries of kind k that were looked at.
DoneOf(k) ==
    {p \in Dirs \X Nat : /\ listed[p[1]] = 1 /\ p[2] \in Looked(p[1]) /\ ~Pending(p[1], p[2])
                         /\ StatKind(Read(p[1])[p[2]].to) = k}

\* A count that has begun, in which no error was counted or nothing can have
\* gone wrong but the structure itself.
Sane ==
    /\ ~Scan /\ (pc = "walking" \/ Counted)
    /\ cnt.errors = 0 \/ (faults = 0 /\ Small)

\* The books of the count: what it has visited, what its entries led to, and
\* that every call, one more than there were subdirectories, is pending, was
\* the first of its directory, or was counted as an error.
Tally ==
    Sane =>
      /\ faults = 0 /\ cur \in visited \cup call
      /\ \A x \in visited : listed[x] = 1 \/ Unreadable(x)
      /\ \A x \in Dirs : listed[x] = 1 =>
           \A j \in Looked(x) : StatKind(Read(x)[j].to) = "dir" =>
             Pending(x, j) \/ Read(x)[j].to \in visited \cup call
      /\ \A k \in {"reg", "lnk", "other"} : cnt[k] = Cardinality(DoneOf(k))
      /\ cnt.dirs = Cardinality(DoneOf("dir"))
      /\ cnt.errors + Cardinality(visited) + Cardinality(call) =
           Cardinality(DoneOf("bad")) + Cardinality(visited \cap tree.broken) + cnt.dirs + 1
      /\ cnt.errors = 0 => visited \cap tree.broken = {} /\ DoneOf("bad") = {}

WalkInv == WalkType /\ Once /\ InReach /\ Tally

-----------------------------------------------------------------------------
\* The stack: the next entry of the innermost call, its second loop, a call and
\* a return.

\* What a stack holds.
LEMMA FrameIs ==
    ASSUME NEW st \in Seq(Frames)
    PROVE  /\ Len(st) \in Nat
           /\ \A j \in 1..Len(st) : /\ st[j] \in Frames /\ st[j].dir \in Dirs
                                    /\ st[j].loop \in {"dead", "live"} /\ st[j].k \in Nat \ {0}
<1>1. ASSUME NEW F, st \in Seq(F) PROVE Len(st) \in Nat /\ \A j \in 1..Len(st) : st[j] \in F
  BY <1>1
<1>2. Len(st) \in Nat /\ \A j \in 1..Len(st) : st[j] \in Frames
  BY <1>1
<1>3. \A f \in Frames : f.dir \in Dirs /\ f.loop \in {"dead", "live"} /\ f.k \in Nat \ {0}
  BY DEF Frames
<1> QED BY <1>2, <1>3

\* A function on 1..n is a sequence.
LEMMA FunctionIsSeq ==
    ASSUME NEW F, NEW n \in Nat, NEW t \in [1..n -> F]
    PROVE  t \in Seq(F) /\ Len(t) = n
OBVIOUS

\* The innermost call goes on to its next entry.
LEMMA Advanced ==
    ASSUME NEW st \in Seq(Frames), st # <<>>, NEW t, t = [st EXCEPT ![Len(st)].k = @ + 1]
    PROVE  /\ t \in Seq(Frames) /\ Len(t) = Len(st) /\ Len(st) \in Nat \ {0} /\ Len(st) \in 1..Len(st)
           /\ \A j \in 1..Len(st) : /\ t[j].dir = st[j].dir /\ t[j].loop = st[j].loop
                                    /\ t[j].k = IF j = Len(st) THEN st[j].k + 1 ELSE st[j].k
<1> DEFINE n == Len(st)
<1>1. n \in Nat \ {0} /\ n \in 1..n
  <2>1. ASSUME NEW F, st \in Seq(F) PROVE Len(st) \in Nat \ {0}
    BY <2>1
  <2> QED BY <2>1
<1>2. \A j \in 1..n : st[j] \in Frames
  BY FrameIs
<1>3. t = [j \in 1..n |-> IF j = n THEN [st[n] EXCEPT !.k = @ + 1] ELSE st[j]]
  <2>1. ASSUME NEW F, st \in Seq(F) PROVE st = [j \in 1..n |-> st[j]]
    BY <2>1
  <2> QED BY <1>1, <2>1
<1>7. [st[n] EXCEPT !.k = @ + 1] = [dir |-> st[n].dir, loop |-> st[n].loop, k |-> st[n].k + 1]
  BY <1>1, <1>2 DEF Frames
<1>4. [st[n] EXCEPT !.k = @ + 1] \in Frames
  <2>1. st[n].dir \in Dirs /\ st[n].loop \in {"dead", "live"} /\ st[n].k + 1 \in Nat \ {0}
    BY <1>1, FrameIs
  <2> QED BY <1>7, <2>1 DEF Frames
<1>5. \A j \in 1..n : t[j] \in Frames
  <2> HIDE DEF Frames
  <2> QED BY <1>2, <1>3, <1>4
<1>6. t \in Seq(Frames) /\ Len(t) = n
  <2> HIDE DEF n, Frames
  <2>1. t \in [1..n -> Frames]
    BY <1>3, <1>5
  <2> QED BY <1>1, <2>1, FunctionIsSeq
<1> QED BY <1>1, <1>3, <1>6, <1>7

\* The innermost call begins its second loop.
LEMMA Turned ==
    ASSUME NEW st \in Seq(Frames), st # <<>>, NEW t,
           t = [st EXCEPT ![Len(st)].loop = "live", ![Len(st)].k = 1]
    PROVE  /\ t \in Seq(Frames) /\ Len(t) = Len(st) /\ Len(st) \in Nat \ {0} /\ Len(st) \in 1..Len(st)
           /\ \A j \in 1..Len(st) : /\ t[j].dir = st[j].dir
                                    /\ IF j = Len(st) THEN t[j].loop = "live" /\ t[j].k = 1 ELSE t[j] = st[j]
<1> DEFINE n == Len(st)
<1>1. n \in Nat \ {0} /\ n \in 1..n
  <2>1. ASSUME NEW F, st \in Seq(F) PROVE Len(st) \in Nat \ {0}
    BY <2>1
  <2> QED BY <2>1
<1>2. \A j \in 1..n : st[j] \in Frames
  BY FrameIs
<1> DEFINE g == [dir |-> st[n].dir, loop |-> "live", k |-> 1]
<1>3. g \in Frames
  BY <1>1, <1>2 DEF Frames
<1>4. t = [j \in 1..n |-> IF j = n THEN g ELSE st[j]]
  <2>1. ASSUME NEW F, st \in Seq(F) PROVE st = [j \in 1..n |-> st[j]]
    BY <2>1
  <2>2. st = [j \in 1..n |-> st[j]]
    BY <2>1
  <2> DEFINE u == [st EXCEPT ![n].loop = "live"]
  <2>3. u = [j \in 1..n |-> IF j = n THEN [st[n] EXCEPT !.loop = "live"] ELSE st[j]]
    BY <1>1, <2>2
  <2>4. [st[n] EXCEPT !.loop = "live"] = [dir |-> st[n].dir, loop |-> "live", k |-> st[n].k]
    BY <1>1, <1>2 DEF Frames
  <2>5. u[n] = [dir |-> st[n].dir, loop |-> "live", k |-> st[n].k]
    BY <1>1, <2>3, <2>4
  <2>6. [u[n] EXCEPT !.k = 1] = g
    BY <2>5
  <2>7. t = [u EXCEPT ![n].k = 1]
    OBVIOUS
  <2>8. u = [j \in 1..n |-> u[j]] /\ \A j \in 1..n : j # n => u[j] = st[j]
    BY <2>3
  <2> HIDE DEF u
  <2> QED BY <1>1, <2>6, <2>7, <2>8
<1>5. \A j \in 1..n : t[j] \in Frames
  <2> HIDE DEF Frames, g
  <2> QED BY <1>2, <1>3, <1>4
<1>6. t \in Seq(Frames) /\ Len(t) = n
  <2> HIDE DEF n, g, Frames
  <2>1. t \in [1..n -> Frames]
    BY <1>4, <1>5
  <2> QED BY <1>1, <2>1, FunctionIsSeq
<1> QED BY <1>1, <1>4, <1>6

\* The innermost call returns.
LEMMA Popped ==
    ASSUME NEW st \in Seq(Frames), st # <<>>, NEW t, t = SubSeq(st, 1, Len(st) - 1)
    PROVE  /\ t \in Seq(Frames) /\ Len(t) = Len(st) - 1 /\ Len(st) \in Nat \ {0}
           /\ \A j \in 1..Len(st) - 1 : t[j] = st[j] /\ j \in 1..Len(st)
<1>1. ASSUME NEW F, st \in Seq(F)
      PROVE  /\ t \in Seq(F) /\ Len(t) = Len(st) - 1 /\ Len(st) \in Nat \ {0}
             /\ \A j \in 1..Len(st) - 1 : t[j] = st[j] /\ j \in 1..Len(st)
  <2>1. Len(st) \in Nat \ {0}
    BY <1>1
  <2>2. PICK m : m = Len(st) - 1
    OBVIOUS
  <2>3. m \in Nat /\ m <= Len(st) /\ 1..m \subseteq 1..Len(st)
    BY <2>1, <2>2
  <2>4. t = [j \in 1..m |-> st[j]]
    BY <1>1, <2>2, <2>3
  <2>5. \A j \in 1..Len(st) : st[j] \in F
    BY <1>1
  <2>6. t \in [1..m -> F]
    BY <2>3, <2>4, <2>5
  <2>7. t \in Seq(F) /\ Len(t) = m
    BY <2>3, <2>6, FunctionIsSeq
  <2> QED BY <2>1, <2>2, <2>3, <2>4, <2>7
<1> QED BY <1>1

\* A call begins.
LEMMA Pushed ==
    ASSUME NEW st \in Seq(Frames), NEW f \in Frames, NEW t, t = Append(st, f)
    PROVE  /\ t \in Seq(Frames) /\ Len(t) = Len(st) + 1 /\ Len(st) \in Nat
           /\ \A j \in 1..Len(st) + 1 : IF j = Len(st) + 1 THEN t[j] = f ELSE j \in 1..Len(st) /\ t[j] = st[j]
<1>1. ASSUME NEW F, st \in Seq(F), f \in F
      PROVE  /\ t \in Seq(F) /\ Len(t) = Len(st) + 1 /\ Len(st) \in Nat
             /\ \A j \in 1..Len(st) + 1 : IF j = Len(st) + 1 THEN t[j] = f ELSE j \in 1..Len(st) /\ t[j] = st[j]
  BY <1>1
<1> QED BY <1>1

-----------------------------------------------------------------------------
\* What is the same in two states with the same structure and request.
LEMMA SameWalk ==
    ASSUME tree' = tree, req' = req
    PROVE  /\ Scan' = Scan
           /\ \A x : /\ Read(x)' = Read(x) /\ Looked(x)' = Looked(x)
                    /\ Unreadable(x)' = Unreadable(x) /\ StatKind(x)' = StatKind(x)
           /\ \A C : Closed(C)' = Closed(C)
<1>1. Scan' = Scan
  BY DEF Scan
<1>2. \A x : Read(x)' = Read(x) /\ Unreadable(x)' = Unreadable(x) /\ StatKind(x)' = StatKind(x)
  BY DEF Read, Unreadable, StatKind, Fuse
<1>3. \A x : Looked(x)' = Looked(x)
  BY <1>2 DEF Looked, IsDot
<1>4. \A x, y : LeadsTo(x, y)' = LeadsTo(x, y)
  BY <1>2, <1>3 DEF LeadsTo
<1>5. \A C : Closed(C)' = Closed(C)
  BY <1>2, <1>4 DEF Closed
<1> QED BY <1>1, <1>2, <1>3, <1>5

\* What has been looked at depends on the stack and the directories listed.
LEMMA SameBooks ==
    ASSUME tree' = tree, req' = req, listed' = listed, stack' = stack
    PROVE  \A k : DoneOf(k)' = DoneOf(k)
<1>1. \A x, j : Pending(x, j)' = Pending(x, j)
  BY DEF Pending
<1> QED BY <1>1, SameWalk DEF DoneOf

\* One more.
LEMMA PlusIs ==
    ASSUME NEW c \in [Counters -> Nat], NEW f \in Counters
    PROVE  /\ Plus(c, f) \in [Counters -> Nat]
           /\ \A g \in Counters : Plus(c, f)[g] = IF g = f THEN c[g] + 1 ELSE c[g]
BY DEF Plus

\* What a step that looks at an entry looks at.
LEMMA AtIs ==
    ASSUME PathInv, WalkType, NEW e, At(e)
    PROVE  /\ stack # <<>> /\ Len(stack) \in Nat \ {0} /\ Len(stack) \in 1..Len(stack)
           /\ Top \in Frames /\ Top.dir \in Dirs /\ Top.k \in 1..Len(Read(Top.dir))
           /\ e = Read(Top.dir)[Top.k] /\ e \in Entry /\ StatKind(e.to) \in {"dir"} \cup Kinds
           /\ (StatKind(e.to) = "dir" => e.to \in Dirs) /\ e.to \in Tags
           /\ call = {} /\ pc = "walking"
<1>1. stack \in Seq(Frames) /\ stack # <<>>
  BY DEF WalkType, At
<1>2. Len(stack) \in Nat \ {0} /\ Len(stack) \in 1..Len(stack)
  BY <1>1, Advanced
<1>3. Top \in Frames /\ Top.dir \in Dirs /\ Top.k \in Nat \ {0}
  BY <1>1, <1>2, FrameIs DEF Top
<1>4. Top.dir \in Tags
  BY <1>3 DEF Tags
<1>5. Len(Read(Top.dir)) \in Nat /\ \A k \in 1..Len(Read(Top.dir)) : Read(Top.dir)[k] \in Entry
  BY <1>4, ReadType DEF PathInv
<1>6. Top.k \in 1..Len(Read(Top.dir)) /\ e = Read(Top.dir)[Top.k]
  BY <1>3, <1>5 DEF At, Entries
<1>7. e \in Entry /\ e.to \in Tags
  BY <1>5, <1>6 DEF Entry
<1>8. StatKind(e.to) \in {"dir"} \cup Kinds /\ (StatKind(e.to) = "dir" => e.to \in Dirs)
  BY <1>7 DEF StatKind, Tags, Kinds
<1> QED BY <1>1, <1>2, <1>3, <1>6, <1>7, <1>8 DEF At, Walking

-----------------------------------------------------------------------------
\* Nothing has been walked in the initial states.
LEMMA WalkInitial == Init => WalkInv
<1> SUFFICES ASSUME Init PROVE WalkInv
  OBVIOUS
<1> USE DEF Init, NamespaceInit
<1>1. <<>> \in Seq(Frames) /\ Len(<<>>) = 0
  OBVIOUS
<1>2. WalkType
  <2>1. cnt = [c \in Counters |-> 0] /\ cnt \in [Counters -> Nat]
    BY DEF Counters
  <2> QED BY <1>1, <2>1, WalkAssumption DEF WalkType
<1>3. Once
  BY <1>1 DEF Once
<1>4. InReach /\ Tally
  BY DEF InReach, Tally, Sane, Counted, Done
<1> QED BY <1>2, <1>3, <1>4 DEF WalkInv

\* Nothing has been walked while a path is looked up.
LEMMA PathOnly ==
    ASSUME PathInv, WalkInv, pc \in {"start", "walk"}, tree' = tree, req' = req,
           UNCHANGED walkVars, pc' # "walking", ~Counted'
    PROVE  WalkInv'
<1> USE DEF WalkInv
<1>1. UNCHANGED <<call, stack, visited, cnt, listed>>
  BY DEF walkVars
<1>2. call = {} /\ stack = <<>> /\ visited = {} /\ listed = [x \in Dirs |-> 0]
  BY DEF WalkType
<1>3. WalkType'
  BY <1>1 DEF WalkType
<1>4. Once'
  BY <1>1, <1>2 DEF Once
<1>5. InReach' /\ Tally'
  BY <1>1, <1>2 DEF InReach, Tally, Sane
<1> QED BY <1>3, <1>4, <1>5

\* A step of a lookup is none of a count, and ends no count.
LEMMA PathStepIsNoCount ==
    ASSUME PathInv, PathStep \/ NotDirectory
    PROVE  /\ pc \in {"start", "walk"} /\ tree' = tree /\ req' = req
           /\ pc' # "walking" /\ ~Counted'
<1>1. pc \in {"start", "walk"} /\ tree' = tree /\ req' = req /\ pc' # "walking"
  <2> USE DEF Answered, Found
  <2>1. CASE Refuse \/ Start
    BY <2>1 DEF Refuse, Start
  <2>2. CASE FuseComponent \/ ToolComponent \/ ComponentFails \/ StatFails
    BY <2>2 DEF FuseComponent, ToolComponent, ComponentFails, StatFails
  <2>3. CASE Getattr \/ GetattrFails
    BY <2>3 DEF Getattr, GetattrFails, Got
  <2>4. CASE Readdir \/ Open \/ Readlink \/ OpFails
    BY <2>4 DEF Readdir, Open, Readlink, OpFails
  <2>5. CASE List \/ ListFails \/ NotDirectory
    BY <2>5 DEF List, ListFails, NotDirectory
  <2> QED BY <2>1, <2>2, <2>3, <2>4, <2>5 DEF PathStep
<1>2. ASSUME req.op = "count" PROVE ~(pc' = "answered" /\ answer' = "ok")
  <2>1. Op = "count"
    BY <1>2 DEF Op, PathInv, PathType, Requests, Fuse
  <2> USE DEF Answered
  <2>2. CASE Refuse \/ Start
    BY <2>1, <2>2 DEF Refuse, Start, Early
  <2>3. CASE FuseComponent \/ ToolComponent
    BY <1>1, <2>3 DEF FuseComponent, ToolComponent, LookupError
  <2>4. CASE ComponentFails \/ StatFails \/ NotDirectory
    BY <1>1, <2>4 DEF ComponentFails, StatFails, NotDirectory
  <2> QED BY <1>1, <2>1, <2>2, <2>3, <2>4
        DEF PathStep, Getattr, GetattrFails, Got, Readdir, Open, Readlink, OpFails, List, ListFails
<1> QED BY <1>1, <1>2 DEF Counted, Done

\* A walk begins with one call and empty books.
LEMMA BeginWalk ==
    ASSUME PathInv, WalkInv, Begin
    PROVE  WalkInv'
<1> USE DEF WalkInv
<1>1. /\ pc \in {"start", "walk"} /\ pc' = "walking" /\ call' = {cur}
      /\ UNCHANGED <<tree, req, cur, isDir, i, attr, rows, answer, faults>>
      /\ UNCHANGED <<stack, visited, cnt, listed>>
  BY DEF Begin, Found
<1>2. ~Scan => faults = 0
  BY DEF Begin, Found, Scan, PathInv, PathType, OnChain, Requests, Fuse
<1>3. cur \in Dirs
  BY <1>1, BeginKeeps DEF PathInv, WalkOfTool
<1>4. /\ call = {} /\ stack = <<>> /\ visited = {} /\ listed = [x \in Dirs |-> 0]
      /\ cnt = [c \in Counters |-> 0]
  BY <1>1 DEF WalkType
<1>5. WalkType'
  BY <1>1, <1>3 DEF WalkType
<1>6. Once' /\ InReach'
  BY <1>1, <1>4 DEF Once, InReach
<1>7. Tally'
  <2> SUFFICES ASSUME Sane' PROVE Tally'
    BY DEF Tally
  <2>1. faults' = 0
    BY <1>1, <1>2, SameWalk DEF Sane
  <2>2. \A x \in Dirs : listed'[x] = 0
    BY <1>1, <1>4
  <2>3. \A k : DoneOf(k)' = {}
    BY <2>2 DEF DoneOf
  <2>4. /\ \A k \in {"reg", "lnk", "other"} : cnt'[k] = 0
        /\ cnt'.dirs = 0 /\ cnt'.errors = 0
    BY <1>1, <1>4 DEF Counters
  <2>5. /\ Cardinality({}) = 0 /\ Cardinality(call') = 1 /\ visited' = {}
        /\ visited' \cap tree'.broken = {}
    BY <1>1, <1>4, FS_EmptySet, FS_Singleton
  <2>6. Cardinality(visited') = 0 /\ Cardinality(visited' \cap tree'.broken) = 0
    BY <2>5
  <2>7. cnt'.errors + Cardinality(visited') + Cardinality(call') =
           Cardinality(DoneOf("bad")') + Cardinality(visited' \cap tree'.broken) + cnt'.dirs + 1
    BY <2>3, <2>4, <2>5, <2>6
  <2>8. /\ \A k \in {"reg", "lnk", "other"} : cnt'[k] = Cardinality(DoneOf(k)')
        /\ cnt'.dirs = Cardinality(DoneOf("dir")') /\ DoneOf("bad")' = {}
    BY <2>3, <2>4, <2>5
  <2>9. (\A x \in Dirs : listed[x] = 1 =>
           \A j \in Looked(x) : StatKind(Read(x)[j].to) = "dir" =>
             Pending(x, j) \/ Read(x)[j].to \in visited \cup call)'
    BY <2>2
  <2>10. cur' \in visited' \cup call' /\ \A x \in visited' : listed'[x] = 1 \/ Unreadable(x)'
    BY <1>1, <2>5
  <2> QED BY <2>1, <2>5, <2>7, <2>8, <2>9, <2>10 DEF Tally
<1> QED BY <1>5, <1>6, <1>7

\* What the report leaves alone.
LEMMA ReportWalk ==
    ASSUME PathInv, WalkInv, Report \/ Finished \/ UNCHANGED vars
    PROVE  WalkInv'
<1> USE DEF WalkInv
<1>1. /\ UNCHANGED <<tree, req, cur, faults>> /\ UNCHANGED <<call, stack, visited, cnt, listed>>
      /\ (pc' = "walking" => pc = "walking")
      /\ (pc' \in {"start", "walk"} => pc \in {"start", "walk"})
      /\ (pc' # "walking" => call = {} /\ stack = <<>>)
      /\ (Sane' => Sane)
  <2>1. CASE Report
    <3>1. /\ UNCHANGED <<tree, req, cur, faults>> /\ UNCHANGED <<call, stack, visited, cnt, listed>>
          /\ pc = "walking" /\ pc' = "answered" /\ call = {} /\ stack = <<>>
      BY <2>1 DEF Report, Answered, walkVars
    <3> QED BY <3>1, SameWalk DEF Sane, Small
  <2>2. CASE Finished \/ UNCHANGED vars
    <3>1. /\ UNCHANGED <<tree, req, cur, faults, pc, answer>>
          /\ UNCHANGED <<call, stack, visited, cnt, listed>>
      BY <2>2 DEF Finished, vars, pathVars, walkVars
    <3> QED BY <3>1, SameWalk DEF Sane, Small, Counted, Done, WalkType
  <2> QED BY <2>1, <2>2
<1>2. WalkType'
  BY <1>1 DEF WalkType
<1>3. Once' /\ InReach'
  BY <1>1, SameWalk DEF Once, InReach
<1>4. Tally'
  <2> SUFFICES ASSUME Sane' PROVE Tally'
    BY DEF Tally
  <2>1. \A x, j : Pending(x, j)' = Pending(x, j)
    BY <1>1 DEF Pending
  <2> QED BY <1>1, <2>1, SameWalk, SameBooks DEF Tally
<1> QED BY <1>2, <1>3, <1>4

-----------------------------------------------------------------------------
\* The sets the count counts are finite.
LEMMA BooksFinite ==
    ASSUME PathType, WalkType
    PROVE  /\ \A C \in SUBSET Dirs : IsFiniteSet(C) /\ Cardinality(C) \in Nat
           /\ \A k : IsFiniteSet(DoneOf(k)) /\ Cardinality(DoneOf(k)) \in Nat
<1>1. IsFiniteSet(Dirs)
  BY NamespaceAssumption
<1>2. \A C \in SUBSET Dirs : IsFiniteSet(C) /\ Cardinality(C) \in Nat
  BY <1>1, FS_Subset, FS_CardinalityType
<1>3. \A x \in Dirs : IsFiniteSet({x} \X Looked(x))
  <2> TAKE x \in Dirs
  <2>1. Len(Read(x)) \in Nat
    BY ReadType DEF Tags
  <2>2. IsFiniteSet(1..Len(Read(x)))
    BY <2>1, FS_Interval
  <2>3. IsFiniteSet(Looked(x))
    BY <2>2, FS_Subset DEF Looked
  <2> QED BY <2>3, FS_Singleton, FS_Product
<1> DEFINE f == [x \in Dirs |-> {x} \X Looked(x)]
           T == {f[x] : x \in Dirs}
<1>4. f \in Surjection(Dirs, T)
  BY DEF Surjection
<1>5. \A t \in T : IsFiniteSet(t)
  BY <1>3
<1> HIDE DEF f, T
<1>6. IsFiniteSet(UNION T)
  BY <1>1, <1>4, <1>5, FS_Surjection, FS_UNION
<1>7. \A k : DoneOf(k) \subseteq UNION T
  BY DEF DoneOf, T, f
<1>8. \A k : IsFiniteSet(DoneOf(k)) /\ Cardinality(DoneOf(k)) \in Nat
  <2> TAKE k
  <2>1. DoneOf(k) \in SUBSET (UNION T)
    BY <1>7
  <2> QED BY <1>6, <2>1, FS_Subset, FS_CardinalityType
<1> QED BY <1>2, <1>8

\* Errors and faults are never taken back.
LEMMA SaneBack ==
    ASSUME PathType, WalkType, Walk, cnt'.errors \in {cnt.errors, cnt.errors + 1}, Sane'
    PROVE  Sane /\ ~Scan /\ (cnt'.errors = 0 \/ (faults' = 0 /\ Small))
<1>1. /\ pc = "walking" /\ UNCHANGED <<tree, req, cur, pc>> /\ faults' \in {faults, faults + 1}
  BY WalkFrame
<1>2. cnt.errors \in Nat /\ faults \in Nat
  BY DEF WalkType, Counters, PathType
<1>3. Small' = Small /\ Scan' = Scan
  BY <1>1, SameWalk DEF Small
<1> QED BY <1>1, <1>2, <1>3 DEF Sane

\* The counters stay numbers, and errors only grows.
LEMMA MissedType ==
    ASSUME WalkType
    PROVE  /\ Missed \in [Counters -> Nat]
           /\ ~Scan => /\ Missed.errors = cnt.errors + 1 /\ Missed.errors # 0
                       /\ \A g \in Counters \ {"errors"} : Missed[g] = cnt[g]
<1>1. cnt \in [Counters -> Nat] /\ "errors" \in Counters
  BY DEF WalkType, Counters
<1>2. /\ Plus(cnt, "errors") \in [Counters -> Nat]
      /\ \A g \in Counters : Plus(cnt, "errors")[g] = IF g = "errors" THEN cnt[g] + 1 ELSE cnt[g]
  BY <1>1, PlusIs
<1>3. cnt.errors \in Nat
  BY <1>1
<1> QED BY <1>1, <1>2, <1>3 DEF Missed

\* The types are kept by every step of a walk.
LEMMA CallKeepsType ==
    ASSUME PathInv, WalkType, NEW x \in Dirs, CallRefused(x) \/ CallFails(x) \/ Call(x)
    PROVE  WalkType'
<1>1. pc = "walking" /\ pc' = "walking" /\ call' = {}
  BY DEF CallRefused, CallFails, Call, Walking
<1>2. CASE CallRefused(x) \/ CallFails(x)
  <2>1. /\ stack' = stack /\ listed' = listed /\ cnt' = Missed
        /\ visited' \in {visited, visited \cup {x}}
    BY <1>2 DEF CallRefused, CallFails
  <2> QED BY <1>1, <2>1, MissedType DEF WalkType
<1>3. CASE Call(x)
  <2> DEFINE f == [dir |-> x, loop |-> IF Scan THEN "dead" ELSE "live", k |-> 1]
  <2>1. /\ stack' = Append(stack, f) /\ cnt' = cnt /\ ~TooDeep
        /\ listed' = [listed EXCEPT ![x] = @ + 1]
        /\ visited' \in {visited, visited \cup {x}}
    BY <1>3 DEF Call, Guarded
  <2>2. f \in Frames /\ stack \in Seq(Frames)
    BY DEF Frames, WalkType
  <2> HIDE DEF f
  <2>3. stack' \in Seq(Frames) /\ Len(stack') = Len(stack) + 1 /\ Len(stack) \in Nat
    BY <2>1, <2>2, Pushed
  <2>4. Len(stack') <= MaxDepth + 1
    BY <2>1, <2>3, WalkAssumption DEF TooDeep
  <2>5. listed' \in [Dirs -> Nat]
    BY <2>1 DEF WalkType
  <2> QED BY <1>1, <2>1, <2>3, <2>4, <2>5 DEF WalkType
<1> QED BY <1>2, <1>3

\* Looking at an entry keeps the types.
LEMMA EntryKeepsType ==
    ASSUME PathInv, WalkType, NEW e,
           Pass(e) \/ Row(e) \/ Descend(e) \/ PathTooLong(e) \/ Count(e) \/ EntryFails(e)
    PROVE  WalkType'
<1> USE DEF Pass, Row, Descend, PathTooLong, Count, EntryFails
<1>1. At(e)
  OBVIOUS
<1>2. /\ stack # <<>> /\ stack \in Seq(Frames) /\ Len(stack) <= MaxDepth + 1
      /\ pc = "walking" /\ StatKind(e.to) \in {"dir"} \cup Kinds
      /\ (StatKind(e.to) = "dir" => e.to \in Dirs)
  BY <1>1, AtIs DEF WalkType
<1>3. pc' = "walking" /\ visited' = visited /\ listed' = listed
  BY <1>2
<1>4. stack' \in Seq(Frames) /\ Len(stack') = Len(stack)
  BY <1>1, <1>2, Advanced DEF At
<1>5. call' = call \/ \E x \in Dirs : call' = {x}
  BY <1>2 DEF IsSub
<1>6. cnt' \in [Counters -> Nat]
  <2>1. cnt \in [Counters -> Nat]
    BY DEF WalkType
  <2>2. \A c \in [Counters -> Nat], g \in Counters : Plus(c, g) \in [Counters -> Nat]
    BY PlusIs
  <2>3. {"reg", "lnk", "other", "dirs", "errors", "deleted", "recoverable"} = Counters
    BY DEF Counters
  <2>4. CASE Pass(e)
    BY <2>1, <2>4
  <2>5. CASE Row(e)
    BY <2>1, <2>2, <2>3, <2>5
  <2>6. CASE Descend(e) \/ PathTooLong(e)
    BY <2>1, <2>2, <2>3, <2>6
  <2>7. CASE Count(e)
    <3>1. StatKind(e.to) \in {"reg", "lnk", "other", "bad"}
      BY <1>2, <2>7 DEF Kinds, IsSub
    <3> QED BY <2>1, <2>2, <2>3, <2>7, <3>1
  <2>8. CASE EntryFails(e)
    BY <2>1, <2>2, <2>3, <2>8 DEF Missed
  <2> QED BY <2>4, <2>5, <2>6, <2>7, <2>8
<1> QED BY <1>2, <1>3, <1>4, <1>5, <1>6 DEF WalkType

\* So does the end of a loop.
LEMMA EndKeepsType ==
    ASSUME PathInv, WalkType, EndLoop
    PROVE  WalkType'
<1>1. /\ stack \in Seq(Frames) /\ stack # <<>> /\ Len(stack) <= MaxDepth + 1
      /\ pc = "walking" /\ pc' = pc /\ UNCHANGED <<call, visited, cnt, listed>>
  BY DEF WalkType, EndLoop, Walking
<1>2. stack' \in Seq(Frames) /\ Len(stack') \in {Len(stack), Len(stack) - 1} /\ Len(stack) \in Nat \ {0}
  <2>1. stack' = SubSeq(stack, 1, Len(stack) - 1)
        \/ stack' = [stack EXCEPT ![Len(stack)].loop = "live", ![Len(stack)].k = 1]
    BY DEF EndLoop
  <2> QED BY <1>1, <2>1, Popped, Turned, Advanced
<1>3. Len(stack') <= MaxDepth + 1
  BY <1>1, <1>2, WalkAssumption
<1> QED BY <1>1, <1>2, <1>3 DEF WalkType

-----------------------------------------------------------------------------
\* The calls of a count.

\* As deep as the limit allows, a count has visited all of a small structure.
LEMMA DeepVisited ==
    ASSUME PathType, WalkType, Once, InReach, ~Scan, Small, TooDeep, NEW x \in Dirs, call = {x}
    PROVE  x \in visited
<1>1. PICK C \in SUBSET Dirs : cur \in C /\ Closed(C) /\ Cardinality(C) <= MaxDepth + 1
  BY DEF Small
<1>2. visited \subseteq C /\ x \in C
  BY <1>1 DEF InReach
<1>3. IsFiniteSet(C) /\ IsFiniteSet(visited) /\ Cardinality(C) \in Nat /\ Cardinality(visited) \in Nat
  BY BooksFinite DEF WalkType
<1>4. Len(stack) \in Nat /\ \A j \in 1..Len(stack) : stack[j].dir \in Dirs
  BY FrameIs DEF WalkType
<1> DEFINE f == [j \in 1..Len(stack) |-> stack[j].dir]
<1>5. f \in Injection(1..Len(stack), visited)
  BY <1>4 DEF Injection, IsInjective, Once
<1>6. Cardinality(1..Len(stack)) = Len(stack)
  <2>1. PICK n \in Nat : n = Len(stack)
    BY <1>4
  <2>2. Cardinality(1..n) = IF 1 > n THEN 0 ELSE n - 1 + 1
    BY FS_Interval
  <2>3. (IF 1 > n THEN 0 ELSE n - 1 + 1) = n
    OBVIOUS
  <2> QED BY <2>1, <2>2, <2>3
<1> HIDE DEF f
<1>7. Len(stack) <= Cardinality(visited)
  BY <1>3, <1>5, <1>6, FS_Injection
<1>8. Cardinality(visited) <= Cardinality(C)
  BY <1>2, <1>3, FS_Subset
<1>9. Cardinality(visited) = Cardinality(C)
  BY <1>1, <1>3, <1>4, <1>7, <1>8, WalkAssumption DEF TooDeep
<1>10. visited = C
  BY <1>2, <1>3, <1>9, FS_Subset
<1> QED BY <1>2, <1>10

\* A call that the depth limit or the visited set refuses is counted as an error.
LEMMA RefusedCounted ==
    ASSUME PathInv, WalkInv, ~Scan, NEW x \in Dirs, Walk, CallRefused(x)
    PROVE  Once' /\ InReach' /\ Tally'
<1> USE DEF WalkInv
<1>1. /\ UNCHANGED <<tree, req, cur, pc>> /\ UNCHANGED <<stack, visited, listed, faults>>
      /\ call = {x} /\ call' = {} /\ cnt' = Missed /\ Guarded(x)
  BY WalkFrame DEF CallRefused
<1>2. Once' /\ InReach'
  BY <1>1, SameWalk DEF Once, InReach
<1>3. Tally'
  <2> SUFFICES ASSUME Sane' PROVE Tally'
    BY DEF Tally
  <2>1. /\ cnt'.errors = cnt.errors + 1 /\ cnt'.errors # 0
        /\ \A g \in Counters \ {"errors"} : cnt'[g] = cnt[g]
    BY <1>1, MissedType
  <2>2. Sane /\ faults' = 0 /\ Small
    BY <2>1, SaneBack DEF PathInv
  <2>3. x \in visited
    BY <1>1, <2>2, DeepVisited DEF Guarded, PathInv
  <2>4. visited \cup call = visited /\ visited' \cup call' = visited
    BY <1>1, <2>3
  <2>5. \A y, j : Pending(y, j)' = Pending(y, j)
    BY <1>1 DEF Pending
  <2>6. Cardinality(call) = 1 /\ Cardinality(call') = 0
    BY <1>1, FS_Singleton, FS_EmptySet
  <2>7. /\ Cardinality(visited) \in Nat /\ Cardinality(visited \cap tree.broken) \in Nat
        /\ \A k : Cardinality(DoneOf(k)) \in Nat
    BY BooksFinite DEF PathInv, WalkType
  <2>8. cnt.errors \in Nat /\ cnt.dirs \in Nat
    BY DEF WalkType, Counters
  <2>9. cnt.errors + Cardinality(visited) + Cardinality(call) =
          Cardinality(DoneOf("bad")) + Cardinality(visited \cap tree.broken) + cnt.dirs + 1
    BY <2>2 DEF Tally
  <2>10. \A k : DoneOf(k)' = DoneOf(k)
    BY <1>1, SameBooks
  <2>11. /\ \A k \in {"reg", "lnk", "other"} : cnt'[k] = cnt[k]
         /\ cnt'.dirs = cnt.dirs
    BY <2>1 DEF Counters
  <2>12. (cnt.errors + Cardinality(visited) + Cardinality(call) =
          Cardinality(DoneOf("bad")) + Cardinality(visited \cap tree.broken) + cnt.dirs + 1)'
    BY <1>1, <2>1, <2>6, <2>7, <2>8, <2>9, <2>10, <2>11
  <2>13. (\A y \in Dirs : listed[y] = 1 =>
           \A j \in Looked(y) : StatKind(Read(y)[j].to) = "dir" =>
             Pending(y, j) \/ Read(y)[j].to \in visited \cup call)'
    BY <1>1, <2>2, <2>4, <2>5, SameWalk DEF Tally
  <2>14. cur' \in visited' \cup call' /\ \A y \in visited' : listed'[y] = 1 \/ Unreadable(y)'
    BY <1>1, <2>2, <2>4, SameWalk DEF Tally
  <2>15. /\ \A k \in {"reg", "lnk", "other"} : cnt'[k] = Cardinality(DoneOf(k)')
         /\ cnt'.dirs = Cardinality(DoneOf("dir")')
    BY <2>2, <2>10, <2>11 DEF Tally
  <2> QED BY <2>1, <2>2, <2>12, <2>13, <2>14, <2>15 DEF Tally
<1> QED BY <1>2, <1>3

\* So is one that cannot read its directory.
LEMMA FailedCounted ==
    ASSUME PathInv, WalkInv, ~Scan, NEW x \in Dirs, Walk, CallFails(x)
    PROVE  Once' /\ InReach' /\ Tally'
<1> USE DEF WalkInv
<1>1. /\ UNCHANGED <<tree, req, cur, pc>> /\ UNCHANGED <<stack, listed>>
      /\ call = {x} /\ call' = {} /\ cnt' = Missed /\ x \notin visited
      /\ \/ faults' = faults /\ Unreadable(x) /\ visited' = visited \cup {x}
         \/ faults' = faults + 1 /\ visited' \in {visited, visited \cup {x}}
  BY WalkFrame DEF CallFails, Guarded, Fault
<1>2. Once' /\ InReach'
  BY <1>1, SameWalk DEF Once, InReach
<1>3. Tally'
  <2> SUFFICES ASSUME Sane' PROVE Tally'
    BY DEF Tally
  <2>1. /\ cnt'.errors = cnt.errors + 1 /\ cnt'.errors # 0
        /\ \A g \in Counters \ {"errors"} : cnt'[g] = cnt[g]
    BY <1>1, MissedType
  <2>2. Sane /\ faults' = 0
    BY <2>1, SaneBack DEF PathInv
  <2>3. visited' = visited \cup {x} /\ Unreadable(x)
    BY <1>1, <2>2 DEF PathInv, PathType
  <2>4. visited' \cup call' = visited \cup call
    BY <1>1, <2>3
  <2>5. \A y, j : Pending(y, j)' = Pending(y, j)
    BY <1>1 DEF Pending
  <2>6. Cardinality(call) = 1 /\ Cardinality(call') = 0
    BY <1>1, FS_Singleton, FS_EmptySet
  <2>7. /\ Cardinality(visited) \in Nat /\ Cardinality(visited \cap tree.broken) \in Nat
        /\ IsFiniteSet(visited) /\ IsFiniteSet(visited \cap tree.broken)
        /\ \A k : Cardinality(DoneOf(k)) \in Nat
    BY BooksFinite DEF PathInv, WalkType
  <2>8. cnt.errors \in Nat /\ cnt.dirs \in Nat
    BY DEF WalkType, Counters
  <2>9. cnt.errors + Cardinality(visited) + Cardinality(call) =
          Cardinality(DoneOf("bad")) + Cardinality(visited \cap tree.broken) + cnt.dirs + 1
    BY <2>2 DEF Tally
  <2>10. \A k : DoneOf(k)' = DoneOf(k)
    BY <1>1, SameBooks
  <2>11. /\ \A k \in {"reg", "lnk", "other"} : cnt'[k] = cnt[k]
         /\ cnt'.dirs = cnt.dirs
    BY <2>1 DEF Counters
  <2>16. visited' \cap tree'.broken = (visited \cap tree.broken) \cup {x} /\ x \notin visited \cap tree.broken
    BY <1>1, <2>3 DEF Unreadable
  <2>17. /\ Cardinality(visited') = Cardinality(visited) + 1
         /\ Cardinality(visited' \cap tree'.broken) = Cardinality(visited \cap tree.broken) + 1
    BY <1>1, <2>3, <2>7, <2>16, FS_AddElement
  <2>12. (cnt.errors + Cardinality(visited) + Cardinality(call) =
          Cardinality(DoneOf("bad")) + Cardinality(visited \cap tree.broken) + cnt.dirs + 1)'
    BY <2>1, <2>6, <2>7, <2>8, <2>9, <2>10, <2>11, <2>17
  <2>13. (\A y \in Dirs : listed[y] = 1 =>
           \A j \in Looked(y) : StatKind(Read(y)[j].to) = "dir" =>
             Pending(y, j) \/ Read(y)[j].to \in visited \cup call)'
    BY <1>1, <2>2, <2>4, <2>5, SameWalk DEF Tally
  <2>14. cur' \in visited' \cup call' /\ \A y \in visited' : listed'[y] = 1 \/ Unreadable(y)'
    BY <1>1, <2>2, <2>3, <2>4, SameWalk DEF Tally
  <2>15. /\ \A k \in {"reg", "lnk", "other"} : cnt'[k] = Cardinality(DoneOf(k)')
         /\ cnt'.dirs = Cardinality(DoneOf("dir")')
    BY <2>2, <2>10, <2>11 DEF Tally
  <2> QED BY <2>1, <2>2, <2>12, <2>13, <2>14, <2>15 DEF Tally
<1> QED BY <1>2, <1>3

\* A call that reads its directory is the first in it.
LEMMA CalledCounted ==
    ASSUME PathInv, WalkInv, ~Scan, NEW x \in Dirs, Walk, Call(x)
    PROVE  Once' /\ InReach' /\ Tally'
<1> USE DEF WalkInv
<1> DEFINE f == [dir |-> x, loop |-> "live", k |-> 1]
           n == Len(stack)
<1>1. /\ UNCHANGED <<tree, req, cur, pc>> /\ UNCHANGED <<cnt, faults>>
      /\ call = {x} /\ call' = {} /\ x \notin visited /\ ~Unreadable(x)
      /\ visited' = visited \cup {x} /\ listed' = [listed EXCEPT ![x] = @ + 1]
      /\ stack' = Append(stack, f)
  BY WalkFrame DEF Call, Guarded
<1>2. listed[x] = 0 /\ listed'[x] = 1 /\ \A y \in Dirs : y # x => listed'[y] = listed[y]
  BY <1>1 DEF WalkType, Once
<1>3. stack \in Seq(Frames) /\ f \in Frames
  BY DEF WalkType, Frames
<1>4. /\ Len(stack') = n + 1 /\ n \in Nat
      /\ \A j \in 1..n + 1 : IF j = n + 1 THEN stack'[j] = f ELSE j \in 1..n /\ stack'[j] = stack[j]
  <2> HIDE DEF f
  <2> QED BY <1>1, <1>3, Pushed
<1>5. \A j \in 1..n : stack[j].dir \in Dirs /\ stack[j].dir # x
  BY <1>2, <1>3, FrameIs DEF Once
<1>9. f.dir = x /\ f.loop = "live" /\ f.k = 1 /\ 1..n \subseteq 1..n + 1 /\ n + 1 \in 1..n + 1
  BY <1>4
<1> HIDE DEF f, n
<1>6. Once'
  <2>1. \A y \in Dirs : listed'[y] \in {0, 1} /\ (listed'[y] = 1 => y \in visited' /\ ~Unreadable(y)')
    BY <1>1, <1>2, SameWalk DEF Once
  <2>2. \A j \in 1..n + 1 : stack'[j].loop = "live" /\ listed'[stack'[j].dir] = 1
    BY <1>2, <1>4, <1>5, <1>9 DEF Once, n
  <2>3. \A j, l \in 1..n + 1 : stack'[j].dir = stack'[l].dir => j = l
    BY <1>4, <1>5, <1>9 DEF Once, n
  <2> QED BY <1>4, <2>1, <2>2, <2>3 DEF Once
<1>7. InReach'
  BY <1>1, SameWalk DEF InReach
<1>8. Tally'
  <2> SUFFICES ASSUME Sane' PROVE Tally'
    BY DEF Tally
  <2>1. cnt.errors \in Nat /\ cnt.dirs \in Nat
    BY DEF WalkType, Counters
  <2>2. Sane
    BY <1>1, <2>1, SaneBack DEF PathInv
  <2>4. visited' \cup call' = visited \cup call
    BY <1>1
  <2>5. \A y, j : Pending(y, j)' <=> Pending(y, j) \/ (y = x /\ 1 <= j)
    <3>1. \A y, j : Pending(y, j)' <=> \E l \in 1..n + 1 : stack'[l].dir = y /\ stack'[l].k <= j
      BY <1>4 DEF Pending
    <3> QED BY <1>4, <1>9, <3>1 DEF Pending, n
  <2>6. Cardinality(call) = 1 /\ Cardinality(call') = 0
    BY <1>1, FS_Singleton, FS_EmptySet
  <2>7. /\ Cardinality(visited) \in Nat /\ IsFiniteSet(visited)
        /\ Cardinality(visited \cap tree.broken) \in Nat
        /\ \A k : Cardinality(DoneOf(k)) \in Nat
    BY BooksFinite DEF PathInv, WalkType
  <2>9. cnt.errors + Cardinality(visited) + Cardinality(call) =
          Cardinality(DoneOf("bad")) + Cardinality(visited \cap tree.broken) + cnt.dirs + 1
    BY <2>2 DEF Tally
  <2>10. \A k : DoneOf(k)' = DoneOf(k)
    <3>1. \A j \in Looked(x) : 1 <= j
      BY DEF Looked
    <3>2. \A y \in Dirs : \A j \in Looked(y) : (listed'[y] = 1 /\ ~Pending(y, j)') = (listed[y] = 1 /\ ~Pending(y, j))
      BY <1>2, <2>5, <3>1
    <3> QED BY <1>1, <3>2, SameWalk DEF DoneOf
  <2>16. visited' \cap tree'.broken = visited \cap tree.broken
    BY <1>1 DEF Unreadable
  <2>17. Cardinality(visited') = Cardinality(visited) + 1
    BY <1>1, <2>7, FS_AddElement
  <2>12. (cnt.errors + Cardinality(visited) + Cardinality(call) =
          Cardinality(DoneOf("bad")) + Cardinality(visited \cap tree.broken) + cnt.dirs + 1)'
    <3>1. cnt'.errors = cnt.errors /\ cnt'.dirs = cnt.dirs
      BY <1>1
    <3>2. Cardinality(visited' \cap tree'.broken) = Cardinality(visited \cap tree.broken)
      BY <2>16
    <3>3. Cardinality(DoneOf("bad")') = Cardinality(DoneOf("bad"))
      BY <2>10
    <3> QED BY <2>1, <2>6, <2>7, <2>9, <2>17, <3>1, <3>2, <3>3
  <2>13. (\A y \in Dirs : listed[y] = 1 =>
           \A j \in Looked(y) : StatKind(Read(y)[j].to) = "dir" =>
             Pending(y, j) \/ Read(y)[j].to \in visited \cup call)'
    <3>1. \A j \in Looked(x) : Pending(x, j)'
      BY <2>5 DEF Looked
    <3> QED BY <1>1, <1>2, <2>2, <2>4, <2>5, <3>1, SameWalk DEF Tally
  <2>14. cur' \in visited' \cup call' /\ \A y \in visited' : listed'[y] = 1 \/ Unreadable(y)'
    <3>1. \A y \in visited : y \in Dirs /\ (listed[y] = 1 \/ Unreadable(y))
      BY <2>2 DEF Tally, WalkType
    <3> QED BY <1>1, <1>2, <2>2, <2>4, <3>1, SameWalk DEF Tally
  <2>15. /\ \A k \in {"reg", "lnk", "other"} : cnt'[k] = Cardinality(DoneOf(k)')
         /\ cnt'.dirs = Cardinality(DoneOf("dir")')
    BY <1>1, <2>2, <2>10 DEF Tally
  <2>18. faults' = 0 /\ (cnt'.errors = 0 => visited' \cap tree'.broken = {} /\ DoneOf("bad")' = {})
    BY <1>1, <2>2, <2>10, <2>16 DEF Tally
  <2> QED BY <2>12, <2>13, <2>14, <2>15, <2>18 DEF Tally
<1> QED BY <1>6, <1>7, <1>8

-----------------------------------------------------------------------------
\* The entries of a count.

\* Looking at an entry settles that one entry: d and j are the directory and
\* the place of it.
LEMMA Settles ==
    ASSUME PathInv, WalkInv, ~Scan, NEW e, At(e), NEW d, d = Top.dir, NEW j, j = Top.k,
           tree' = tree, req' = req, listed' = listed, visited' = visited
    PROVE  /\ d \in Dirs /\ j \in 1..Len(Read(d)) /\ e = Read(d)[j] /\ Top.loop = "live"
           /\ listed[d] = 1 /\ d \in visited /\ ~Unreadable(d)
           /\ PassedOver(e) <=> j \notin Looked(d)
           /\ Once'
           /\ \A y : \A l \in Looked(y) : Pending(y, l)' <=> Pending(y, l) /\ ~(y = d /\ l = j)
           /\ \A k : /\ <<d, j>> \notin DoneOf(k)
                     /\ DoneOf(k)' = IF j \in Looked(d) /\ StatKind(e.to) = k
                                     THEN DoneOf(k) \cup {<<d, j>>} ELSE DoneOf(k)
<1> USE DEF WalkInv
<1> DEFINE n == Len(stack)
<1>1. /\ n \in Nat \ {0} /\ n \in 1..n /\ d \in Dirs /\ j \in 1..Len(Read(d)) /\ e = Read(d)[j]
      /\ stack # <<>>
  BY AtIs
<1>2. /\ stack \in Seq(Frames) /\ stack[n].dir = d /\ stack[n].k = j /\ j \in Nat
  BY <1>1 DEF WalkType, Top
<1>3. Top.loop = "live" /\ listed[d] = 1 /\ d \in visited /\ ~Unreadable(d)
  BY <1>1, <1>2 DEF Once, Top
<1>4. PassedOver(e) <=> j \notin Looked(d)
  BY <1>1, <1>3 DEF PassedOver, Looked
<1>5. stack' = [stack EXCEPT ![Len(stack)].k = @ + 1]
  BY DEF At
<1>6. /\ Len(stack') = n
      /\ \A l \in 1..n : /\ stack'[l].dir = stack[l].dir /\ stack'[l].loop = stack[l].loop
                         /\ stack'[l].k = IF l = n THEN stack[l].k + 1 ELSE stack[l].k
  BY <1>1, <1>2, <1>5, Advanced
<1>7. Once'
  BY <1>6, SameWalk DEF Once
<1>8. \A l \in 1..n : stack[l].k \in Nat
  BY <1>2, FrameIs
<1>9. \A y : \A l \in Nat : Pending(y, l)' <=> Pending(y, l) /\ ~(y = d /\ l = j)
  <2>1. \A l \in 1..n : stack[l].dir = d => l = n
    BY <1>1, <1>2 DEF Once
  <2>2. \A y, l : Pending(y, l) <=> \E m \in 1..n : stack[m].dir = y /\ stack[m].k <= l
    BY DEF Pending
  <2>3. \A y, l : Pending(y, l)' <=> \E m \in 1..n : stack'[m].dir = y /\ stack'[m].k <= l
    BY <1>6 DEF Pending
  <2> HIDE DEF n
  <2>4. \A y, l : y # d => Pending(y, l)' = Pending(y, l)
    <3>1. \A m \in 1..n : stack'[m].dir # d => stack'[m].k = stack[m].k
      BY <1>1, <1>2, <1>6
    <3> QED BY <1>6, <2>2, <2>3, <3>1
  <2>5. \A l : Pending(d, l) <=> j <= l
    BY <1>1, <1>2, <2>1, <2>2
  <2>6. \A l : Pending(d, l)' <=> j + 1 <= l
    BY <1>1, <1>2, <1>6, <2>1, <2>3
  <2>7. \A l \in Nat : j + 1 <= l <=> j <= l /\ l # j
    BY <1>2
  <2> QED BY <2>4, <2>5, <2>6, <2>7
<1>10. \A y : Looked(y) \subseteq Nat
  BY DEF Looked
<1>11. Pending(d, j)
  BY <1>1, <1>2 DEF Pending
<1>12. ASSUME NEW k
       PROVE  /\ <<d, j>> \notin DoneOf(k)
              /\ DoneOf(k)' = IF j \in Looked(d) /\ StatKind(e.to) = k
                              THEN DoneOf(k) \cup {<<d, j>>} ELSE DoneOf(k)
  <2>1. <<d, j>> \notin DoneOf(k)
    BY <1>11 DEF DoneOf
  <2>2. DoneOf(k)' = {p \in Dirs \X Nat :
             /\ listed[p[1]] = 1 /\ p[2] \in Looked(p[1]) /\ ~Pending(p[1], p[2])'
             /\ StatKind(Read(p[1])[p[2]].to) = k}
    BY SameWalk DEF DoneOf
  <2>3. \A p \in Dirs \X Nat : Pending(p[1], p[2])' <=> Pending(p[1], p[2]) /\ p # <<d, j>>
    BY <1>9
  <2>4. <<d, j>> \in Dirs \X Nat
    BY <1>1, <1>2
  <2> QED BY <1>1, <1>3, <2>1, <2>2, <2>3, <2>4 DEF DoneOf
<1> QED BY <1>1, <1>3, <1>4, <1>7, <1>9, <1>10, <1>12

\* What the three steps that look at an entry without a fault do.
LEMMA EntryIs ==
    ASSUME PathInv, WalkInv, ~Scan, Walk, NEW e, Pass(e) \/ Descend(e) \/ Count(e),
           NEW d, d = Top.dir, NEW j, j = Top.k
    PROVE  /\ UNCHANGED <<tree, req, cur, pc, visited, listed, faults>> /\ call = {} /\ At(e)
           /\ e.to \in Tags
           /\ \/ j \notin Looked(d) /\ cnt' = cnt /\ call' = {}
              \/ /\ j \in Looked(d) /\ StatKind(e.to) = "dir" /\ e.to \in Dirs
                 /\ cnt' = Plus(cnt, "dirs") /\ call' = {e.to}
              \/ /\ j \in Looked(d) /\ StatKind(e.to) \in Kinds /\ StatKind(e.to) # "dir" /\ call' = {}
                 /\ cnt' = Plus(cnt, IF StatKind(e.to) = "bad" THEN "errors" ELSE StatKind(e.to))
<1> USE DEF WalkInv
<1>1. UNCHANGED <<tree, req, cur, pc, visited, listed, faults>> /\ At(e)
  BY WalkFrame DEF Pass, Descend, Count
<1>2. call = {} /\ e.to \in Tags /\ StatKind(e.to) \in {"dir"} \cup Kinds
      /\ (StatKind(e.to) = "dir" => e.to \in Dirs)
  BY <1>1, AtIs
<1>3. Top.loop = "live" /\ (PassedOver(e) <=> j \notin Looked(d))
  BY <1>1, Settles
<1>4. CASE Pass(e)
  BY <1>1, <1>2, <1>3, <1>4 DEF Pass
<1>5. CASE Descend(e)
  BY <1>1, <1>2, <1>3, <1>5 DEF Descend, IsSub
<1>6. CASE Count(e)
  BY <1>1, <1>2, <1>3, <1>6 DEF Count, IsSub
<1> QED BY <1>4, <1>5, <1>6

\* An entry looked at adds to the count of its kind.
LEMMA EntryCounted ==
    ASSUME PathInv, WalkInv, ~Scan, Walk, NEW e, Pass(e) \/ Descend(e) \/ Count(e)
    PROVE  Once' /\ InReach' /\ Tally'
<1> USE DEF WalkInv
<1>1. PICK d, j : d = Top.dir /\ j = Top.k
  OBVIOUS
<1> DEFINE K == StatKind(e.to)
<1>2. /\ UNCHANGED <<tree, req, cur, pc, visited, listed, faults>> /\ call = {} /\ At(e)
      /\ e.to \in Tags
      /\ \/ j \notin Looked(d) /\ cnt' = cnt /\ call' = {}
         \/ /\ j \in Looked(d) /\ K = "dir" /\ e.to \in Dirs
            /\ cnt' = Plus(cnt, "dirs") /\ call' = {e.to}
         \/ /\ j \in Looked(d) /\ K \in Kinds /\ K # "dir" /\ call' = {}
            /\ cnt' = Plus(cnt, IF K = "bad" THEN "errors" ELSE K)
  BY <1>1, EntryIs
<1>3. /\ d \in Dirs /\ j \in 1..Len(Read(d)) /\ e = Read(d)[j]
      /\ listed[d] = 1 /\ d \in visited /\ ~Unreadable(d) /\ Once'
      /\ \A y : \A l \in Looked(y) : Pending(y, l)' <=> Pending(y, l) /\ ~(y = d /\ l = j)
      /\ \A k : /\ <<d, j>> \notin DoneOf(k)
                /\ DoneOf(k)' = IF j \in Looked(d) /\ K = k
                                THEN DoneOf(k) \cup {<<d, j>>} ELSE DoneOf(k)
  BY <1>1, <1>2, Settles
<1>4. InReach'
  <2> SUFFICES ASSUME NEW C \in SUBSET Dirs, cur \in C, Closed(C) PROVE visited \cup call' \subseteq C
    BY <1>2, SameWalk DEF InReach
  <2>1. visited \subseteq C
    BY DEF InReach
  <2>2. ASSUME j \in Looked(d), K = "dir", e.to \in Dirs PROVE e.to \in C
    <3>1. LeadsTo(d, e.to) # {}
      BY <1>3, <2>2 DEF LeadsTo
    <3> QED BY <1>3, <2>1, <2>2, <3>1 DEF Closed
  <2> QED BY <1>2, <2>1, <2>2
<1>5. Tally'
  <2> SUFFICES ASSUME Sane' PROVE Tally'
    BY DEF Tally
  <2>1. /\ cnt \in [Counters -> Nat]
        /\ \A f \in Counters : cnt[f] \in Nat
        /\ \A f, g \in Counters : Plus(cnt, f)[g] = IF g = f THEN cnt[g] + 1 ELSE cnt[g]
    BY PlusIs DEF WalkType
  <2>2. {"reg", "lnk", "other", "dirs", "errors"} \subseteq Counters
    BY DEF Counters
  <2>3. /\ \A k : Cardinality(DoneOf(k)) \in Nat
        /\ \A k : Cardinality(DoneOf(k)') =
             IF j \in Looked(d) /\ K = k THEN Cardinality(DoneOf(k)) + 1 ELSE Cardinality(DoneOf(k))
    BY <1>3, BooksFinite, FS_AddElement DEF PathInv
  <2>4. /\ cnt.errors \in Nat /\ cnt.dirs \in Nat
        /\ cnt'.errors = IF j \in Looked(d) /\ K = "bad" THEN cnt.errors + 1 ELSE cnt.errors
        /\ cnt'.dirs = IF j \in Looked(d) /\ K = "dir" THEN cnt.dirs + 1 ELSE cnt.dirs
        /\ \A k \in {"reg", "lnk", "other"} :
             cnt'[k] = IF j \in Looked(d) /\ K = k THEN cnt[k] + 1 ELSE cnt[k]
    BY <1>2, <2>1, <2>2 DEF Kinds
  <2>5. Sane
    BY <2>4, SaneBack DEF PathInv
  <2>6. Cardinality(call) = 0 /\ Cardinality(call') = IF j \in Looked(d) /\ K = "dir" THEN 1 ELSE 0
    BY <1>2, FS_Singleton, FS_EmptySet
  <2>7. Cardinality(visited) \in Nat /\ Cardinality(visited \cap tree.broken) \in Nat
    BY BooksFinite DEF PathInv, WalkType
  <2>9. cnt.errors + Cardinality(visited) + Cardinality(call) =
          Cardinality(DoneOf("bad")) + Cardinality(visited \cap tree.broken) + cnt.dirs + 1
    BY <2>5 DEF Tally
  <2>10. visited' = visited /\ tree' = tree
    BY <1>2
  <2> HIDE DEF K
  <2>12. (cnt.errors + Cardinality(visited) + Cardinality(call) =
          Cardinality(DoneOf("bad")) + Cardinality(visited \cap tree.broken) + cnt.dirs + 1)'
    BY <2>3, <2>4, <2>6, <2>7, <2>9, <2>10
  <2>13. (\A y \in Dirs : listed[y] = 1 =>
           \A l \in Looked(y) : StatKind(Read(y)[l].to) = "dir" =>
             Pending(y, l) \/ Read(y)[l].to \in visited \cup call)'
    <3> SUFFICES ASSUME NEW y \in Dirs, listed[y] = 1, NEW l \in Looked(y),
                        StatKind(Read(y)[l].to) = "dir"
                 PROVE  Pending(y, l)' \/ Read(y)[l].to \in visited \cup call'
      BY <1>2, SameWalk
    <3>1. Pending(y, l) \/ Read(y)[l].to \in visited
      BY <1>2, <2>5 DEF Tally
    <3>2. CASE ~(y = d /\ l = j)
      BY <1>3, <3>1, <3>2
    <3>3. CASE y = d /\ l = j
      BY <1>2, <1>3, <3>3 DEF K
    <3> QED BY <3>2, <3>3
  <2>14. cur' \in visited' \cup call' /\ \A y \in visited' : listed'[y] = 1 \/ Unreadable(y)'
    BY <1>2, <2>5, SameWalk DEF Tally
  <2>15. /\ \A k \in {"reg", "lnk", "other"} : cnt'[k] = Cardinality(DoneOf(k)')
         /\ cnt'.dirs = Cardinality(DoneOf("dir")')
    BY <2>3, <2>4, <2>5 DEF Tally
  <2>16. faults' = 0 /\ (cnt'.errors = 0 => visited' \cap tree'.broken = {} /\ DoneOf("bad")' = {})
    BY <1>2, <1>3, <2>4, <2>5 DEF Tally
  <2> QED BY <2>12, <2>13, <2>14, <2>15, <2>16 DEF Tally
<1> QED BY <1>3, <1>4, <1>5

\* Where a fault keeps an entry from being looked at the books are not kept.
LEMMA FaultCounted ==
    ASSUME PathInv, WalkInv, ~Scan, Walk, NEW e, Row(e) \/ PathTooLong(e) \/ EntryFails(e)
    PROVE  Once' /\ InReach' /\ Tally'
<1> USE DEF WalkInv
<1>1. UNCHANGED <<tree, req, cur, pc, visited, listed, call>> /\ At(e)
  BY WalkFrame DEF Row, PathTooLong, EntryFails
<1>2. Top.loop = "live" /\ Once'
  BY <1>1, Settles
<1>3. InReach'
  BY <1>1, SameWalk DEF InReach
<1>4. faults' = faults + 1 /\ faults \in Nat
  BY <1>2 DEF Row, PathTooLong, EntryFails, Fault, PathInv, PathType
<1>5. cnt'.errors = cnt.errors + 1 /\ cnt.errors \in Nat
  <2>1. /\ cnt \in [Counters -> Nat] /\ "errors" \in Counters /\ "dirs" \in Counters
    BY DEF WalkType, Counters
  <2>2. /\ \A c \in [Counters -> Nat] : Plus(c, "errors").errors = c.errors + 1
        /\ Plus(cnt, "dirs").errors = cnt.errors /\ Plus(cnt, "dirs") \in [Counters -> Nat]
    BY <2>1, PlusIs
  <2> QED BY <1>2, <2>1, <2>2 DEF Row, PathTooLong, EntryFails, Missed
<1>6. ~Sane'
  BY <1>4, <1>5 DEF Sane
<1> QED BY <1>2, <1>3, <1>6 DEF Tally

\* A call that returns has looked at all entries of its directory.
LEMMA ReturnCounted ==
    ASSUME PathInv, WalkInv, ~Scan, Walk, EndLoop
    PROVE  Once' /\ InReach' /\ Tally'
<1> USE DEF WalkInv
<1> DEFINE n == Len(stack)
<1>1. /\ UNCHANGED <<tree, req, cur, pc, visited, listed, call, cnt, faults>>
      /\ stack # <<>> /\ Top.k > Len(Read(Top.dir)) /\ stack \in Seq(Frames)
  BY WalkFrame DEF EndLoop, Entries, WalkType
<1>2. n \in Nat \ {0} /\ n \in 1..n
  BY <1>1, Advanced
<1>3. Top = stack[n] /\ Top.loop = "live"
  BY <1>2 DEF Top, Once
<1>4. stack' = SubSeq(stack, 1, Len(stack) - 1)
  BY <1>3 DEF EndLoop
<1>5. Len(stack') = n - 1 /\ \A l \in 1..n - 1 : stack'[l] = stack[l] /\ l \in 1..n
  BY <1>1, <1>4, Popped
<1>6. Once'
  BY <1>1, <1>5, SameWalk DEF Once
<1>7. InReach'
  BY <1>1, SameWalk DEF InReach
<1>8. \A y \in Dirs : \A l \in Looked(y) : Pending(y, l)' <=> Pending(y, l)
  <2> TAKE y \in Dirs
  <2> TAKE l \in Looked(y)
  <2>1. l \in 1..Len(Read(y))
    BY DEF Looked
  <2>2. Len(Read(y)) \in Nat
    BY ReadType DEF PathInv, Tags
  <2>3. stack[n].k \in Nat
    BY <1>1, <1>2, FrameIs
  <2>4. ~(stack[n].dir = y /\ stack[n].k <= l)
    BY <1>1, <1>3, <2>1, <2>2, <2>3
  <2>5. \A m \in 1..n : m = n \/ m \in 1..n - 1
    BY <1>2
  <2>6. Pending(y, l) <=> \E m \in 1..n : stack[m].dir = y /\ stack[m].k <= l
    BY DEF Pending
  <2>7. Pending(y, l)' <=> \E m \in 1..n - 1 : stack'[m].dir = y /\ stack'[m].k <= l
    BY <1>5 DEF Pending
  <2> HIDE DEF n
  <2>8. ASSUME NEW m \in 1..n, stack[m].dir = y, stack[m].k <= l PROVE Pending(y, l)'
    BY <1>5, <2>4, <2>5, <2>7, <2>8
  <2>9. ASSUME NEW m \in 1..n - 1, stack'[m].dir = y, stack'[m].k <= l PROVE Pending(y, l)
    BY <1>5, <2>6, <2>9
  <2> QED BY <2>6, <2>7, <2>8, <2>9
<1>9. \A k : DoneOf(k)' = DoneOf(k)
  BY <1>1, <1>8, SameWalk DEF DoneOf
<1>10. Tally'
  <2> SUFFICES ASSUME Sane' PROVE Tally'
    BY DEF Tally
  <2>1. Sane
    BY <1>1, SaneBack DEF PathInv
  <2>2. (\A y \in Dirs : listed[y] = 1 =>
           \A l \in Looked(y) : StatKind(Read(y)[l].to) = "dir" =>
             Pending(y, l) \/ Read(y)[l].to \in visited \cup call)'
    BY <1>1, <1>8, <2>1, SameWalk DEF Tally
  <2> QED BY <1>1, <1>9, <2>1, <2>2, SameWalk DEF Tally
<1> QED BY <1>6, <1>7, <1>10

-----------------------------------------------------------------------------
\* Every step of a walk keeps the invariant of walks.
LEMMA WalkStep ==
    ASSUME PathInv, WalkInv, Walk
    PROVE  WalkInv'
<1>1. WalkType'
  BY CallKeepsType, EntryKeepsType, EndKeepsType DEF Walk, WalkInv
<1>2. CASE ~Scan
  <2>1. Once' /\ InReach' /\ Tally'
    BY <1>2, RefusedCounted, FailedCounted, CalledCounted, EntryCounted, FaultCounted, ReturnCounted
       DEF Walk
  <2> QED BY <1>1, <2>1 DEF WalkInv
<1>3. CASE Scan
  <2>1. Scan'
    BY <1>3, WalkFrame, SameWalk
  <2> QED BY <1>1, <2>1 DEF WalkInv, Once, InReach, Tally, Sane
<1> QED BY <1>2, <1>3

\* The books of every count are right in every state of it.
THEOREM WalksAlways == Spec => []WalkInv
<1>1. ASSUME PathInv, WalkInv, [Next]_vars PROVE WalkInv'
  <2>1. CASE PathStep /\ UNCHANGED walkVars
    BY <1>1, <2>1, PathOnly, PathStepIsNoCount
  <2>2. CASE NotDirectory
    <3>1. UNCHANGED walkVars
      BY <2>2 DEF NotDirectory
    <3> QED BY <1>1, <2>2, <3>1, PathOnly, PathStepIsNoCount
  <2>3. CASE Begin
    BY <1>1, <2>3, BeginWalk
  <2>4. CASE Walk
    BY <1>1, <2>4, WalkStep
  <2>5. CASE Report \/ Finished \/ UNCHANGED vars
    BY <1>1, <2>5, ReportWalk
  <2> QED BY <1>1, <2>1, <2>2, <2>3, <2>4, <2>5 DEF Next
<1> QED BY <1>1, WalkInitial, PathsAlways, PTL DEF Spec

\* The count reads no directory twice, and no walk goes deeper than
\* TOOL_MAX_DEPTH allows, whatever the structure: cycles, shared directories,
\* any number of faults.
THEOREM EachOnceAlways == Spec => []EachOnce
<1>1. WalkInv => EachOnce
  BY DEF WalkInv, WalkType, Once, EachOnce
<1> QED BY <1>1, WalksAlways, PTL

-----------------------------------------------------------------------------
\* What can be reached.

\* S and the directories that entries of S lead to.
Further(S) == S \cup {y \in Dirs : \E x \in S : ~Unreadable(x) /\ LeadsTo(x, y) # {}}

\* r[n] is what is reached in n steps from a.
Reaches(r, a) ==
    /\ r[0] = {a} /\ \A n \in 0..Cardinality(Dirs) : r[n] \in SUBSET Dirs
    /\ \A n \in 1..Cardinality(Dirs) : r[n] = Further(r[n - 1])

\* Reachable is the last of a sequence of growing sets.
LEMMA ReachableSteps ==
    ASSUME cur \in Dirs
    PROVE  \E r : Reaches(r, cur) /\ Reachable = r[Cardinality(Dirs)]
<1> DEFINE N == Cardinality(Dirs)
           X == SUBSET Dirs
           B(g, n) == IF n = 0 THEN {cur}
                      ELSE g[n - 1] \cup {y \in Dirs : \E x \in g[n - 1] : ~Unreadable(x) /\ LeadsTo(x, y) # {}}
           h == CHOOSE g : g = [n \in 0..N |-> B(g, n)]
<1>1. N \in Nat
  BY NamespaceAssumption, FS_CardinalityType
<1>2. Reachable = h[N]
  BY Zenon DEF Reachable
<1>3. \A S \in X : Further(S) \in X
  BY DEF Further
<1>10. \A g, n : n # 0 => B(g, n) = Further(g[n - 1])
  BY DEF Further
<1>11. \A g : B(g, 0) = {cur}
  OBVIOUS
<1> HIDE DEF B
<1>4. PICK g : g \in [0..N -> X] /\ g[0] = {cur} /\ \A n \in 1..N : g[n] = Further(g[n - 1])
  <2> DEFINE F == [p \in Nat \X X |-> Further(p[2])]
  <2>1. F \in [Nat \X X -> X]
    BY <1>3
  <2>2. \A k \in Nat, q \in X : F[<<k, q>>] = Further(q)
    OBVIOUS
  <2>3. {cur} \in X
    OBVIOUS
  <2> HIDE DEF F, X, N
  <2>4. PICK e \in X : e = {cur}
    BY <2>3
  <2>5. PICK g : IsRounds(g, N, X, e, F)
    BY <1>1, <2>1, Rounds
  <2>6. g \in [0..N -> X] /\ g[0] = {cur} /\ \A n \in 1..N : g[n] = F[<<n, g[n - 1]>>]
    BY <2>4, <2>5 DEF IsRounds
  <2>7. ASSUME NEW n \in 1..N PROVE g[n] = Further(g[n - 1])
    <3>1. n - 1 \in 0..N /\ n \in Nat
      BY <1>1
    <3>2. g[n - 1] \in X
      BY <2>6, <3>1
    <3> QED BY <2>2, <2>6, <3>1, <3>2
  <2> QED BY <2>6, <2>7
<1>5. g = [n \in 0..N |-> B(g, n)]
  <2>1. \A n \in 0..N : g[n] = B(g, n)
    <3>1. 0..N = {0} \cup 1..N /\ \A n \in 1..N : n # 0
      BY <1>1
    <3> HIDE DEF N, X
    <3> QED BY <1>4, <1>10, <1>11, <3>1
  <2>2. g = [n \in 0..N |-> g[n]]
    BY <1>4
  <2> QED BY <2>1, <2>2
<1>6. h = [n \in 0..N |-> B(h, n)]
  BY <1>5
<1>7. \A n \in 0..N : h[n] = B(h, n)
  <2> HIDE DEF h
  <2> QED BY <1>6
<1> HIDE DEF h
<1>8. h[0] = {cur} /\ \A n \in 1..N : h[n] = Further(h[n - 1])
  <2>1. 0 \in 0..N /\ \A n \in 1..N : n # 0 /\ n \in 0..N
    BY <1>1
  <2> HIDE DEF N
  <2> QED BY <1>7, <1>10, <1>11, <2>1
<1>9. \A n \in 0..N : h[n] \in X
  <2> DEFINE P == {n \in Nat : n \in 0..N => h[n] \in X}
  <2>1. 0 \in P
    BY <1>8
  <2>2. ASSUME NEW n \in Nat, n \in P PROVE n + 1 \in P
    <3> SUFFICES ASSUME n + 1 \in 0..N PROVE h[n + 1] \in X
      OBVIOUS
    <3>1. n \in 0..N /\ n + 1 \in 1..N /\ n + 1 - 1 = n
      BY <1>1
    <3>2. h[n] \in X
      BY <2>2, <3>1
    <3>3. h[n + 1] = Further(h[n])
      BY <1>8, <3>1
    <3> QED BY <1>3, <3>2, <3>3
  <2>3. Nat \subseteq P
    <3> HIDE DEF P
    <3> QED BY <2>1, <2>2, NatInd
  <2> QED BY <1>1, <2>3
<1> QED BY <1>2, <1>8, <1>9 DEF Reaches

\* Reachable is the least set of directories that has the start of the walk
\* and that no entry leads out of.
LEMMA ReachableIs ==
    ASSUME cur \in Dirs
    PROVE  /\ Reachable \in SUBSET Dirs /\ cur \in Reachable /\ Closed(Reachable)
           /\ \A C \in SUBSET Dirs : cur \in C /\ Closed(C) => Reachable \subseteq C
<1>1. PICK r : Reaches(r, cur) /\ Reachable = r[Cardinality(Dirs)]
  BY ReachableSteps
<1> DEFINE N == Cardinality(Dirs)
<1>2. N \in Nat /\ IsFiniteSet(Dirs)
  BY NamespaceAssumption, FS_CardinalityType
<1>3. /\ r[0] = {cur} /\ \A n \in 0..N : r[n] \in SUBSET Dirs
      /\ \A n \in 1..N : r[n] = Further(r[n - 1])
  BY <1>1 DEF Reaches
<1>4. ASSUME NEW n \in Nat, n + 1 \in 0..N
      PROVE  n \in 0..N /\ r[n + 1] = Further(r[n]) /\ r[n] \in SUBSET Dirs /\ r[n + 1] \in SUBSET Dirs
  <2>1. n \in 0..N /\ n + 1 \in 1..N /\ n + 1 - 1 = n
    BY <1>2, <1>4
  <2> HIDE DEF N
  <2> QED BY <1>3, <1>4, <2>1
<1> HIDE DEF N
<1>5. ASSUME NEW C \in SUBSET Dirs, cur \in C, Closed(C) PROVE r[N] \subseteq C
  <2> DEFINE P == {n \in Nat : n \in 0..N => r[n] \subseteq C}
  <2>1. 0 \in P
    BY <1>3, <1>5
  <2>2. ASSUME NEW n \in Nat, n \in P PROVE n + 1 \in P
    <3> SUFFICES ASSUME n + 1 \in 0..N PROVE r[n + 1] \subseteq C
      OBVIOUS
    <3>1. n \in 0..N /\ r[n + 1] = Further(r[n])
      BY <1>4
    <3>2. r[n] \subseteq C
      BY <2>2, <3>1
    <3> QED BY <1>5, <3>1, <3>2 DEF Further, Closed
  <2>3. Nat \subseteq P
    <3> HIDE DEF P
    <3> QED BY <2>1, <2>2, NatInd
  <2> QED BY <1>2, <2>3
<1>6. \A S \in SUBSET Dirs : Further(S) = S \/ (\E y \in Dirs : y \in Further(S) /\ y \notin S)
  BY DEF Further
<1>7. \A S \in SUBSET Dirs : Further(S) = S => Closed(S)
  BY DEF Further, Closed
<1>8. \A S : S \subseteq Further(S)
  BY DEF Further
<1>9. /\ \A S \in SUBSET Dirs : IsFiniteSet(S) /\ Cardinality(S) \in Nat /\ Cardinality(S) <= N
  BY <1>2, FS_Subset, FS_CardinalityType DEF N
<1>10. Closed(r[N])
  <2> DEFINE P == {n \in Nat : n \in 0..N => Closed(r[n]) \/ Cardinality(r[n]) >= n + 1}
  <2>1. 0 \in P
    <3>1. Cardinality(r[0]) = 1
      BY <1>3, FS_Singleton
    <3> QED BY <3>1
  <2>2. ASSUME NEW n \in Nat, n \in P PROVE n + 1 \in P
    <3> SUFFICES ASSUME n + 1 \in 0..N
                 PROVE  Closed(r[n + 1]) \/ Cardinality(r[n + 1]) >= n + 1 + 1
      OBVIOUS
    <3>1. n \in 0..N /\ r[n + 1] = Further(r[n]) /\ r[n] \in SUBSET Dirs /\ r[n + 1] \in SUBSET Dirs
      BY <1>4
    <3>2. Closed(r[n]) \/ Cardinality(r[n]) >= n + 1
      BY <2>2, <3>1
    <3>3. CASE Further(r[n]) = r[n]
      BY <1>7, <3>1, <3>3
    <3>4. CASE Further(r[n]) # r[n]
      <4>1. PICK y \in Dirs : y \in r[n + 1] /\ y \notin r[n]
        BY <1>6, <3>1, <3>4
      <4>2. ~Closed(r[n])
        BY <3>1, <4>1 DEF Further, Closed
      <4>3. IsFiniteSet(r[n]) /\ Cardinality(r[n]) \in Nat /\ IsFiniteSet(r[n + 1])
            /\ Cardinality(r[n + 1]) \in Nat
        BY <1>9, <3>1
      <4>4. r[n] \cup {y} \in SUBSET r[n + 1]
        BY <1>8, <3>1, <4>1
      <4>5. Cardinality(r[n] \cup {y}) = Cardinality(r[n]) + 1
        BY <4>1, <4>3, FS_AddElement
      <4>6. Cardinality(r[n] \cup {y}) <= Cardinality(r[n + 1])
        BY <4>3, <4>4, FS_Subset
      <4> QED BY <3>2, <4>2, <4>3, <4>5, <4>6
    <3> QED BY <3>3, <3>4
  <2>3. Nat \subseteq P
    <3> HIDE DEF P
    <3> QED BY <2>1, <2>2, NatInd
  <2>4. N \in 0..N /\ N \in P
    BY <1>2, <2>3
  <2>5. r[N] \in SUBSET Dirs
    BY <1>3, <2>4 DEF N
  <2>6. ~(Cardinality(r[N]) >= N + 1)
    BY <1>2, <1>9, <2>5
  <2> QED BY <2>4, <2>6
<1>11. r[N] \in SUBSET Dirs
  BY <1>2, <1>3 DEF N
<1>12. cur \in r[N]
  <2> DEFINE P == {n \in Nat : n \in 0..N => cur \in r[n]}
  <2>1. 0 \in P
    BY <1>3
  <2>2. ASSUME NEW n \in Nat, n \in P PROVE n + 1 \in P
    BY <1>4, <1>8, <2>2
  <2>3. Nat \subseteq P
    <3> HIDE DEF P
    <3> QED BY <2>1, <2>2, NatInd
  <2> QED BY <1>2, <2>3
<1> QED BY <1>1, <1>5, <1>10, <1>11, <1>12 DEF N

\* What is counted is a directory.
LEMMA CountsDirectory ==
    Spec => [](Counted => cur \in Dirs)
<1>1. Init => (Counted => cur \in Dirs)
  BY DEF Init, NamespaceInit, Counted, Done
<1>2. ASSUME PathInv, Counted => cur \in Dirs, [Next]_vars PROVE (Counted => cur \in Dirs)'
  <2>1. CASE PathStep \/ NotDirectory
    BY <1>2, <2>1, PathStepIsNoCount
  <2>2. CASE Begin
    BY <2>2 DEF Begin, Counted, Done
  <2>3. CASE Walk
    BY <2>3, WalkFrame DEF Counted, Done
  <2>4. CASE Report
    BY <1>2, <2>4 DEF Report, Answered, PathInv, WalkOfTool
  <2>5. CASE Finished \/ UNCHANGED vars
    BY <1>2, <2>5 DEF Finished, vars, pathVars, Counted, Done
  <2> QED BY <1>2, <2>1, <2>2, <2>3, <2>4, <2>5 DEF Next
<1> QED BY <1>1, <1>2, PathsAlways, PTL DEF Spec

\* At the end of a count whose books are right it has visited what can be
\* reached, listed what of it can be read, and looked at all their entries.
LEMMA AtTheEnd ==
    ASSUME PathInv, WalkInv, Counted, Sane
    PROVE  /\ visited = Reachable /\ cur \in Dirs
           /\ {x \in Dirs : listed[x] = 1} = {x \in Reachable : ~Unreadable(x)}
           /\ \A k : OfKind({x \in Reachable : ~Unreadable(x)}, k) = Cardinality(DoneOf(k))
<1> USE DEF WalkInv
<1>1. call = {} /\ stack = <<>> /\ visited \in SUBSET Dirs /\ ~Scan
  BY DEF Counted, Done, WalkType, Sane
<1>2. \A x, j : ~Pending(x, j)
  BY <1>1 DEF Pending
<1>3. cur \in visited /\ \A x \in visited : listed[x] = 1 \/ Unreadable(x)
  BY <1>1 DEF Tally
<1>4. \A x \in Dirs : listed[x] = 1 =>
        \A j \in Looked(x) : StatKind(Read(x)[j].to) = "dir" => Read(x)[j].to \in visited
  BY <1>1, <1>2 DEF Tally
<1>5. Closed(visited)
  <2> SUFFICES ASSUME NEW x \in visited, NEW y \in Dirs, ~Unreadable(x), LeadsTo(x, y) # {}
               PROVE  y \in visited
    BY DEF Closed
  <2>1. PICK j \in Looked(x) : Read(x)[j].to = y /\ StatKind(y) = "dir"
    BY DEF LeadsTo
  <2> QED BY <1>1, <1>3, <1>4, <2>1
<1>6. cur \in Dirs
  BY <1>1, <1>3
<1>7. visited = Reachable
  <2>1. Reachable \subseteq visited
    BY <1>1, <1>3, <1>5, <1>6, ReachableIs
  <2>2. visited \subseteq Reachable
    BY <1>1, <1>6, ReachableIs DEF InReach
  <2> QED BY <2>1, <2>2
<1> DEFINE R == {x \in Reachable : ~Unreadable(x)}
<1>8. {x \in Dirs : listed[x] = 1} = R
  BY <1>1, <1>3, <1>7 DEF Once
<1>9. ASSUME NEW k PROVE OfKind(R, k) = Cardinality(DoneOf(k))
  <2> DEFINE U == UNION {{<<x, j>> : j \in {l \in Looked(x) : StatKind(Read(x)[l].to) = k}} : x \in R}
  <2>1. \A x : Looked(x) \subseteq Nat
    BY DEF Looked
  <2>2. \A x : x \in R <=> x \in Dirs /\ listed[x] = 1
    BY <1>8
  <2> HIDE DEF R
  <2>3. \A p : p \in U <=> \E x \in R : \E j \in Looked(x) : StatKind(Read(x)[j].to) = k /\ p = <<x, j>>
    OBVIOUS
  <2>4. \A p : p \in DoneOf(k) <=> \E x \in R : \E j \in Looked(x) : StatKind(Read(x)[j].to) = k /\ p = <<x, j>>
    BY <1>2, <2>1, <2>2 DEF DoneOf
  <2>5. U = DoneOf(k)
    <3> HIDE DEF U
    <3> QED BY <2>3, <2>4
  <2>6. OfKind(R, k) = Cardinality(U)
    BY DEF OfKind
  <2> QED BY <2>5, <2>6
<1> QED BY <1>6, <1>7, <1>8, <1>9

\* A count that reports no error has seen everything: for every structure,
\* depth limit and number of faults.
THEOREM NothingMissedSilentlyAlways == Spec => []NothingMissedSilently
<1>1. ASSUME PathInv, WalkInv, Counted, cnt.errors = 0
      PROVE  /\ {x \in Dirs : listed[x] = 1} = Reachable
             /\ OfKind(Reachable, "bad") = 0 /\ faults = 0
  <2>1. Sane
    BY <1>1 DEF Sane, Scan, Counted
  <2>2. /\ visited = Reachable /\ {x \in Dirs : listed[x] = 1} = {x \in Reachable : ~Unreadable(x)}
        /\ OfKind({x \in Reachable : ~Unreadable(x)}, "bad") = Cardinality(DoneOf("bad"))
    BY <1>1, <2>1, AtTheEnd
  <2>3. faults = 0 /\ visited \cap tree.broken = {} /\ DoneOf("bad") = {}
    BY <1>1, <2>1 DEF WalkInv, Tally
  <2>4. {x \in Reachable : ~Unreadable(x)} = Reachable
    BY <2>2, <2>3 DEF Unreadable
  <2>5. OfKind(Reachable, "bad") = Cardinality(DoneOf("bad"))
    BY <2>2, <2>4
  <2> QED BY <2>2, <2>3, <2>4, <2>5, FS_EmptySet
<1>2. PathInv /\ WalkInv => NothingMissedSilently
  BY <1>1 DEF NothingMissedSilently
<1> QED BY <1>2, PathsAlways, WalksAlways, PTL

\* On a structure within the depth limit, without faults, the count is exact,
\* and what it counts as errors is bad tags, directories that cannot be read
\* and entries that lead back to a directory seen.
THEOREM CountExactAlways == Spec => []CountExact
<1> DEFINE R == {x \in Reachable : ~Unreadable(x)}
<1>1. ASSUME PathInv, WalkInv, Counted, cur \in Dirs, faults = 0, Cardinality(Reachable) <= MaxDepth + 1
      PROVE  /\ \A k \in {"reg", "lnk", "other"} : cnt[k] = OfKind(R, k)
             /\ cnt.dirs = OfKind(R, "dir")
             /\ cnt.errors = OfKind(R, "bad") + Cardinality(Reachable \ R)
                             + cnt.dirs - (Cardinality(Reachable) - 1)
  <2>1. Small
    BY <1>1, ReachableIs DEF Small
  <2>2. Sane
    BY <1>1, <2>1 DEF Sane, Scan, Counted
  <2>3. visited = Reachable /\ \A k : OfKind(R, k) = Cardinality(DoneOf(k))
    BY <1>1, <2>2, AtTheEnd
  <2>4. Reachable \ R = visited \cap tree.broken
    BY <2>3 DEF Unreadable
  <2>5. /\ \A k \in {"reg", "lnk", "other"} : cnt[k] = Cardinality(DoneOf(k))
        /\ cnt.dirs = Cardinality(DoneOf("dir"))
        /\ cnt.errors + Cardinality(visited) + Cardinality(call) =
             Cardinality(DoneOf("bad")) + Cardinality(visited \cap tree.broken) + cnt.dirs + 1
    BY <1>1, <2>2 DEF WalkInv, Tally
  <2>6. Cardinality(call) = 0
    BY <1>1, FS_EmptySet DEF WalkInv, WalkType, Counted, Done
  <2>7. /\ Cardinality(visited) \in Nat /\ Cardinality(visited \cap tree.broken) \in Nat
        /\ Cardinality(DoneOf("bad")) \in Nat
    BY <1>1, BooksFinite DEF PathInv, WalkInv, WalkType
  <2>8. cnt.errors \in Nat /\ cnt.dirs \in Nat
    BY <1>1 DEF WalkInv, WalkType, Counters
  <2> HIDE DEF R
  <2>9. cnt.errors = Cardinality(DoneOf("bad")) + Cardinality(visited \cap tree.broken)
                     + cnt.dirs - (Cardinality(visited) - 1)
    BY <2>5, <2>6, <2>7, <2>8
  <2> QED BY <2>3, <2>4, <2>5, <2>9
<1>2. PathInv /\ WalkInv /\ (Counted => cur \in Dirs) => CountExact
  BY <1>1 DEF CountExact
<1> QED BY <1>2, PathsAlways, WalksAlways, CountsDirectory, PTL

-----------------------------------------------------------------------------
\* The inductive invariant of scans.

\* The entry that frame j looked at last.
Trail(j) == <<stack[j].dir, stack[j].k - 1>>

\* Route r follows the stack down to frame j and goes on with an entry that
\* frame j has still to look at.
Ahead(r, j) ==
    /\ j <= Len(r) /\ r[j][1] = stack[j].dir /\ \A l \in 1..j - 1 : r[l] = Trail(l)
    /\ IF stack[j].loop = "dead" THEN j = Len(r) => r[j][2] >= stack[j].k
       ELSE j < Len(r) /\ r[j][2] >= stack[j].k

\* Route r goes through the call that is about to be made.
InCall(r) == call # {} /\ Len(r) > Len(stack) /\ \A l \in 1..Len(stack) : r[l] = Trail(l)

\* The routes of which the rows were printed, and those among them with metadata.
ToCome(r) == InCall(r) \/ \E j \in 1..Len(stack) : Ahead(r, j)
Printed == {r \in Routes : ~ToCome(r)}
Good(R) == {r \in R : StatKind(LastOf(r).to) # "bad"}

\* A scan begins at the root and looks no path up.
FromRoot == Scan => pc # "walk" /\ cur = Root

\* The stack is a route: the entry each frame looked at last leads to the
\* directory of the next frame or of the call.
Linked ==
    /\ stack # <<>> => stack[1].dir = Root
    /\ \A j \in 1..Len(stack) : ~Unreadable(stack[j].dir)
    /\ \A j \in 1..Len(stack) - 1 :
         stack[j].loop = "live" /\ stack[j].k - 1 \in LeadsTo(stack[j].dir, stack[j + 1].dir)
OnRoute ==
    Scan /\ pc = "walking" =>
      /\ Linked
      /\ \A x \in call : IF stack = <<>> THEN x = Root
                         ELSE Top.loop = "live" /\ Top.k - 1 \in LeadsTo(Top.dir, x)

\* The counters of a scan without faults.
RowsOK ==
    Scan /\ (pc = "walking" \/ Done) /\ faults = 0 =>
      /\ IsFiniteSet(Printed) /\ cnt.deleted = Cardinality(Printed)
      /\ IsFiniteSet(Good(Printed)) /\ cnt.recoverable = Cardinality(Good(Printed))

ScanInv == FromRoot /\ OnRoute /\ RowsOK

\* What a route is.
LEMMA RouteIs ==
    ASSUME PathType, NEW r \in Routes
    PROVE  /\ Len(r) \in 1..MaxDepth + 1 /\ r = [j \in 1..Len(r) |-> r[j]]
           /\ \A j \in 1..Len(r) : /\ r[j] = <<r[j][1], r[j][2]>>
                                   /\ r[j][1] \in Dirs /\ ~Unreadable(r[j][1])
                                   /\ r[j][2] \in 1..Len(Read(r[j][1]))
           /\ r[1][1] = Root /\ r[Len(r)] \in Steps /\ LastOf(r).dead
           /\ \A j \in 1..Len(r) - 1 : r[j][2] \in LeadsTo(r[j][1], r[j + 1][1])
<1>1. PICK n \in 1..MaxDepth + 1 : r \in [1..n -> Steps]
  BY DEF Routes
<1>2. n \in Nat /\ n >= 1 /\ MaxDepth \in Nat
  BY WalkAssumption
<1> HIDE DEF Steps
<1>3. Len(r) = n
  BY <1>1, <1>2, FunctionIsSeq
<1>4. \A s \in Steps : /\ s = <<s[1], s[2]>> /\ s[1] \in Dirs /\ ~Unreadable(s[1])
                       /\ s[2] \in 1..Len(Read(s[1]))
  BY DEF Steps
<1>5. \A j \in 1..n : r[j] \in Steps
  BY <1>1
<1>6. r = [j \in 1..n |-> r[j]]
  BY <1>1
<1>7. /\ r[1][1] = Root /\ LastOf(r).dead
      /\ \A j \in 1..Len(r) - 1 : r[j][2] \in LeadsTo(r[j][1], r[j + 1][1])
  BY DEF Routes
<1>8. n \in 1..MaxDepth + 1
  BY <1>1
<1>9. Len(r) \in 1..MaxDepth + 1 /\ r = [j \in 1..Len(r) |-> r[j]]
  <2>1. Len(r) \in 1..MaxDepth + 1
    BY <1>3, <1>8
  <2> QED BY <1>3, <1>6, <2>1
<1>10. \A j \in 1..Len(r) : /\ r[j] = <<r[j][1], r[j][2]>>
                             /\ r[j][1] \in Dirs /\ ~Unreadable(r[j][1])
                             /\ r[j][2] \in 1..Len(Read(r[j][1]))
  BY <1>3, <1>4, <1>5
<1>11. r[Len(r)] \in Steps
  BY <1>2, <1>3, <1>5
<1> QED BY <1>7, <1>9, <1>10, <1>11

\* Routes depend on the structure.
LEMMA SameRoutes ==
    ASSUME tree' = tree, req' = req
    PROVE  /\ Routes' = Routes /\ \A r : LastOf(r)' = LastOf(r)
           /\ \A R : Good(R)' = Good(R)
           /\ \A x, y : LeadsTo(x, y)' = LeadsTo(x, y)
<1>1. \A x : Read(x)' = Read(x) /\ Unreadable(x)' = Unreadable(x) /\ StatKind(x)' = StatKind(x)
  BY SameWalk
<1>2. \A x, y : LeadsTo(x, y)' = LeadsTo(x, y)
  BY <1>1, SameWalk DEF LeadsTo
<1>3. Steps' = Steps
  BY <1>1 DEF Steps
<1>4. \A r : LastOf(r)' = LastOf(r)
  BY <1>1 DEF LastOf, EntryAt
<1>5. Routes' = Routes
  <2> HIDE DEF Steps, LastOf
  <2> QED BY <1>2, <1>3, <1>4 DEF Routes
<1>6. \A R : Good(R)' = Good(R)
  BY <1>1, <1>4 DEF Good
<1> QED BY <1>2, <1>4, <1>5, <1>6

\* A scan under way.
Scanning == PathInv /\ WalkType /\ OnRoute /\ Scan /\ pc = "walking"

\* The stack of a scan.
LEMMA StackIs ==
    ASSUME Scanning
    PROVE  /\ stack \in Seq(Frames) /\ Len(stack) \in Nat /\ (stack = <<>> <=> Len(stack) = 0)
           /\ \A j \in 1..Len(stack) : /\ stack[j].dir \in Dirs /\ stack[j].loop \in {"dead", "live"}
                                       /\ stack[j].k \in Nat \ {0} /\ ~Unreadable(stack[j].dir)
           /\ Len(stack) # 0 => stack[1].dir = Root /\ 1 \in 1..Len(stack) /\ Len(stack) \in 1..Len(stack)
           /\ \A j \in 1..Len(stack) - 1 :
                /\ j \in 1..Len(stack) /\ j + 1 \in 1..Len(stack)
                /\ stack[j].loop = "live" /\ stack[j].k - 1 \in LeadsTo(stack[j].dir, stack[j + 1].dir)
<1>1. stack \in Seq(Frames)
  BY DEF Scanning, WalkType
<1>2. Len(stack) \in Nat /\ (stack = <<>> <=> Len(stack) = 0)
  <2>1. ASSUME NEW F, stack \in Seq(F) PROVE Len(stack) \in Nat /\ (stack = <<>> <=> Len(stack) = 0)
    BY <2>1
  <2> QED BY <1>1, <2>1
<1>3. \A j \in 1..Len(stack) : /\ stack[j].dir \in Dirs /\ stack[j].loop \in {"dead", "live"}
                               /\ stack[j].k \in Nat \ {0}
  BY <1>1, FrameIs
<1>4. Len(stack) # 0 => 1 \in 1..Len(stack) /\ Len(stack) \in 1..Len(stack)
  BY <1>2
<1>5. \A j \in 1..Len(stack) - 1 : j \in 1..Len(stack) /\ j + 1 \in 1..Len(stack)
  BY <1>2
<1> QED BY <1>1, <1>2, <1>3, <1>4, <1>5 DEF Scanning, OnRoute, Linked

\* A route that goes through the call goes through its directory.
LEMMA InCallDir ==
    ASSUME Scanning, NEW x, call = {x}, NEW r \in Routes, InCall(r)
    PROVE  r[Len(stack) + 1][1] = x /\ Len(stack) + 1 \in 1..Len(r)
<1> DEFINE n == Len(stack)
<1>1. n \in Nat /\ Len(r) \in Nat /\ Len(r) > n /\ \A l \in 1..n : r[l] = Trail(l)
  BY StackIs, RouteIs DEF InCall, Scanning, PathInv
<1>2. n + 1 \in 1..Len(r)
  BY <1>1
<1>3. CASE n = 0
  <2>1. x = Root
    BY <1>3, StackIs DEF Scanning, OnRoute
  <2> QED BY <1>2, <1>3, <2>1, RouteIs DEF Scanning, PathInv
<1>4. CASE n # 0
  <2>1. Top.k - 1 \in LeadsTo(Top.dir, x)
    BY <1>4, StackIs DEF Scanning, OnRoute
  <2>2. n \in 1..n /\ n \in 1..Len(r) - 1
    BY <1>1, <1>4
  <2>3. r[n] = <<Top.dir, Top.k - 1>>
    BY <1>1, <2>2 DEF Trail, Top
  <2>4. r[n][2] \in LeadsTo(r[n][1], r[n + 1][1])
    BY <2>2, RouteIs DEF Scanning, PathInv
  <2>5. Top.k - 1 \in LeadsTo(Top.dir, r[n + 1][1])
    BY <2>3, <2>4
  <2> QED BY <1>2, <2>1, <2>5 DEF LeadsTo
<1> QED BY <1>3, <1>4

\* Steps that print nothing: what is to come stays the same.
LEMMA NothingPrinted ==
    ASSUME Scanning, RowsOK, tree' = tree, req' = req, cnt' = cnt, faults' = 0 => faults = 0,
           \A r \in Routes : ToCome(r)' <=> ToCome(r)
    PROVE  RowsOK'
<1>1. Printed' = Printed
  BY SameRoutes DEF Printed
<1>2. Good(Printed)' = Good(Printed)
  BY <1>1, SameRoutes
<1> QED BY <1>1, <1>2 DEF RowsOK, Scanning

\* What a scan calls.
LEMMA ScanCalls ==
    ASSUME Scanning, RowsOK, NEW x \in Dirs, CallRefused(x) \/ CallFails(x) \/ Call(x)
    PROVE  OnRoute' /\ RowsOK'
<1>0. PICK n : n = Len(stack)
  OBVIOUS
<1>1. /\ UNCHANGED <<tree, req, cur, pc>> /\ call = {x} /\ call' = {} /\ cnt' = cnt
      /\ Scan
  BY DEF CallRefused, CallFails, Call, Walking, Missed, Scanning
<1>2. n \in Nat /\ n = Len(stack) /\ MaxDepth \in Nat /\ faults \in Nat
  BY <1>0, StackIs, WalkAssumption DEF Scanning, PathInv, PathType
<1>3. \A r : ~InCall(r)'
  BY <1>1 DEF InCall
<1>4. CASE CallRefused(x) \/ CallFails(x)
  <2>1. stack' = stack
    BY <1>4 DEF CallRefused, CallFails
  <2>2. OnRoute'
    BY <1>1, <2>1, SameRoutes, SameWalk DEF OnRoute, Linked, Scanning
  <2>3. \A r, j : Ahead(r, j)' <=> Ahead(r, j)
    BY <2>1 DEF Ahead, Trail
  <2>4. ASSUME NEW r \in Routes, faults' = 0 PROVE ~InCall(r)
    <3>1. Len(r) \in Nat /\ Len(r) <= MaxDepth + 1
      BY <1>2, RouteIs DEF Scanning, PathInv
    <3>2. CASE CallRefused(x)
      <4>1. n > MaxDepth
        BY <1>1, <1>2, <3>2 DEF CallRefused, Guarded, TooDeep
      <4> QED BY <1>2, <3>1, <4>1 DEF InCall
    <3>3. CASE CallFails(x)
      <4>1. Unreadable(x)
        BY <1>1, <1>2, <2>4, <3>3 DEF CallFails, Fault
      <4>2. ASSUME InCall(r) PROVE FALSE
        <5>1. r[n + 1][1] = x /\ n + 1 \in 1..Len(r)
          BY <1>1, <1>2, <4>2, InCallDir
        <5> QED BY <4>1, <5>1, RouteIs DEF Scanning, PathInv
      <4> QED BY <4>2
    <3> QED BY <1>4, <3>2, <3>3
  <2>5. ASSUME faults' = 0 PROVE RowsOK'
    <3>1. faults = 0
      BY <1>2, <1>4, <2>5 DEF CallRefused, CallFails, Fault
    <3>2. \A r \in Routes : ToCome(r)' <=> ToCome(r)
      BY <1>3, <2>1, <2>3, <2>4, <2>5 DEF ToCome
    <3> QED BY <1>1, <3>1, <3>2, NothingPrinted
  <2>6. ASSUME faults' # 0 PROVE RowsOK'
    BY <2>6 DEF RowsOK
  <2> QED BY <2>2, <2>5, <2>6
<1>5. CASE Call(x)
  <2> DEFINE f == [dir |-> x, loop |-> "dead", k |-> 1]
  <2>1. stack' = Append(stack, f) /\ faults' = faults /\ ~Unreadable(x)
    BY <1>1, <1>5 DEF Call
  <2>2. f \in Frames /\ stack \in Seq(Frames)
    BY StackIs DEF Frames
  <2>3. f.dir = x /\ f.loop = "dead" /\ f.k = 1
    OBVIOUS
  <2> HIDE DEF f
  <2>4. /\ Len(stack') = n + 1
        /\ \A j \in 1..n + 1 : IF j = n + 1 THEN stack'[j] = f ELSE j \in 1..n /\ stack'[j] = stack[j]
    BY <1>2, <2>1, <2>2, Pushed
  <2>5. \A j \in 1..n : j \in 1..n + 1 /\ j # n + 1 /\ stack'[j] = stack[j]
    BY <1>2, <2>4
  <2>6. n + 1 \in 1..n + 1 /\ stack'[n + 1] = f
    BY <1>2, <2>4
  <2>7. \A j \in 1..n : Trail(j)' = Trail(j)
    BY <2>5 DEF Trail
  <2>8. OnRoute'
    <3>1. stack' # <<>> => stack'[1].dir = Root
      <4>1. CASE n = 0
        BY <1>1, <2>3, <2>6, <4>1, StackIs, <1>2 DEF Scanning, OnRoute
      <4>2. CASE n # 0
        BY <2>5, <4>2, StackIs, <1>2
      <4> QED BY <4>1, <4>2
    <3>2. \A j \in 1..n + 1 : stack'[j].dir \notin tree'.broken
      BY <1>1, <1>2, <2>1, <2>3, <2>4, StackIs DEF Unreadable
    <3>3. \A j \in 1..n : stack'[j].loop = "live" /\ stack'[j].k - 1 \in LeadsTo(stack'[j].dir, stack'[j + 1].dir)
      <4> SUFFICES ASSUME NEW j \in 1..n
                   PROVE  stack[j].loop = "live" /\ stack[j].k - 1 \in LeadsTo(stack[j].dir, stack'[j + 1].dir)
        BY <2>5
      <4>1. CASE j = n
        <5>1. Top.loop = "live" /\ Top.k - 1 \in LeadsTo(Top.dir, x)
          BY <1>1, <4>1, StackIs, <1>2 DEF Scanning, OnRoute
        <5> QED BY <1>2, <2>3, <2>6, <4>1, <5>1 DEF Top
      <4>2. CASE j # n
        <5>1. j \in 1..n - 1 /\ j + 1 \in 1..n
          BY <1>2, <4>2
        <5>2. stack'[j + 1] = stack[j + 1]
          BY <2>5, <5>1
        <5> QED BY <5>1, <5>2, StackIs, <1>2
      <4> QED BY <4>1, <4>2
    <3>4. n + 1 - 1 = n
      BY <1>2
    <3>5. \A j \in 1..n : (stack[j].loop = "live" /\ stack[j].k - 1 \in LeadsTo(stack[j].dir, stack[j + 1].dir))'
      BY <1>1, <3>3, SameRoutes
    <3> QED BY <1>1, <2>4, <3>1, <3>2, <3>4, <3>5 DEF OnRoute, Linked, Unreadable
  <2>9. ASSUME NEW r \in Routes PROVE ToCome(r)' <=> ToCome(r)
    <3>1. Len(r) \in Nat
      BY RouteIs DEF Scanning, PathInv
    <3>2. ASSUME NEW j \in 1..n PROVE Ahead(r, j)' <=> Ahead(r, j)
      <4>1. stack'[j] = stack[j] /\ \A l \in 1..j - 1 : Trail(l)' = Trail(l)
        BY <1>2, <2>5, <2>7
      <4> QED BY <4>1 DEF Ahead
    <3>3. Ahead(r, n + 1)' <=> InCall(r)
      <4>1. Ahead(r, n + 1)' <=> /\ n + 1 <= Len(r) /\ r[n + 1][1] = x
                                 /\ \A l \in 1..n : r[l] = Trail(l)
                                 /\ (n + 1 = Len(r) => r[n + 1][2] >= 1)
        <5>1. PICK m : m = n + 1
          OBVIOUS
        <5>2. m - 1 = n
          BY <1>2, <5>1
        <5>3. stack'[m].dir = x /\ stack'[m].loop = "dead" /\ stack'[m].k = 1
          BY <2>3, <2>6, <5>1
        <5>4. Ahead(r, m)' <=> /\ m <= Len(r) /\ r[m][1] = x /\ \A l \in 1..m - 1 : r[l] = Trail(l)'
                               /\ (m = Len(r) => r[m][2] >= 1)
          BY <5>3 DEF Ahead
        <5>5. \A l \in 1..m - 1 : Trail(l)' = Trail(l)
          BY <2>7, <5>2
        <5> HIDE DEF Ahead
        <5> QED BY <5>1, <5>2, <5>4, <5>5
      <4>2. InCall(r) => r[n + 1][1] = x /\ n + 1 \in 1..Len(r)
        BY <1>1, <1>2, InCallDir
      <4>3. n + 1 <= Len(r) => r[n + 1][2] >= 1
        <5>1. ASSUME n + 1 <= Len(r) PROVE r[n + 1][2] >= 1
          <6>1. n + 1 \in 1..Len(r)
            BY <1>2, <3>1, <5>1
          <6>2. r[n + 1][2] \in 1..Len(Read(r[n + 1][1]))
            BY <6>1, RouteIs DEF Scanning, PathInv
          <6> QED BY <6>2
        <5> QED BY <5>1
      <4>4. Len(r) > n <=> n + 1 <= Len(r)
        BY <1>2, <3>1
      <4>5. InCall(r) <=> Len(r) > n /\ \A l \in 1..n : r[l] = Trail(l)
        BY <1>1, <1>2 DEF InCall
      <4> HIDE DEF InCall
      <4> QED BY <4>1, <4>2, <4>3, <4>4, <4>5
    <3>4. /\ ToCome(r)' <=> \E j \in 1..n + 1 : Ahead(r, j)'
          /\ ToCome(r) <=> InCall(r) \/ \E j \in 1..n : Ahead(r, j)
      BY <1>2, <1>3, <2>4 DEF ToCome
    <3>5. \A j \in 1..n + 1 : j \in 1..n \/ j = n + 1
      BY <1>2
    <3> QED BY <1>2, <3>2, <3>3, <3>4, <3>5
  <2> QED BY <1>1, <2>1, <2>8, <2>9, NothingPrinted
<1> QED BY <1>4, <1>5

\* Route r goes through the entry looked at next.
Here(r) ==
    /\ Len(stack) <= Len(r) /\ r[Len(stack)] = <<Top.dir, Top.k>>
    /\ \A l \in 1..Len(stack) - 1 : r[l] = Trail(l)
    /\ IF Top.loop = "dead" THEN Len(r) = Len(stack) ELSE Len(stack) < Len(r)

\* Looking at an entry leaves the other routes where they are.
LEMMA LooksAt ==
    ASSUME Scanning, NEW e, At(e), tree' = tree, req' = req
    PROVE  /\ Linked' /\ call = {} /\ stack' # <<>>
           /\ Len(stack') = Len(stack) /\ \A l \in 1..Len(stack) - 1 : Trail(l)' = Trail(l)
           /\ Top'.dir = Top.dir /\ Top'.loop = Top.loop /\ Top'.k = Top.k + 1
           /\ \A r \in Routes :
                /\ (\E j \in 1..Len(stack) : Ahead(r, j)') <=> (\E j \in 1..Len(stack) : Ahead(r, j)) /\ ~Here(r)
                /\ Here(r) => \E j \in 1..Len(stack) : Ahead(r, j)
<1>1. PICK n : n = Len(stack)
  OBVIOUS
<1>2. /\ stack # <<>> /\ stack \in Seq(Frames) /\ n \in Nat \ {0} /\ n \in 1..n /\ call = {}
      /\ Top = stack[n] /\ Top.k \in Nat /\ Top.loop \in {"dead", "live"}
  BY <1>1, AtIs, StackIs DEF Top, Scanning
<1>3. stack' = [stack EXCEPT ![Len(stack)].k = @ + 1]
  BY DEF At
<1>4. /\ Len(stack') = n
      /\ \A j \in 1..n : /\ stack'[j].dir = stack[j].dir /\ stack'[j].loop = stack[j].loop
                         /\ stack'[j].k = IF j = n THEN stack[j].k + 1 ELSE stack[j].k
  BY <1>1, <1>2, <1>3, Advanced
<1>5. stack' # <<>>
  BY <1>2, <1>4
<1>6. \A l \in 1..n - 1 : l \in 1..n /\ l # n /\ l + 1 \in 1..n
  BY <1>2
<1>7. \A l \in 1..n - 1 : Trail(l)' = Trail(l)
  BY <1>4, <1>6 DEF Trail
<1>8. Top'.dir = Top.dir /\ Top'.loop = Top.loop /\ Top'.k = Top.k + 1
  BY <1>2, <1>4 DEF Top
<1>9. Linked'
  <2>1. stack'[1].dir = Root
    <3>1. 1 \in 1..n
      BY <1>2
    <3> QED BY <1>1, <1>2, <1>4, <3>1, StackIs
  <2>2. \A j \in 1..n : stack'[j].dir \notin tree'.broken
    BY <1>1, <1>4, StackIs DEF Unreadable
  <2>3. \A j \in 1..n - 1 : (stack[j].loop = "live" /\ stack[j].k - 1 \in LeadsTo(stack[j].dir, stack[j + 1].dir))'
    <3> SUFFICES ASSUME NEW j \in 1..n - 1
                 PROVE  /\ stack'[j].loop = "live"
                        /\ stack'[j].k - 1 \in LeadsTo(stack'[j].dir, stack'[j + 1].dir)
      BY SameRoutes
    <3>1. stack[j].loop = "live" /\ stack[j].k - 1 \in LeadsTo(stack[j].dir, stack[j + 1].dir)
      BY <1>1, StackIs
    <3> QED BY <1>4, <1>6, <3>1
  <2> QED BY <1>4, <2>1, <2>2, <2>3 DEF Linked, Unreadable
<1>10. ASSUME NEW r \in Routes
       PROVE  /\ (\E j \in 1..n : Ahead(r, j)') <=> (\E j \in 1..n : Ahead(r, j)) /\ ~Here(r)
              /\ Here(r) => \E j \in 1..n : Ahead(r, j)
  <2>1. ASSUME NEW j \in 1..n - 1 PROVE Ahead(r, j)' <=> Ahead(r, j)
    <3>1. /\ stack'[j].dir = stack[j].dir /\ stack'[j].loop = stack[j].loop /\ stack'[j].k = stack[j].k
          /\ \A l \in 1..j - 1 : Trail(l)' = Trail(l)
      BY <1>2, <1>4, <1>6, <1>7
    <3> QED BY <3>1 DEF Ahead
  <2>2. n <= Len(r) => r[n] = <<r[n][1], r[n][2]>> /\ r[n][2] \in Nat
    <3>1. Len(r) \in Nat
      BY RouteIs DEF Scanning, PathInv
    <3>2. ASSUME n <= Len(r) PROVE r[n] = <<r[n][1], r[n][2]>> /\ r[n][2] \in Nat
      <4>1. n \in 1..Len(r)
        BY <1>2, <3>1, <3>2
      <4>2. r[n] = <<r[n][1], r[n][2]>> /\ r[n][2] \in 1..Len(Read(r[n][1]))
        BY <4>1, RouteIs DEF Scanning, PathInv
      <4> QED BY <4>2
    <3> QED BY <3>2
  <2>3. Ahead(r, n) <=> /\ n <= Len(r) /\ r[n][1] = Top.dir /\ \A l \in 1..n - 1 : r[l] = Trail(l)
                        /\ IF Top.loop = "dead" THEN n = Len(r) => r[n][2] >= Top.k
                           ELSE n < Len(r) /\ r[n][2] >= Top.k
    BY <1>2 DEF Ahead
  <2>4. Ahead(r, n)' <=> /\ n <= Len(r) /\ r[n][1] = Top.dir /\ \A l \in 1..n - 1 : r[l] = Trail(l)
                         /\ IF Top.loop = "dead" THEN n = Len(r) => r[n][2] >= Top.k + 1
                            ELSE n < Len(r) /\ r[n][2] >= Top.k + 1
    <3>1. stack'[n].dir = Top.dir /\ stack'[n].loop = Top.loop /\ stack'[n].k = Top.k + 1
      BY <1>2, <1>4
    <3>2. Ahead(r, n)' <=> /\ n <= Len(r) /\ r[n][1] = Top.dir /\ \A l \in 1..n - 1 : r[l] = Trail(l)'
                           /\ IF Top.loop = "dead" THEN n = Len(r) => r[n][2] >= Top.k + 1
                              ELSE n < Len(r) /\ r[n][2] >= Top.k + 1
      BY <3>1 DEF Ahead
    <3> QED BY <1>7, <3>2
  <2>5. Here(r) <=> /\ n <= Len(r) /\ r[n] = <<Top.dir, Top.k>>
                    /\ \A l \in 1..n - 1 : r[l] = Trail(l)
                    /\ IF Top.loop = "dead" THEN Len(r) = n ELSE n < Len(r)
    BY <1>1 DEF Here
  <2>6. Ahead(r, n)' <=> Ahead(r, n) /\ ~Here(r)
    <3>1. n <= Len(r) => /\ r[n] = <<Top.dir, Top.k>> <=> r[n][1] = Top.dir /\ r[n][2] = Top.k
                         /\ r[n][2] >= Top.k + 1 <=> r[n][2] >= Top.k /\ r[n][2] # Top.k
      BY <1>2, <2>2
    <3> QED BY <2>3, <2>4, <2>5, <3>1
  <2>7. Here(r) => Ahead(r, n)
    <3>1. r[n] = <<Top.dir, Top.k>> => r[n][1] = Top.dir /\ r[n][2] = Top.k
      OBVIOUS
    <3> QED BY <1>2, <2>3, <2>5, <3>1
  <2>8. ASSUME NEW j \in 1..n - 1, Here(r) PROVE ~Ahead(r, j)
    <3>1. r[j] = Trail(j)
      BY <2>5, <2>8
    <3>2. stack[j].loop = "live" /\ stack[j].k \in Nat
      BY <1>1, <1>6, StackIs
    <3>3. r[j][2] = stack[j].k - 1
      BY <3>1 DEF Trail
    <3> QED BY <3>2, <3>3 DEF Ahead
  <2>9. \A j \in 1..n : j \in 1..n - 1 \/ j = n
    BY <1>2
  <2> HIDE DEF Ahead, Here
  <2> QED BY <1>2, <1>6, <2>1, <2>6, <2>7, <2>8, <2>9
<1> QED BY <1>1, <1>2, <1>4, <1>5, <1>7, <1>8, <1>9, <1>10

\* What a scan does with an entry that it passes over, and with one that leads
\* to a subdirectory.
LEMMA ScanGoesOn ==
    ASSUME Scanning, RowsOK, NEW e, Pass(e) \/ Descend(e)
    PROVE  OnRoute' /\ RowsOK'
<1>1. PICK n : n = Len(stack)
  OBVIOUS
<1>2. /\ UNCHANGED <<tree, req, cur, pc>> /\ At(e) /\ cnt' = cnt /\ faults' = faults
  BY DEF Pass, Descend, At, Walking, Scanning
<1>3. /\ Linked' /\ call = {} /\ stack' # <<>>
      /\ Len(stack') = n /\ \A l \in 1..n - 1 : Trail(l)' = Trail(l)
      /\ Top'.dir = Top.dir /\ Top'.loop = Top.loop /\ Top'.k = Top.k + 1
      /\ \A r \in Routes :
           /\ (\E j \in 1..n : Ahead(r, j)') <=> (\E j \in 1..n : Ahead(r, j)) /\ ~Here(r)
           /\ Here(r) => \E j \in 1..n : Ahead(r, j)
  BY <1>1, <1>2, LooksAt
<1>4. /\ n \in Nat \ {0} /\ Top.dir \in Dirs /\ Top.k \in 1..Len(Read(Top.dir))
      /\ e = Read(Top.dir)[Top.k] /\ Top.loop \in {"dead", "live"} /\ Top = stack[n] /\ Top.k \in Nat
  BY <1>1, <1>2, AtIs DEF Scanning, Frames, Top
<1>5. ASSUME NEW r \in Routes
      PROVE  /\ ToCome(r) <=> \E j \in 1..n : Ahead(r, j)
             /\ ToCome(r)' <=> InCall(r)' \/ \E j \in 1..n : Ahead(r, j)'
  BY <1>1, <1>3 DEF ToCome, InCall
<1>6. CASE Pass(e)
  <2>1. call' = {} /\ PassedOver(e)
    BY <1>3, <1>6 DEF Pass
  <2>2. OnRoute'
    BY <1>3, <2>1 DEF OnRoute
  <2>3. ASSUME NEW r \in Routes, Here(r) PROVE FALSE
    <3>1. r[n] = <<Top.dir, Top.k>> /\ Len(r) \in Nat
      BY <1>1, <2>3, RouteIs DEF Here, Scanning, PathInv
    <3>2. CASE Top.loop = "dead"
      <4>1. LastOf(r) = e
        BY <1>1, <1>4, <2>3, <3>1, <3>2 DEF LastOf, EntryAt, Here
      <4>2. LastOf(r).dead
        BY RouteIs DEF Scanning, PathInv
      <4> QED BY <2>1, <3>2, <4>1, <4>2 DEF PassedOver
    <3>3. CASE Top.loop = "live"
      <4>1. n \in 1..Len(r) - 1
        BY <1>1, <1>4, <2>3, <3>1, <3>3 DEF Here
      <4>2. r[n][2] \in LeadsTo(r[n][1], r[n + 1][1])
        BY <4>1, RouteIs DEF Scanning, PathInv
      <4>3. Top.k \in LeadsTo(Top.dir, r[n + 1][1])
        BY <3>1, <4>2
      <4> QED BY <1>4, <2>1, <3>3, <4>3 DEF LeadsTo, Looked, PassedOver
    <3> QED BY <1>4, <3>2, <3>3
  <2>4. \A r : ~InCall(r)'
    BY <2>1 DEF InCall
  <2>5. \A r \in Routes : ToCome(r)' <=> ToCome(r)
    BY <1>3, <1>5, <2>3, <2>4
  <2> QED BY <1>2, <2>2, <2>5, NothingPrinted
<1>7. CASE Descend(e)
  <2>1. call' = {e.to} /\ ~PassedOver(e) /\ Top.loop = "live" /\ StatKind(e.to) = "dir"
    BY <1>7 DEF Descend, IsSub
  <2>2. Top.k \in LeadsTo(Top.dir, e.to)
    BY <1>4, <2>1 DEF PassedOver, LeadsTo, Looked
  <2>3. OnRoute'
    <3>1. Top'.k - 1 = Top.k
      BY <1>3, <1>4
    <3>2. (Top.k - 1 \in LeadsTo(Top.dir, e.to))'
      BY <1>2, <1>3, <2>2, <3>1, SameRoutes
    <3>3. \A x \in call' : x = e.to
      BY <2>1
    <3>4. Top'.loop = "live"
      BY <1>3, <2>1
    <3> HIDE DEF Top
    <3>5. \A x \in call' : Top'.loop = "live" /\ (Top.k - 1 \in LeadsTo(Top.dir, x))'
      BY <1>2, <1>3, <2>2, <3>1, <3>3, <3>4, SameRoutes
    <3> QED BY <1>3, <3>5 DEF OnRoute
  <2>4. ASSUME NEW r \in Routes PROVE InCall(r)' <=> Here(r)
    <3>1. Len(r) \in Nat
      BY RouteIs DEF Scanning, PathInv
    <3>2. Trail(n)' = <<Top.dir, Top.k>>
      <4>1. Top' = stack'[n]
        BY <1>3 DEF Top
      <4>2. stack'[n].dir = Top.dir /\ stack'[n].k - 1 = Top.k
        BY <1>3, <1>4, <4>1
      <4> QED BY <4>2 DEF Trail
    <3>3. InCall(r)' <=> Len(r) > n /\ \A l \in 1..n : r[l] = Trail(l)'
      BY <1>3, <2>1 DEF InCall
    <3>4. (\A l \in 1..n : r[l] = Trail(l)') <=> r[n] = <<Top.dir, Top.k>> /\ \A l \in 1..n - 1 : r[l] = Trail(l)
      <4>1. \A l \in 1..n : l = n \/ l \in 1..n - 1
        BY <1>4
      <4>2. n \in 1..n /\ \A l \in 1..n - 1 : l \in 1..n
        BY <1>4
      <4> HIDE DEF Trail
      <4> QED BY <1>3, <3>2, <4>1, <4>2
    <3>5. Here(r) <=> /\ n < Len(r) /\ r[n] = <<Top.dir, Top.k>>
                      /\ \A l \in 1..n - 1 : r[l] = Trail(l)
      BY <1>1, <1>4, <2>1, <3>1 DEF Here
    <3> QED BY <1>4, <3>1, <3>3, <3>4, <3>5
  <2>5. \A r \in Routes : ToCome(r)' <=> ToCome(r)
    BY <1>3, <1>5, <2>4
  <2> QED BY <1>2, <2>3, <2>5, NothingPrinted
<1> QED BY <1>6, <1>7


\* The route through the deleted entry that the scan looks at.
LEMMA RouteHere ==
    ASSUME Scanning, NEW e, At(e), ~PassedOver(e), Top.loop = "dead"
    PROVE  \E q \in Routes : LastOf(q) = e /\ \A r \in Routes : Here(r) <=> r = q
<1>1. PICK n : n = Len(stack)
  OBVIOUS
<1>2. /\ n \in Nat \ {0} /\ n \in 1..n /\ Top = stack[n] /\ Top.dir \in Dirs /\ Top.k \in 1..Len(Read(Top.dir))
      /\ e = Read(Top.dir)[Top.k] /\ e.dead
  BY <1>1, AtIs DEF Scanning, Top, PassedOver
<1>3. n \in 1..MaxDepth + 1
  BY <1>1, <1>2, WalkAssumption DEF Scanning, WalkType
<1>4. /\ \A j \in 1..n : stack[j].dir \in Dirs /\ ~Unreadable(stack[j].dir)
      /\ stack[1].dir = Root
      /\ \A j \in 1..n - 1 : stack[j].k - 1 \in LeadsTo(stack[j].dir, stack[j + 1].dir)
  BY <1>1, <1>2, StackIs
<1>5. \A j \in 1..n - 1 : j \in 1..n /\ j # n /\ j + 1 \in 1..n
  BY <1>2
<1> DEFINE s(j) == <<stack[j].dir, IF j = n THEN stack[j].k ELSE stack[j].k - 1>>
           q == [j \in 1..n |-> s(j)]
<1>6. s(n) = <<Top.dir, Top.k>> /\ \A j \in 1..n - 1 : s(j) = Trail(j)
  BY <1>2, <1>5 DEF Trail
<1>7. ASSUME NEW j \in 1..n PROVE s(j) \in Steps
  <2>1. s(j)[2] \in 1..Len(Read(stack[j].dir))
    <3>1. CASE j = n
      BY <1>2, <3>1
    <3>2. CASE j # n
      <4>1. j \in 1..n - 1
        BY <1>2, <3>2
      <4>2. stack[j].k - 1 \in LeadsTo(stack[j].dir, stack[j + 1].dir)
        BY <1>4, <4>1
      <4> QED BY <3>2, <4>2 DEF LeadsTo, Looked
    <3> QED BY <3>1, <3>2
  <2>2. stack[j].dir \in Dirs /\ ~Unreadable(stack[j].dir)
    BY <1>4
  <2> QED BY <2>1, <2>2 DEF Steps
<1>8. \A j \in 1..n : q[j] = s(j) /\ q[j][1] = stack[j].dir
  OBVIOUS
<1>9. q \in [1..n -> Steps]
  <2> HIDE DEF s, Steps
  <2> QED BY <1>7
<1>10. Len(q) = n
  <2> HIDE DEF q, Steps
  <2> QED BY <1>2, <1>9, FunctionIsSeq
<1>11. q[n] = <<Top.dir, Top.k>> /\ \A j \in 1..n - 1 : q[j] = Trail(j)
  <2> HIDE DEF q, s, Trail
  <2> QED BY <1>2, <1>5, <1>6, <1>8
<1>12. LastOf(q) = e
  <2> HIDE DEF q
  <2> QED BY <1>2, <1>10, <1>11 DEF LastOf, EntryAt
<1>13. q[1][1] = Root
  <2>1. 1 \in 1..n
    BY <1>2
  <2> HIDE DEF q
  <2> QED BY <1>4, <1>8, <2>1
<1>14. ASSUME NEW j \in 1..n - 1 PROVE q[j][2] \in LeadsTo(q[j][1], q[j + 1][1])
  <2>1. q[j] = Trail(j) /\ q[j + 1][1] = stack[j + 1].dir
    <3> HIDE DEF q, s
    <3> QED BY <1>5, <1>8, <1>11
  <2>2. q[j][1] = stack[j].dir /\ q[j][2] = stack[j].k - 1
    <3> HIDE DEF q
    <3> QED BY <2>1 DEF Trail
  <2> HIDE DEF q
  <2> QED BY <1>4, <2>1, <2>2
<1> HIDE DEF q, s
<1>15. q \in Routes
  <2>1. q \in UNION {[1..m -> Steps] : m \in 1..MaxDepth + 1}
    <3> HIDE DEF Steps
    <3> QED BY <1>3, <1>9
  <2> HIDE DEF Steps, LastOf
  <2> QED BY <1>2, <1>10, <1>12, <1>13, <1>14, <2>1 DEF Routes
<1>16. Here(q)
  BY <1>1, <1>2, <1>10, <1>11 DEF Here
<1>17. ASSUME NEW r \in Routes, Here(r) PROVE r = q
  <2>1. Len(r) = n /\ r[n] = <<Top.dir, Top.k>> /\ \A l \in 1..n - 1 : r[l] = Trail(l)
    BY <1>1, <1>17 DEF Here
  <2>2. \A j \in 1..n : j = n \/ j \in 1..n - 1
    BY <1>2
  <2>3. \A j \in 1..n : r[j] = q[j]
    BY <1>11, <2>1, <2>2
  <2>4. r = [j \in 1..n |-> r[j]]
    BY <2>1, RouteIs DEF Scanning, PathInv
  <2>5. q = [j \in 1..n |-> q[j]]
    BY <1>9
  <2>6. r = [j \in 1..n |-> q[j]]
    BY <2>3, <2>4
  <2> QED BY <2>5, <2>6
<1> QED BY <1>12, <1>15, <1>16, <1>17

\* A row is printed for one route, which is then behind the scan.
LEMMA ScanPrints ==
    ASSUME Scanning, RowsOK, NEW e, Row(e)
    PROVE  OnRoute' /\ RowsOK'
<1>1. /\ UNCHANGED <<tree, req, cur, pc>> /\ At(e) /\ faults' = faults /\ call' = call
      /\ ~PassedOver(e) /\ Top.loop = "dead"
      /\ cnt' = IF StatKind(e.to) = "bad" THEN Plus(cnt, "deleted")
                ELSE Plus(Plus(cnt, "deleted"), "recoverable")
  BY DEF Row, At, Walking, Scanning
<1>2. PICK n : n = Len(stack)
  OBVIOUS
<1>3. /\ Linked' /\ call = {} /\ Len(stack') = n
      /\ \A r \in Routes :
           /\ (\E j \in 1..n : Ahead(r, j)') <=> (\E j \in 1..n : Ahead(r, j)) /\ ~Here(r)
           /\ Here(r) => \E j \in 1..n : Ahead(r, j)
  BY <1>1, <1>2, LooksAt
<1>4. OnRoute'
  BY <1>1, <1>3 DEF OnRoute
<1>5. PICK q \in Routes : LastOf(q) = e /\ \A r \in Routes : Here(r) <=> r = q
  BY <1>1, RouteHere
<1>6. ASSUME NEW r \in Routes
      PROVE  /\ ToCome(r) <=> \E j \in 1..n : Ahead(r, j)
             /\ ToCome(r)' <=> \E j \in 1..n : Ahead(r, j)'
  BY <1>1, <1>2, <1>3 DEF ToCome, InCall
<1>7. \A r \in Routes : /\ ToCome(r)' <=> ToCome(r) /\ r # q
                        /\ r = q => ToCome(r)
  BY <1>3, <1>5, <1>6
<1>8. Routes' = Routes /\ (\A r : LastOf(r)' = LastOf(r)) /\ \A R : Good(R)' = Good(R)
  BY <1>1, SameRoutes
<1>9. Printed' = Printed \cup {q} /\ q \notin Printed
  BY <1>5, <1>7, <1>8 DEF Printed
<1>10. /\ Good(Printed \cup {q}) = IF StatKind(e.to) = "bad" THEN Good(Printed) ELSE Good(Printed) \cup {q}
       /\ q \notin Good(Printed)
  <2>1. q \notin Printed /\ LastOf(q) = e
    BY <1>5, <1>9
  <2> HIDE DEF LastOf, StatKind, Printed
  <2> QED BY <2>1 DEF Good
<1>11. Good(Printed)' = Good(Printed \cup {q})
  BY <1>8, <1>9
<1>12. cnt \in [Counters -> Nat] /\ "deleted" \in Counters /\ "recoverable" \in Counters
       /\ "deleted" # "recoverable"
  BY DEF Scanning, WalkType, Counters
<1>13. /\ cnt'.deleted = cnt.deleted + 1
       /\ cnt'.recoverable = IF StatKind(e.to) = "bad" THEN cnt.recoverable ELSE cnt.recoverable + 1
  <2>1. /\ Plus(cnt, "deleted") \in [Counters -> Nat]
        /\ Plus(cnt, "deleted").deleted = cnt.deleted + 1
        /\ Plus(cnt, "deleted").recoverable = cnt.recoverable
    BY <1>12, PlusIs
  <2>2. /\ Plus(Plus(cnt, "deleted"), "recoverable").deleted = cnt.deleted + 1
        /\ Plus(Plus(cnt, "deleted"), "recoverable").recoverable = cnt.recoverable + 1
    BY <1>12, <2>1, PlusIs
  <2> QED BY <1>1, <2>1, <2>2
<1>14. ASSUME faults' = 0 PROVE RowsOK'
  <2>1. /\ IsFiniteSet(Printed) /\ cnt.deleted = Cardinality(Printed)
        /\ IsFiniteSet(Good(Printed)) /\ cnt.recoverable = Cardinality(Good(Printed))
    BY <1>1, <1>14 DEF RowsOK, Scanning
  <2> DEFINE P == Printed
             G == Good(Printed)
  <2> HIDE DEF P, G
  <2>2. /\ IsFiniteSet(P) /\ cnt.deleted = Cardinality(P) /\ Printed' = P \cup {q} /\ q \notin P
        /\ IsFiniteSet(G) /\ cnt.recoverable = Cardinality(G) /\ q \notin G
        /\ Good(Printed)' = IF StatKind(e.to) = "bad" THEN G ELSE G \cup {q}
    BY <1>9, <1>10, <1>11, <2>1 DEF P, G
  <2>3. /\ IsFiniteSet(P \cup {q}) /\ Cardinality(P \cup {q}) = Cardinality(P) + 1
        /\ IsFiniteSet(G \cup {q}) /\ Cardinality(G \cup {q}) = Cardinality(G) + 1
    BY <2>2, FS_AddElement
  <2>4. /\ IsFiniteSet(Printed)' /\ cnt'.deleted = Cardinality(Printed')
        /\ IsFiniteSet(Good(Printed)') /\ cnt'.recoverable = Cardinality(Good(Printed)')
    BY <1>13, <2>2, <2>3
  <2> QED BY <2>4 DEF RowsOK
<1>15. ASSUME faults' # 0 PROVE RowsOK'
  BY <1>15 DEF RowsOK
<1> QED BY <1>4, <1>14, <1>15

\* What goes wrong at an entry ends the claim about the rows.
LEMMA ScanFails ==
    ASSUME Scanning, RowsOK, NEW e, PathTooLong(e) \/ EntryFails(e) \/ Count(e)
    PROVE  OnRoute' /\ RowsOK'
<1>1. ~Count(e)
  <2> SUFFICES ASSUME Count(e) PROVE FALSE
    OBVIOUS
  <2>1. At(e) /\ ~PassedOver(e) /\ Top.loop = "live" /\ ~IsSub(e) /\ Scan
    BY DEF Count, Scanning
  <2> QED BY <2>1 DEF PassedOver, IsSub
<1>2. /\ UNCHANGED <<tree, req, cur, pc>> /\ At(e) /\ call' = call /\ faults' = faults + 1
  BY <1>1 DEF PathTooLong, EntryFails, At, Walking, Scanning, Fault
<1>3. Linked' /\ call = {}
  BY <1>2, LooksAt
<1>4. faults' # 0
  BY <1>2 DEF Scanning, PathInv, PathType
<1> QED BY <1>2, <1>3, <1>4 DEF OnRoute, RowsOK

\* At the end of the first loop the live entries come, at the end of the
\* second nothing that is ahead: no row is printed.
LEMMA ScanReturns ==
    ASSUME Scanning, RowsOK, EndLoop
    PROVE  OnRoute' /\ RowsOK'
<1>1. PICK n : n = Len(stack)
  OBVIOUS
<1>2. /\ UNCHANGED <<tree, req, cur, pc, cnt, faults>> /\ call = {} /\ call' = {}
      /\ stack # <<>> /\ Top.k > Len(Read(Top.dir)) /\ Top = stack[n]
      /\ stack' = IF Top.loop = "dead"
                  THEN [stack EXCEPT ![Len(stack)].loop = "live", ![Len(stack)].k = 1]
                  ELSE SubSeq(stack, 1, Len(stack) - 1)
  BY <1>1 DEF EndLoop, Walking, Scanning, Entries, Top
<1>3. /\ stack \in Seq(Frames) /\ n \in Nat \ {0} /\ n \in 1..n
      /\ \A j \in 1..n - 1 : j \in 1..n /\ j # n /\ j + 1 \in 1..n
  BY <1>1, <1>2, StackIs
<1>4. Top.k \in Nat /\ Top.loop \in {"dead", "live"}
  BY <1>1, <1>2, <1>3, StackIs
<1>5. ASSUME NEW r \in Routes, n <= Len(r), r[n][1] = Top.dir PROVE r[n][2] \in Nat /\ r[n][2] >= 1 /\ r[n][2] < Top.k
  <2>1. n \in 1..Len(r)
    BY <1>3, <1>5, RouteIs DEF Scanning, PathInv
  <2>2. r[n][1] \in Dirs /\ r[n][2] \in 1..Len(Read(r[n][1]))
    BY <2>1, RouteIs DEF Scanning, PathInv
  <2>3. Len(Read(Top.dir)) \in Nat
    BY <1>5, <2>2, ReadType DEF Tags, Scanning, PathInv
  <2> QED BY <1>2, <1>4, <1>5, <2>2, <2>3
<1>6. ASSUME NEW r \in Routes
      PROVE  /\ Len(r) \in Nat
             /\ Ahead(r, n) <=> /\ Top.loop = "dead" /\ n < Len(r) /\ r[n][1] = Top.dir
                                /\ \A l \in 1..n - 1 : r[l] = Trail(l)
  <2>1. Len(r) \in Nat
    BY RouteIs DEF Scanning, PathInv
  <2>2. Ahead(r, n) <=> /\ n <= Len(r) /\ r[n][1] = Top.dir /\ \A l \in 1..n - 1 : r[l] = Trail(l)
                        /\ IF Top.loop = "dead" THEN n = Len(r) => r[n][2] >= Top.k
                           ELSE n < Len(r) /\ r[n][2] >= Top.k
    BY <1>2 DEF Ahead
  <2>3. n <= Len(r) <=> n < Len(r) \/ n = Len(r)
    BY <1>3, <2>1
  <2>4. n <= Len(r) /\ r[n][1] = Top.dir => ~(r[n][2] >= Top.k)
    BY <1>4, <1>5
  <2> HIDE DEF Ahead
  <2> QED BY <1>4, <2>1, <2>2, <2>3, <2>4
<1>7. \A r : ~InCall(r) /\ ~InCall(r)'
  BY <1>2 DEF InCall
<1>8. \A r, m, d : m = Len(stack) => (ToCome(r) <=> \E j \in 1..m : Ahead(r, j))
  BY <1>7 DEF ToCome
<1>9. \A x, y : LeadsTo(x, y)' = LeadsTo(x, y)
  BY <1>2, SameRoutes
<1>10. CASE Top.loop = "dead"
  <2>1. /\ stack' \in Seq(Frames) /\ Len(stack') = n
        /\ \A j \in 1..n : stack'[j].dir = stack[j].dir
        /\ \A j \in 1..n - 1 : stack'[j] = stack[j]
        /\ stack'[n].loop = "live" /\ stack'[n].k = 1
    <3>1. stack' = [stack EXCEPT ![Len(stack)].loop = "live", ![Len(stack)].k = 1]
      BY <1>2, <1>10
    <3>2. /\ stack' \in Seq(Frames) /\ Len(stack') = Len(stack)
          /\ \A j \in 1..Len(stack) : /\ stack'[j].dir = stack[j].dir
                                      /\ IF j = Len(stack) THEN stack'[j].loop = "live" /\ stack'[j].k = 1
                                         ELSE stack'[j] = stack[j]
      BY <1>2, <1>3, <3>1, Turned
    <3> QED BY <1>1, <1>3, <3>2
  <2>2. \A l \in 1..n - 1 : Trail(l)' = Trail(l)
    BY <2>1 DEF Trail
  <2>3. Linked'
    <3>1. stack'[1].dir = Root
      <4>1. 1 \in 1..n
        BY <1>3
      <4> QED BY <1>1, <1>2, <2>1, <4>1, StackIs
    <3>2. \A j \in 1..n : stack'[j].dir \notin tree'.broken
      BY <1>1, <1>2, <2>1, StackIs DEF Unreadable
    <3>3. ASSUME NEW j \in 1..n - 1
          PROVE  stack'[j].loop = "live" /\ stack'[j].k - 1 \in LeadsTo(stack'[j].dir, stack'[j + 1].dir)
      <4>1. stack[j].loop = "live" /\ stack[j].k - 1 \in LeadsTo(stack[j].dir, stack[j + 1].dir)
        BY <1>1, StackIs
      <4> QED BY <1>3, <2>1, <4>1
    <3>4. \A j \in 1..n - 1 : (stack[j].loop = "live" /\ stack[j].k - 1 \in LeadsTo(stack[j].dir, stack[j + 1].dir))'
      BY <1>9, <3>3
    <3> QED BY <2>1, <3>1, <3>2, <3>4 DEF Linked, Unreadable
  <2>4. OnRoute'
    BY <1>2, <2>3 DEF OnRoute
  <2>5. ASSUME NEW r \in Routes PROVE ToCome(r)' <=> ToCome(r)
    <3>1. ASSUME NEW j \in 1..n - 1 PROVE Ahead(r, j)' <=> Ahead(r, j)
      <4>1. stack'[j] = stack[j] /\ \A l \in 1..j - 1 : Trail(l)' = Trail(l)
        BY <1>3, <2>1, <2>2
      <4> QED BY <4>1 DEF Ahead
    <3>2. Ahead(r, n)' <=> /\ n < Len(r) /\ r[n][1] = Top.dir
                           /\ \A l \in 1..n - 1 : r[l] = Trail(l)
      <4>1. stack'[n].dir = Top.dir /\ stack'[n].loop = "live" /\ stack'[n].k = 1
        BY <1>2, <1>3, <2>1
      <4>2. Ahead(r, n)' <=> /\ n <= Len(r) /\ r[n][1] = Top.dir /\ \A l \in 1..n - 1 : r[l] = Trail(l)'
                             /\ n < Len(r) /\ r[n][2] >= 1
        BY <4>1 DEF Ahead
      <4>3. n < Len(r) => n <= Len(r)
        BY <1>3, <1>6
      <4>4. n <= Len(r) /\ r[n][1] = Top.dir => r[n][2] >= 1
        BY <1>5
      <4> HIDE DEF Ahead, Trail
      <4> QED BY <2>2, <4>2, <4>3, <4>4
    <3>3. Ahead(r, n)' <=> Ahead(r, n)
      BY <1>6, <1>10, <3>2
    <3>4. ToCome(r)' <=> \E j \in 1..n : Ahead(r, j)'
      BY <1>7, <2>1 DEF ToCome
    <3>5. ToCome(r) <=> \E j \in 1..n : Ahead(r, j)
      BY <1>1, <1>8
    <3>6. \A j \in 1..n : j = n \/ j \in 1..n - 1
      BY <1>3
    <3> HIDE DEF Ahead, ToCome
    <3> QED BY <3>1, <3>3, <3>4, <3>5, <3>6
  <2> QED BY <1>2, <2>4, <2>5, NothingPrinted
<1>11. CASE Top.loop = "live"
  <2>1. /\ stack' \in Seq(Frames) /\ Len(stack') = n - 1
        /\ \A j \in 1..n - 1 : stack'[j] = stack[j]
    <3>1. stack' = SubSeq(stack, 1, Len(stack) - 1)
      BY <1>2, <1>11
    <3> QED BY <1>1, <1>2, <1>3, <3>1, Popped
  <2>2. \A l \in 1..n - 1 : Trail(l)' = Trail(l)
    BY <2>1 DEF Trail
  <2>3. Linked'
    <3>1. stack' # <<>> => stack'[1].dir = Root
      <4>1. ASSUME stack' # <<>> PROVE n - 1 # 0
        <5>1. ASSUME NEW F, stack' \in Seq(F), n - 1 = 0 PROVE FALSE
          BY <2>1, <4>1, <5>1
        <5> QED BY <2>1, <5>1
      <4>2. n - 1 # 0 => 1 \in 1..n - 1
        BY <1>3
      <4> QED BY <1>1, <1>2, <2>1, <4>1, <4>2, StackIs
    <3>2. \A j \in 1..n - 1 : stack'[j].dir \notin tree'.broken
      BY <1>1, <1>2, <1>3, <2>1, StackIs DEF Unreadable
    <3>3. ASSUME NEW j \in 1..(n - 1) - 1
          PROVE  stack'[j].loop = "live" /\ stack'[j].k - 1 \in LeadsTo(stack'[j].dir, stack'[j + 1].dir)
      <4>1. j \in 1..n - 1 /\ j + 1 \in 1..n - 1
        BY <1>3
      <4>2. stack[j].loop = "live" /\ stack[j].k - 1 \in LeadsTo(stack[j].dir, stack[j + 1].dir)
        BY <1>1, <4>1, StackIs
      <4> QED BY <2>1, <4>1, <4>2
    <3>4. \A j \in 1..(n - 1) - 1 : (stack[j].loop = "live" /\ stack[j].k - 1 \in LeadsTo(stack[j].dir, stack[j + 1].dir))'
      BY <1>9, <3>3
    <3> QED BY <2>1, <3>1, <3>2, <3>4 DEF Linked, Unreadable
  <2>4. OnRoute'
    BY <1>2, <2>3 DEF OnRoute
  <2>5. ASSUME NEW r \in Routes PROVE ToCome(r)' <=> ToCome(r)
    <3>1. ASSUME NEW j \in 1..n - 1 PROVE Ahead(r, j)' <=> Ahead(r, j)
      <4>1. stack'[j] = stack[j] /\ \A l \in 1..j - 1 : Trail(l)' = Trail(l)
        BY <1>3, <2>1, <2>2
      <4> QED BY <4>1 DEF Ahead
    <3>3. ~Ahead(r, n)
      BY <1>6, <1>11
    <3>4. ToCome(r)' <=> \E j \in 1..n - 1 : Ahead(r, j)'
      BY <1>7, <2>1 DEF ToCome
    <3>5. ToCome(r) <=> \E j \in 1..n : Ahead(r, j)
      BY <1>1, <1>8
    <3>6. \A j \in 1..n : j = n \/ j \in 1..n - 1
      BY <1>3
    <3> HIDE DEF Ahead, ToCome
    <3> QED BY <1>3, <3>1, <3>3, <3>4, <3>5, <3>6
  <2> QED BY <1>2, <2>4, <2>5, NothingPrinted
<1> QED BY <1>4, <1>10, <1>11

\* Every step of a scan keeps its invariant.
LEMMA ScanStep ==
    ASSUME PathInv, WalkType, ScanInv, Walk
    PROVE  ScanInv'
<1>1. pc = "walking" /\ UNCHANGED <<tree, req, cur, pc>> /\ Scan' = Scan
  BY WalkFrame, SameWalk
<1>2. FromRoot'
  BY <1>1 DEF FromRoot, ScanInv
<1>3. CASE Scan
  <2>1. Scanning /\ RowsOK
    BY <1>1, <1>3 DEF Scanning, ScanInv
  <2>2. OnRoute' /\ RowsOK'
    BY <2>1, ScanCalls, ScanGoesOn, ScanPrints, ScanFails, ScanReturns DEF Walk
  <2> QED BY <1>2, <2>2 DEF ScanInv
<1>4. CASE ~Scan
  BY <1>1, <1>2, <1>4 DEF ScanInv, OnRoute, RowsOK
<1> QED BY <1>3, <1>4

\* A scan begins with no row and all routes ahead.
LEMMA ScanBegins ==
    ASSUME PathInv, WalkType, ScanInv, Begin
    PROVE  ScanInv'
<1>1. /\ pc \in {"start", "walk"} /\ pc' = "walking" /\ call' = {cur}
      /\ UNCHANGED <<tree, req, cur, faults, stack, cnt>> /\ Scan' = Scan
  BY SameWalk DEF Begin, Found
<1>2. FromRoot'
  BY <1>1 DEF FromRoot, ScanInv
<1>3. CASE ~Scan
  BY <1>1, <1>2, <1>3 DEF ScanInv, OnRoute, RowsOK
<1>4. CASE Scan
  <2>1. cur = Root /\ stack' = <<>> /\ Len(stack') = 0 /\ cnt' = [c \in Counters |-> 0]
    BY <1>1, <1>4 DEF FromRoot, ScanInv, WalkType
  <2>2. OnRoute'
    BY <1>1, <2>1 DEF OnRoute, Linked
  <2>3. ASSUME NEW r \in Routes PROVE InCall(r)'
    <3>1. Len(r) \in 1..MaxDepth + 1
      BY RouteIs DEF PathInv
    <3>2. Len(r) > 0 /\ call' # {}
      BY <1>1, <3>1
    <3> QED BY <2>1, <3>2 DEF InCall
  <2>4. Printed' = {}
    <3>1. Routes' = Routes
      BY <1>1, SameRoutes
    <3> QED BY <2>3, <3>1 DEF Printed, ToCome
  <2>5. Good(Printed)' = {}
    BY <2>4 DEF Good
  <2>6. cnt'.deleted = 0 /\ cnt'.recoverable = 0
    BY <2>1 DEF Counters
  <2> QED BY <1>2, <2>2, <2>4, <2>5, <2>6, FS_EmptySet DEF ScanInv, RowsOK
<1> QED BY <1>3, <1>4

\* Steps outside of the walk.
LEMMA ScanPath ==
    ASSUME PathInv, WalkType, ScanInv, PathStep \/ NotDirectory, UNCHANGED walkVars
    PROVE  ScanInv'
<1>1. pc \in {"start", "walk"} /\ tree' = tree /\ req' = req /\ pc' # "walking" /\ Scan' = Scan
  BY PathStepIsNoCount, SameWalk
<1>2. CASE ~Scan
  BY <1>1, <1>2 DEF ScanInv, FromRoot, OnRoute, RowsOK
<1>3. CASE Scan
  <2>1. ~Fuse /\ Op = "scan" /\ pc = "start" /\ cur = Root
    BY <1>1, <1>3 DEF Scan, Op, Fuse, ScanInv, FromRoot, PathInv, PathType, Requests
  <2>2. Refuse
    BY <2>1 DEF PathStep, NotDirectory, Start, FuseComponent, ToolComponent, ComponentFails, StatFails,
                Getattr, GetattrFails, Got, Readdir, Open, Readlink, OpFails, List, ListFails, Found
  <2>3. pc' = "answered" /\ answer' = "ENAMETOOLONG" /\ cur' = cur
    BY <2>1, <2>2 DEF Refuse, Early, Answered
  <2> QED BY <2>1, <2>3 DEF ScanInv, FromRoot, OnRoute, RowsOK, Done
<1> QED BY <1>2, <1>3

\* The end of a scan.
LEMMA ScanEnds ==
    ASSUME PathInv, WalkType, ScanInv, Report \/ Finished \/ UNCHANGED vars
    PROVE  ScanInv'
<1>1. /\ UNCHANGED <<tree, req, cur, faults, call, stack, cnt>> /\ Scan' = Scan
      /\ (pc' = pc /\ answer' = answer) \/ (pc = "walking" /\ pc' = "answered")
  <2>1. CASE Report
    BY <2>1, SameWalk DEF Report, Answered, walkVars
  <2>2. CASE Finished \/ UNCHANGED vars
    BY <2>2, SameWalk DEF Finished, vars, pathVars, walkVars
  <2> QED BY <2>1, <2>2
<1>2. FromRoot'
  BY <1>1 DEF ScanInv, FromRoot
<1>3. /\ Routes' = Routes /\ (\A R : Good(R)' = Good(R)) /\ \A x, y : LeadsTo(x, y)' = LeadsTo(x, y)
  BY <1>1, SameRoutes
<1>4. OnRoute'
  BY <1>1, <1>3, SameWalk DEF ScanInv, OnRoute, Linked, Top
<1>5. \A r : ToCome(r)' = ToCome(r)
  BY <1>1 DEF ToCome, InCall, Ahead, Trail
<1>6. Printed' = Printed
  BY <1>3, <1>5 DEF Printed
<1>7. Good(Printed)' = Good(Printed)
  BY <1>3, <1>6
<1>8. RowsOK'
  BY <1>1, <1>6, <1>7 DEF ScanInv, RowsOK, Done
<1> QED BY <1>2, <1>4, <1>8 DEF ScanInv

\* In every state of a scan its stack is a route, and without faults its
\* counters are those of the routes it has left behind.
THEOREM ScansAlways == Spec => []ScanInv
<1>1. Init => ScanInv
  BY DEF Init, NamespaceInit, ScanInv, FromRoot, OnRoute, RowsOK, Done
<1>2. ASSUME PathInv, WalkInv, ScanInv, [Next]_vars PROVE ScanInv'
  <2>1. WalkType
    BY <1>2 DEF WalkInv
  <2>2. CASE PathStep /\ UNCHANGED walkVars
    BY <1>2, <2>1, <2>2, ScanPath
  <2>3. CASE NotDirectory
    <3>1. UNCHANGED walkVars
      BY <2>3 DEF NotDirectory
    <3> QED BY <1>2, <2>1, <2>3, <3>1, ScanPath
  <2>4. CASE Begin
    BY <1>2, <2>1, <2>4, ScanBegins
  <2>5. CASE Walk
    BY <1>2, <2>1, <2>5, ScanStep
  <2>6. CASE Report \/ Finished \/ UNCHANGED vars
    BY <1>2, <2>1, <2>6, ScanEnds
  <2> QED BY <1>2, <2>2, <2>3, <2>4, <2>5, <2>6 DEF Next
<1> QED BY <1>1, <1>2, PathsAlways, WalksAlways, PTL DEF Spec

\* A scan without faults prints one row for each route to a deleted entry, on
\* any structure, with cycles and shared directories.
THEOREM ScanRowsPerPathAlways == Spec => []ScanRowsPerPath
<1>1. ASSUME PathInv, WalkInv, ScanInv, Done, Scan, faults = 0
      PROVE  /\ cnt.deleted = Cardinality(Routes)
             /\ cnt.recoverable = Cardinality({r \in Routes : StatKind(LastOf(r).to) # "bad"})
  <2>1. call = {} /\ stack = <<>> /\ Len(stack) = 0
    BY <1>1 DEF Done, WalkInv, WalkType
  <2>2. \A r : ~ToCome(r)
    BY <2>1 DEF ToCome, InCall
  <2>3. Printed = Routes
    BY <2>2 DEF Printed
  <2>4. cnt.deleted = Cardinality(Printed) /\ cnt.recoverable = Cardinality(Good(Printed))
    BY <1>1 DEF ScanInv, RowsOK
  <2>5. Good(Routes) = {r \in Routes : StatKind(LastOf(r).to) # "bad"}
    BY DEF Good
  <2> QED BY <2>3, <2>4, <2>5
<1>2. PathInv /\ WalkInv /\ ScanInv => ScanRowsPerPath
  BY <1>1 DEF ScanRowsPerPath
<1> QED BY <1>2, PathsAlways, WalksAlways, ScansAlways, PTL
=============================================================================
