-------------------------- MODULE TagLookupProofs ---------------------------
(***************************************************************************)
(* Proofs about TagLookup, for every disk and every request: the searches  *)
(* answer as the chain says (SearchesAgree), a tag the scan does not find  *)
(* is not there (ScanComplete), and a record that is found on a sound disk *)
(* is one of the tag asked for (RecordIsOwn).                              *)
(***************************************************************************)
EXTENDS TagLookup, TLAPS, WellFoundedInduction

\* A set of naturals that is not empty has a least element.
LEMMA Least ==
    ASSUME NEW T, T \subseteq Nat, T # {}
    PROVE  \E x \in T : \A y \in T : x <= y
<1> DEFINE R == {ss \in Nat \X Nat : ss[1] < ss[2]}
<1>1. IsWellFoundedOn(R, Nat)
  BY NatLessThanWellFounded DEF OpToRel
<1>2. \A x, y \in Nat : y < x => <<y, x>> \in R
  OBVIOUS
<1> HIDE DEF R
<1>3. PICK x \in T : \A y \in T : ~(<<y, x>> \in R)
  BY <1>1, WFMin
<1>4. ASSUME NEW y \in T PROVE x <= y
  <2>1. ~(y < x)
    BY <1>2, <1>3
  <2> QED BY <2>1
<1> QED BY <1>4

\* Induction over the naturals, for sets.
LEMMA NatInd ==
    ASSUME NEW S, 0 \in S, \A n \in Nat : n \in S => n + 1 \in S
    PROVE  Nat \subseteq S
<1> SUFFICES ASSUME Nat \ S # {} PROVE FALSE
  OBVIOUS
<1>1. PICK x \in Nat \ S : \A y \in Nat \ S : x <= y
  BY Least
<1>2. x # 0 /\ x - 1 \in Nat
  BY <1>1
<1>3. x - 1 \in S
  BY <1>1, <1>2
<1> QED BY <1>1, <1>2, <1>3

\* The entries of a list of numbers are bounded.
LEMMA Bounded ==
    ASSUME NEW n \in Nat, NEW s \in [1..n -> Nat]
    PROVE  \E b \in Nat : \A i \in 1..n : s[i] <= b
<1> DEFINE S == {k \in Nat : k > n \/ \E b \in Nat : \A i \in 1..k : s[i] <= b}
<1>1. 0 \in S
  <2>1. \A i \in 1..0 : s[i] <= 0
    OBVIOUS
  <2> QED BY <2>1
<1>2. ASSUME NEW k \in Nat, k \in S PROVE k + 1 \in S
  <2>1. CASE k + 1 > n
    BY <2>1
  <2>2. CASE k + 1 <= n
    <3>1. PICK b \in Nat : \A i \in 1..k : s[i] <= b
      BY <1>2, <2>2
    <3>2. s[k + 1] \in Nat
      BY <2>2
    <3> DEFINE c == b + s[k + 1]
    <3>3. c \in Nat /\ b <= c /\ s[k + 1] <= c
      BY <3>2
    <3> HIDE DEF c
    <3>4. ASSUME NEW i \in 1..k + 1 PROVE s[i] <= c
      <4>1. CASE i = k + 1
        BY <4>1, <3>3
      <4>2. CASE i \in 1..k
        <5>1. s[i] \in Nat
          BY <4>2, <2>2
        <5> QED BY <4>2, <5>1, <3>1, <3>3
      <4> QED BY <4>1, <4>2
    <3> QED BY <3>3, <3>4
  <2> QED BY <2>1, <2>2
<1> HIDE DEF S
<1>3. n \in S
  BY <1>1, <1>2, NatInd
<1> QED BY <1>3 DEF S

\* bmt_scan_pages looks at every page up to the end that any entry of the map
\* stands for, up to MAX_BMT_SCAN_PAGES.
LEMMA ScanPagesReach ==
    ASSUME NEW m \in Seq([bs_page : Nat, term : BOOLEAN])
    PROVE  /\ ScanPages(m) \in Nat
           /\ \A p \in Nat :
                /\ p < SCAN_MAX /\ m # <<>>
                /\ p < m[Len(m)].bs_page + (IF m[Len(m)].term THEN 0 ELSE SCAN_GUESS)
                => p < ScanPages(m)
<1> DEFINE e(i) == IF m[i].term THEN m[i].bs_page
                   ELSE m[i].bs_page + (IF i < Len(m) THEN 1 ELSE SCAN_GUESS)
           ends == {e(i) : i \in 1..Len(m)}
           most == CHOOSE n \in ends \cup {0} : \A x \in ends : n >= x
           n == Len(m)
<1>1. n \in Nat /\ SCAN_GUESS \in Nat /\ SCAN_MAX \in Nat /\ SCAN_DEFAULT \in Nat
  BY LookupAssumption
<1>2. ASSUME NEW i \in 1..n PROVE e(i) \in Nat /\ m[i].bs_page \in Nat
  <2> DEFINE X == [bs_page : Nat, term : BOOLEAN]
  <2>1. m \in Seq(X) /\ \A x \in X : x.bs_page \in Nat
    OBVIOUS
  <2> HIDE DEF X
  <2>2. m[i] \in X
    BY <2>1
  <2> QED BY <2>1, <2>2, <1>1
<1>3. m # <<>> => /\ n \in 1..n
                  /\ e(n) = m[Len(m)].bs_page + (IF m[Len(m)].term THEN 0 ELSE SCAN_GUESS)
  <2> HAVE m # <<>>
  <2>1. n \in 1..n
    OBVIOUS
  <2>2. m[n].bs_page \in Nat /\ ~(n < Len(m))
    BY <1>1, <1>2, <2>1
  <2> QED BY <2>1, <2>2, <1>1
<1>4. ScanPages(m) = IF most > SCAN_MAX THEN SCAN_MAX ELSE IF most = 0 THEN SCAN_DEFAULT ELSE most
  BY DEF ScanPages
<1> HIDE DEF e
<1>5. \E x \in ends \cup {0} : \A y \in ends : x >= y
  <2> DEFINE above == {b \in Nat : \A i \in 1..n : e(i) <= b}
  <2>1. above # {}
    <3> DEFINE s == [i \in 1..n |-> e(i)]
    <3>1. s \in [1..n -> Nat] /\ \A i \in 1..n : s[i] = e(i)
      BY <1>2
    <3> HIDE DEF s
    <3>2. \E b \in Nat : \A i \in 1..n : s[i] <= b
      BY <3>1, <1>1, Bounded
    <3> QED BY <3>1, <3>2
  <2>2. PICK b \in above : \A y \in above : b <= y
    <3>1. above \subseteq Nat
      OBVIOUS
    <3> HIDE DEF above
    <3> QED BY <2>1, <3>1, Least
  <2>3. b \in ends \cup {0}
    <3> SUFFICES ASSUME b \notin ends, b # 0 PROVE FALSE
      OBVIOUS
    <3>1. \A i \in 1..n : e(i) # b /\ e(i) <= b
      BY <2>2
    <3>2. b - 1 \in above
      BY <3>1, <1>2, <2>2
    <3> QED BY <3>2, <2>2
  <2>4. \A y \in ends : b >= y
    BY <2>2, <1>2
  <2> QED BY <2>3, <2>4
<1>6. most \in ends \cup {0} /\ \A y \in ends : most >= y
  BY <1>5
<1>7. most \in Nat
  <2>1. \A y \in ends \cup {0} : y \in Nat
    BY <1>2
  <2> HIDE DEF most, ends
  <2> QED BY <2>1, <1>6
<1>8. ScanPages(m) \in Nat
  <2> HIDE DEF most
  <2> QED BY <1>1, <1>4, <1>7
<1>9. ASSUME NEW p \in Nat, p < SCAN_MAX, m # <<>>,
             p < m[Len(m)].bs_page + (IF m[Len(m)].term THEN 0 ELSE SCAN_GUESS)
      PROVE  p < ScanPages(m)
  <2>1. e(n) \in ends /\ e(n) \in Nat /\ p < e(n)
    BY <1>2, <1>3, <1>9
  <2> HIDE DEF most, ends, n
  <2>2. most >= e(n)
    BY <1>6, <2>1
  <2>3. p < most
    BY <2>1, <2>2, <1>7
  <2> QED BY <2>3, <1>7, <1>4, <1>1, <1>9
<1> QED BY <1>8, <1>9

-----------------------------------------------------------------------------
TypeOK ==
    /\ disk \in Disks /\ pc \in {"slot", "scan", "primary", "loop", "more", "done"}
    /\ v \in Nat \ {0} /\ spg \in Nat /\ hops \in Nat /\ faults \in Nat
    /\ at \in Locations /\ start \subseteq Locations /\ next \subseteq Locations
    /\ pc = "slot" => v = 1 /\ spg = 0
    /\ pc = "scan" => ~InBfsdir
    /\ pc = "loop" => req.op \notin {"dir", "fsattr"}

\* The mcell is one of the tag and the fileset asked for.
Own(l) == Cell(l).tag.num = req.tag.num /\ Cell(l).set = req.set

\* The inode number of the record that is found in an mcell.
Ino(l) == Cell(l).recs[FindRec(Cell(l).recs, Type)].ino

\* On a sound disk the chain stays with the tag.
OwnOK ==
    ~InBfsdir /\ SoundDisk =>
      /\ pc \in {"primary", "loop", "more"} => Own(at)
      /\ pc = "more" => \A l \in next : Own(l)
      /\ pc = "done" /\ out.kind = "ok" => \A l \in out.at : Own(l) /\ Checked(Ino(l))

\* The scan has left no mcell of the tag behind it.
Behind(j, l) ==
    /\ l.vd = disk.vds[j].vd /\ ReadsPage(l.vd, l.pg) /\ l.c < CELLS
    /\ \/ j < v /\ l.pg < ScanPages(disk.vds[j].map)
       \/ j = v /\ l.pg < spg

ScanOK ==
    /\ faults = 0 /\ ~InBfsdir /\ (pc = "scan" \/ (pc = "done" /\ out.kind = "ENOENT")) =>
         \A j \in 1..Len(disk.vds), l \in DOMAIN disk.cells : Behind(j, l) => ~Own(l)
    /\ pc = "done" /\ out.kind = "ENOENT" /\ ~InBfsdir => v > Len(disk.vds)

\* g is the part of the chain that has been walked: from the mcell the search
\* started with to the current one, all but the last looked at in vain.
Walked(g) ==
    /\ g \in [0..hops -> Locations]
    /\ start = {g[0]} /\ g[hops] = at
    /\ \A k \in 0..hops - 1 : Sane(g[k]) /\ ~Has(g[k]) /\ g[k + 1] \in Successor(g[k])

\* The answer is what the current mcell calls for.
Verdict ==
    \/ Sane(at) /\ Has(at) /\ out.kind \in {"ok", "ESTALE"} /\ out.at = {at}
    \/ ~Sane(at) /\ out.at = {}
    \/ /\ Sane(at) /\ ~Has(at) /\ (Successor(at) = {} \/ hops >= Limit)
       /\ out.at = {} /\ out.kind \in {"ENODATA", "absent", "skipped"}

ChainOK ==
    /\ pc \in {"slot", "scan"} => start = {}
    /\ pc \in {"primary", "loop", "more"} => hops <= Limit /\ \E g : Walked(g)
    /\ pc = "more" => Sane(at) /\ ~Has(at) /\ next = Successor(at)
    /\ pc = "done" /\ start # {} /\ faults = 0 => hops <= Limit /\ Verdict /\ \E g : Walked(g)

IInv == TypeOK /\ OwnOK /\ ScanOK /\ ChainOK

-----------------------------------------------------------------------------
\* The disk and the request stay, and so does everything that is read off them.
LEMMA Frame ==
    ASSUME [Next]_vars
    PROVE  /\ disk' = disk /\ req' = req /\ InBfsdir' = InBfsdir /\ Limit' = Limit
           /\ SoundDisk' = SoundDisk
           /\ \A l : Cell(l)' = Cell(l) /\ Own(l)' = Own(l) /\ Ino(l)' = Ino(l) /\ Sane(l)' = Sane(l)
           /\ \A l : Has(l)' = Has(l) /\ Successor(l)' = Successor(l)
           /\ \A i : Checked(i)' = Checked(i)
<1>1. disk' = disk /\ req' = req
  BY DEF Next, Lookup, Slot, SlotFails, ScanHit, ScanOn, ScanFails, ScanVolume, ScanMiss, Unfit,
     SearchFails, Hit, Loop, Primary, More, Done, Begin, Answer, vars
<1>2. InBfsdir' = InBfsdir /\ Limit' = Limit /\ Type' = Type
  BY <1>1, Zenon DEF InBfsdir, Limit, Type
<1>3. \A l : Cell(l)' = Cell(l)
  BY <1>1, Zenon DEF Cell
<1>4. \A l : Own(l)' = Own(l)
  BY <1>1, <1>3, Zenon DEF Own
<1>5. \A l : Ino(l)' = Ino(l)
  BY <1>2, <1>3, Zenon DEF Ino
<1>6. \A l : Sane(l)' = Sane(l)
  BY <1>1, Zenon DEF Sane, ReadsPage
<1>7. \A l : Has(l)' = Has(l)
  BY <1>1, <1>2, <1>3, Zenon DEF Has
<1>8. \A l : Successor(l)' = Successor(l)
  BY <1>3, Zenon DEF Successor
<1>9. \A i : Checked(i)' = Checked(i)
  BY <1>1, Zenon DEF Checked
<1>10. SoundDisk' = SoundDisk
  BY <1>1, <1>3, <1>8, Zenon DEF SoundDisk
<1> QED BY <1>1, <1>2, <1>3, <1>4, <1>5, <1>6, <1>7, <1>8, <1>9, <1>10

\* A chain leads from location to location, and to one at most.
LEMMA SuccessorType ==
    ASSUME disk \in Disks, NEW l \in Locations
    PROVE  /\ Successor(l) \subseteq Locations
           /\ \A m, n \in Successor(l) : m = n
           /\ l \notin DOMAIN disk.cells => Successor(l) = {}
<1>1. CASE l \notin DOMAIN disk.cells
  <2>1. Cell(l).next = {}
    BY <1>1 DEF Cell, NoCell
  <2> QED BY <2>1 DEF Successor
<1>2. CASE l \in DOMAIN disk.cells
  <2>1. Cell(l) = disk.cells[l]
    BY <1>2 DEF Cell
  <2>2. /\ Cell(l).next_vd \in Nat /\ Cell(l).next \subseteq [pg : Nat, c : Nat]
        /\ \A m, n \in Cell(l).next : m = n
    BY <1>2, <2>1, DiskAssumption
  <2>3. ASSUME NEW n \in Cell(l).next
        PROVE  [vd |-> IF Cell(l).next_vd = 0 THEN l.vd ELSE Cell(l).next_vd, pg |-> n.pg, c |-> n.c]
                 \in Locations
    <3>1. n \in [pg : Nat, c : Nat]
      BY <2>2
    <3>2. l.vd \in Nat
      BY DEF Locations
    <3> QED BY <2>2, <3>1, <3>2 DEF Locations
  <2> QED BY <1>2, <2>2, <2>3 DEF Successor
<1> QED BY <1>1, <1>2

\* The invariant holds before a search.
LEMMA InitIInv == Init => IInv
<1> SUFFICES ASSUME Init PROVE IInv
  OBVIOUS
<1>1. TypeOK
  BY DEF Init, TypeOK, Nowhere, Locations
<1>2. OwnOK /\ ScanOK /\ ChainOK
  BY DEF Init, OwnOK, ScanOK, ChainOK
<1> QED BY <1>1, <1>2 DEF IInv

-----------------------------------------------------------------------------
\* The volumes of the disk, and how far the scan goes on each.
LEMMA VolumeFacts ==
    ASSUME disk \in Disks, NEW j \in 1..Len(disk.vds)
    PROVE  /\ disk.vds[j].vd \in Nat
           /\ disk.vds[j].map \in Seq([bs_page : Nat, term : BOOLEAN])
           /\ ScanPages(disk.vds[j].map) \in Nat
<1> DEFINE M == Seq([bs_page : Nat, term : BOOLEAN])
<1>1. disk.vds \in Seq([vd : Nat, map : M])
  BY DiskAssumption
<1> HIDE DEF M
<1>2. disk.vds[j].vd \in Nat /\ disk.vds[j].map \in M
  <2> DEFINE V == [vd : Nat, map : M]
  <2>1. disk.vds \in Seq(V) /\ \A x \in V : x.vd \in Nat /\ x.map \in M
    BY <1>1
  <2> HIDE DEF V
  <2>2. disk.vds[j] \in V
    BY <2>1
  <2> QED BY <2>1, <2>2
<1> QED BY <1>2, ScanPagesReach DEF M

\* The mcell the scan begins a search with is the tag's.
LEMMA ScanHitFacts ==
    ASSUME TypeOK, Scanning, OnPage # {}
    PROVE  LET l == [vd |-> Vd.vd, pg |-> spg, c |-> CHOOSE c \in OnPage : \A x \in OnPage : c <= x]
           IN  l \in Locations /\ Own(l)
<1> DEFINE c0 == CHOOSE c \in OnPage : \A x \in OnPage : c <= x
<1>1. OnPage \subseteq Nat
  BY LookupAssumption DEF OnPage
<1>2. c0 \in OnPage
  <2>1. \E c \in OnPage : \A x \in OnPage : c <= x
    BY <1>1, Least
  <2> QED BY <2>1
<1> HIDE DEF c0
<1>3. c0 \in Nat /\ Own([vd |-> Vd.vd, pg |-> spg, c |-> c0])
  BY <1>1, <1>2 DEF OnPage, Matches, Own
<1>4. Vd.vd \in Nat
  <2>1. v \in 1..Len(disk.vds)
    BY DiskAssumption DEF TypeOK, Scanning
  <2> QED BY <2>1, VolumeFacts DEF TypeOK, Vd
<1>5. [vd |-> Vd.vd, pg |-> spg, c |-> c0] \in Locations
  BY <1>3, <1>4 DEF TypeOK, Locations
<1> QED BY <1>3, <1>5 DEF c0

\* Every step keeps the types.
LEMMA TypeNext ==
    ASSUME IInv, [Next]_vars
    PROVE  TypeOK'
<1> USE DEF IInv
<1>1. disk' \in Disks /\ InBfsdir' = InBfsdir /\ req' = req
  BY Frame DEF TypeOK
<1>2. ASSUME NEW l \in Locations, Begin(l), UNCHANGED <<v, spg>>, faults' \in Nat
      PROVE  TypeOK'
  BY <1>1, <1>2 DEF TypeOK, Begin
<1>3. ASSUME pc' = "done", UNCHANGED <<v, spg, start, next>>, faults' \in Nat, hops' \in Nat,
             at' \in Locations
      PROVE  TypeOK'
  BY <1>1, <1>3 DEF TypeOK
<1>4. CASE Slot
  <2>1. CASE pc' = "done"
    BY <1>4, <1>3, <2>1 DEF Slot, Begin, Answer, search, TypeOK
  <2>2. CASE Begin(disk.slot.at)
    <3>1. disk.slot.at \in Locations
      BY DiskAssumption DEF TypeOK
    <3> QED BY <1>4, <1>2, <2>2, <3>1 DEF Slot, TypeOK
  <2>3. CASE pc' = "scan" /\ ~InBfsdir /\ UNCHANGED search
    BY <1>1, <1>4, <2>3 DEF Slot, search, TypeOK
  <2> QED BY <1>4, <2>1, <2>2, <2>3 DEF Slot, Answer
<1>5. CASE SlotFails
  <2>1. CASE InBfsdir
    BY <1>5, <1>3, <2>1 DEF SlotFails, Answer, search, TypeOK
  <2>2. CASE ~InBfsdir
    BY <1>1, <1>5, <2>2 DEF SlotFails, search, TypeOK
  <2> QED BY <2>1, <2>2
<1>6. CASE ScanHit
  <2>1. Scanning /\ OnPage # {} /\ UNCHANGED <<v, spg, faults>>
        /\ Begin([vd |-> Vd.vd, pg |-> spg, c |-> CHOOSE c \in OnPage : \A x \in OnPage : c <= x])
    BY <1>6 DEF ScanHit
  <2> QED BY <2>1, <1>2, ScanHitFacts DEF TypeOK
<1>7. CASE ScanOn \/ ScanFails
  BY <1>1, <1>7 DEF ScanOn, ScanFails, Scanning, search, TypeOK
<1>8. CASE ScanVolume
  BY <1>1, <1>8 DEF ScanVolume, search, TypeOK
<1>9. CASE ScanMiss \/ Unfit \/ SearchFails \/ Hit
  BY <1>3, <1>9 DEF ScanMiss, Unfit, SearchFails, Hit, Answer, search, TypeOK
<1>10. CASE Loop
  <2>1. CASE pc' = "done" /\ UNCHANGED <<at, hops>>
    BY <1>3, <1>10, <2>1 DEF Loop, TypeOK
  <2>2. CASE at' \in Successor(at) /\ hops' = hops + 1 /\ UNCHANGED <<pc, req>>
    <3>1. at' \in Locations
      BY <2>2, SuccessorType DEF TypeOK
    <3> QED BY <1>1, <1>10, <2>2, <3>1 DEF Loop, TypeOK
  <2> QED BY <1>10, <2>1, <2>2 DEF Loop, Answer
<1>11. CASE Primary
  <2>1. Successor(at) \subseteq Locations
    BY SuccessorType DEF TypeOK
  <2> QED BY <1>1, <1>11, <2>1 DEF Primary, TypeOK
<1>12. CASE More
  <2>1. CASE pc' = "done" /\ UNCHANGED <<at, hops>>
    BY <1>3, <1>12, <2>1 DEF More, TypeOK
  <2>2. CASE at' \in next /\ pc' = "primary" /\ hops' = hops + 1
    <3>1. at' \in Locations
      BY <2>2 DEF TypeOK
    <3> QED BY <1>1, <1>12, <2>2, <3>1 DEF More, TypeOK
  <2> QED BY <1>12, <2>1, <2>2 DEF More, Answer
<1>13. CASE Done \/ UNCHANGED vars
  BY <1>1, <1>13 DEF Done, vars, TypeOK
<1> QED BY <1>4, <1>5, <1>6, <1>7, <1>8, <1>9, <1>10, <1>11, <1>12, <1>13 DEF Next, Lookup

\* A sound slot, a match of the scan and a sound link all lead to the tag's mcells.
LEMMA OwnNext ==
    ASSUME IInv, [Next]_vars
    PROVE  OwnOK'
<1> USE DEF IInv
<1> SUFFICES ASSUME ~InBfsdir, SoundDisk
             PROVE  /\ pc' \in {"primary", "loop", "more"} => Own(at')
                    /\ pc' = "more" => \A l \in next' : Own(l)
                    /\ pc' = "done" /\ out'.kind = "ok" => \A l \in out'.at : Own(l) /\ Checked(Ino(l))
  <2>1. (~InBfsdir /\ SoundDisk)' => ~InBfsdir /\ SoundDisk
    BY Frame
  <2>2. \A l : Own(l)' = Own(l) /\ Checked(Ino(l))' = Checked(Ino(l))
    <3>1. \A l : Ino(l)' = Ino(l)
      BY Frame
    <3>2. \A l : Checked(Ino(l))' = Checked(Ino(l))
      BY <3>1, Frame DEF Checked
    <3> QED BY <3>2, Frame
  <2> QED BY <2>1, <2>2, Frame DEF OwnOK, Own
<1>1. ASSUME NEW l \in Locations, Own(l) PROVE \A m \in Successor(l) : Own(m)
  <2>1. CASE l \in DOMAIN disk.cells
    BY <1>1, <2>1 DEF SoundDisk, Own
  <2>2. CASE l \notin DOMAIN disk.cells
    BY <2>2, SuccessorType DEF TypeOK
  <2> QED BY <2>1, <2>2
<1>2. ASSUME NEW l, Own(l), Begin(l) PROVE Own(at') /\ pc' \in {"primary", "loop"}
  BY <1>2 DEF Begin
<1>3. CASE Slot
  <2>1. CASE Begin(disk.slot.at) /\ disk.slot.kind = "live"
    <3>1. Own(disk.slot.at)
      BY <2>1 DEF SoundDisk, Own
    <3> QED BY <1>2, <2>1, <3>1
  <2>2. CASE pc' = "scan"
    BY <2>2
  <2> QED BY <1>3, <2>1, <2>2 DEF Slot
<1>4. CASE SlotFails
  BY <1>4 DEF SlotFails
<1>5. CASE ScanHit
  <2>1. Scanning /\ OnPage # {}
        /\ Begin([vd |-> Vd.vd, pg |-> spg, c |-> CHOOSE c \in OnPage : \A x \in OnPage : c <= x])
    BY <1>5 DEF ScanHit
  <2> QED BY <2>1, <1>2, ScanHitFacts
<1>6. CASE ScanOn \/ ScanFails \/ ScanVolume
  BY <1>6 DEF ScanOn, ScanFails, ScanVolume, Scanning
<1>7. CASE ScanMiss
  BY <1>7 DEF ScanMiss, Answer
<1>8. CASE Unfit \/ SearchFails
  BY <1>8 DEF Unfit, SearchFails, Answer
<1>9. CASE Hit
  <2>1. /\ Usable /\ Answer(IF Checked(Ino(at)) THEN "ok" ELSE "ESTALE", {at})
    BY <1>9 DEF Hit, Ino
  <2>2. pc' = "done" /\ out' = [kind |-> IF Checked(Ino(at)) THEN "ok" ELSE "ESTALE", at |-> {at}]
    BY <2>1 DEF Answer
  <2>3. Own(at)
    BY <2>1 DEF Usable, Searching, OwnOK
  <2> QED BY <2>2, <2>3
<1>10. CASE Loop
  <2>1. CASE pc' = "done"
    BY <1>10, <2>1 DEF Loop, Answer
  <2>2. CASE at' \in Successor(at) /\ pc' = pc
    BY <1>1, <1>10, <2>2 DEF Loop, OwnOK, TypeOK
  <2> QED BY <1>10, <2>1, <2>2 DEF Loop, Answer
<1>11. CASE Primary
  BY <1>1, <1>11 DEF Primary, OwnOK, TypeOK
<1>12. CASE More
  <2>1. CASE pc' = "done"
    BY <1>12, <2>1 DEF More, Answer
  <2>2. CASE at' \in next /\ pc' = "primary"
    BY <1>12, <2>2 DEF More, OwnOK
  <2> QED BY <1>12, <2>1, <2>2 DEF More, Answer
<1>13. CASE Done \/ UNCHANGED vars
  BY <1>13 DEF Done, vars, OwnOK
<1> QED BY <1>3, <1>4, <1>5, <1>6, <1>7, <1>8, <1>9, <1>10, <1>11, <1>12, <1>13 DEF Next, Lookup

\* The scan goes on only from a page that has no mcell of the tag.
LEMMA ScanNext ==
    ASSUME IInv, [Next]_vars
    PROVE  ScanOK'
<1> USE DEF IInv
<1>1. disk' = disk /\ req' = req /\ InBfsdir' = InBfsdir /\ \A l : Own(l)' = Own(l)
  BY Frame
<1>2. DOMAIN disk.cells \subseteq Locations /\ Len(disk.vds) \in Nat
  BY DiskAssumption DEF TypeOK
<1>3. \A l \in Locations : l.pg \in Nat /\ l.c \in Nat
  BY DEF Locations
<1> DEFINE Clear(w, q) ==
      \A j \in 1..Len(disk.vds), l \in DOMAIN disk.cells :
        /\ l.vd = disk.vds[j].vd /\ ReadsPage(l.vd, l.pg) /\ l.c < CELLS
        /\ \/ j < w /\ l.pg < ScanPages(disk.vds[j].map)
           \/ j = w /\ l.pg < q
        => ~Own(l)
<1>4. faults = 0 /\ pc = "scan" => Clear(v, spg)
  BY DEF ScanOK, Behind, TypeOK
<1>5. ASSUME pc' = "scan", faults' = 0 => Clear(v', spg')
      PROVE  ScanOK'
  BY <1>1, <1>5 DEF ScanOK, Behind, ReadsPage
<1>6. ASSUME pc' \in {"primary", "loop", "more"} PROVE ScanOK'
  BY <1>6 DEF ScanOK
<1>7. ASSUME pc' = "done", out'.kind # "ENOENT" \/ InBfsdir PROVE ScanOK'
  BY <1>1, <1>7 DEF ScanOK
<1>8. Clear(1, 0)
  BY <1>2, <1>3
<1>9. CASE Slot
  <2>1. CASE InBfsdir /\ pc' = "done"
    BY <2>1, <1>7
  <2>2. CASE pc' = "scan"
    <3>1. v' = 1 /\ spg' = 0
      BY <1>9 DEF Slot, TypeOK
    <3> HIDE DEF Clear
    <3> QED BY <1>5, <1>8, <2>2, <3>1
  <2>3. CASE Begin(disk.slot.at)
    BY <1>6, <2>3 DEF Begin
  <2> QED BY <1>9, <2>1, <2>2, <2>3 DEF Slot, Answer
<1>10. CASE SlotFails
  <2>1. CASE InBfsdir
    BY <2>1, <1>7, <1>10 DEF SlotFails, Answer
  <2>2. CASE ~InBfsdir
    <3>1. v' = 1 /\ spg' = 0 /\ pc' = "scan"
      BY <1>10, <2>2 DEF SlotFails, TypeOK
    <3> HIDE DEF Clear
    <3> QED BY <1>5, <1>8, <3>1
  <2> QED BY <2>1, <2>2
<1>11. CASE ScanHit
  BY <1>6, <1>11 DEF ScanHit, Begin
<1>12. CASE ScanOn
  <2>1. /\ pc = "scan" /\ pc' = "scan" /\ v' = v /\ spg' = spg + 1 /\ faults' = faults
        /\ ReadsPage(Vd.vd, spg) => OnPage = {}
    BY <1>12 DEF ScanOn, Scanning
  <2>2. ASSUME NEW l \in DOMAIN disk.cells, l.vd = Vd.vd, ReadsPage(l.vd, l.pg), l.c < CELLS,
               l.pg = spg
        PROVE  ~Own(l)
    <3>1. OnPage = {}
      BY <2>1, <2>2
    <3>2. l = [vd |-> Vd.vd, pg |-> spg, c |-> l.c]
      BY <2>2, <1>2 DEF Locations
    <3>3. l.c \in 0..CELLS - 1
      BY <2>2, <1>2, <1>3, LookupAssumption
    <3>4. ~Matches(l)
      BY <3>1, <3>2, <3>3 DEF OnPage
    <3> QED BY <3>4 DEF Matches, Own
  <2>3. faults = 0 => Clear(v, spg + 1)
    <3> SUFFICES ASSUME faults = 0, NEW j \in 1..Len(disk.vds), NEW l \in DOMAIN disk.cells,
                        l.vd = disk.vds[j].vd, ReadsPage(l.vd, l.pg), l.c < CELLS,
                        \/ j < v /\ l.pg < ScanPages(disk.vds[j].map)
                        \/ j = v /\ l.pg < spg + 1
                 PROVE  ~Own(l)
      OBVIOUS
    <3>1. CASE j < v
      BY <3>1, <1>4, <2>1
    <3>2. CASE j = v
      <4>1. l.pg < spg \/ l.pg = spg
        BY <3>2, <1>2, <1>3 DEF TypeOK
      <4> QED BY <3>2, <4>1, <1>4, <2>1, <2>2 DEF Vd
    <3> QED BY <3>1, <3>2
  <2> HIDE DEF Clear
  <2> QED BY <1>5, <2>1, <2>3
<1>13. CASE ScanFails
  BY <1>5, <1>13 DEF ScanFails, Scanning, TypeOK
<1>14. CASE ScanVolume
  <2>1. /\ pc = "scan" /\ pc' = "scan" /\ v' = v + 1 /\ spg' = 0 /\ faults' = faults
        /\ v <= Len(disk.vds) /\ spg >= ScanPages(Vd.map)
    BY <1>14 DEF ScanVolume
  <2>2. faults = 0 => Clear(v + 1, 0)
    <3> SUFFICES ASSUME faults = 0, NEW j \in 1..Len(disk.vds), NEW l \in DOMAIN disk.cells,
                        l.vd = disk.vds[j].vd, ReadsPage(l.vd, l.pg), l.c < CELLS,
                        \/ j < v + 1 /\ l.pg < ScanPages(disk.vds[j].map)
                        \/ j = v + 1 /\ l.pg < 0
                 PROVE  ~Own(l)
      OBVIOUS
    <3>1. ~(l.pg < 0) /\ l.pg \in Nat
      BY <1>2, <1>3
    <3>2. j < v + 1 /\ l.pg < ScanPages(disk.vds[j].map)
      BY <3>1
    <3>3. CASE j < v
      BY <3>2, <3>3, <1>4, <2>1
    <3>4. CASE j = v
      <4>1. ScanPages(disk.vds[j].map) \in Nat
        BY VolumeFacts DEF TypeOK
      <4>2. l.pg < spg
        BY <3>1, <3>2, <3>4, <4>1, <2>1 DEF TypeOK, Vd
      <4> QED BY <3>4, <4>2, <1>4, <2>1
    <3> QED BY <3>2, <3>3, <3>4 DEF TypeOK
  <2> HIDE DEF Clear
  <2> QED BY <1>5, <2>1, <2>2
<1>15. CASE ScanMiss
  <2>1. /\ pc = "scan" /\ pc' = "done" /\ UNCHANGED <<v, spg, faults>> /\ v > Len(disk.vds)
    BY <1>15 DEF ScanMiss, Answer
  <2> QED BY <1>1, <1>4, <2>1 DEF ScanOK, Behind, ReadsPage
<1>16. CASE Unfit \/ SearchFails
  <2>1. \A e \in {"EIO", "EINVAL"} : OnError(e) # "ENOENT"
    BY DEF OnError
  <2> QED BY <1>7, <1>16, <2>1 DEF Unfit, SearchFails, Answer
<1>17. CASE Hit
  BY <1>7, <1>17 DEF Hit, Answer
<1>18. CASE Loop
  <2>1. OnEnd # "ENOENT"
    BY DEF OnEnd
  <2> QED BY <1>6, <1>7, <1>18, <2>1 DEF Loop, Answer
<1>19. CASE Primary
  BY <1>6, <1>19 DEF Primary
<1>20. CASE More
  <2>1. OnEnd # "ENOENT"
    BY DEF OnEnd
  <2> QED BY <1>6, <1>7, <1>20, <2>1 DEF More, Answer
<1>21. CASE Done \/ UNCHANGED vars
  <2>1. UNCHANGED <<pc, v, spg, faults, out>>
    BY <1>21 DEF Done, vars
  <2> QED BY <1>1, <2>1 DEF ScanOK, Behind, ReadsPage
<1> QED BY <1>9, <1>10, <1>11, <1>12, <1>13, <1>14, <1>15, <1>16, <1>17, <1>18, <1>19, <1>20, <1>21
        DEF Next, Lookup

\* The searches follow the chain mcell by mcell, and answer with what the last
\* one calls for.
LEMMA ChainNext ==
    ASSUME IInv, [Next]_vars
    PROVE  ChainOK'
<1> USE DEF IInv
<1>1. /\ disk' = disk /\ req' = req /\ Limit' = Limit
      /\ \A l : Sane(l)' = Sane(l) /\ Has(l)' = Has(l) /\ Successor(l)' = Successor(l)
  BY Frame
<1>2. Limit \in Nat /\ hops \in Nat /\ CELLS \in Nat
  BY LookupAssumption DEF Limit, TypeOK
<1>3. at.c \in Nat /\ (Sane(at) <=> Readable /\ at.c < CELLS)
  BY DEF Sane, Readable, TypeOK, Locations
<1>4. ASSUME NEW g, Walked(g), UNCHANGED <<hops, start, at>>
      PROVE  Walked(g)'
  BY <1>1, <1>4 DEF Walked
<1>5. ASSUME NEW g, Walked(g), Sane(at), ~Has(at), at' \in Successor(at), hops' = hops + 1,
             start' = start
      PROVE  \E h : Walked(h)'
  <2>1. at' \in Locations
    BY <1>5, SuccessorType DEF TypeOK
  <2>2. \E h : h \in [0..hops + 1 -> Locations] /\ h[hops + 1] = at' /\ \A k \in 0..hops : h[k] = g[k]
    <3> DEFINE h == [k \in 0..hops + 1 |-> IF k = hops + 1 THEN at' ELSE g[k]]
    <3>1. h \in [0..hops + 1 -> Locations] /\ h[hops + 1] = at' /\ \A k \in 0..hops : h[k] = g[k]
      BY <1>2, <1>5, <2>1 DEF Walked
    <3> HIDE DEF h
    <3> QED BY <3>1
  <2>3. PICK h : h \in [0..hops + 1 -> Locations] /\ h[hops + 1] = at' /\ \A k \in 0..hops : h[k] = g[k]
    BY <2>2
  <2>4. h[0] = g[0] /\ h[hops] = at
    BY <1>2, <1>5, <2>3 DEF Walked
  <2>5. ASSUME NEW k \in 0..hops
        PROVE  Sane(h[k]) /\ ~Has(h[k]) /\ h[k + 1] \in Successor(h[k])
    <3>1. CASE k = hops
      BY <3>1, <2>3, <2>4, <1>5
    <3>2. CASE k # hops
      <4>1. k \in 0..hops - 1 /\ k + 1 \in 0..hops
        BY <3>2, <1>2
      <4>2. Sane(g[k]) /\ ~Has(g[k]) /\ g[k + 1] \in Successor(g[k])
        BY <4>1, <1>5 DEF Walked
      <4> QED BY <4>1, <4>2, <2>3
    <3> QED BY <3>1, <3>2
  <2>6. 0..(hops + 1) - 1 = 0..hops
    BY <1>2
  <2>7. start = {g[0]}
    BY <1>5 DEF Walked
  <2>8. \A k \in 0..hops' - 1 : Sane(h[k])' /\ ~Has(h[k])' /\ h[k + 1] \in Successor(h[k])'
    BY <1>1, <1>5, <2>5, <2>6
  <2>9. Walked(h)'
    BY <1>5, <2>3, <2>4, <2>7, <2>8 DEF Walked
  <2> QED BY <2>9
<1>6. ASSUME NEW l \in Locations, Begin(l)
      PROVE  ChainOK'
  <2> DEFINE g == [k \in 0..0 |-> l]
  <2>1. g \in [0..0 -> Locations] /\ g[0] = l /\ 0..0 - 1 = {}
    OBVIOUS
  <2>2. start' = {l} /\ at' = l /\ hops' = 0 /\ pc' \in {"primary", "loop"}
    BY <1>6 DEF Begin
  <2> HIDE DEF g
  <2>3. Walked(g)'
    BY <2>1, <2>2 DEF Walked
  <2> QED BY <1>1, <1>2, <2>2, <2>3 DEF ChainOK
<1>7. ASSUME pc \in {"primary", "loop", "more"}, pc' = "done", UNCHANGED <<hops, start, at>>,
             Verdict'
      PROVE  ChainOK'
  <2>1. hops <= Limit /\ \E g : Walked(g)
    BY <1>7 DEF ChainOK
  <2>2. \E g : Walked(g)'
    BY <2>1, <1>4, <1>7
  <2> QED BY <1>1, <1>7, <2>1, <2>2 DEF ChainOK
<1>8. CASE Slot
  <2>1. CASE Begin(disk.slot.at)
    <3>1. disk.slot.at \in Locations
      BY DiskAssumption DEF TypeOK
    <3> QED BY <1>6, <2>1, <3>1
  <2>2. CASE pc' \in {"done", "scan"} /\ UNCHANGED search
    BY <1>8, <2>2 DEF Slot, search, ChainOK
  <2> QED BY <1>8, <2>1, <2>2 DEF Slot, Answer
<1>9. CASE SlotFails
  <2>1. pc' \in {"done", "scan"}
    BY <1>9 DEF SlotFails, Answer
  <2> QED BY <1>9, <2>1 DEF SlotFails, search, ChainOK
<1>10. CASE ScanHit
  <2>1. Scanning /\ OnPage # {}
        /\ Begin([vd |-> Vd.vd, pg |-> spg, c |-> CHOOSE c \in OnPage : \A x \in OnPage : c <= x])
    BY <1>10 DEF ScanHit
  <2> QED BY <2>1, <1>6, ScanHitFacts
<1>11. CASE ScanOn \/ ScanFails \/ ScanVolume
  BY <1>11 DEF ScanOn, ScanFails, ScanVolume, Scanning, search, ChainOK
<1>12. CASE ScanMiss
  BY <1>12 DEF ScanMiss, Answer, search, ChainOK
<1>13. CASE Unfit
  <2>1. /\ Searching /\ (~Readable \/ at.c >= CELLS) /\ pc' = "done" /\ out'.at = {}
        /\ UNCHANGED <<hops, start, at>>
    BY <1>13 DEF Unfit, Answer, search
  <2>2. ~Sane(at)
    BY <1>2, <1>3, <2>1
  <2>3. Verdict'
    BY <1>1, <2>1, <2>2 DEF Verdict
  <2> QED BY <1>7, <2>1, <2>3 DEF Searching
<1>14. CASE SearchFails
  BY <1>14 DEF SearchFails, Answer, TypeOK, ChainOK
<1>15. CASE Hit
  <2>1. /\ Usable /\ Has(at) /\ pc' = "done" /\ out'.at = {at} /\ out'.kind \in {"ok", "ESTALE"}
        /\ UNCHANGED <<hops, start, at>>
    BY <1>15 DEF Hit, Answer, search
  <2>2. Sane(at)
    BY <1>3, <2>1 DEF Usable
  <2>3. Verdict'
    BY <1>1, <2>1, <2>2 DEF Verdict
  <2> QED BY <1>7, <2>1, <2>3 DEF Usable, Searching
<1>16. OnEnd \in {"ENODATA", "absent", "skipped"}
  BY DEF OnEnd
<1>17. CASE Loop
  <2>1. /\ pc = "loop" /\ Sane(at) /\ ~Has(at) /\ start' = start /\ Limit = MAX_HOPS
    BY <1>3, <1>17 DEF Loop, Usable, TypeOK, Limit
  <2>2. CASE Successor(at) = {} \/ hops >= MAX_HOPS
    <3>1. pc' = "done" /\ out'.at = {} /\ out'.kind = OnEnd /\ UNCHANGED <<hops, at>>
      BY <1>17, <2>2 DEF Loop, Answer
    <3>2. Verdict'
      BY <1>1, <1>16, <2>1, <2>2, <3>1 DEF Verdict
    <3> QED BY <1>7, <2>1, <3>1, <3>2
  <2>3. CASE ~(Successor(at) = {} \/ hops >= MAX_HOPS)
    <3>1. at' \in Successor(at) /\ hops' = hops + 1 /\ pc' = "loop"
      BY <1>17, <2>1, <2>3 DEF Loop
    <3>2. PICK g : Walked(g)
      BY <2>1 DEF ChainOK
    <3>3. \E h : Walked(h)'
      BY <1>5, <2>1, <3>1, <3>2
    <3>4. hops + 1 <= Limit
      BY <1>2, <2>1, <2>3
    <3> QED BY <1>1, <3>1, <3>3, <3>4 DEF ChainOK
  <2> QED BY <2>2, <2>3
<1>18. CASE Primary
  <2>1. /\ pc = "primary" /\ Sane(at) /\ ~Has(at) /\ pc' = "more" /\ next' = Successor(at)
        /\ UNCHANGED <<hops, start, at>>
    BY <1>3, <1>18 DEF Primary, Usable
  <2>2. hops <= Limit /\ \E g : Walked(g)'
    BY <1>4, <2>1 DEF ChainOK
  <2> QED BY <1>1, <2>1, <2>2 DEF ChainOK
<1>19. CASE More
  <2>1. /\ pc = "more" /\ Sane(at) /\ ~Has(at) /\ next = Successor(at) /\ start' = start
    BY <1>19 DEF More, ChainOK
  <2>2. CASE next = {} \/ hops >= Limit
    <3>1. pc' = "done" /\ out'.at = {} /\ out'.kind = OnEnd /\ UNCHANGED <<hops, at>>
      BY <1>19, <2>2 DEF More, Answer
    <3>2. Verdict'
      BY <1>1, <1>16, <2>1, <2>2, <3>1 DEF Verdict
    <3> QED BY <1>7, <2>1, <3>1, <3>2
  <2>3. CASE ~(next = {} \/ hops >= Limit)
    <3>1. at' \in Successor(at) /\ hops' = hops + 1 /\ pc' = "primary"
      BY <1>19, <2>1, <2>3 DEF More
    <3>2. PICK g : Walked(g)
      BY <2>1 DEF ChainOK
    <3>3. \E h : Walked(h)'
      BY <1>5, <2>1, <3>1, <3>2
    <3>4. hops + 1 <= Limit
      BY <1>2, <2>3
    <3> QED BY <1>1, <3>1, <3>3, <3>4 DEF ChainOK
  <2> QED BY <2>2, <2>3
<1>20. CASE Done \/ UNCHANGED vars
  <2>1. UNCHANGED <<pc, start, at, next, hops, out, faults>>
    BY <1>20 DEF Done, vars
  <2>2. (\E g : Walked(g)) => \E g : Walked(g)'
    BY <1>4, <2>1
  <2>3. Verdict' <=> Verdict
    BY <1>1, <2>1 DEF Verdict
  <2> QED BY <1>1, <2>1, <2>2, <2>3 DEF ChainOK
<1> QED BY <1>8, <1>9, <1>10, <1>11, <1>12, <1>13, <1>14, <1>15, <1>17, <1>18, <1>19, <1>20
        DEF Next, Lookup

-----------------------------------------------------------------------------
\* The mcells reached after k links, by the recursion that ChainFrom states.
Onward(S) == UNION {IF Sane(m) THEN Successor(m) ELSE {} : m \in S}

\* ChainFrom satisfies that recursion.
LEMMA ChainEquation ==
    ASSUME NEW l
    PROVE  \A k \in 0..Limit :
             ChainFrom(l)[k] = IF k = 0 THEN {l} ELSE Onward(ChainFrom(l)[k - 1])
<1> DEFINE B(g, k) == IF k = 0 THEN {l} ELSE Onward(g[k - 1])
           f == CHOOSE g : g = [k \in 0..Limit |-> B(g, k)]
           S == {n \in Nat : \E g : g = [k \in 0..n |-> B(g, k)]}
<1>1. Limit \in Nat
  BY LookupAssumption DEF Limit
<1>2. 0 \in S
  <2> DEFINE g == [k \in 0..0 |-> {l}]
  <2>1. g = [k \in 0..0 |-> B(g, k)]
    OBVIOUS
  <2> HIDE DEF g
  <2> QED BY <2>1
<1>3. ASSUME NEW n \in Nat, n \in S PROVE n + 1 \in S
  <2>1. PICK g : g = [k \in 0..n |-> B(g, k)]
    BY <1>3
  <2> DEFINE h == [k \in 0..n + 1 |-> IF k = n + 1 THEN Onward(g[n]) ELSE g[k]]
  <2>2. h[n + 1] = Onward(g[n]) /\ \A k \in 0..n : h[k] = g[k]
    OBVIOUS
  <2>3. \A k \in 0..n : g[k] = B(g, k)
    <3> HIDE DEF B
    <3> QED BY <2>1
  <2>4. ASSUME NEW k \in 0..n + 1 PROVE h[k] = B(h, k)
    <3> HIDE DEF h
    <3>1. CASE k = n + 1
      <4>1. k # 0 /\ k - 1 = n /\ n \in 0..n
        BY <3>1
      <4> QED BY <3>1, <4>1, <2>2
    <3>2. CASE k \in 1..n
      <4>1. k \in 0..n /\ k - 1 \in 0..n /\ k # 0
        BY <3>2
      <4> QED BY <4>1, <2>2, <2>3
    <3>3. CASE k = 0
      <4>1. 0 \in 0..n
        OBVIOUS
      <4> QED BY <3>3, <4>1, <2>2, <2>3
    <3> QED BY <3>1, <3>2, <3>3
  <2>5. h = [k \in 0..n + 1 |-> B(h, k)]
    <3>1. h = [k \in 0..n + 1 |-> h[k]]
      OBVIOUS
    <3> HIDE DEF h, B
    <3> QED BY <3>1, <2>4
  <2> HIDE DEF h, B
  <2> QED BY <2>5
<1>4. Limit \in S
  <2> HIDE DEF S
  <2> QED BY <1>1, <1>2, <1>3, NatInd
<1>5. f = [k \in 0..Limit |-> B(f, k)]
  <2> HIDE DEF B
  <2> QED BY <1>4
<1>6. ChainFrom(l) = f
  BY Zenon DEF ChainFrom, Onward
<1> HIDE DEF f, B
<1>7. \A k \in 0..Limit : f[k] = B(f, k)
  BY <1>5
<1> QED BY <1>6, <1>7 DEF B

-----------------------------------------------------------------------------
\* The inductive invariant.
THEOREM Invariance == Spec => []IInv
<1>1. IInv /\ [Next]_vars => IInv'
  BY TypeNext, OwnNext, ScanNext, ChainNext DEF IInv
<1> QED BY <1>1, InitIInv, PTL DEF Spec

\* What has been walked is the chain, and past its end there is nothing.
LEMMA WalkedIsChain ==
    ASSUME TypeOK, hops <= Limit, NEW g, Walked(g)
    PROVE  LET f == ChainFrom(g[0]) IN
           /\ \A k \in 0..hops : f[k] = {g[k]}
           /\ ~Sane(at) \/ Successor(at) = {} => \A k \in 0..Limit : k > hops => f[k] = {}
<1> DEFINE f == ChainFrom(g[0])
<1>1. Limit \in Nat /\ hops \in Nat
  BY LookupAssumption DEF Limit, TypeOK
<1>2. \A k \in 0..Limit : f[k] = IF k = 0 THEN {g[0]} ELSE Onward(f[k - 1])
  BY ChainEquation
<1> HIDE DEF f
<1>3. \A k \in 0..hops : f[k] = {g[k]}
  <2> DEFINE S == {k \in Nat : k <= hops => f[k] = {g[k]}}
  <2>1. 0 \in S
    BY <1>1, <1>2
  <2>2. ASSUME NEW k \in Nat, k \in S PROVE k + 1 \in S
    <3> SUFFICES ASSUME k + 1 <= hops PROVE f[k + 1] = {g[k + 1]}
      BY <1>1
    <3>1. k \in 0..hops - 1 /\ k + 1 \in 0..Limit /\ k + 1 # 0 /\ (k + 1) - 1 = k /\ k <= hops
      BY <1>1
    <3>2. f[k + 1] = Onward(f[k]) /\ f[k] = {g[k]}
      BY <1>2, <2>2, <3>1
    <3>3. Sane(g[k]) /\ g[k + 1] \in Successor(g[k]) /\ g[k] \in Locations
      BY <1>1, <3>1 DEF Walked
    <3>4. Successor(g[k]) = {g[k + 1]}
      BY <3>3, SuccessorType DEF TypeOK
    <3> QED BY <3>2, <3>3, <3>4 DEF Onward
  <2> HIDE DEF S
  <2>3. Nat \subseteq S
    BY <2>1, <2>2, NatInd
  <2> QED BY <1>1, <2>3 DEF S
<1>4. ASSUME ~Sane(at) \/ Successor(at) = {}, NEW n \in 0..Limit, n > hops
      PROVE  f[n] = {}
  <2> DEFINE S == {k \in Nat : hops + 1 + k <= Limit => f[hops + 1 + k] = {}}
  <2>1. 0 \in S
    <3> SUFFICES ASSUME hops + 1 <= Limit PROVE f[hops + 1] = {}
      BY <1>1
    <3>1. hops + 1 \in 0..Limit /\ hops + 1 # 0 /\ (hops + 1) - 1 = hops /\ hops \in 0..hops
      BY <1>1
    <3>2. f[hops + 1] = Onward(f[hops]) /\ f[hops] = {at}
      BY <1>2, <1>3, <3>1 DEF Walked
    <3> QED BY <1>4, <3>2 DEF Onward
  <2>2. ASSUME NEW k \in Nat, k \in S PROVE k + 1 \in S
    <3> SUFFICES ASSUME hops + 1 + (k + 1) <= Limit PROVE f[hops + 1 + (k + 1)] = {}
      BY <1>1
    <3>1. /\ hops + 1 + (k + 1) \in 0..Limit /\ hops + 1 + (k + 1) # 0
          /\ (hops + 1 + (k + 1)) - 1 = hops + 1 + k /\ hops + 1 + k <= Limit
      BY <1>1
    <3>2. f[hops + 1 + (k + 1)] = Onward(f[hops + 1 + k]) /\ f[hops + 1 + k] = {}
      BY <1>2, <2>2, <3>1
    <3> QED BY <3>2 DEF Onward
  <2> HIDE DEF S
  <2>3. Nat \subseteq S
    BY <2>1, <2>2, NatInd
  <2>4. n - (hops + 1) \in Nat /\ hops + 1 + (n - (hops + 1)) = n /\ n <= Limit
    BY <1>1, <1>4
  <2> QED BY <2>3, <2>4 DEF S
<1> QED BY <1>3, <1>4 DEF f

\* Every one of the six searches answers with the first mcell of the chain
\* that has the record, and with none only if none has it within the hops.
THEOREM SearchesDoAgree == Spec => []SearchesAgree
<1>1. IInv => SearchesAgree
  <2> SUFFICES ASSUME IInv, pc = "done", start # {}, faults = 0 PROVE SearchesAgree
    BY DEF SearchesAgree
  <2>1. TypeOK /\ hops <= Limit /\ Verdict /\ Limit \in Nat /\ hops \in Nat
    BY LookupAssumption DEF IInv, ChainOK, Limit, TypeOK
  <2>2. PICK g : Walked(g)
    BY DEF IInv, ChainOK
  <2> DEFINE l0 == CHOOSE l \in start : TRUE
             f == ChainFrom(l0)
             holds == {k \in 0..Limit : \E l \in f[k] : Sane(l) /\ Has(l)}
             first == CHOOSE k \in holds : \A j \in holds : k <= j
  <2>3. l0 = g[0]
    BY <2>2 DEF Walked
  <2>4. /\ \A k \in 0..hops : f[k] = {g[k]}
        /\ ~Sane(at) \/ Successor(at) = {} => \A k \in 0..Limit : k > hops => f[k] = {}
    BY <2>1, <2>2, <2>3, WalkedIsChain
  <2> HIDE DEF f, l0
  <2>5. \A k \in 0..hops - 1 : ~Has(g[k])
    BY <2>2 DEF Walked
  <2>6. g[hops] = at /\ f[hops] = {at} /\ hops \in 0..Limit
    BY <2>1, <2>2, <2>4 DEF Walked
  <2>7. \A k \in holds : k >= hops
    <3> SUFFICES ASSUME NEW k \in holds, k < hops PROVE FALSE
      BY <2>1
    <3>1. k \in 0..hops - 1 /\ k \in 0..hops
      BY <2>1
    <3> QED BY <3>1, <2>4, <2>5
  <2>8. CASE Sane(at) /\ Has(at) /\ out.kind \in {"ok", "ESTALE"} /\ out.at = {at}
    <3>1. hops \in holds
      BY <2>6, <2>8
    <3>2. first = hops
      <4>1. holds \subseteq Nat
        BY <2>1
      <4> HIDE DEF holds
      <4>2. \A k \in holds : (\A j \in holds : k <= j) => k = hops
        BY <3>1, <2>7, <4>1
      <4>3. \A j \in holds : hops <= j
        BY <2>7, <4>1, <3>1
      <4>4. first \in holds /\ \A j \in holds : first <= j
        BY <3>1, <4>3
      <4> HIDE DEF first
      <4> QED BY <4>2, <4>4
    <3> HIDE DEF first
    <3>3. holds # {} /\ out.kind \in {"ok", "ESTALE"} /\ out.at = f[first]
      BY <2>6, <2>8, <3>1, <3>2
    <3> QED BY <3>3, Zenon DEF SearchesAgree, holds, first, f, l0
  <2>9. CASE /\ ~Sane(at) \/ (~Has(at) /\ (Successor(at) = {} \/ hops >= Limit))
             /\ out.at = {}
             /\ out.kind \in {"ENODATA", "absent", "skipped"} \/ ~Sane(at)
    <3>1. holds = {}
      <4> SUFFICES ASSUME NEW k \in holds PROVE FALSE
        OBVIOUS
      <4>1. k \in 0..Limit /\ k >= hops /\ \E l \in f[k] : Sane(l) /\ Has(l)
        BY <2>7
      <4>2. CASE k = hops
        BY <2>6, <2>9, <4>1, <4>2
      <4>3. CASE k > hops
        <5>1. ~Sane(at) \/ Successor(at) = {}
          BY <2>1, <2>9, <4>1, <4>3
        <5>2. f[k] = {}
          BY <2>4, <4>1, <4>3, <5>1
        <5> QED BY <4>1, <5>2
      <4> QED BY <2>1, <4>1, <4>2, <4>3
    <3>2. ~Sane(at) => \E k \in 0..Limit : \E l \in f[k] : ~Sane(l)
      BY <2>6
    <3> HIDE DEF holds
    <3>3. /\ out.at = {}
          /\ \/ out.kind \in {"ENODATA", "absent", "skipped"}
             \/ \E k \in 0..Limit : \E l \in f[k] : ~Sane(l)
      BY <2>9, <3>2
    <3> HIDE DEF first
    <3> QED BY <3>1, <3>3, Zenon DEF SearchesAgree, holds, f, l0
  <2> QED BY <2>1, <2>8, <2>9 DEF Verdict
<1> QED BY <1>1, Invariance, PTL

\* A tag that find_tag_by_bmt_scan reports missing is on no page of a BMT that
\* can be read.
THEOREM ScansAreComplete == Spec => []ScanComplete
<1>1. IInv => ScanComplete
  <2> SUFFICES ASSUME IInv, pc = "done", out.kind = "ENOENT", ~InBfsdir, faults = 0,
                      NEW i \in 1..Len(disk.vds), NEW l \in DOMAIN disk.cells,
                      disk.vds[i].map # <<>>, l.vd = disk.vds[i].vd, ReadsPage(l.vd, l.pg), l.c < CELLS,
                      l.pg < SCAN_MAX,
                      l.pg < disk.vds[i].map[Len(disk.vds[i].map)].bs_page
                               + (IF disk.vds[i].map[Len(disk.vds[i].map)].term THEN 0 ELSE SCAN_GUESS)
               PROVE  ~(disk.cells[l].tag.num = req.tag.num /\ disk.cells[l].set = req.set)
    BY Zenon DEF ScanComplete
  <2>1. v > Len(disk.vds) /\ disk \in Disks /\ v \in Nat
    BY DEF IInv, ScanOK, TypeOK
  <2>2. Len(disk.vds) \in Nat /\ l.pg \in Nat
    BY <2>1, DiskAssumption DEF Locations
  <2>3. disk.vds[i].map \in Seq([bs_page : Nat, term : BOOLEAN])
    BY <2>1, VolumeFacts
  <2>4. l.pg < ScanPages(disk.vds[i].map)
    BY <2>2, <2>3, ScanPagesReach
  <2>5. i < v
    BY <2>1, <2>2
  <2>6. Behind(i, l)
    BY <2>4, <2>5 DEF Behind
  <2>7. ~Own(l)
    BY <2>6 DEF IInv, ScanOK
  <2> QED BY <2>7 DEF Own, Cell
<1> QED BY <1>1, Invariance, PTL

\* On a sound disk a record that is found is one of the tag and fileset asked
\* for, and one of the file asked for where stat_tag_checked is strict.
THEOREM RecordsAreOwn == Spec => []RecordIsOwn
<1>1. IInv => RecordIsOwn
  <2> SUFFICES ASSUME IInv, pc = "done", out.kind = "ok", ~InBfsdir, SoundDisk, NEW l \in out.at
               PROVE  /\ Cell(l).tag.num = req.tag.num /\ Cell(l).set = req.set
                      /\ /\ req.check = "strict" /\ Cell(l).tag.seq # 0 /\ req.tag.seq # 0
                         /\ Cell(l).recs[FindRec(Cell(l).recs, Type)].ino = Cell(l).tag
                         => Cell(l).tag.seq = req.tag.seq
    BY Zenon DEF RecordIsOwn
  <2>1. Own(l) /\ Checked(Ino(l))
    BY DEF IInv, OwnOK
  <2>2. Cell(l).tag.num = req.tag.num /\ Cell(l).set = req.set
    BY <2>1 DEF Own
  <2>3. ASSUME req.check = "strict", Cell(l).tag.seq # 0, req.tag.seq # 0, Ino(l) = Cell(l).tag
        PROVE  Cell(l).tag.seq = req.tag.seq
    BY <2>1, <2>3 DEF Checked
  <2> QED BY <2>2, <2>3, Zenon DEF Ino
<1> QED BY <1>1, Invariance, PTL
=============================================================================
