----------------------------- MODULE MountProofs -----------------------------
(***************************************************************************)
(* Every way out of either program releases what it holds exactly once,    *)
(* both pick their filesets by one rule, and the mount takes its line      *)
(* apart as documented: for every command line, any number of volumes and  *)
(* every list of filesets.                                                 *)
(***************************************************************************)
EXTENDS Mount, TLAPS, FiniteSetTheorems, SequenceTheorems, WellFoundedInduction

-----------------------------------------------------------------------------
\* The inductive invariant.

Before == {"main", "args", "open"}
Alive == {"list", "extents", "fuse", "serve", "work"}

TypeOK ==
    /\ prog \in {"fuse", "tool"} /\ argv \in Seq(STRING)
    /\ sets \in Seq([name : STRING, clone : BOOLEAN])
    /\ pc \in Before \cup Alive \cup {"exit"}
    /\ Len(line.vds) \in Nat
    /\ pc \in {"extents", "fuse", "serve"} => prog = "fuse"
    /\ pc = "work" => prog = "tool"

\* Volumes are opened from the first on; all are open while the program
\* works, and each is closed as often as it was opened at the end.
VolumesOK ==
    /\ pc = "main" => line = Refused
    /\ pc \in {"args", "open"} => DOMAIN openCount = Vols
    /\ \A v \in Vols : openCount[v] \in {0, 1}
    /\ pc = "args" => \A v \in Vols : openCount[v] = 0
    /\ pc = "open" => \E k \in 0..Len(line.vds) :
                        \A v \in Vols : openCount[v] = IF v <= k THEN 1 ELSE 0
    /\ pc \in Alive => \A v \in Vols : openCount[v] = 1
    /\ \A v \in Vols : closeCount[v] = IF pc = "exit" THEN openCount[v] ELSE 0

\* What else is held, by where the program is.
HeldOK ==
    held = IF pc \in {"main", "exit"} THEN {}
           ELSE (IF prog = "fuse" THEN {"filt"} ELSE {})
                \cup (IF pc \in Alive THEN {"domain"} ELSE {})
                \cup (IF pc \in {"fuse", "serve"} THEN {"cache"} ELSE {})
                \cup (IF pc = "serve" THEN {"fuse"} ELSE {})

\* Nothing is enumerated before the domain is open.
FreshOK ==
    /\ seen \subseteq 1..next - 1 /\ next \in 1..Len(sets) + 1 /\ pick \in Nat
    /\ found \in BOOLEAN
    /\ pc \in Before => next = 1 /\ pick = 0 /\ ~found /\ list = <<>>
    /\ pc \in {"extents", "fuse", "serve"} => Remembered

\* capture_first_fileset: the state of first after the filesets seen.
FirstOK ==
    IF prog # "fuse" THEN ~found
    ELSE IF target # {}
    THEN IF found THEN First(seen, pick, NamedSet) ELSE pick = 0 /\ \A p \in seen : ~NamedSet(p)
    ELSE IF found THEN First(seen, pick, Original)
    ELSE /\ \A p \in seen : ~Original(p)
         /\ IF Remembered
            THEN pick \in seen /\ \A p \in seen : p < pick => sets[p].name = ""
            ELSE \A p \in seen : sets[p].name = ""

\* The filesets that the tool's array has room for.
Known == {p \in seen : Cardinality({i \in seen : i <= p}) <= MaxFilesets}
Ranks(s) == {s[i] : i \in 1..Len(s)}

\* collect_fileset_cb: the array holds the known filesets, in order.
ListOK ==
    /\ list \in Seq(Nat)
    /\ prog = "tool" =>
         /\ Ranks(list) = Known
         /\ \A i, j \in 1..Len(list) : i < j => list[i] < list[j]
         /\ IF Len(list) < MaxFilesets THEN Cardinality(seen) = Len(list)
            ELSE Cardinality(seen) >= MaxFilesets

\* --list takes fileset p.
Takes(p) ==
    IF target # {} THEN First(Known, p, NamedSet)
    ELSE First(Known, p, Original) \/ (First(Known, p, AnySet) /\ ~\E i \in Known : Original(i))

\* The tool's work: done and still to do.
WorkOK ==
    /\ todo \in Seq(Nat)
    /\ pc \notin {"work", "exit"} => visited = {} /\ failed = {} /\ todo = <<>>
    /\ line.cmd \in {"list", "count"} => \A p \in visited \cup failed \cup Ranks(todo) : Takes(p)
    /\ Looping /\ pc = "work" =>
         visited \cup failed \cup {p \in Ranks(todo) : Wanted(p)} = {p \in Known : Wanted(p)}
    /\ Looping /\ pc = "exit" =>
         visited \cup failed = {} \/ visited \cup failed = {p \in Known : Wanted(p)}

IInv == TypeOK /\ VolumesOK /\ HeldOK /\ FreshOK /\ FirstOK /\ ListOK /\ WorkOK

-----------------------------------------------------------------------------
\* A set of naturals that is not empty has a least element.
LEMMA Least ==
    ASSUME NEW T, T \subseteq Nat, T # {}
    PROVE  \E x \in T : \A y \in T : x <= y
<1> DEFINE R == {ss \in Nat \X Nat : ss[1] < ss[2]}
<1>1. IsWellFoundedOn(R, Nat)
  BY NatLessThanWellFounded DEF OpToRel
<1>2. \A x, y \in Nat : y < x => <<y, x>> \in R
  OBVIOUS
<1> HIDE DEF R
<1>3. PICK x \in T : \A y \in T : ~(<<y, x>> \in R)
  BY <1>1, WFMin
<1>4. ASSUME NEW y \in T PROVE x <= y
  <2>1. ~(y < x)
    BY <1>2, <1>3
  <2> QED BY <2>1
<1> QED BY <1>4

\* Induction over the naturals, for a set.
LEMMA NatInd ==
    ASSUME NEW S, 0 \in S, \A n \in Nat : n \in S => n + 1 \in S
    PROVE  Nat \subseteq S
<1> SUFFICES ASSUME Nat \ S # {} PROVE FALSE
  OBVIOUS
<1>1. PICK x \in Nat \ S : \A y \in Nat \ S : x <= y
  BY Least
<1>2. x # 0 /\ x - 1 \in Nat
  BY <1>1
<1>3. x - 1 \in S
  BY <1>1, <1>2
<1> QED BY <1>1, <1>2, <1>3

\* What the options of a line amount to.
Options == [filt : Seq(STRING), fileset : SUBSET STRING, partition : SUBSET STRING,
            offset : BOOLEAN, recursive : BOOLEAN, err : BOOLEAN]

\* What the recursion over a line leaves of it from each argument on.
Remains(f, s, tool) ==
    \A i \in 1..Len(s) + 2 :
      LET out == tool /\ s[i] \in Recursive IN
      /\ f[i] \in Options
      /\ i > Len(s) => f[i].filt = <<>>
      /\ i <= Len(s) /\ ~out /\ s[i] \notin ValueOptions => f[i].filt = <<s[i]>> \o f[i + 1].filt
      /\ i < Len(s) /\ ~out /\ s[i] \in ValueOptions => f[i].filt = f[i + 2].filt
      /\ i = Len(s) /\ ~out /\ s[i] \in ValueOptions => f[i].filt = <<>>

(***************************************************************************)
(* The options of every line can be extracted: the recursion over its      *)
(* arguments is well-founded, and the arguments that remain are a finite   *)
(* sequence.                                                               *)
(***************************************************************************)
LEMMA ExtractIs ==
    ASSUME NEW s \in Seq(STRING), NEW tool \in BOOLEAN
    PROVE  \E f : /\ Remains(f, s, tool)
                 /\ Extract(s, tool) = IF tool /\ Len(f[1].filt) > MaxArgs
                                       THEN [f[1] EXCEPT !.filt = SubSeq(@, 1, MaxArgs)] ELSE f[1]
<1> DEFINE n == Len(s)
           last(old, x) == IF old = {} THEN {x} ELSE old
           Body(g, i) ==
             IF i > n THEN NoOptions
             ELSE IF tool /\ s[i] \in Recursive THEN [g[i + 1] EXCEPT !.recursive = TRUE]
             ELSE IF s[i] \notin ValueOptions THEN [g[i + 1] EXCEPT !.filt = <<s[i]>> \o @]
             ELSE IF i = n THEN [NoOptions EXCEPT !.err = TRUE]
             ELSE LET r == g[i + 2]
                      x == s[i + 1]
                  IN  CASE s[i] = "--fileset" -> [r EXCEPT !.fileset = last(@, x)]
                        [] s[i] = "--partition" -> [r EXCEPT !.partition = last(@, x),
                                                            !.err = @ \/ (tool /\ x \notin Letters)]
                        [] s[i] = "--offset" -> [r EXCEPT !.offset = TRUE, !.err = @ \/ x \notin Numbers]
           f == CHOOSE g : g = [i \in 1..n + 2 |-> Body(g, i)]
<1>1. n \in Nat
  BY LenProperties
<1>2. NoOptions \in Options
  BY EmptySeq DEF NoOptions, Options
<1>3. ASSUME NEW g, NEW i \in 1..n + 2,
             i <= n => g[i + 1] \in Options, i < n => g[i + 2] \in Options
      PROVE  Body(g, i) \in Options
  <2>1. CASE i > n
    BY <1>2, <2>1
  <2>2. CASE i <= n /\ (tool /\ s[i] \in Recursive)
    <3>1. g[i + 1] \in Options
      BY <1>3, <2>2
    <3>2. Body(g, i) = [g[i + 1] EXCEPT !.recursive = TRUE]
      BY <1>1, <2>2
    <3> HIDE DEF Body
    <3> QED BY <3>1, <3>2 DEF Options
  <2>3. CASE i <= n /\ ~(tool /\ s[i] \in Recursive) /\ s[i] \notin ValueOptions
    <3>1. g[i + 1] \in Options /\ s[i] \in STRING
      BY <1>1, <1>3, <2>3
    <3>2. <<s[i]>> \o g[i + 1].filt \in Seq(STRING)
      BY <3>1, ConcatProperties DEF Options
    <3>3. Body(g, i) = [g[i + 1] EXCEPT !.filt = <<s[i]>> \o g[i + 1].filt]
      BY <1>1, <2>3
    <3> HIDE DEF Body
    <3> QED BY <3>1, <3>2, <3>3 DEF Options
  <2>4. CASE i = n /\ ~(tool /\ s[i] \in Recursive) /\ s[i] \in ValueOptions
    <3>1. Body(g, i) = [NoOptions EXCEPT !.err = TRUE]
      BY <1>1, <2>4
    <3> HIDE DEF Body
    <3> QED BY <1>2, <3>1 DEF Options
  <2>5. CASE i < n /\ ~(tool /\ s[i] \in Recursive) /\ s[i] \in ValueOptions
    <3>1. g[i + 2] \in Options /\ s[i + 1] \in STRING
      BY <1>1, <1>3, <2>5
    <3>2. \/ Body(g, i) = [g[i + 2] EXCEPT !.fileset = last(@, s[i + 1])]
          \/ Body(g, i) = [g[i + 2] EXCEPT !.partition = last(@, s[i + 1]),
                                          !.err = @ \/ (tool /\ s[i + 1] \notin Letters)]
          \/ Body(g, i) = [g[i + 2] EXCEPT !.offset = TRUE, !.err = @ \/ s[i + 1] \notin Numbers]
      BY <1>1, <2>5 DEF ValueOptions
    <3> HIDE DEF Body
    <3>3. CASE Body(g, i) = [g[i + 2] EXCEPT !.fileset = last(@, s[i + 1])]
      <4>1. last(g[i + 2].fileset, s[i + 1]) \in SUBSET STRING
        BY <3>1 DEF Options
      <4> HIDE DEF last
      <4> QED BY <3>1, <3>3, <4>1 DEF Options
    <3>4. CASE Body(g, i) = [g[i + 2] EXCEPT !.partition = last(@, s[i + 1]),
                                             !.err = @ \/ (tool /\ s[i + 1] \notin Letters)]
      <4> DEFINE e == g[i + 2].err \/ (tool /\ s[i + 1] \notin Letters)
      <4>1. e \in BOOLEAN /\ last(g[i + 2].partition, s[i + 1]) \in SUBSET STRING
        BY <3>1 DEF Options
      <4>2. Body(g, i) = [g[i + 2] EXCEPT !.partition = last(g[i + 2].partition, s[i + 1]), !.err = e]
        BY <3>1, <3>4 DEF Options
      <4> HIDE DEF e, last
      <4> QED BY <3>1, <4>1, <4>2 DEF Options
    <3>5. CASE Body(g, i) = [g[i + 2] EXCEPT !.offset = TRUE, !.err = @ \/ s[i + 1] \notin Numbers]
      <4> DEFINE e == g[i + 2].err \/ s[i + 1] \notin Numbers
      <4>1. e \in BOOLEAN
        OBVIOUS
      <4>2. Body(g, i) = [g[i + 2] EXCEPT !.offset = TRUE, !.err = e]
        BY <3>1, <3>5 DEF Options
      <4> HIDE DEF e
      <4> QED BY <3>1, <4>1, <4>2 DEF Options
    <3> QED BY <3>2, <3>3, <3>4, <3>5
  <2>6. i > n \/ i = n \/ i < n
    BY <1>1
  <2> HIDE DEF Body
  <2> QED BY <1>1, <2>1, <2>2, <2>3, <2>4, <2>5, <2>6
<1>4. Extract(s, tool) = IF tool /\ Len(f[1].filt) > MaxArgs
                         THEN [f[1] EXCEPT !.filt = SubSeq(@, 1, MaxArgs)] ELSE f[1]
  BY DEF Extract
<1>5. ASSUME NEW g, NEW h, NEW i \in 1..n + 2, g[i + 1] = h[i + 1], g[i + 2] = h[i + 2]
      PROVE  Body(g, i) = Body(h, i)
  BY <1>5
<1>6. \A g : Body(g, n + 2) = NoOptions
  BY <1>1
<1>14. ASSUME NEW g, NEW i \in 1..n + 2,
              i <= n => g[i + 1] \in Options, i < n => g[i + 2] \in Options
       PROVE  LET out == tool /\ s[i] \in Recursive IN
              /\ i > n => Body(g, i).filt = <<>>
              /\ i <= n /\ ~out /\ s[i] \notin ValueOptions => Body(g, i).filt = <<s[i]>> \o g[i + 1].filt
              /\ i < n /\ ~out /\ s[i] \in ValueOptions => Body(g, i).filt = g[i + 2].filt
              /\ i = n /\ ~out /\ s[i] \in ValueOptions => Body(g, i).filt = <<>>
  <2> DEFINE out == tool /\ s[i] \in Recursive
  <2>1. CASE i > n
    <3>1. Body(g, i) = NoOptions
      BY <2>1
    <3> HIDE DEF Body
    <3> QED BY <2>1, <3>1, <1>1 DEF NoOptions
  <2>2. CASE i <= n /\ ~out /\ s[i] \notin ValueOptions
    <3>1. Body(g, i) = [g[i + 1] EXCEPT !.filt = <<s[i]>> \o g[i + 1].filt]
      BY <1>1, <2>2
    <3> HIDE DEF Body
    <3> QED BY <1>14, <2>2, <3>1, <1>1 DEF Options
  <2>3. CASE i < n /\ ~out /\ s[i] \in ValueOptions
    <3>1. \/ Body(g, i) = [g[i + 2] EXCEPT !.fileset = last(@, s[i + 1])]
          \/ Body(g, i) = [g[i + 2] EXCEPT !.partition = last(@, s[i + 1]),
                                          !.err = @ \/ (tool /\ s[i + 1] \notin Letters)]
          \/ Body(g, i) = [g[i + 2] EXCEPT !.offset = TRUE, !.err = @ \/ s[i + 1] \notin Numbers]
      BY <1>1, <2>3 DEF ValueOptions
    <3> HIDE DEF Body
    <3>2. Body(g, i).filt = g[i + 2].filt
      BY <1>14, <2>3, <3>1 DEF Options
    <3> QED BY <2>3, <3>2, <1>1
  <2>4. CASE i = n /\ ~out /\ s[i] \in ValueOptions
    <3>1. Body(g, i) = [NoOptions EXCEPT !.err = TRUE]
      BY <1>1, <2>4
    <3> HIDE DEF Body
    <3> QED BY <2>4, <3>1, <1>1 DEF NoOptions
  <2> HIDE DEF Body
  <2> QED BY <1>1, <2>1, <2>2, <2>3, <2>4
<1> HIDE DEF Body
<1> HIDE DEF n
<1>7. \E g : g = [i \in 1..n + 2 |-> Body(g, i)]
  <2> DEFINE F == [1..n + 2 -> Options]
             Good(k) == \E g \in F : \A i \in 1..n + 2 : i >= n + 2 - k => g[i] = Body(g, i)
             S == {k \in Nat : k > n + 1 \/ Good(k)}
  <2>1. 0 \in S
    <3> DEFINE g == [i \in 1..n + 2 |-> NoOptions]
    <3>1. g \in F
      BY <1>2
    <3>2. ASSUME NEW i \in 1..n + 2, i >= n + 2 - 0 PROVE g[i] = Body(g, i)
      <4>1. i = n + 2
        BY <1>1, <3>2
      <4> QED BY <4>1, <1>1, <1>6
    <3> QED BY <3>1, <3>2
  <2>2. ASSUME NEW k \in Nat, k \in S PROVE k + 1 \in S
    <3>1. CASE k + 1 > n + 1
      BY <3>1
    <3>2. CASE k + 1 <= n + 1
      <4>1. PICK g \in F : \A i \in 1..n + 2 : i >= n + 2 - k => g[i] = Body(g, i)
        BY <1>1, <2>2, <3>2
      <4> DEFINE j == n + 1 - k
                 h == [g EXCEPT ![j] = Body(g, j)]
      <4>2. j \in 1..n + 1 /\ j \in 1..n + 2
        BY <1>1, <3>2
      <4>3. Body(g, j) \in Options
        BY <1>1, <1>3, <4>2
      <4>4. h \in F /\ h[j] = Body(g, j) /\ \A i \in 1..n + 2 : i # j => h[i] = g[i]
        BY <4>2, <4>3
      <4>5. ASSUME NEW i \in 1..n + 2, i >= n + 2 - (k + 1) PROVE h[i] = Body(h, i)
        <5>1. i >= j /\ (i # j => i >= n + 2 - k)
          BY <1>1, <4>5
        <5>2. h[i] = Body(g, i)
          BY <4>1, <4>4, <5>1
        <5>3. CASE i < n + 2
          <6>1. i + 1 \in 1..n + 2 /\ i + 1 # j
            BY <1>1, <5>1, <5>3, <4>2
          <6>2. h[i + 1] = g[i + 1]
            BY <4>4, <6>1
          <6>3. h[i + 2] = g[i + 2]
            <7>1. i + 2 # j
              BY <1>1, <5>1, <4>2
            <7> QED BY <7>1, <4>2
          <6> QED BY <1>5, <5>2, <6>2, <6>3
        <5>4. CASE i = n + 2
          BY <1>6, <5>2, <5>4
        <5> QED BY <1>1, <5>3, <5>4
      <4>6. Good(k + 1)
        BY <4>4, <4>5
      <4> HIDE DEF Good
      <4> QED BY <4>6
    <3> QED BY <1>1, <3>1, <3>2
  <2> HIDE DEF S
  <2>3. Nat \subseteq S
    BY <2>1, <2>2, NatInd
  <2>4. Good(n + 1)
    <3>1. n + 1 \in S
      BY <1>1, <2>3
    <3> HIDE DEF Good
    <3> QED BY <1>1, <3>1 DEF S
  <2>5. PICK g \in F : \A i \in 1..n + 2 : g[i] = Body(g, i)
    BY <1>1, <2>4
  <2>6. g = [i \in 1..n + 2 |-> Body(g, i)]
    BY <2>5
  <2> QED BY <2>6
<1>8. f = [i \in 1..n + 2 |-> Body(f, i)]
  BY <1>7
<1> HIDE DEF f
<1>9. \A i \in 1..n + 2 : f[i] \in Options
  <2> DEFINE T == {k \in Nat : k <= n + 1 /\ f[n + 2 - k] \notin Options}
  <2> SUFFICES ASSUME NEW i \in 1..n + 2, f[i] \notin Options PROVE FALSE
    OBVIOUS
  <2>1. n + 2 - i \in T
    <3>1. n + 2 - (n + 2 - i) = i /\ n + 2 - i \in Nat /\ n + 2 - i <= n + 1
      BY <1>1
    <3> QED BY <3>1
  <2>2. PICK x \in T : \A y \in T : x <= y
    <3>1. T \subseteq Nat /\ T # {}
      BY <2>1
    <3> HIDE DEF T
    <3> QED BY <3>1, Least
  <2> DEFINE j == n + 2 - x
  <2>3. x \in Nat /\ x <= n + 1 /\ j \in 1..n + 2 /\ f[j] \notin Options
    BY <1>1, <2>2
  <2>4. j <= n => f[j + 1] \in Options
    <3>1. CASE j <= n
      <4>1. x - 1 \in Nat /\ x - 1 <= n + 1 /\ x - 1 < x /\ n + 2 - (x - 1) = j + 1
        BY <1>1, <2>3, <3>1
      <4>2. x - 1 \notin T
        BY <2>2, <2>3, <4>1
      <4> QED BY <4>1, <4>2
    <3> QED BY <3>1
  <2>5. j < n => f[j + 2] \in Options
    <3>1. CASE j < n
      <4>1. x - 2 \in Nat /\ x - 2 <= n + 1 /\ x - 2 < x /\ n + 2 - (x - 2) = j + 2
        BY <1>1, <2>3, <3>1
      <4>2. x - 2 \notin T
        BY <2>2, <2>3, <4>1
      <4> QED BY <4>1, <4>2
    <3> QED BY <3>1
  <2>6. Body(f, j) \in Options
    BY <1>3, <2>3, <2>4, <2>5
  <2> HIDE DEF j
  <2>7. f[j] = Body(f, j)
    BY <1>8, <2>3
  <2> QED BY <2>3, <2>6, <2>7
<1>10. Remains(f, s, tool)
  <2>1. ASSUME NEW i \in 1..n + 2
        PROVE  LET out == tool /\ s[i] \in Recursive IN
               /\ i > n => f[i].filt = <<>>
               /\ i <= n /\ ~out /\ s[i] \notin ValueOptions => f[i].filt = <<s[i]>> \o f[i + 1].filt
               /\ i < n /\ ~out /\ s[i] \in ValueOptions => f[i].filt = f[i + 2].filt
               /\ i = n /\ ~out /\ s[i] \in ValueOptions => f[i].filt = <<>>
    <3>1. f[i] = Body(f, i)
      BY <1>8
    <3>2. (i <= n => i + 1 \in 1..n + 2) /\ (i < n => i + 2 \in 1..n + 2)
      BY <1>1
    <3>3. (i <= n => f[i + 1] \in Options) /\ (i < n => f[i + 2] \in Options)
      BY <1>9, <3>2
    <3> QED BY <1>14, <3>1, <3>3
  <2> QED BY <1>9, <2>1 DEF Remains, n
<1> QED BY <1>4, <1>10 DEF n

\* The options of a line with their types.
LEMMA ExtractType ==
    ASSUME NEW s \in Seq(STRING), NEW tool \in BOOLEAN
    PROVE  Extract(s, tool) \in Options
<1>1. PICK f : /\ Remains(f, s, tool)
               /\ Extract(s, tool) = IF tool /\ Len(f[1].filt) > MaxArgs
                                     THEN [f[1] EXCEPT !.filt = SubSeq(@, 1, MaxArgs)] ELSE f[1]
  BY ExtractIs
<1>2. f[1] \in Options
  <2>1. 1 \in 1..Len(s) + 2
    BY LenProperties
  <2> QED BY <1>1, <2>1 DEF Remains
<1>11. CASE tool /\ Len(f[1].filt) > MaxArgs
  <2>1. f[1].filt \in Seq(STRING) /\ MaxArgs \in Nat /\ MaxArgs <= Len(f[1].filt)
    BY <1>2, <1>11, LenProperties, LineAssumption DEF Options
  <2>2. SubSeq(f[1].filt, 1, MaxArgs) \in Seq(STRING)
    BY <2>1, SubSeqProperties
  <2>3. Extract(s, tool) = [f[1] EXCEPT !.filt = SubSeq(f[1].filt, 1, MaxArgs)]
    BY <1>1, <1>11
  <2> QED BY <1>2, <2>2, <2>3 DEF Options
<1>12. CASE ~(tool /\ Len(f[1].filt) > MaxArgs)
  BY <1>1, <1>2, <1>12
<1> QED BY <1>11, <1>12

\* The files at the left of a line are some of its arguments.
LEMMA LeadingFilesType ==
    ASSUME NEW s \in Seq(STRING)
    PROVE  LeadingFiles(s) \in Seq(STRING)
<1> DEFINE others == {i \in 1..Len(s) : s[i] \notin RegularFiles}
<1>1. CASE others = {}
  BY <1>1 DEF LeadingFiles
<1>2. CASE others # {}
  <2> DEFINE k == CHOOSE i \in others : \A j \in others : i <= j
  <2>1. others \subseteq Nat
    OBVIOUS
  <2>2. k \in others
    <3> HIDE DEF others
    <3> QED BY <1>2, <2>1, Least
  <2>3. LeadingFiles(s) = SubSeq(s, 1, k - 1)
    BY <1>2 DEF LeadingFiles
  <2>4. k \in 1..Len(s) /\ Len(s) \in Nat
    BY <2>2, LenProperties
  <2> HIDE DEF k, others
  <2>5. k - 1 \in 0..Len(s)
    BY <2>4
  <2>6. SubSeq(s, 1, k - 1) \in Seq(STRING)
    BY <2>4, <2>5, SubSeqProperties
  <2> QED BY <2>3, <2>6
<1> QED BY <1>1, <1>2

\* Every line comes to a finite number of volumes.
LEMMA LineFacts ==
    ASSUME NEW a \in Seq(STRING)
    PROVE  /\ Len(FuseLine(a).vds) \in Nat
           /\ Len(a) >= 1 => Len(ToolLine(a).vds) \in Nat
<1>1. Len(Refused.vds) \in Nat
  BY EmptySeq DEF Refused
<1>2. Len(FuseLine(a).vds) \in Nat
  <2>1. FuseLine(a) = Refused \/ Len(FuseLine(a).vds) \in 1..MaxVds
    BY DEF FuseLine, Accepted
  <2> QED BY <1>1, <2>1, LineAssumption
<1>3. ASSUME Len(a) >= 1 PROVE Len(ToolLine(a).vds) \in Nat
  <2> DEFINE r == Extract(Tail(a), TRUE)
             vds == IF a[1] = "--list" THEN LeadingFiles(r.filt) ELSE r.filt
  <2>1. Tail(a) \in Seq(STRING)
    <3>1. a # <<>>
      BY <1>3, EmptySeq
    <3> QED BY <3>1, HeadTailProperties
  <2>2. r.filt \in Seq(STRING)
    BY <2>1, ExtractType DEF Options
  <2>3. vds \in Seq(STRING)
    BY <2>2, LeadingFilesType
  <2>4. ToolLine(a) = Refused \/ ToolLine(a).vds = vds
    BY DEF ToolLine, Accepted
  <2> HIDE DEF vds
  <2> QED BY <1>1, <2>3, <2>4, LenProperties
<1> QED BY <1>2, <1>3

-----------------------------------------------------------------------------
\* The volume opened next follows the ones that are open.
LEMMA ThisIsNext ==
    ASSUME Len(line.vds) \in Nat, NEW k \in 0..Len(line.vds),
           \A v \in Vols : openCount[v] = IF v <= k THEN 1 ELSE 0
    PROVE  This = k + 1
<1>1. {v \in Vols : openCount[v] > 0} = 1..k
  BY DEF Vols
<1>2. Cardinality(1..k) = k
  BY FS_Interval
<1> QED BY <1>1, <1>2 DEF This

\* The resources of the two programs, with the types.
Resources == TypeOK /\ VolumesOK /\ HeldOK

\* Nothing is held at the start.
LEMMA ResourcesInit == Init => Resources
<1> SUFFICES ASSUME Init PROVE Resources
  OBVIOUS
<1>1. PICK c \in Cases : prog = c.prog /\ argv = c.argv /\ sets = c.sets
  BY DEF Init
<1>2. line = Refused /\ pc = "main" /\ held = {} /\ Len(line.vds) = 0
  BY EmptySeq DEF Init, Refused
<1>3. TypeOK
  BY <1>1, <1>2, MountAssumption DEF TypeOK, Before
<1>4. Vols = {}
  BY <1>2 DEF Vols
<1>5. VolumesOK /\ HeldOK
  BY <1>2, <1>4 DEF VolumesOK, HeldOK, Alive
<1> QED BY <1>3, <1>5 DEF Resources

\* Exit, where it closes what is open and releases what is held.
LEMMA ExitResources ==
    ASSUME Resources, NEW S, NEW R, Exit(S, R), held \subseteq R, pc # "exit",
           \A v \in Vols : openCount[v] = IF v \in S THEN 1 ELSE 0
    PROVE  Resources'
<1>1. /\ pc' = "exit" /\ held' = {} /\ UNCHANGED <<prog, argv, sets, line, openCount>>
      /\ closeCount' = [v \in Vols |-> closeCount[v] + (IF v \in S THEN 1 ELSE 0)]
  BY DEF Exit, input
<1>2. Vols' = Vols
  BY <1>1 DEF Vols
<1>3. \A v \in Vols : closeCount'[v] = openCount'[v]
  BY <1>1 DEF Resources, VolumesOK
<1>4. TypeOK' /\ HeldOK'
  BY <1>1 DEF Resources, TypeOK, HeldOK
<1>5. VolumesOK'
  BY <1>1, <1>2, <1>3 DEF Resources, VolumesOK, Alive
<1> QED BY <1>4, <1>5 DEF Resources

\* Steps that leave the volumes alone and stay among the states that work.
LEMMA AliveResources ==
    ASSUME Resources, pc \in Alive, pc' \in Alive,
           UNCHANGED <<prog, argv, sets, line, openCount, closeCount>>,
           pc' \in {"extents", "fuse", "serve"} => prog = "fuse", pc' = "work" => prog = "tool",
           HeldOK'
    PROVE  Resources'
<1>1. Vols' = Vols
  BY DEF Vols
<1>2. pc' \notin Before \cup {"exit"} /\ pc # "exit"
  BY DEF Alive, Before
<1>3. TypeOK' /\ VolumesOK'
  BY <1>1, <1>2 DEF Resources, TypeOK, VolumesOK, Before
<1> QED BY <1>3 DEF Resources

\* Every step of either program keeps the account of its resources.
LEMMA ResourcesNext == ASSUME Resources, [Next]_vars PROVE Resources'
<1>0. /\ Len(line.vds) \in Nat /\ prog \in {"fuse", "tool"}
      /\ pc \in {"extents", "fuse", "serve"} => prog = "fuse"
      /\ pc = "work" => prog = "tool"
  BY DEF Resources, TypeOK
<1>1. CASE Usage \/ ParseFails
  <2>1. pc = "main" /\ Exit({}, {})
    BY <1>1 DEF Usage, ParseFails
  <2>2. Vols = {} /\ held = {}
    BY <2>1, EmptySeq DEF Resources, VolumesOK, HeldOK, Vols, Refused
  <2> QED BY <2>1, <2>2, ExitResources
<1>2. CASE Parse
  <2>1. /\ pc = "main" /\ pc' = "args" /\ ~TooFew /\ UNCHANGED input
        /\ line' = (IF prog = "fuse" THEN FuseLine(argv) ELSE ToolLine(argv))
        /\ openCount' = [v \in 1..Len(line'.vds) |-> 0] /\ closeCount' = openCount'
        /\ held' = (IF prog = "fuse" THEN {"filt"} ELSE {})
    BY <1>2 DEF Parse
  <2>2. Len(argv) \in Nat /\ argv \in Seq(STRING)
    BY LenProperties DEF Resources, TypeOK
  <2>3. Len(line'.vds) \in Nat
    BY <1>0, <2>1, <2>2, LineFacts DEF TooFew
  <2>4. TypeOK'
    BY <2>1, <2>3 DEF Resources, TypeOK, input, Before
  <2>5. VolumesOK' /\ HeldOK'
    BY <2>1, <2>3 DEF VolumesOK, HeldOK, Vols, Alive, input
  <2> QED BY <2>4, <2>5 DEF Resources
<1>3. CASE BadLine \/ DisklabelFails
  <2>1. pc = "args" /\ Exit({}, {"filt"})
    BY <1>3 DEF BadLine, DisklabelFails
  <2>2. held \subseteq {"filt"} /\ \A v \in Vols : openCount[v] = 0
    BY <2>1 DEF Resources, VolumesOK, HeldOK, Alive
  <2> QED BY <2>1, <2>2, ExitResources
<1>4. CASE Start
  <2>1. /\ pc = "args" /\ pc' = "open"
        /\ UNCHANGED <<prog, argv, sets, line, openCount, closeCount, held>>
    BY <1>4 DEF Start, input
  <2>2. Vols' = Vols
    BY <2>1 DEF Vols
  <2>3. TypeOK' /\ HeldOK'
    BY <2>1 DEF Resources, TypeOK, HeldOK, Before, Alive
  <2>4. \E k \in 0..Len(line.vds) : \A v \in Vols : openCount[v] = IF v <= k THEN 1 ELSE 0
    <3>1. \A v \in Vols : openCount[v] = 0 /\ ~(v <= 0)
      BY <2>1, <1>0 DEF Resources, VolumesOK, Vols
    <3> QED BY <3>1, <1>0
  <2>5. VolumesOK'
    BY <2>1, <2>2, <2>4 DEF Resources, VolumesOK, Alive
  <2> QED BY <2>3, <2>5 DEF Resources
<1>5. ASSUME pc = "open"
      PROVE  /\ \E k \in 0..Len(line.vds) :
                   This = k + 1 /\ \A v \in Vols : openCount[v] = IF v <= k THEN 1 ELSE 0
             /\ held \subseteq {"filt"}
  BY <1>0, <1>5, ThisIsNext DEF Resources, VolumesOK, HeldOK, Alive
<1>6. CASE OpenVolume
  <2>1. /\ pc = "open" /\ pc' = "open" /\ This \in Vols
        /\ openCount' = [openCount EXCEPT ![This] = @ + 1]
        /\ UNCHANGED <<prog, argv, sets, line, closeCount, held>>
    BY <1>6 DEF OpenVolume, input
  <2>2. PICK k \in 0..Len(line.vds) :
          This = k + 1 /\ \A v \in Vols : openCount[v] = IF v <= k THEN 1 ELSE 0
    BY <1>5, <2>1
  <2>3. Vols' = Vols /\ k + 1 \in Vols /\ k + 1 \in 0..Len(line.vds) /\ DOMAIN openCount = Vols
    BY <2>1, <2>2, <1>0 DEF Vols, Resources, VolumesOK
  <2>4. DOMAIN openCount' = Vols
    BY <2>1, <2>3
  <2>5. \A v \in Vols : openCount'[v] = IF v <= k + 1 THEN 1 ELSE 0
    BY <2>1, <2>2, <2>3 DEF Vols
  <2>6. TypeOK' /\ HeldOK'
    BY <2>1 DEF Resources, TypeOK, HeldOK
  <2>7. VolumesOK'
    BY <2>1, <2>3, <2>4, <2>5 DEF Resources, VolumesOK, Alive
  <2> QED BY <2>6, <2>7 DEF Resources
<1>7. CASE OpenVolumeFails
  <2>1. pc = "open" /\ Exit(1..This - 1, {"filt"})
    BY <1>7 DEF OpenVolumeFails
  <2>2. PICK k \in 0..Len(line.vds) :
          This = k + 1 /\ \A v \in Vols : openCount[v] = IF v <= k THEN 1 ELSE 0
    BY <1>5, <2>1
  <2>3. \A v \in Vols : openCount[v] = IF v \in 1..This - 1 THEN 1 ELSE 0
    BY <2>2, <1>0 DEF Vols
  <2> QED BY <2>1, <2>3, <1>5, ExitResources
<1>8. ASSUME pc = "open", This \notin Vols
      PROVE  \A v \in Vols : openCount[v] = 1
  <2>1. PICK k \in 0..Len(line.vds) :
          This = k + 1 /\ \A v \in Vols : openCount[v] = IF v <= k THEN 1 ELSE 0
    BY <1>5, <1>8
  <2>2. k = Len(line.vds)
    BY <1>0, <1>8, <2>1 DEF Vols
  <2> QED BY <1>0, <2>1, <2>2 DEF Vols
<1>9. CASE DomainFails
  <2>1. pc = "open" /\ This \notin Vols /\ Exit(Vols, {"filt"})
    BY <1>9 DEF DomainFails
  <2> QED BY <2>1, <1>5, <1>8, ExitResources
<1>10. CASE DomainOpens
  <2>1. /\ pc = "open" /\ This \notin Vols /\ pc' = "list" /\ held' = held \cup {"domain"}
        /\ UNCHANGED <<prog, argv, sets, line, openCount, closeCount>>
    BY <1>10 DEF DomainOpens, input
  <2>2. Vols' = Vols /\ \A v \in Vols : openCount[v] = 1
    BY <1>8, <2>1 DEF Vols
  <2>3. TypeOK' /\ HeldOK'
    BY <2>1 DEF Resources, TypeOK, HeldOK, Alive
  <2>4. VolumesOK'
    BY <2>1, <2>2 DEF Resources, VolumesOK, Alive
  <2> QED BY <2>3, <2>4 DEF Resources
<1>11. ASSUME pc \in Alive PROVE pc # "exit" /\ \A v \in Vols : openCount[v] = 1
  BY <1>11 DEF Resources, VolumesOK, Alive
<1>12. CASE Capture \/ Collect \/ Skip \/ Pass \/ Visit
  <2>1. /\ pc \in Alive /\ pc' = pc
        /\ UNCHANGED <<prog, argv, sets, line, openCount, closeCount, held>>
    BY <1>12 DEF Capture, Collect, Skip, Listing, Pass, Visit, input, Alive
  <2>2. HeldOK'
    BY <2>1 DEF Resources, HeldOK
  <2> QED BY <1>0, <2>1, <2>2, AliveResources
<1>13. CASE ListFails \/ NoFileset \/ TagExtentsFail
  <2>1. pc \in {"list", "extents"} /\ Exit(Vols, {"domain", "filt"})
    BY <1>13 DEF ListFails, NoFileset, Enumerated, TagExtentsFail
  <2>2. pc \in Alive /\ held \subseteq {"domain", "filt"}
    BY <2>1 DEF Alive, Resources, HeldOK
  <2> QED BY <1>11, <2>1, <2>2, ExitResources
<1>14. CASE Listed
  <2>1. /\ pc = "list" /\ pc' = "extents" /\ prog = "fuse"
        /\ UNCHANGED <<prog, argv, sets, line, openCount, closeCount, held>>
    BY <1>14 DEF Listed, Enumerated, input
  <2>2. HeldOK' /\ pc \in Alive /\ pc' \in Alive
    BY <2>1 DEF Resources, HeldOK, Alive
  <2> QED BY <1>0, <2>1, <2>2, AliveResources
<1>15. CASE TagExtents
  <2>1. /\ pc = "extents" /\ pc' = "fuse" /\ prog = "fuse" /\ held' = held \cup {"cache"}
        /\ UNCHANGED <<prog, argv, sets, line, openCount, closeCount>>
    BY <1>0, <1>15 DEF TagExtents, input
  <2>2. HeldOK' /\ pc \in Alive /\ pc' \in Alive
    BY <2>1 DEF Resources, HeldOK, Alive
  <2> QED BY <2>1, <2>2, AliveResources
<1>16. CASE FuseMain
  <2>1. /\ pc = "fuse" /\ pc' = "serve" /\ prog = "fuse" /\ held' = held \cup {"fuse"}
        /\ UNCHANGED <<prog, argv, sets, line, openCount, closeCount>>
    BY <1>0, <1>16 DEF FuseMain, input
  <2>2. HeldOK' /\ pc \in Alive /\ pc' \in Alive
    BY <2>1 DEF Resources, HeldOK, Alive
  <2> QED BY <2>1, <2>2, AliveResources
<1>17. CASE ArgvFails \/ Teardown
  <2>1. \/ pc = "fuse" /\ Exit(Vols, {"cache", "domain", "filt"})
        \/ pc = "serve" /\ Exit(Vols, {"fuse", "filt", "cache", "domain"})
    BY <1>17 DEF ArgvFails, Teardown
  <2>2. /\ pc = "fuse" => held \subseteq {"cache", "domain", "filt"}
        /\ held \subseteq {"fuse", "filt", "cache", "domain"}
        /\ pc \in Alive
    BY <2>1 DEF Alive, Resources, HeldOK
  <2> QED BY <1>11, <2>1, <2>2, ExitResources
<1>18. CASE NothingToDo \/ ToolDone
  <2>1. pc \in {"list", "work"} /\ prog = "tool" /\ Exit(Vols, {"domain"})
    BY <1>0, <1>18 DEF NothingToDo, ToolDone, Enumerated
  <2>2. pc \in Alive /\ held \subseteq {"domain"}
    BY <2>1 DEF Alive, Resources, HeldOK
  <2> QED BY <1>11, <2>1, <2>2, ExitResources
<1>19. CASE Chosen
  <2>1. /\ pc = "list" /\ pc' = "work" /\ prog = "tool"
        /\ UNCHANGED <<prog, argv, sets, line, openCount, closeCount, held>>
    BY <1>19 DEF Chosen, Enumerated, input
  <2>2. HeldOK' /\ pc \in Alive /\ pc' \in Alive
    BY <2>1 DEF Resources, HeldOK, Alive
  <2> QED BY <1>0, <2>1, <2>2, AliveResources
<1>20. CASE VisitFails
  <2>1. pc = "work" /\ pc \in Alive /\ prog = "tool" /\ held = {"domain"}
        /\ UNCHANGED <<prog, argv, sets, line, openCount>>
    BY <1>0, <1>20 DEF VisitFails, Alive, input, Resources, HeldOK
  <2>2. CASE Looping
    <3>1. UNCHANGED <<pc, closeCount, held>>
      BY <1>20, <2>2 DEF VisitFails
    <3>2. HeldOK'
      BY <2>1, <3>1 DEF Resources, HeldOK
    <3> QED BY <2>1, <3>1, <3>2, AliveResources
  <2>3. CASE ~Looping
    <3>1. /\ pc' = "exit" /\ held' = {}
          /\ closeCount' = [v \in Vols |-> closeCount[v] + 1]
      BY <1>20, <2>1, <2>3 DEF VisitFails
    <3>2. Vols' = Vols /\ \A v \in Vols : closeCount'[v] = openCount'[v]
      BY <1>11, <2>1, <3>1 DEF Vols, Resources, VolumesOK
    <3>3. TypeOK' /\ HeldOK'
      BY <2>1, <3>1 DEF Resources, TypeOK, HeldOK
    <3>4. VolumesOK'
      BY <2>1, <3>1, <3>2 DEF Resources, VolumesOK, Alive
    <3> QED BY <3>3, <3>4 DEF Resources
  <2> QED BY <2>2, <2>3
<1>21. CASE UNCHANGED vars
  BY <1>21 DEF vars, input, Resources, TypeOK, VolumesOK, HeldOK, Vols
<1> QED
  BY <1>1, <1>2, <1>3, <1>4, <1>6, <1>7, <1>9, <1>10, <1>12, <1>13, <1>14, <1>15, <1>16, <1>17,
     <1>18, <1>19, <1>20, <1>21
     DEF Next, Exited

-----------------------------------------------------------------------------
\* The choice of a fileset.
Choices == FreshOK /\ FirstOK /\ ListOK /\ WorkOK

\* No fileset has been seen at the start.
LEMMA ChoicesInit == Init => Choices
<1> SUFFICES ASSUME Init PROVE Choices
  OBVIOUS
<1>1. PICK c \in Cases : sets = c.sets
  BY DEF Init
<1>2. Len(sets) \in Nat
  BY <1>1, MountAssumption, LenProperties
<1>3. /\ seen = {} /\ list = <<>> /\ todo = <<>> /\ visited = {} /\ failed = {} /\ ~found
      /\ found \in BOOLEAN /\ pick = 0 /\ next = 1 /\ pc = "main"
  BY DEF Init
<1>4. /\ <<>> \in Seq(Nat) /\ Len(<<>>) = 0 /\ Cardinality({}) = 0
      /\ MaxFilesets \in Nat /\ MaxFilesets > 0
  BY EmptySeq, FS_EmptySet, MountAssumption
<1>5. Ranks(<<>>) = {}
  BY <1>4 DEF Ranks
<1>6. FreshOK
  BY <1>2, <1>3 DEF FreshOK
<1>7. FirstOK
  <2>1. ~Remembered /\ \A p \in seen : FALSE
    BY <1>3 DEF Remembered
  <2> QED BY <1>3, <2>1 DEF FirstOK
<1>8. ListOK
  BY <1>3, <1>4, <1>5 DEF ListOK, Known
<1>9. WorkOK
  BY <1>3, <1>4, <1>5 DEF WorkOK
<1> QED BY <1>6, <1>7, <1>8, <1>9 DEF Choices

\* Steps that leave the enumeration and its result alone.
LEMMA SameChoices ==
    ASSUME UNCHANGED <<input, line, choice>>
    PROVE  /\ FirstOK' = FirstOK /\ ListOK' = ListOK /\ Known' = Known
           /\ Looping' = Looping /\ \A p : Takes(p)' = Takes(p) /\ Wanted(p)' = Wanted(p)
<1>1. UNCHANGED <<prog, argv, sets, line, next, seen, pick, found, list>>
  BY DEF input, choice
<1>2. FirstOK' = FirstOK
  BY <1>1 DEF FirstOK, First, NamedSet, Original, Remembered, target
<1>3. Known' = Known
  BY <1>1 DEF Known
<1>4. ListOK' = ListOK
  BY <1>1, <1>3 DEF ListOK, Ranks
<1>5. ASSUME NEW p PROVE Takes(p)' = Takes(p) /\ Wanted(p)' = Wanted(p)
  BY <1>1, <1>3 DEF Takes, Wanted, First, NamedSet, Original, AnySet, target
<1>6. Looping' = Looping
  BY <1>1 DEF Looping
<1> QED BY <1>2, <1>3, <1>4, <1>5, <1>6

\* Steps outside the enumeration and the tool's work.
LEMMA IdleChoices ==
    ASSUME Choices, UNCHANGED <<input, line, choice, work>>,
           pc' \in Before => pc \in Before,
           pc' \in {"extents", "fuse", "serve"} => pc \in {"extents", "fuse", "serve"} \/ Remembered,
           pc' \notin {"work", "exit"} => pc \notin {"work", "exit"},
           pc' = "work" => pc = "work",
           pc' = "exit" => pc # "work" \/ todo = <<>>
    PROVE  Choices'
<1>1. UNCHANGED <<prog, argv, sets, line, next, seen, pick, found, list, todo, visited, failed>>
  BY DEF input, choice, work
<1>2. FirstOK' /\ ListOK'
  BY SameChoices DEF Choices
<1>3. FreshOK'
  BY <1>1 DEF Choices, FreshOK, Remembered
<1>4. Ranks(todo)' = Ranks(todo) /\ Ranks(<<>>) = {}
  BY <1>1, EmptySeq DEF Ranks
<1>5. /\ Known' = Known /\ Looping' = Looping
      /\ \A p : Takes(p)' = Takes(p) /\ Wanted(p)' = Wanted(p)
  BY SameChoices
<1>6. WorkOK'
  <2>1. /\ todo' \in Seq(Nat)
        /\ pc' \notin {"work", "exit"} => visited' = {} /\ failed' = {} /\ todo' = <<>>
        /\ line'.cmd \in {"list", "count"} =>
             \A p \in visited' \cup failed' \cup Ranks(todo)' : Takes(p)'
    BY <1>1, <1>4, <1>5 DEF Choices, WorkOK
  <2>2. Looping' /\ pc' = "work" =>
          visited' \cup failed' \cup {p \in Ranks(todo)' : Wanted(p)'} = {p \in Known' : Wanted(p)'}
    BY <1>1, <1>4, <1>5 DEF Choices, WorkOK
  <2>3. Looping' /\ pc' = "exit" =>
          visited' \cup failed' = {} \/ visited' \cup failed' = {p \in Known' : Wanted(p)'}
    <3> SUFFICES ASSUME Looping, pc' = "exit"
                 PROVE  visited \cup failed = {} \/ visited \cup failed = {p \in Known : Wanted(p)}
      BY <1>1, <1>5
    <3>1. CASE pc = "work"
      <4>1. todo = <<>>
        BY <3>1
      <4>2. visited \cup failed \cup {p \in Ranks(todo) : Wanted(p)} = {p \in Known : Wanted(p)}
        BY <3>1 DEF Choices, WorkOK
      <4> QED BY <1>4, <4>1, <4>2
    <3>2. CASE pc # "work"
      BY <3>2 DEF Choices, WorkOK
    <3> QED BY <3>1, <3>2
  <2> QED BY <2>1, <2>2, <2>3 DEF WorkOK
<1> QED BY <1>2, <1>3, <1>6 DEF Choices

\* One more fileset is known, if there is room for it.
LEMMA KnownGrows ==
    ASSUME FreshOK, seen' = seen \cup {next}, next \in Nat
    PROVE  /\ IsFiniteSet(seen) /\ Cardinality(seen) \in Nat
           /\ Cardinality(seen') = Cardinality(seen) + 1
           /\ Known' = Known \cup (IF Cardinality(seen) < MaxFilesets THEN {next} ELSE {})
<1>1. seen \subseteq 1..next - 1 /\ next \notin seen
  BY DEF FreshOK
<1>2. IsFiniteSet(1..next - 1)
  BY FS_Interval
<1>3. IsFiniteSet(seen)
  BY <1>1, <1>2, FS_Subset
<1>4. Cardinality(seen) \in Nat
  BY <1>3, FS_CardinalityType
<1>5. Cardinality(seen') = Cardinality(seen) + 1
  BY <1>1, <1>3, FS_AddElement
<1>6. \A p \in seen : {i \in seen' : i <= p} = {i \in seen : i <= p}
  BY <1>1
<1>7. {i \in seen' : i <= next} = seen'
  <2>1. \A i \in seen' : i <= next
    BY <1>1
  <2> QED BY <2>1
<1>8. Known' = Known \cup (IF Cardinality(seen') <= MaxFilesets THEN {next} ELSE {})
  BY <1>6, <1>7 DEF Known
<1>9. Cardinality(seen') <= MaxFilesets <=> Cardinality(seen) < MaxFilesets
  BY <1>4, <1>5, MountAssumption
<1> QED BY <1>3, <1>4, <1>5, <1>8, <1>9

\* The work has not begun while filesets are enumerated.
LEMMA ListingWork ==
    ASSUME Choices, pc = "list", pc' = "list", UNCHANGED <<line, todo, visited, failed>>
    PROVE  WorkOK'
<1>1. visited = {} /\ failed = {} /\ todo = <<>>
  BY DEF Choices, WorkOK
<1>2. <<>> \in Seq(Nat) /\ Ranks(<<>>) = {}
  BY EmptySeq DEF Ranks
<1> QED BY <1>1, <1>2 DEF WorkOK

\* capture_first_fileset keeps what first stands for.
LEMMA CaptureChoices == ASSUME TypeOK, Choices, Capture PROVE Choices'
<1> DEFINE e == sets[next]
<1>1. /\ pc = "list" /\ next <= Len(sets) /\ ~found /\ prog = "fuse"
      /\ next' = next + 1 /\ seen' = seen \cup {next}
      /\ UNCHANGED <<pc, prog, argv, sets, line, list, todo, visited, failed>>
  BY DEF Capture, Listing, input, work
<1>2. /\ seen \subseteq 1..next - 1 /\ next \in 1..Len(sets) + 1 /\ pick \in Nat
      /\ Len(sets) \in Nat /\ next \in Nat /\ next \notin seen /\ next # 0
      /\ \A p \in seen : p \in Nat /\ p < next
  BY <1>1, LenProperties DEF Choices, FreshOK, TypeOK
<1>3. /\ \A p : NamedSet(p)' = NamedSet(p) /\ Original(p)' = Original(p)
      /\ target' = target
  BY <1>1 DEF NamedSet, Original, target
<1>4. seen' \subseteq 1..next' - 1 /\ next' \in 1..Len(sets) + 1
  BY <1>1, <1>2
<1>5. CASE target # {} /\ e.name \in target
  <2>1. pick' = next /\ found' = TRUE
    BY <1>5 DEF Capture
  <2>2. \A p \in seen : ~NamedSet(p)
    BY <1>1, <1>5 DEF Choices, FirstOK
  <2>3. First(seen', next, NamedSet)
    BY <1>1, <1>2, <1>5, <2>2 DEF First, NamedSet
  <2>4. FirstOK'
    BY <1>1, <1>3, <1>5, <2>1, <2>3 DEF FirstOK, First, NamedSet
  <2>5. pick' \in Nat /\ found' \in BOOLEAN
    BY <1>2, <2>1
  <2> QED BY <2>4, <2>5, <1>1, <1>4, ListingWork DEF Choices, FreshOK, ListOK, Before
<1>6. CASE target # {} /\ e.name \notin target
  <2>1. UNCHANGED <<pick, found>>
    BY <1>6 DEF Capture
  <2>2. \A p \in seen' : ~NamedSet(p)
    BY <1>1, <1>6 DEF Choices, FirstOK, NamedSet
  <2>3. FirstOK'
    <3>1. pick = 0 /\ ~found'
      BY <1>1, <1>6, <2>1 DEF Choices, FirstOK
    <3> QED BY <1>1, <1>3, <1>6, <2>1, <2>2, <3>1 DEF FirstOK
  <2>4. pick' \in Nat /\ found' \in BOOLEAN
    BY <2>1 DEF Choices, FreshOK
  <2> QED BY <2>3, <2>4, <1>1, <1>4, ListingWork DEF Choices, FreshOK, ListOK, Before
<1>7. CASE target = {} /\ e.clone
  <2>1. pick' = (IF Remembered THEN pick ELSE next) /\ found' = found
    BY <1>7 DEF Capture
  <2>2. /\ \A p \in seen : ~Original(p)
        /\ IF Remembered
           THEN pick \in seen /\ \A p \in seen : p < pick => sets[p].name = ""
           ELSE \A p \in seen : sets[p].name = ""
    BY <1>1, <1>7 DEF Choices, FirstOK
  <2>3. \A p \in seen' : ~Original(p)
    BY <1>1, <1>7, <2>2 DEF Original
  <2>4. IF Remembered'
        THEN pick' \in seen' /\ \A p \in seen' : p < pick' => sets[p].name = ""
        ELSE \A p \in seen' : sets[p].name = ""
    <3>1. CASE Remembered
      <4>1. Remembered' /\ pick' = pick
        BY <1>1, <2>1, <3>1 DEF Remembered
      <4>2. \A p \in seen' : p < pick => sets[p].name = ""
        <5>1. pick \in Nat /\ pick < next
          BY <1>2, <2>2, <3>1
        <5>2. ~(next < pick)
          BY <1>2, <5>1
        <5> QED BY <1>1, <2>2, <3>1, <5>2
      <4> QED BY <1>1, <2>2, <3>1, <4>1, <4>2
    <3>2. CASE ~Remembered
      <4>1. pick' = next /\ (Remembered' <=> sets[next].name # "")
        BY <1>1, <1>2, <2>1, <3>2 DEF Remembered
      <4>2. \A p \in seen' : p < next => sets[p].name = ""
        <5>1. ~(next < next)
          BY <1>2
        <5> QED BY <1>1, <2>2, <3>2, <5>1
      <4> QED BY <1>1, <2>2, <3>2, <4>1, <4>2
    <3> QED BY <3>1, <3>2
  <2>5. FirstOK'
    BY <1>1, <1>3, <1>7, <2>1, <2>3, <2>4 DEF FirstOK
  <2>6. pick' \in Nat /\ found' \in BOOLEAN
    BY <1>2, <2>1 DEF Choices, FreshOK
  <2> QED BY <2>5, <2>6, <1>1, <1>4, ListingWork DEF Choices, FreshOK, ListOK, Before
<1>8. CASE target = {} /\ ~e.clone
  <2>1. pick' = next /\ found' = TRUE
    BY <1>8 DEF Capture
  <2>2. \A p \in seen : ~Original(p)
    BY <1>1, <1>8 DEF Choices, FirstOK
  <2>3. First(seen', next, Original)
    BY <1>1, <1>2, <1>8, <2>2 DEF First, Original
  <2>4. FirstOK'
    BY <1>1, <1>3, <1>8, <2>1, <2>3 DEF FirstOK, First, Original
  <2>5. pick' \in Nat /\ found' \in BOOLEAN
    BY <1>2, <2>1
  <2> QED BY <2>4, <2>5, <1>1, <1>4, ListingWork DEF Choices, FreshOK, ListOK, Before
<1> QED BY <1>5, <1>6, <1>7, <1>8

\* collect_fileset_cb appends to the array while it has room.
LEMMA CollectChoices == ASSUME TypeOK, Choices, Collect PROVE Choices'
<1>1. /\ pc = "list" /\ next <= Len(sets) /\ prog = "tool"
      /\ next' = next + 1 /\ seen' = seen \cup {next}
      /\ list' = (IF Len(list) < MaxFilesets THEN Append(list, next) ELSE list)
      /\ UNCHANGED <<pc, prog, argv, sets, line, pick, found, todo, visited, failed>>
  BY DEF Collect, Listing, input, work
<1>2. /\ seen \subseteq 1..next - 1 /\ next \in 1..Len(sets) + 1
      /\ Len(sets) \in Nat /\ next \in Nat
  BY LenProperties DEF Choices, FreshOK, TypeOK
<1>3. /\ list \in Seq(Nat) /\ Ranks(list) = Known /\ Len(list) \in Nat
      /\ \A i, j \in 1..Len(list) : i < j => list[i] < list[j]
      /\ IF Len(list) < MaxFilesets THEN Cardinality(seen) = Len(list)
         ELSE Cardinality(seen) >= MaxFilesets
  BY <1>1, LenProperties DEF Choices, ListOK
<1>4. /\ Cardinality(seen) \in Nat /\ Cardinality(seen') = Cardinality(seen) + 1
      /\ Known' = Known \cup (IF Cardinality(seen) < MaxFilesets THEN {next} ELSE {})
  BY <1>1, <1>2, KnownGrows DEF Choices
<1>5. MaxFilesets \in Nat
  BY MountAssumption
<1>6. ListOK'
  <2>1. CASE Len(list) < MaxFilesets
    <3>1. /\ list' \in Seq(Nat) /\ Len(list') = Len(list) + 1 /\ list'[Len(list) + 1] = next
          /\ \A i \in 1..Len(list) : list'[i] = list[i]
      BY <1>1, <1>2, <1>3, <2>1, AppendProperties
    <3>2. Ranks(list') = Ranks(list) \cup {next}
      <4>1. 1..Len(list') = 1..Len(list) \cup {Len(list) + 1}
        BY <1>3, <3>1
      <4> QED BY <3>1, <4>1 DEF Ranks
    <3>3. Known' = Known \cup {next}
      BY <1>3, <1>4, <2>1
    <3>4. \A i \in 1..Len(list) : list[i] \in seen
      BY <1>3 DEF Ranks, Known
    <3>5. \A i \in 1..Len(list) : list[i] \in Nat /\ list[i] < next
      <4>1. \A p \in seen : p \in Nat /\ p < next
        BY <1>2
      <4> QED BY <3>4, <4>1
    <3>6. \A i, j \in 1..Len(list') : i < j => list'[i] < list'[j]
      <4> SUFFICES ASSUME NEW i \in 1..Len(list'), NEW j \in 1..Len(list'), i < j
                   PROVE  list'[i] < list'[j]
        OBVIOUS
      <4>1. i \in 1..Len(list)
        BY <1>3, <3>1
      <4>2. CASE j \in 1..Len(list)
        BY <1>3, <3>1, <4>1, <4>2
      <4>3. CASE j = Len(list) + 1
        BY <3>1, <3>5, <4>1, <4>3
      <4> QED BY <1>3, <3>1, <4>2, <4>3
    <3>7. IF Len(list') < MaxFilesets THEN Cardinality(seen') = Len(list')
          ELSE Cardinality(seen') >= MaxFilesets
      BY <1>3, <1>4, <1>5, <2>1, <3>1
    <3> QED BY <1>3, <3>1, <3>2, <3>3, <3>6, <3>7 DEF ListOK, Ranks
  <2>2. CASE ~(Len(list) < MaxFilesets)
    <3>1. list' = list /\ Known' = Known /\ Cardinality(seen') >= MaxFilesets
      BY <1>1, <1>3, <1>4, <1>5, <2>2
    <3> QED BY <1>3, <2>2, <3>1 DEF ListOK, Ranks
  <2> QED BY <2>1, <2>2
<1>7. FreshOK'
  <2>1. seen' \subseteq 1..next' - 1 /\ next' \in 1..Len(sets) + 1
    BY <1>1, <1>2
  <2> QED BY <1>1, <2>1 DEF Choices, FreshOK, Before
<1>8. FirstOK'
  BY <1>1 DEF Choices, FirstOK
<1> QED BY <1>1, <1>6, <1>7, <1>8, ListingWork DEF Choices

\* A fileset that cannot be read is never known.
LEMMA SkipChoices == ASSUME TypeOK, Choices, Skip PROVE Choices'
<1>1. /\ pc = "list" /\ next <= Len(sets) /\ next' = next + 1
      /\ UNCHANGED <<pc, prog, argv, sets, line, seen, pick, found, list, todo, visited, failed>>
  BY DEF Skip, Listing, input, work
<1>2. Len(sets) \in Nat
  BY LenProperties DEF TypeOK
<1>3. FreshOK'
  <2>1. seen' \subseteq 1..next' - 1 /\ next' \in 1..Len(sets) + 1
    BY <1>1, <1>2 DEF Choices, FreshOK
  <2> QED BY <1>1, <2>1 DEF Choices, FreshOK, Before
<1>4. FirstOK'
  BY <1>1 DEF Choices, FirstOK, First, NamedSet, Original, Remembered, target
<1>5. ListOK'
  BY <1>1 DEF Choices, ListOK, Known, Ranks
<1> QED BY <1>1, <1>3, <1>4, <1>5, ListingWork DEF Choices

\* The fileset that --list takes is the first one of its kind in the array.
LEMMA LeastTaken ==
    ASSUME TypeOK, Choices, prog = "tool", line.cmd # "info", ~Nothing
    PROVE  LET k == CHOOSE i \in Candidates : \A j \in Candidates : i <= j
           IN  list[k] \in Nat /\ Takes(list[k])
<1> DEFINE k == CHOOSE i \in Candidates : \A j \in Candidates : i <= j
           all == 1..Len(list)
<1> SUFFICES list[k] \in Nat /\ Takes(list[k])
  OBVIOUS
<1>1. /\ list \in Seq(Nat) /\ Ranks(list) = Known /\ Len(list) \in Nat
      /\ \A i, j \in 1..Len(list) : i < j => list[i] < list[j]
  BY LenProperties DEF Choices, ListOK
<1>2. Candidates # {} /\ Candidates \subseteq all /\ all \subseteq Nat
  <2>1. list # <<>> /\ (target # {} => Candidates # {})
    BY DEF Nothing
  <2>2. 1 \in all
    BY <1>1, <2>1, EmptySeq
  <2> QED BY <2>1, <2>2 DEF Candidates
<1>3. k \in Candidates /\ \A j \in Candidates : k <= j
  BY <1>2, Least
<1> HIDE DEF k
<1>4. k \in all /\ list[k] \in Known /\ list[k] \in Nat
  BY <1>1, <1>2, <1>3 DEF Ranks
<1>5. ASSUME NEW p \in Known, p < list[k]
      PROVE  \E j \in all : p = list[j] /\ j \notin Candidates
  <2>1. PICK j \in all : p = list[j]
    BY <1>1 DEF Ranks
  <2>2. j < k
    <3>1. list[j] \in Nat /\ list[k] \in Nat
      BY <1>1, <1>4
    <3>2. ~(k < j) /\ k # j
      BY <1>1, <1>4, <1>5, <2>1, <3>1
    <3> QED BY <1>1, <1>4, <3>2
  <2>3. j \notin Candidates
    BY <1>2, <1>3, <1>4, <2>2
  <2> QED BY <2>1, <2>3
<1>6. CASE target # {}
  <2>1. Candidates = {i \in all : NamedSet(list[i])}
    BY <1>6 DEF Candidates
  <2>2. First(Known, list[k], NamedSet)
    BY <1>3, <1>4, <1>5, <2>1 DEF First
  <2> QED BY <1>4, <1>6, <2>2 DEF Takes
<1>7. CASE target = {} /\ \E i \in all : Original(list[i])
  <2>1. Candidates = {i \in all : Original(list[i])}
    BY <1>7 DEF Candidates
  <2>2. First(Known, list[k], Original)
    BY <1>3, <1>4, <1>5, <2>1 DEF First
  <2> QED BY <1>4, <1>7, <2>2 DEF Takes
<1>8. CASE target = {} /\ ~\E i \in all : Original(list[i])
  <2>1. Candidates = all
    BY <1>8 DEF Candidates
  <2>2. First(Known, list[k], AnySet)
    BY <1>3, <1>4, <1>5, <2>1 DEF First, AnySet
  <2>3. ~\E i \in Known : Original(i)
    BY <1>1, <1>8 DEF Ranks
  <2> QED BY <1>4, <1>8, <2>2, <2>3 DEF Takes
<1> QED BY <1>6, <1>7, <1>8

\* The command has its filesets.
LEMMA ChosenChoices == ASSUME TypeOK, Choices, Chosen PROVE Choices'
<1> DEFINE k == CHOOSE i \in Candidates : \A j \in Candidates : i <= j
<1>1. /\ pc = "list" /\ prog = "tool" /\ ~Nothing /\ pc' = "work"
      /\ todo' = (IF Looping THEN list ELSE <<list[k]>>)
      /\ UNCHANGED <<input, line, choice>> /\ UNCHANGED <<visited, failed>>
  BY DEF Chosen, Enumerated
<1> HIDE DEF k
<1>2. visited = {} /\ failed = {}
  BY <1>1 DEF Choices, WorkOK
<1>3. list \in Seq(Nat) /\ Ranks(list) = Known
  BY <1>1 DEF Choices, ListOK
<1>4. ~Looping => list[k] \in Nat /\ Takes(list[k])
  BY <1>1, LeastTaken DEF Looping, k
<1>5. todo' \in Seq(Nat) /\ (Looping => Ranks(todo') = Known) /\ (~Looping => Ranks(todo') = {list[k]})
  <2>1. CASE Looping
    BY <1>1, <1>3, <2>1
  <2>2. CASE ~Looping
    <3>1. todo' = <<list[k]>> /\ list[k] \in Nat
      BY <1>1, <1>4, <2>2
    <3>2. Len(<<list[k]>>) = 1 /\ <<list[k]>>[1] = list[k] /\ <<list[k]>> \in Seq(Nat)
      BY <3>1
    <3>3. Ranks(<<list[k]>>) = {list[k]}
      BY <3>2 DEF Ranks
    <3> QED BY <2>2, <3>1, <3>2, <3>3
  <2> QED BY <2>1, <2>2
<1>6. /\ Known' = Known /\ Looping' = Looping
      /\ \A p : Takes(p)' = Takes(p) /\ Wanted(p)' = Wanted(p)
      /\ FirstOK' /\ ListOK'
  BY <1>1, SameChoices DEF Choices
<1>7. FreshOK'
  BY <1>1 DEF Choices, FreshOK, Before, choice, input
<1>8. WorkOK'
  <2>1. line'.cmd \in {"list", "count"} =>
          \A p \in visited' \cup failed' \cup Ranks(todo') : Takes(p)'
    BY <1>1, <1>2, <1>4, <1>5, <1>6 DEF Looping
  <2>2. Looping' => visited' \cup failed' \cup {p \in Ranks(todo') : Wanted(p)'}
                      = {p \in Known' : Wanted(p)'}
    BY <1>1, <1>2, <1>5, <1>6
  <2> QED BY <1>1, <1>5, <2>1, <2>2 DEF WorkOK, Ranks
<1> QED BY <1>6, <1>7, <1>8 DEF Choices

\* The head of what is left, and the rest.
LEMMA TodoFacts ==
    ASSUME todo \in Seq(Nat), todo # <<>>
    PROVE  Tail(todo) \in Seq(Nat) /\ Ranks(todo) = {Head(todo)} \cup Ranks(Tail(todo))
<1>1. /\ Len(todo) \in Nat /\ Len(todo) >= 1 /\ Tail(todo) \in Seq(Nat)
      /\ Len(Tail(todo)) = Len(todo) - 1 /\ Head(todo) = todo[1]
      /\ \A i \in 1..Len(Tail(todo)) : Tail(todo)[i] = todo[i + 1]
  BY HeadTailProperties, LenProperties, EmptySeq
<1>2. ASSUME NEW x \in Ranks(todo) PROVE x \in {Head(todo)} \cup Ranks(Tail(todo))
  <2>1. PICK i \in 1..Len(todo) : x = todo[i]
    BY DEF Ranks
  <2>2. CASE i = 1
    BY <1>1, <2>1, <2>2
  <2>3. CASE i # 1
    <3>1. i - 1 \in 1..Len(Tail(todo)) /\ (i - 1) + 1 = i
      BY <1>1, <2>1, <2>3
    <3>2. x = Tail(todo)[i - 1]
      BY <1>1, <2>1, <3>1
    <3> QED BY <3>1, <3>2 DEF Ranks
  <2> QED BY <2>2, <2>3
<1>3. ASSUME NEW x \in {Head(todo)} \cup Ranks(Tail(todo)) PROVE x \in Ranks(todo)
  <2>1. CASE x = Head(todo)
    BY <1>1, <2>1 DEF Ranks
  <2>2. CASE x \in Ranks(Tail(todo))
    <3>1. PICK i \in 1..Len(Tail(todo)) : x = Tail(todo)[i]
      BY <2>2 DEF Ranks
    <3>2. i + 1 \in 1..Len(todo) /\ x = todo[i + 1]
      BY <1>1, <3>1
    <3> QED BY <3>2 DEF Ranks
  <2> QED BY <2>1, <2>2
<1> QED BY <1>1, <1>2, <1>3

\* One turn of the tool's work.
LEMMA WorkChoices == ASSUME Choices, Pass \/ Visit \/ VisitFails PROVE Choices'
<1> DEFINE p0 == Head(todo)
<1>1. /\ pc = "work" /\ todo # <<>> /\ todo' = Tail(todo) /\ pc' \in {"work", "exit"}
      /\ UNCHANGED <<input, line, choice>>
      /\ \/ Looping /\ ~Wanted(p0) /\ visited' \cup failed' = visited \cup failed
         \/ (Looping => Wanted(p0)) /\ visited' \cup failed' = visited \cup failed \cup {p0}
      /\ Looping => pc' = "work"
  BY DEF Pass, Visit, VisitFails
<1>2. todo' \in Seq(Nat) /\ Ranks(todo) = {p0} \cup Ranks(todo')
  BY <1>1, TodoFacts DEF Choices, WorkOK
<1>3. /\ Known' = Known /\ Looping' = Looping
      /\ \A p : Takes(p)' = Takes(p) /\ Wanted(p)' = Wanted(p)
      /\ FirstOK' /\ ListOK'
  BY <1>1, SameChoices DEF Choices
<1>4. FreshOK'
  BY <1>1 DEF Choices, FreshOK, Before, choice, input
<1>5. WorkOK'
  <2>1. line'.cmd \in {"list", "count"} =>
          \A p \in visited' \cup failed' \cup Ranks(todo') : Takes(p)'
    BY <1>1, <1>2, <1>3 DEF Choices, WorkOK
  <2>2. Looping' => visited' \cup failed' \cup {p \in Ranks(todo') : Wanted(p)'}
                      = {p \in Known' : Wanted(p)'}
    <3> SUFFICES ASSUME Looping
                 PROVE  visited' \cup failed' \cup {p \in Ranks(todo') : Wanted(p)}
                          = {p \in Known : Wanted(p)}
      BY <1>3
    <3>1. visited \cup failed \cup {p \in {p0} \cup Ranks(todo') : Wanted(p)} = {p \in Known : Wanted(p)}
      BY <1>1, <1>2 DEF Choices, WorkOK
    <3> QED BY <1>1, <3>1
  <2> QED BY <1>1, <1>2, <1>3, <2>1, <2>2 DEF WorkOK, Ranks
<1> QED BY <1>3, <1>4, <1>5 DEF Choices

\* Every step keeps the account of the choice.
LEMMA ChoicesNext == ASSUME TypeOK, Choices, VolumesOK, [Next]_vars PROVE Choices'
<1>1. CASE Parse
  <2>1. /\ pc = "main" /\ pc' = "args" /\ UNCHANGED <<input, choice, work>>
    BY <1>1 DEF Parse
  <2>2. /\ next = 1 /\ pick = 0 /\ ~found /\ found \in BOOLEAN /\ list = <<>> /\ seen \subseteq 1..next - 1
        /\ visited = {} /\ failed = {} /\ todo = <<>>
    BY <2>1 DEF Choices, FreshOK, WorkOK, Before
  <2>3. seen = {}
    BY <2>2
  <2>4. Len(sets) \in Nat
    BY LenProperties DEF TypeOK
  <2>5. /\ seen' = {} /\ list' = <<>> /\ todo' = <<>> /\ visited' = {} /\ failed' = {}
        /\ ~found' /\ pick' = 0 /\ next' = 1 /\ Len(sets') \in Nat /\ found' \in BOOLEAN
    BY <2>1, <2>2, <2>3, <2>4 DEF input, choice, work
  <2>6. /\ <<>> \in Seq(Nat) /\ Len(<<>>) = 0 /\ Cardinality({}) = 0
        /\ MaxFilesets \in Nat /\ MaxFilesets > 0
    BY EmptySeq, FS_EmptySet, MountAssumption
  <2>7. Ranks(<<>>) = {} /\ Ranks(list') = {} /\ Ranks(todo') = {}
    BY <2>5, <2>6 DEF Ranks
  <2>8. FreshOK'
    BY <2>1, <2>5 DEF FreshOK, Before
  <2>9. FirstOK'
    <3>1. ~Remembered' /\ \A p \in seen' : FALSE
      BY <2>5 DEF Remembered
    <3> QED BY <2>5, <3>1 DEF FirstOK
  <2>10. ListOK'
    BY <2>5, <2>6, <2>7 DEF ListOK, Known, Ranks
  <2>11. WorkOK'
    BY <2>1, <2>5, <2>6, <2>7 DEF WorkOK, Ranks
  <2> QED BY <2>8, <2>9, <2>10, <2>11 DEF Choices
<1>2. CASE Capture
  BY <1>2, CaptureChoices
<1>3. CASE Collect
  BY <1>3, CollectChoices
<1>4. CASE Skip
  BY <1>4, SkipChoices
<1>5. CASE Chosen
  BY <1>5, ChosenChoices
<1>6. CASE Pass \/ Visit \/ VisitFails
  BY <1>6, WorkChoices
<1>7. ASSUME NEW S, NEW R, Exit(S, R), pc # "work" \/ todo = <<>> PROVE Choices'
  BY <1>7, IdleChoices DEF Exit, Before
<1>8. CASE \/ Usage \/ ParseFails \/ BadLine \/ DisklabelFails \/ OpenVolumeFails \/ DomainFails
           \/ ListFails \/ NoFileset \/ TagExtentsFail \/ ArgvFails \/ Teardown
           \/ NothingToDo \/ ToolDone
  <2>1. \E S, R : Exit(S, R)
    BY <1>8 DEF Usage, ParseFails, BadLine, DisklabelFails, OpenVolumeFails, DomainFails, ListFails,
               NoFileset, TagExtentsFail, ArgvFails, Teardown, NothingToDo, ToolDone
  <2>2. pc # "work" \/ todo = <<>>
    BY <1>8 DEF Usage, ParseFails, BadLine, DisklabelFails, OpenVolumeFails, DomainFails, ListFails,
               NoFileset, TagExtentsFail, ArgvFails, Teardown, NothingToDo, ToolDone, Enumerated
  <2> QED BY <2>1, <2>2, <1>7
<1>9. CASE Start \/ OpenVolume \/ DomainOpens
  BY <1>9, IdleChoices DEF Start, OpenVolume, DomainOpens, Before
<1>10. CASE Listed \/ TagExtents \/ FuseMain
  <2>1. /\ UNCHANGED <<input, line, choice, work>>
        /\ \/ pc = "list" /\ pc' = "extents" /\ Remembered
           \/ pc = "extents" /\ pc' = "fuse"
           \/ pc = "fuse" /\ pc' = "serve"
    BY <1>10 DEF Listed, Enumerated, TagExtents, FuseMain
  <2> QED BY <2>1, IdleChoices DEF Before
<1>11. CASE UNCHANGED vars
  <2>1. UNCHANGED <<input, line, choice, work>> /\ pc' = pc
    BY <1>11 DEF vars, work
  <2>2. Ranks(todo)' = Ranks(todo)
    BY <2>1 DEF work, Ranks
  <2>3. /\ Known' = Known /\ Looping' = Looping
        /\ \A p : Takes(p)' = Takes(p) /\ Wanted(p)' = Wanted(p)
        /\ FirstOK' /\ ListOK'
    BY <2>1, SameChoices DEF Choices
  <2>4. FreshOK'
    BY <2>1 DEF Choices, FreshOK, choice, input, Remembered
  <2>5. WorkOK'
    BY <2>1, <2>2, <2>3 DEF Choices, WorkOK, work
  <2> QED BY <2>3, <2>4, <2>5 DEF Choices
<1> QED
  BY <1>1, <1>2, <1>3, <1>4, <1>5, <1>6, <1>8, <1>9, <1>10, <1>11 DEF Next, Exited

\* The invariant holds in every state of either program.
THEOREM Invariance == Spec => []IInv
<1>1. Init => IInv
  BY ResourcesInit, ChoicesInit DEF IInv, Resources, Choices
<1>2. IInv /\ [Next]_vars => IInv'
  <2> SUFFICES ASSUME IInv, [Next]_vars PROVE IInv'
    OBVIOUS
  <2>1. Resources /\ Choices /\ TypeOK /\ VolumesOK
    BY DEF IInv, Resources, Choices
  <2>2. Resources' /\ Choices'
    BY <2>1, ResourcesNext, ChoicesNext
  <2> QED BY <2>2 DEF IInv, Resources, Choices
<1> QED BY <1>1, <1>2, PTL DEF Spec

-----------------------------------------------------------------------------
(***************************************************************************)
(* No error path of main, of open_multi_domain or of a command leaks a     *)
(* volume, the domain, the cache or the argument list, or releases one of  *)
(* them twice.                                                             *)
(***************************************************************************)
THEOREM EverythingReleased == Spec => []ReleasedOnce
<1>1. IInv => ReleasedOnce
  <2> SUFFICES ASSUME IInv PROVE ReleasedOnce
    OBVIOUS
  <2>1. \A v \in Vols : /\ openCount[v] \in {0, 1}
                        /\ closeCount[v] = IF pc = "exit" THEN openCount[v] ELSE 0
    BY DEF IInv, VolumesOK
  <2>2. \A v \in Vols : closeCount[v] <= openCount[v] /\ openCount[v] <= 1
    BY <2>1
  <2>3. ASSUME pc = "exit" PROVE OpenVols = {} /\ held = {}
    BY <2>1, <2>3 DEF IInv, HeldOK, OpenVols
  <2> QED BY <2>2, <2>3 DEF ReleasedOnce
<1> QED BY <1>1, Invariance, PTL

(***************************************************************************)
(* FUSE serves, and the tool works, with every volume and the domain open. *)
(***************************************************************************)
THEOREM AliveWhileServing == Spec => []ServesAlive
<1>1. IInv => ServesAlive
  <2> SUFFICES ASSUME IInv PROVE ServesAlive
    OBVIOUS
  <2>1. ASSUME pc \in {"serve", "work"} PROVE OpenVols = Vols /\ "domain" \in held
    BY <2>1 DEF IInv, VolumesOK, HeldOK, OpenVols, Alive
  <2>2. ASSUME pc = "serve" PROVE "cache" \in held
    BY <2>2 DEF IInv, HeldOK
  <2> QED BY <2>1, <2>2 DEF ServesAlive
<1> QED BY <1>1, Invariance, PTL

(***************************************************************************)
(* The mount's capture_first_fileset and the tool's loops pick by one rule *)
(* among any number of filesets, whatever can be read of them.             *)
(***************************************************************************)
THEOREM FilesetPicked == Spec => []PicksFileset
<1>1. ASSUME IInv PROVE PicksFileset
  <2> DEFINE named(p) == sets[p].name # ""
  <2>1. ASSUME pc \in {"extents", "fuse", "serve"}
        PROVE  IF target # {} THEN First(seen, pick, NamedSet)
               ELSE First(seen, pick, Original) \/ (First(seen, pick, named) /\ ~\E i \in seen : Original(i))
    <3>1. prog = "fuse" /\ Remembered /\ pick # 0
      BY <1>1, <2>1 DEF IInv, TypeOK, FreshOK, Remembered
    <3>2. CASE target # {}
      BY <1>1, <3>1, <3>2 DEF IInv, FirstOK
    <3>3. CASE target = {} /\ found
      BY <1>1, <3>1, <3>3 DEF IInv, FirstOK
    <3>4. CASE target = {} /\ ~found
      <4>1. /\ \A p \in seen : ~Original(p)
            /\ pick \in seen /\ \A p \in seen : p < pick => sets[p].name = ""
        BY <1>1, <3>1, <3>4 DEF IInv, FirstOK
      <4>2. First(seen, pick, named)
        BY <3>1, <4>1 DEF First, Remembered
      <4> QED BY <3>4, <4>1, <4>2
    <3> QED BY <3>2, <3>3, <3>4
  <2>2. ASSUME line.cmd \in {"list", "count"}, NEW p \in visited \cup failed
        PROVE  Takes(p)
    BY <1>1, <2>2 DEF IInv, WorkOK
  <2>3. ASSUME line.cmd \in {"info", "scan"}, pc = "exit", visited \cup failed # {}
        PROVE  visited \cup failed = {p \in Known : Wanted(p)}
    BY <1>1, <2>3 DEF IInv, WorkOK, Looping
  <2> QED BY <2>1, <2>2, <2>3 DEF PicksFileset, Takes, Wanted, Known
<1> QED BY <1>1, Invariance, PTL

-----------------------------------------------------------------------------
\* How the mount's command line is split.

\* Values at the positions 0 to n, each got from the one before it by step.
Computed(n, S, s0, step) ==
    \E g \in [0..n -> S] : g[0] = s0 /\ \A i \in 1..n : g[i] = step[i][g[i - 1]]

(***************************************************************************)
(* A recursion over the positions of a line, one value at a time, has a    *)
(* value at each.                                                          *)
(***************************************************************************)
LEMMA Recursion ==
    ASSUME NEW n \in Nat, NEW S, NEW s0 \in S, NEW step \in [1..n -> [S -> S]]
    PROVE  Computed(n, S, s0, step)
<1> DEFINE Good(k) == \E g \in [0..n -> S] :
                        g[0] = s0 /\ \A i \in 1..n : i <= k => g[i] = step[i][g[i - 1]]
           T == {k \in Nat : k > n \/ Good(k)}
<1>1. 0 \in T
  <2> DEFINE g == [i \in 0..n |-> s0]
  <2>1. g \in [0..n -> S] /\ g[0] = s0 /\ \A i \in 1..n : ~(i <= 0)
    OBVIOUS
  <2>2. Good(0)
    BY <2>1
  <2> QED BY <2>2
<1>2. ASSUME NEW k \in Nat, k \in T PROVE k + 1 \in T
  <2>1. CASE k + 1 > n
    BY <2>1
  <2>2. CASE k + 1 <= n
    <3>1. PICK g \in [0..n -> S] :
                 g[0] = s0 /\ \A i \in 1..n : i <= k => g[i] = step[i][g[i - 1]]
      BY <1>2, <2>2
    <3> DEFINE x == step[k + 1][g[k]]
               h == [g EXCEPT ![k + 1] = x]
    <3>2. k + 1 \in 1..n /\ k \in 0..n /\ k + 1 \in 0..n
      BY <2>2
    <3>3. x \in S
      BY <3>2
    <3> HIDE DEF x
    <3>4. h \in [0..n -> S] /\ h[k + 1] = x /\ \A i \in 0..n : i # k + 1 => h[i] = g[i]
      BY <3>2, <3>3
    <3> HIDE DEF h
    <3>5. h[0] = s0
      BY <3>1, <3>4
    <3>6. ASSUME NEW i \in 1..n, i <= k + 1 PROVE h[i] = step[i][h[i - 1]]
      <4>1. i - 1 \in 0..n /\ i \in 0..n /\ i - 1 # k + 1
        BY <3>6
      <4>2. h[i - 1] = g[i - 1]
        BY <3>4, <4>1
      <4>3. CASE i = k + 1
        <5>1. i - 1 = k
          BY <4>3
        <5> QED BY <3>4, <4>2, <4>3, <5>1 DEF x
      <4>4. CASE i # k + 1
        <5>1. i <= k
          BY <3>6, <4>4
        <5> QED BY <3>1, <3>4, <4>1, <4>2, <4>4, <5>1
      <4> QED BY <4>3, <4>4
    <3>7. Good(k + 1)
      BY <3>4, <3>5, <3>6
    <3> QED BY <3>7
  <2> QED BY <2>1, <2>2
<1> HIDE DEF T
<1>3. n \in T
  BY <1>1, <1>2, NatInd
<1>4. Good(n)
  BY <1>3 DEF T
<1> QED BY <1>4 DEF Computed

\* The roles are what their recursion says.
LEMMA RolesAre ==
    ASSUME NEW a \in Seq(STRING)
    PROVE  /\ Roles(a)[0] = "kept"
           /\ \A i \in 1..Len(a) :
                Roles(a)[i] = IF Roles(a)[i - 1] = "option" THEN "value"
                              ELSE IF a[i] \in ValueOptions THEN "option" ELSE "kept"
<1> DEFINE n == Len(a)
           S == {"kept", "option", "value"}
           Body(g, i) == IF i = 0 THEN "kept"
                         ELSE IF g[i - 1] = "option" THEN "value"
                         ELSE IF a[i] \in ValueOptions THEN "option" ELSE "kept"
           step == [i \in 1..n |-> [x \in S |-> IF x = "option" THEN "value"
                                               ELSE IF a[i] \in ValueOptions THEN "option" ELSE "kept"]]
           f == CHOOSE g : g = [i \in 0..n |-> Body(g, i)]
<1>1. n \in Nat
  BY LenProperties
<1>2. Roles(a) = f
  BY DEF Roles
<1> HIDE DEF n
<1>3. step \in [1..n -> [S -> S]] /\ "kept" \in S
  OBVIOUS
<1>4. PICK g \in [0..n -> S] : g[0] = "kept" /\ \A i \in 1..n : g[i] = step[i][g[i - 1]]
  <2> HIDE DEF step, S
  <2>1. Computed(n, S, "kept", step)
    BY <1>1, <1>3, Recursion
  <2> QED BY <2>1 DEF Computed
<1>5. ASSUME NEW i \in 0..n PROVE g[i] = Body(g, i)
  <2>1. CASE i = 0
    BY <1>4, <2>1
  <2>2. CASE i # 0
    <3>1. i \in 1..n /\ i - 1 \in 0..n
      BY <1>1, <2>2
    <3>2. g[i - 1] \in S
      BY <3>1
    <3>4. step[i][g[i - 1]] = IF g[i - 1] = "option" THEN "value"
                                  ELSE IF a[i] \in ValueOptions THEN "option" ELSE "kept"
      BY <3>1, <3>2
    <3> HIDE DEF step
    <3> QED BY <1>4, <2>2, <3>1, <3>4
  <2> QED BY <2>1, <2>2
<1> HIDE DEF Body
<1>6. g = [i \in 0..n |-> Body(g, i)]
  BY <1>5
<1>7. f = [i \in 0..n |-> Body(f, i)]
  BY <1>6
<1> HIDE DEF f
<1>8. \A i \in 0..n : f[i] = Body(f, i)
  BY <1>7
<1>9. f[0] = "kept"
  BY <1>1, <1>8 DEF Body
<1>10. ASSUME NEW i \in 1..n
       PROVE  f[i] = IF f[i - 1] = "option" THEN "value"
                     ELSE IF a[i] \in ValueOptions THEN "option" ELSE "kept"
  <2>1. f[i] = Body(f, i)
    BY <1>8
  <2> QED BY <2>1 DEF Body
<1> QED BY <1>2, <1>9, <1>10 DEF n

\* The arguments kept of a line, prefix by prefix.
LEMMA KeptIs ==
    ASSUME NEW a \in Seq(STRING)
    PROVE  \E g \in [0..Len(a) -> Seq(STRING)] :
             /\ g[0] = <<>> /\ Kept(a) = g[Len(a)]
             /\ \A i \in 1..Len(a) :
                  g[i] = IF Roles(a)[i] = "kept" THEN Append(g[i - 1], a[i]) ELSE g[i - 1]
<1> DEFINE n == Len(a)
           S == Seq(STRING)
           R == Roles(a)
           Body(g, i) == IF i = 0 THEN <<>>
                         ELSE IF R[i] = "kept" THEN Append(g[i - 1], a[i]) ELSE g[i - 1]
           step == [i \in 1..n |-> [x \in S |-> IF R[i] = "kept" THEN Append(x, a[i]) ELSE x]]
           f == CHOOSE g : g = [i \in 0..n |-> Body(g, i)]
<1>1. n \in Nat
  BY LenProperties
<1>2. Kept(a) = f[n]
  BY DEF Kept
<1>3. \A i \in 1..n : a[i] \in STRING
  BY ElementOfSeq
<1> HIDE DEF n, R
<1>4. step \in [1..n -> [S -> S]] /\ <<>> \in S
  <2>1. ASSUME NEW i \in 1..n, NEW x \in S
        PROVE  (IF R[i] = "kept" THEN Append(x, a[i]) ELSE x) \in S
    <3>1. Append(x, a[i]) \in S
      BY <1>3, AppendProperties
    <3> QED BY <3>1
  <2> QED BY <2>1, EmptySeq
<1>5. PICK g \in [0..n -> S] : g[0] = <<>> /\ \A i \in 1..n : g[i] = step[i][g[i - 1]]
  <2> HIDE DEF step, S
  <2>1. Computed(n, S, <<>>, step)
    BY <1>1, <1>4, Recursion
  <2> QED BY <2>1 DEF Computed
<1>6. ASSUME NEW i \in 1..n
      PROVE  g[i] = IF R[i] = "kept" THEN Append(g[i - 1], a[i]) ELSE g[i - 1]
  <2>1. i - 1 \in 0..n
    BY <1>1
  <2>2. g[i - 1] \in S
    BY <2>1
  <2>3. step[i][g[i - 1]] = IF R[i] = "kept" THEN Append(g[i - 1], a[i]) ELSE g[i - 1]
    BY <2>2
  <2> HIDE DEF step
  <2> QED BY <1>5, <2>3
<1>7. ASSUME NEW i \in 0..n PROVE g[i] = Body(g, i)
  <2>1. i = 0 \/ i \in 1..n
    BY <1>1
  <2> HIDE DEF step
  <2> QED BY <1>5, <1>6, <2>1
<1> HIDE DEF step
<1>8. g = [i \in 0..n |-> Body(g, i)]
  <2> HIDE DEF Body
  <2> QED BY <1>7
<1>9. f = [i \in 0..n |-> Body(f, i)]
  <2> HIDE DEF Body
  <2> QED BY <1>8
<1> HIDE DEF f
<1>10. ASSUME NEW i \in 1..n
       PROVE  f[i] = IF R[i] = "kept" THEN Append(f[i - 1], a[i]) ELSE f[i - 1]
  <2>1. i \in 0..n /\ i # 0
    BY <1>1
  <2>2. f[i] = Body(f, i)
    <3> HIDE DEF Body
    <3> QED BY <1>9, <2>1
  <2> QED BY <2>1, <2>2
<1>11. f[0] = <<>>
  <2>1. f[0] = Body(f, 0)
    <3>1. 0 \in 0..n
      BY <1>1
    <3> HIDE DEF Body
    <3> QED BY <1>9, <3>1
  <2> QED BY <2>1
<1>12. f \in [0..n -> S]
  <2> DEFINE T == {k \in Nat : k <= n => f[k] = g[k]}
  <2>1. 0 \in T
    BY <1>5, <1>11
  <2>2. ASSUME NEW k \in Nat, k \in T PROVE k + 1 \in T
    <3>1. CASE k + 1 <= n
      <4>1. k + 1 \in 1..n /\ (k + 1) - 1 = k /\ f[k] = g[k]
        BY <1>1, <2>2, <3>1
      <4> QED BY <1>6, <1>10, <4>1
    <3> QED BY <3>1
  <2> HIDE DEF T
  <2>3. \A k \in Nat : k \in T
    BY <2>1, <2>2, NatInd
  <2>4. \A k \in 0..n : f[k] = g[k]
    BY <1>1, <2>3 DEF T
  <2>5. DOMAIN f = 0..n
    <3> HIDE DEF Body
    <3> QED BY <1>9
  <2>6. f = [k \in 0..n |-> f[k]]
    <3> HIDE DEF Body
    <3> QED BY <1>9
  <2>7. \A k \in 0..n : f[k] \in S
    BY <2>4
  <2> QED BY <2>6, <2>7
<1> QED BY <1>2, <1>10, <1>11, <1>12 DEF n, R

(***************************************************************************)
(* The recursion of main from the right and the roles given from the left  *)
(* leave the same arguments.                                               *)
(***************************************************************************)
LEMMA ExtractKeeps ==
    ASSUME NEW a \in Seq(STRING)
    PROVE  Extract(a, FALSE).filt = Kept(a)
<1> DEFINE n == Len(a)
           R == Roles(a)
<1>1. n \in Nat /\ \A i \in 1..n : a[i] \in STRING
  BY LenProperties, ElementOfSeq
<1>2. PICK f : /\ Remains(f, a, FALSE)
               /\ Extract(a, FALSE) = f[1]
  BY ExtractIs
<1>3. /\ R[0] = "kept"
      /\ \A i \in 1..n : R[i] = IF R[i - 1] = "option" THEN "value"
                                ELSE IF a[i] \in ValueOptions THEN "option" ELSE "kept"
  BY RolesAre
<1>4. PICK g \in [0..n -> Seq(STRING)] :
             /\ g[0] = <<>> /\ Kept(a) = g[n]
             /\ \A i \in 1..n : g[i] = IF R[i] = "kept" THEN Append(g[i - 1], a[i]) ELSE g[i - 1]
  BY KeptIs
<1>5. ASSUME NEW i \in 1..n + 2
      PROVE  /\ f[i].filt \in Seq(STRING)
             /\ i > n => f[i].filt = <<>>
             /\ i <= n /\ a[i] \notin ValueOptions => f[i].filt = <<a[i]>> \o f[i + 1].filt
             /\ i < n /\ a[i] \in ValueOptions => f[i].filt = f[i + 2].filt
             /\ i = n /\ a[i] \in ValueOptions => f[i].filt = <<>>
  <2>1. f[i] \in Options
    BY <1>2 DEF Remains
  <2>2. f[i].filt \in Seq(STRING)
    BY <2>1 DEF Options
  <2> QED BY <1>2, <2>2 DEF Remains
<1> HIDE DEF n, R
<1> DEFINE Right(i) == R[i - 1] # "option" => g[i - 1] \o f[i].filt = g[n]
           T == {k \in Nat : k <= n => Right(n + 1 - k)}
<1>6. Right(n + 1)
  <2>1. n + 1 \in 1..n + 2 /\ (n + 1) - 1 = n /\ n \in 0..n /\ n + 1 > n
    BY <1>1
  <2>2. f[n + 1].filt = <<>>
    BY <1>5, <2>1
  <2>3. g[n] \o <<>> = g[n]
    BY <2>1, ConcatEmptySeq
  <2> QED BY <2>1, <2>2, <2>3
<1>7. ASSUME NEW i \in 1..n, Right(i + 1), i < n => Right(i + 2) PROVE Right(i)
  <2> SUFFICES ASSUME R[i - 1] # "option" PROVE g[i - 1] \o f[i].filt = g[n]
    OBVIOUS
  <2>1. /\ i - 1 \in 0..n /\ i \in 0..n /\ i \in 1..n + 2 /\ i + 1 \in 1..n + 2 /\ i <= n
        /\ (i + 1) - 1 = i
    BY <1>1
  <2>2. CASE a[i] \notin ValueOptions
    <3>1. R[i] = "kept"
      BY <1>3, <2>2
    <3>2. g[i] = Append(g[i - 1], a[i])
      BY <1>4, <3>1
    <3>3. f[i].filt = <<a[i]>> \o f[i + 1].filt
      BY <1>5, <2>1, <2>2
    <3>4. g[i] \o f[i + 1].filt = g[n]
      BY <1>7, <2>1, <3>1
    <3>5. g[i - 1] \in Seq(STRING) /\ a[i] \in STRING /\ f[i + 1].filt \in Seq(STRING)
      BY <1>1, <1>5, <2>1
    <3>6. Append(g[i - 1], a[i]) = g[i - 1] \o <<a[i]>>
      BY <3>5, AppendIsConcat
    <3>7. <<a[i]>> \in Seq(STRING)
      BY <3>5
    <3>8. (g[i - 1] \o <<a[i]>>) \o f[i + 1].filt = g[i - 1] \o (<<a[i]>> \o f[i + 1].filt)
      <4> DEFINE u == <<a[i]>>
                 w == f[i + 1].filt
                 v == g[i - 1]
      <4>1. u \in Seq(STRING) /\ v \in Seq(STRING) /\ w \in Seq(STRING)
        BY <3>5, <3>7
      <4> HIDE DEF u, v, w
      <4>2. (v \o u) \o w = v \o (u \o w)
        BY <4>1, ConcatAssociative
      <4> QED BY <4>2 DEF u, v, w
    <3> QED BY <3>2, <3>3, <3>4, <3>6, <3>8
  <2>3. CASE a[i] \in ValueOptions /\ i = n
    <3>1. R[i] = "option"
      BY <1>3, <2>3
    <3>2. g[n] = g[i - 1]
      BY <1>4, <2>3, <3>1
    <3>3. f[i].filt = <<>>
      BY <1>5, <2>1, <2>3
    <3>4. g[i - 1] \o <<>> = g[i - 1]
      BY <2>1, ConcatEmptySeq
    <3> QED BY <3>2, <3>3, <3>4
  <2>4. CASE a[i] \in ValueOptions /\ i # n
    <3>1. i + 1 \in 1..n /\ i < n /\ (i + 2) - 1 = i + 1
      BY <1>1, <2>4
    <3>2. R[i] = "option"
      BY <1>3, <2>4
    <3>3. R[i + 1] = "value"
      BY <1>3, <2>1, <3>1, <3>2
    <3>4. g[i] = g[i - 1]
      BY <1>4, <3>2
    <3>5. g[i + 1] = g[i]
      BY <1>4, <2>1, <3>1, <3>3
    <3>6. f[i].filt = f[i + 2].filt
      BY <1>5, <2>1, <2>4, <3>1
    <3>7. g[i + 1] \o f[i + 2].filt = g[n]
      BY <1>7, <3>1, <3>3
    <3> QED BY <3>4, <3>5, <3>6, <3>7
  <2> QED BY <2>2, <2>3, <2>4
<1> HIDE DEF Right
<1>8. ASSUME NEW x \in Nat, x \notin T PROVE \E y \in Nat : y < x /\ y \notin T
  <2>1. x <= n /\ ~Right(n + 1 - x)
    BY <1>8
  <2>2. x # 0
    <3>1. n + 1 - 0 = n + 1
      BY <1>1
    <3> QED BY <1>6, <2>1, <3>1
  <2> DEFINE i == n + 1 - x
  <2>3. i \in 1..n /\ i + 1 = n + 1 - (x - 1) /\ (i < n => x - 2 \in Nat /\ i + 2 = n + 1 - (x - 2))
    BY <1>1, <2>1, <2>2
  <2>4. ~Right(i)
    BY <2>1
  <2> HIDE DEF i
  <2>5. ~Right(i + 1) \/ (i < n /\ ~Right(i + 2))
    BY <1>7, <2>3, <2>4
  <2>6. CASE ~Right(i + 1)
    <3>1. x - 1 \in Nat /\ x - 1 < x /\ x - 1 <= n
      BY <1>1, <2>1, <2>2
    <3>2. x - 1 \notin T
      BY <2>3, <2>6, <3>1
    <3> QED BY <3>1, <3>2
  <2>7. CASE i < n /\ ~Right(i + 2)
    <3>1. x - 2 \in Nat /\ x - 2 < x /\ x - 2 <= n
      BY <1>1, <2>1, <2>3, <2>7
    <3>2. x - 2 \notin T
      BY <2>3, <2>7, <3>1
    <3> QED BY <3>1, <3>2
  <2> QED BY <2>5, <2>6, <2>7
<1> HIDE DEF T
<1>9. Nat \ T = {}
  <2> SUFFICES ASSUME Nat \ T # {} PROVE FALSE
    OBVIOUS
  <2>1. PICK x \in Nat \ T : \A y \in Nat \ T : x <= y
    BY Least
  <2>2. PICK y \in Nat : y < x /\ y \notin T
    BY <1>8, <2>1
  <2> QED BY <2>1, <2>2
<1>10. Right(1)
  <2>1. n \in T
    BY <1>1, <1>9
  <2>2. n + 1 - n = 1 /\ n <= n
    BY <1>1
  <2> QED BY <2>1, <2>2 DEF T
<1>11. g[0] \o f[1].filt = g[n]
  <2>1. 1 - 1 = 0
    OBVIOUS
  <2> QED BY <1>3, <1>10, <2>1 DEF Right
<1>12. <<>> \o f[1].filt = f[1].filt
  <2>1. 1 \in 1..n + 2
    BY <1>1
  <2> QED BY <1>5, <2>1, ConcatEmptySeq
<1> QED BY <1>2, <1>4, <1>11, <1>12

\* Flags apart, the arguments of a line are found at their rank.
LEMMA NonFlagsAre ==
    ASSUME NEW s \in Seq(STRING)
    PROVE  LET N(k) == {i \in 1..k : s[i] \notin Flags} IN
           /\ Len(NonFlags(s)) = Cardinality(N(Len(s)))
           /\ \A j \in N(Len(s)) : NonFlags(s)[Cardinality(N(j))] = s[j]
<1> DEFINE n == Len(s)
           S == Seq(STRING)
           N(k) == {i \in 1..k : s[i] \notin Flags}
           Body(g, i) == IF i = 0 THEN <<>>
                         ELSE IF s[i] \in Flags THEN g[i - 1] ELSE Append(g[i - 1], s[i])
           step == [i \in 1..n |-> [x \in S |-> IF s[i] \in Flags THEN x ELSE Append(x, s[i])]]
           f == CHOOSE g : g = [i \in 0..n |-> Body(g, i)]
<1>1. n \in Nat /\ \A i \in 1..n : s[i] \in STRING
  BY LenProperties, ElementOfSeq
<1>2. NonFlags(s) = f[n]
  BY DEF NonFlags
<1> HIDE DEF n
<1>3. step \in [1..n -> [S -> S]] /\ <<>> \in S
  <2>1. ASSUME NEW i \in 1..n, NEW x \in S
        PROVE  (IF s[i] \in Flags THEN x ELSE Append(x, s[i])) \in S
    <3>1. Append(x, s[i]) \in S
      BY <1>1, AppendProperties
    <3> QED BY <3>1
  <2> QED BY <2>1, EmptySeq
<1>4. PICK g \in [0..n -> S] : g[0] = <<>> /\ \A i \in 1..n : g[i] = step[i][g[i - 1]]
  <2> HIDE DEF step, S
  <2>1. Computed(n, S, <<>>, step)
    BY <1>1, <1>3, Recursion
  <2> QED BY <2>1 DEF Computed
<1>5. ASSUME NEW i \in 1..n
      PROVE  g[i] = IF s[i] \in Flags THEN g[i - 1] ELSE Append(g[i - 1], s[i])
  <2>1. i - 1 \in 0..n
    BY <1>1
  <2>2. g[i - 1] \in S
    BY <2>1
  <2>3. step[i][g[i - 1]] = IF s[i] \in Flags THEN g[i - 1] ELSE Append(g[i - 1], s[i])
    BY <2>2
  <2> HIDE DEF step
  <2> QED BY <1>4, <2>3
<1> HIDE DEF step
<1>6. ASSUME NEW i \in 0..n PROVE g[i] = Body(g, i)
  <2>1. i = 0 \/ i \in 1..n
    BY <1>1
  <2> QED BY <1>4, <1>5, <2>1
<1>7. g = [i \in 0..n |-> Body(g, i)]
  <2> HIDE DEF Body
  <2> QED BY <1>6
<1>8. f = [i \in 0..n |-> Body(f, i)]
  <2> HIDE DEF Body
  <2> QED BY <1>7
<1> HIDE DEF f
<1>9. ASSUME NEW i \in 1..n
      PROVE  f[i] = IF s[i] \in Flags THEN f[i - 1] ELSE Append(f[i - 1], s[i])
  <2>1. i \in 0..n /\ i # 0
    BY <1>1
  <2>2. f[i] = Body(f, i)
    <3> HIDE DEF Body
    <3> QED BY <1>8, <2>1
  <2> QED BY <2>1, <2>2
<1>10. f[0] = <<>>
  <2>1. f[0] = Body(f, 0)
    <3>1. 0 \in 0..n
      BY <1>1
    <3> HIDE DEF Body
    <3> QED BY <1>8, <3>1
  <2> QED BY <2>1
<1> HIDE DEF Body
<1> DEFINE Good(k) == /\ f[k] \in Seq(STRING) /\ IsFiniteSet(N(k)) /\ Len(f[k]) = Cardinality(N(k))
                      /\ \A j \in N(k) : /\ Cardinality(N(j)) \in 1..Len(f[k])
                                         /\ f[k][Cardinality(N(j))] = s[j]
           T == {k \in Nat : k <= n => Good(k)}
<1>11. Good(0)
  <2>1. N(0) = {}
    OBVIOUS
  <2> HIDE DEF N
  <2>2. IsFiniteSet({}) /\ Cardinality({}) = 0
    BY FS_EmptySet
  <2> QED BY <1>10, <2>1, <2>2, EmptySeq
<1>12. ASSUME NEW k \in Nat, k + 1 <= n, Good(k) PROVE Good(k + 1)
  <2> HIDE DEF Good
  <2>1. k + 1 \in 1..n /\ (k + 1) - 1 = k
    BY <1>1, <1>12
  <2> USE DEF Good
  <2>2. CASE s[k + 1] \in Flags
    <3>1. N(k + 1) = N(k)
      BY <2>2
    <3>2. f[k + 1] = f[k]
      BY <1>9, <2>1, <2>2
    <3> HIDE DEF N
    <3> QED BY <1>12, <3>1, <3>2
  <2>3. CASE s[k + 1] \notin Flags
    <3>1. N(k + 1) = N(k) \cup {k + 1} /\ k + 1 \notin N(k)
      BY <2>3
    <3>2. f[k + 1] = Append(f[k], s[k + 1])
      BY <1>9, <2>1, <2>3
    <3>3. s[k + 1] \in STRING
      BY <1>1, <2>1
    <3> DEFINE c == Len(f[k])
    <3>4. c \in Nat
      BY <1>12, LenProperties
    <3> HIDE DEF N
    <3>5. /\ f[k + 1] \in Seq(STRING) /\ Len(f[k + 1]) = c + 1
          /\ \A i \in 1..c : f[k + 1][i] = f[k][i]
          /\ f[k + 1][c + 1] = s[k + 1]
      BY <1>12, <3>2, <3>3, AppendProperties
    <3>6. IsFiniteSet(N(k + 1)) /\ Cardinality(N(k + 1)) = c + 1
      BY <1>12, <3>1, FS_AddElement
    <3>7. ASSUME NEW j \in N(k + 1)
          PROVE  Cardinality(N(j)) \in 1..Len(f[k + 1]) /\ f[k + 1][Cardinality(N(j))] = s[j]
      <4>1. CASE j = k + 1
        BY <3>4, <3>5, <3>6, <4>1
      <4>2. CASE j \in N(k)
        <5>1. Cardinality(N(j)) \in 1..c /\ f[k][Cardinality(N(j))] = s[j]
          BY <1>12, <4>2
        <5> QED BY <3>4, <3>5, <5>1
      <4> QED BY <3>1, <4>1, <4>2
    <3> QED BY <3>5, <3>6, <3>7
  <2> QED BY <2>2, <2>3
<1> HIDE DEF Good
<1>13. Nat \subseteq T
  <2>1. 0 \in T
    BY <1>11
  <2>2. ASSUME NEW k \in Nat, k \in T PROVE k + 1 \in T
    <3>1. CASE k + 1 <= n
      <4>1. k <= n
        BY <1>1, <3>1
      <4>2. Good(k)
        BY <2>2, <4>1
      <4> QED BY <1>12, <3>1, <4>2
    <3>2. CASE ~(k + 1 <= n)
      BY <3>2
    <3> QED BY <3>1, <3>2
  <2> HIDE DEF T
  <2> QED BY <2>1, <2>2, NatInd
<1>14. Good(n)
  <2>1. n \in T /\ n <= n
    BY <1>1, <1>13
  <2> QED BY <2>1
<1> HIDE DEF N, T
<1>15. Len(NonFlags(s)) = Cardinality(N(n)) /\ \A j \in N(n) : NonFlags(s)[Cardinality(N(j))] = s[j]
  BY <1>2, <1>14 DEF Good
<1> QED BY <1>15 DEF N, n

\* Some numbers of which none is greater than k have a greatest one.
LEMMA Greatest ==
    ASSUME NEW k \in Nat, NEW W \in SUBSET (1..k), W # {}
    PROVE  \E x \in W : \A y \in W : y <= x
<1> DEFINE D == {k - i : i \in W}
<1>1. D \subseteq Nat /\ D # {}
  <2>1. ASSUME NEW i \in W PROVE k - i \in Nat
    <3>1. i \in 1..k
      OBVIOUS
    <3> QED BY <3>1
  <2>2. PICK i \in W : TRUE
    OBVIOUS
  <2>3. k - i \in D
    OBVIOUS
  <2> QED BY <2>1, <2>3
<1>2. PICK d \in D : \A e \in D : d <= e
  <2> HIDE DEF D
  <2> QED BY <1>1, Least
<1>3. PICK x \in W : d = k - x
  BY <1>2
<1>4. ASSUME NEW y \in W PROVE y <= x
  <2>1. k - y \in D
    OBVIOUS
  <2>2. k - x <= k - y
    BY <1>2, <1>3, <2>1
  <2>3. x \in 1..k /\ y \in 1..k
    OBVIOUS
  <2> HIDE DEF D
  <2> QED BY <2>2, <2>3
<1> QED BY <1>4

\* The last of a set of positions, 0 if there is none.
LastOf(W) == IF W = {} THEN 0 ELSE CHOOSE x \in W : \A y \in W : y <= x

\* LastOf is what it is named for.
LEMMA LastOfIs ==
    ASSUME NEW k \in Nat, NEW W \in SUBSET (1..k)
    PROVE  /\ W = {} => LastOf(W) = 0
           /\ W # {} => LastOf(W) \in W /\ \A y \in W : y <= LastOf(W)
           /\ k \in W => LastOf(W) = k
<1>1. ASSUME W # {} PROVE LastOf(W) \in W /\ \A y \in W : y <= LastOf(W)
  <2>1. \E x \in W : \A y \in W : y <= x
    BY <1>1, Greatest
  <2> QED BY <1>1, <2>1 DEF LastOf
<1>2. ASSUME k \in W PROVE LastOf(W) = k
  <2>1. LastOf(W) \in 1..k /\ k <= LastOf(W)
    BY <1>1, <1>2
  <2> QED BY <2>1
<1> QED BY <1>1, <1>2 DEF LastOf

(***************************************************************************)
(* The search for the mountpoint from the right finds the last word of the *)
(* line, or that it has no words.                                          *)
(***************************************************************************)
LEMMA MountpointIs ==
    ASSUME NEW s \in Seq(STRING)
    PROVE  Mountpoint(s) = LastOf(WordsOf(s))
<1> DEFINE n == Len(s)
           W(k) == {i \in WordsOf(s) : i <= k}
           Body(g, i) == IF i = 0 THEN 0
                         ELSE IF s[i] \in Flags THEN g[i - 1]
                         ELSE IF i > 1 /\ s[i - 1] = "-o" THEN g[i - 2] ELSE i
           f == CHOOSE g : g = [i \in 0..n |-> Body(g, i)]
           m == [i \in 0..n |-> LastOf(W(i))]
<1>1. n \in Nat
  BY LenProperties
<1>2. Mountpoint(s) = f[n]
  BY DEF Mountpoint
<1>3. \A k \in 0..n : W(k) \in SUBSET (1..k)
  BY DEF WordsOf
<1>4. \A i \in 1..n : i \in WordsOf(s) <=> s[i] \notin Flags /\ ~(i > 1 /\ s[i - 1] = "-o")
  BY DEF WordsOf
<1>5. WordsOf(s) \subseteq 1..n
  BY DEF WordsOf
<1> HIDE DEF n
<1>6. ASSUME NEW i \in 0..n PROVE m[i] = Body(m, i)
  <2>1. CASE i = 0
    <3>1. W(0) = {}
      BY <1>3, <2>1
    <3>2. LastOf({}) = 0
      BY DEF LastOf
    <3> HIDE DEF W
    <3> QED BY <2>1, <3>1, <3>2
  <2>2. CASE i # 0 /\ s[i] \in Flags
    <3>1. i \in 1..n /\ i - 1 \in 0..n /\ i \notin WordsOf(s)
      BY <1>1, <1>4, <2>2
    <3>2. W(i) = W(i - 1)
      BY <1>5, <3>1
    <3> HIDE DEF W
    <3>3. m[i] = m[i - 1]
      BY <3>1, <3>2
    <3> HIDE DEF m
    <3> QED BY <2>2, <3>3
  <2>3. CASE i # 0 /\ s[i] \notin Flags /\ i > 1 /\ s[i - 1] = "-o"
    <3>1. i \in 1..n /\ i - 1 \in 1..n /\ i - 2 \in 0..n /\ i \notin WordsOf(s) /\ i - 1 \notin WordsOf(s)
      BY <1>1, <1>4, <2>3, LineAssumption
    <3>2. W(i) = W(i - 2)
      BY <1>5, <3>1
    <3> HIDE DEF W
    <3>3. m[i] = m[i - 2]
      BY <3>1, <3>2
    <3> HIDE DEF m
    <3> QED BY <2>3, <3>3
  <2>4. CASE i # 0 /\ s[i] \notin Flags /\ ~(i > 1 /\ s[i - 1] = "-o")
    <3>1. i \in Nat /\ i \in W(i) /\ W(i) \in SUBSET (1..i)
      BY <1>1, <1>3, <1>4, <2>4
    <3> HIDE DEF W
    <3>2. LastOf(W(i)) = i
      BY <3>1, LastOfIs
    <3>3. m[i] = i
      BY <3>2
    <3> HIDE DEF m
    <3> QED BY <2>4, <3>3
  <2> QED BY <2>1, <2>2, <2>3, <2>4
<1>7. m = [i \in 0..n |-> Body(m, i)]
  <2>1. m = [i \in 0..n |-> m[i]]
    OBVIOUS
  <2> HIDE DEF Body, m
  <2> QED BY <1>6, <2>1
<1>8. f = [i \in 0..n |-> Body(f, i)]
  <2> HIDE DEF Body, m
  <2> QED BY <1>7
<1> HIDE DEF f, m
<1>9. ASSUME NEW i \in 0..n, i > 0 => f[i - 1] = m[i - 1], i > 1 => f[i - 2] = m[i - 2]
      PROVE  f[i] = m[i]
  <2>1. f[i] = Body(f, i)
    <3> HIDE DEF Body
    <3> QED BY <1>8
  <2>2. Body(f, i) = Body(m, i)
    BY <1>9
  <2> HIDE DEF Body
  <2> QED BY <1>6, <2>1, <2>2
<1> HIDE DEF Body
<1>10. ASSUME NEW i \in 0..n PROVE f[i] = m[i]
  <2> DEFINE T == {k \in 0..n : f[k] # m[k]}
  <2> SUFFICES ASSUME T # {} PROVE FALSE
    OBVIOUS
  <2>1. T \subseteq Nat
    OBVIOUS
  <2>2. PICK x \in T : \A y \in T : x <= y
    <3> HIDE DEF T
    <3> QED BY <2>1, Least
  <2>3. x > 0 => f[x - 1] = m[x - 1]
    <3>1. CASE x > 0
      <4>1. x - 1 \in 0..n /\ ~(x <= x - 1)
        BY <1>1, <3>1
      <4> QED BY <2>2, <4>1
    <3> QED BY <3>1
  <2>4. x > 1 => f[x - 2] = m[x - 2]
    <3>1. CASE x > 1
      <4>1. x - 2 \in 0..n /\ ~(x <= x - 2)
        BY <1>1, <3>1
      <4> QED BY <2>2, <4>1
    <3> QED BY <3>1
  <2> QED BY <1>9, <2>2, <2>3, <2>4
<1>11. f[n] = LastOf(W(n))
  <2>1. n \in 0..n
    BY <1>1
  <2> HIDE DEF W
  <2> QED BY <1>10, <2>1 DEF m
<1>12. W(n) = WordsOf(s)
  BY <1>1, <1>5
<1> QED BY <1>2, <1>11, <1>12

(***************************************************************************)
(* An accepted line of the mount in the documented order is split as       *)
(* ArgsSplit says.                                                         *)
(***************************************************************************)
LEMMA FuseLineSplits ==
    ASSUME NEW a \in Seq(STRING), FuseLine(a).ok,
           \A i \in 1..Len(Kept(a)), j \in WordsOf(Kept(a)) : Kept(a)[i] = "-o" => i > j
    PROVE  LET args  == Kept(a)
               words == WordsOf(args)
               mp    == CHOOSE i \in words : \A j \in words : i >= j
           IN  /\ Len(FuseLine(a).vds) = Cardinality(words) - 1
               /\ \A j \in words \ {mp} : FuseLine(a).vds[Cardinality({i \in words : i <= j})] = args[j]
               /\ FuseLine(a).rest = SubSeq(args, mp, Len(args))
<1> DEFINE r     == Extract(a, FALSE)
           args  == Kept(a)
           words == WordsOf(args)
           n     == Len(args)
           m     == Mountpoint(args)
           mp    == CHOOSE i \in words : \A j \in words : i >= j
           pre   == SubSeq(args, 1, m - 1)
           N(k)  == {i \in 1..k : pre[i] \notin Flags}
<1>1. r.filt = args
  BY ExtractKeeps
<1>2. args \in Seq(STRING)
  <2>1. r \in Options
    BY ExtractType
  <2>2. r.filt \in Seq(STRING)
    BY <2>1 DEF Options
  <2> QED BY <1>1, <2>2
<1>3. m # 0 /\ FuseLine(a).vds = NonFlags(pre) /\ FuseLine(a).rest = SubSeq(args, m, n)
  <2>1. FuseLine(a) = IF r.err \/ m = 0 \/ Len(NonFlags(pre)) \notin 1..MaxVds \/ BadPartition(r) THEN Refused
                      ELSE Accepted("fuse", r, NonFlags(pre), SubSeq(args, m, n))
    BY <1>1 DEF FuseLine
  <2>2. ~Refused.ok
    BY DEF Refused
  <2>3. m # 0 /\ FuseLine(a) = Accepted("fuse", r, NonFlags(pre), SubSeq(args, m, n))
    BY <2>1, <2>2
  <2> DEFINE v == NonFlags(pre)
             w == SubSeq(args, m, n)
  <2>4. m # 0 /\ FuseLine(a) = Accepted("fuse", r, v, w)
    BY <2>3
  <2> HIDE DEF v, w, m, r
  <2>5. m # 0 /\ FuseLine(a).vds = v /\ FuseLine(a).rest = w
    BY <2>4 DEF Accepted
  <2> QED BY <2>5 DEF v, w
<1>4. n \in Nat /\ words \in SUBSET (1..n)
  BY <1>2, LenProperties DEF WordsOf
<1>5. m = LastOf(words)
  BY <1>2, MountpointIs
<1>6. m \in words /\ \A y \in words : y <= m
  <2> HIDE DEF n, words, m
  <2> QED BY <1>3, <1>4, <1>5, LastOfIs
<1>7. mp = m
  <2> HIDE DEF m, words
  <2>1. words \subseteq Nat
    BY <1>4
  <2>2. \A i \in words : (\A j \in words : i >= j) => i = m
    <3>1. ASSUME NEW i \in words, \A j \in words : i >= j PROVE i = m
      <4>1. i >= m /\ i <= m /\ i \in Nat /\ m \in Nat
        BY <1>6, <2>1, <3>1
      <4> QED BY <4>1
    <3> QED BY <3>1
  <2>3. \A j \in words : m >= j
    BY <1>6, <2>1
  <2>4. mp \in words /\ \A j \in words : mp >= j
    BY <1>6, <2>3
  <2> QED BY <2>2, <2>4
<1>8. m \in 1..n
  BY <1>4, <1>6
<1>9. \A i \in 1..n : i \in words <=> args[i] \notin Flags /\ ~(i > 1 /\ args[i - 1] = "-o")
  BY DEF WordsOf
<1>10. \A i \in 1..n, j \in words : args[i] = "-o" => i > j
  OBVIOUS
<1> HIDE DEF m, n, args, words, mp
<1>11. pre \in Seq(STRING) /\ Len(pre) = m - 1 /\ \A i \in 1..m - 1 : pre[i] = args[i]
  <2>1. \A i \in 1..m - 1 : args[i] \in STRING
    BY <1>2, <1>4, <1>8, ElementOfSeq DEF n
  <2>2. m - 1 \in Int /\ m \in Nat /\ m >= 1
    BY <1>4, <1>8
  <2>3. /\ SubSeq(args, 1, m - 1) \in Seq(STRING)
        /\ Len(SubSeq(args, 1, m - 1)) = IF 1 <= m - 1 THEN m - 1 - 1 + 1 ELSE 0
        /\ \A i \in 1..m - 1 - 1 + 1 : SubSeq(args, 1, m - 1)[i] = args[1 + i - 1]
    BY <2>1, <2>2, SubSeqProperties
  <2> HIDE DEF pre
  <2>4. Len(pre) = m - 1
    BY <2>2, <2>3 DEF pre
  <2>5. ASSUME NEW i \in 1..m - 1 PROVE pre[i] = args[i]
    <3>1. i \in 1..m - 1 - 1 + 1 /\ 1 + i - 1 = i
      BY <2>2
    <3> QED BY <2>3, <3>1 DEF pre
  <2> QED BY <2>3, <2>4, <2>5 DEF pre
<1>12. ASSUME NEW k \in 0..m - 1 PROVE N(k) = {i \in words : i <= k}
  <2>1. ASSUME NEW i \in 1..k PROVE pre[i] \notin Flags <=> i \in words
    <3>1. i \in 1..n /\ i \in 1..m - 1 /\ m \in Nat
      BY <1>4, <1>8
    <3>2. ASSUME i > 1, args[i - 1] = "-o" PROVE FALSE
      <4>1. i - 1 \in 1..n /\ ~(i - 1 > m)
        BY <1>4, <3>1, <3>2
      <4> QED BY <1>6, <1>10, <3>2, <4>1
    <3> HIDE DEF pre
    <3> QED BY <1>9, <1>11, <3>1, <3>2
  <2>2. \A i \in words : i <= k => i \in 1..k
    BY <1>4, <1>8
  <2>3. \A i \in 1..k : i <= k
    BY <1>4, <1>8
  <2> HIDE DEF pre
  <2> QED BY <2>1, <2>2, <2>3
<1> HIDE DEF pre
<1>13. Len(NonFlags(pre)) = Cardinality(N(m - 1)) /\ \A j \in N(m - 1) : NonFlags(pre)[Cardinality(N(j))] = args[j]
  <2>1. /\ Len(NonFlags(pre)) = Cardinality(N(Len(pre)))
        /\ \A j \in N(Len(pre)) : NonFlags(pre)[Cardinality(N(j))] = pre[j]
    BY <1>11, NonFlagsAre
  <2>2. \A j \in N(m - 1) : pre[j] = args[j]
    BY <1>11
  <2> HIDE DEF N
  <2> QED BY <1>11, <2>1, <2>2
<1>14. m - 1 \in 0..m - 1 /\ \A j \in N(m - 1) : j \in 0..m - 1
  BY <1>4, <1>8
<1>15. words = N(m - 1) \cup {m} /\ m \notin N(m - 1) /\ words \ {m} = N(m - 1)
  <2>1. N(m - 1) = {i \in words : i <= m - 1}
    BY <1>12, <1>14
  <2>2. \A i \in words : i <= m /\ i \in Nat /\ m \in Nat
    BY <1>4, <1>6
  <2>3. \A i \in words : i # m => i <= m - 1
    BY <2>2
  <2>4. ~(m <= m - 1)
    BY <1>6, <2>2
  <2> HIDE DEF N
  <2> QED BY <1>6, <2>1, <2>3, <2>4
<1>16. IsFiniteSet(N(m - 1)) /\ Cardinality(N(m - 1)) \in Nat
  <2>1. IsFiniteSet(1..m - 1)
    BY <1>4, <1>8, FS_Interval
  <2>2. N(m - 1) \subseteq 1..m - 1
    OBVIOUS
  <2> HIDE DEF N
  <2>3. IsFiniteSet(N(m - 1))
    BY <2>1, <2>2, FS_Subset
  <2> QED BY <2>3, FS_CardinalityType
<1>17. Cardinality(words) = Cardinality(N(m - 1)) + 1
  <2> HIDE DEF N
  <2> QED BY <1>15, <1>16, FS_AddElement
<1>18. Len(FuseLine(a).vds) = Cardinality(words) - 1
  <2> HIDE DEF N
  <2> QED BY <1>3, <1>13, <1>16, <1>17
<1>19. ASSUME NEW j \in words \ {mp}
       PROVE  FuseLine(a).vds[Cardinality({i \in words : i <= j})] = args[j]
  <2>1. j \in N(m - 1)
    BY <1>7, <1>15
  <2>2. j \in 0..m - 1
    BY <1>14, <2>1
  <2>3. N(j) = {i \in words : i <= j}
    BY <1>12, <2>2
  <2> HIDE DEF N
  <2> QED BY <1>3, <1>13, <2>1, <2>3
<1> QED BY <1>3, <1>7, <1>18, <1>19 DEF words, args, n, mp

-----------------------------------------------------------------------------
\* The line that the mount goes on with is the one it was given.
LineOK ==
    /\ argv \in Seq(STRING)
    /\ line = Refused \/ (prog = "fuse" => line = FuseLine(argv))

(***************************************************************************)
(* For every command line of any length, with the FUSE options last, the   *)
(* mount takes no option's value for a volume or the mountpoint, loses no  *)
(* volume and hands FUSE what follows them.                                *)
(***************************************************************************)
THEOREM ArgumentsSplit == Spec => []ArgsSplit
<1>1. Init => LineOK
  <2> SUFFICES ASSUME Init PROVE LineOK
    OBVIOUS
  <2>1. PICK c \in Cases : argv = c.argv
    BY DEF Init
  <2> QED BY <2>1, MountAssumption DEF Init, LineOK
<1>2. LineOK /\ [Next]_vars => LineOK'
  <2> SUFFICES ASSUME LineOK, [Next]_vars PROVE LineOK'
    OBVIOUS
  <2>1. UNCHANGED input
    BY DEF Next, vars, input, Exit, Usage, Parse, ParseFails, BadLine, DisklabelFails, Start,
       OpenVolume, OpenVolumeFails, DomainFails, DomainOpens, Capture, Collect, Skip, ListFails,
       NoFileset, Listed, TagExtentsFail, TagExtents, ArgvFails, FuseMain, Teardown,
       NothingToDo, Chosen, Pass, Visit, VisitFails, ToolDone, Exited
  <2>2. CASE Parse
    BY <2>1, <2>2 DEF Parse, LineOK, input
  <2>3. CASE ~Parse
    <3>1. UNCHANGED line
      BY <2>3 DEF Next, vars, Exit, Usage, ParseFails, BadLine, DisklabelFails, Start,
         OpenVolume, OpenVolumeFails, DomainFails, DomainOpens, Capture, Collect, Skip, ListFails,
         NoFileset, Listed, TagExtentsFail, TagExtents, ArgvFails, FuseMain, Teardown,
         NothingToDo, Chosen, Pass, Visit, VisitFails, ToolDone, Exited
    <3> QED BY <2>1, <3>1 DEF LineOK, input
  <2> QED BY <2>2, <2>3
<1>3. LineOK => ArgsSplit
  <2> SUFFICES ASSUME LineOK, prog = "fuse", line.ok,
                      \A i \in 1..Len(Kept(argv)), j \in WordsOf(Kept(argv)) : Kept(argv)[i] = "-o" => i > j
               PROVE  LET args  == Kept(argv)
                          words == WordsOf(args)
                          mp    == CHOOSE i \in words : \A j \in words : i >= j
                      IN  /\ Len(line.vds) = Cardinality(words) - 1
                          /\ \A j \in words \ {mp} : line.vds[Cardinality({i \in words : i <= j})] = args[j]
                          /\ line.rest = SubSeq(args, mp, Len(args))
    BY DEF ArgsSplit
  <2>1. ~Refused.ok
    BY DEF Refused
  <2>2. line = FuseLine(argv) /\ argv \in Seq(STRING)
    BY <2>1 DEF LineOK
  <2> QED BY <2>2, FuseLineSplits
<1> QED BY <1>1, <1>2, <1>3, PTL DEF Spec

=============================================================================
