----------------------------- MODULE MCTagLookup ----------------------------
(***************************************************************************)
(* TagLookup on two volumes with two cells a page: every chain over three  *)
(* mcells, mcells with damaged records, and BMT scans past mcells of other *)
(* filesets, of chains and of earlier files with the same tag.             *)
(***************************************************************************)
EXTENDS TagLookup, TLC

L(vd, pg, c) == [vd |-> vd, pg |-> pg, c |-> c]
Tag == [num |-> 5, seq |-> 2]
Old == [num |-> 5, seq |-> 1]
Other == [num |-> 6, seq |-> 1]

R(t, n) == [type |-> t, bcnt |-> n, ino |-> [num |-> 0, seq |-> 0]]
Stat(n, tag) == [type |-> "STAT", bcnt |-> n, ino |-> tag]
Full(tag) == 0 :> Stat(8, tag) @@ 8 :> R("XTNTS", 4) @@ 12 :> R("UNDEL", 4) @@ 16 :> R("ATTR", 8)

C(tag, set, l, vd, recs) ==
    [tag |-> tag, set |-> set, recs |-> recs, next_vd |-> vd, next |-> {[pg |-> m.pg, c |-> m.c] : m \in l}]

Slot0(k, l) == [kind |-> k, at |-> l]
Live == Slot0("live", L(1, 0, 0))
Ends(n) == <<[bs_page |-> 0, term |-> FALSE], [bs_page |-> n, term |-> TRUE]>>
Two == <<[vd |-> 1, map |-> Ends(3)], [vd |-> 2, map |-> Ends(2)]>>
All == {<<1, 0>>, <<1, 1>>, <<1, 2>>, <<2, 0>>, <<2, 1>>}

D(s, w, p, c) == [slot |-> s, vds |-> w, pages |-> p, cells |-> c]

-----------------------------------------------------------------------------
\* Chains: each of three mcells leads to any of them, to a cell that does not
\* exist, to a volume that is not there, or nowhere.
A == L(1, 0, 0)
B == L(1, 1, 1)
X == L(2, 0, 0)
Links == {{}} \cup {{l} : l \in {A, B, X, L(1, 1, 2), L(3, 0, 0)}}
To(l, vd) == IF l = {} THEN 0 ELSE LET n == (CHOOSE m \in l : TRUE).vd IN IF n = vd THEN 0 ELSE n
Recs(b) == IF b THEN Full(Tag) ELSE <<>>

Chains ==
    {D(Live, Two, All, A :> C(Tag, 1, a, To(a, 1), Recs(r[1])) @@ B :> C(Tag, 1, b, To(b, 1), Recs(r[2]))
                       @@ X :> C(Tag, 1, x, To(x, 2), Recs(r[3]))) :
       a \in Links, b \in Links, x \in Links, r \in [1..3 -> BOOLEAN]}

\* Records: odd sizes, a size below the header's, past the end, too small.
Layouts ==
    {Full(Tag), 0 :> R("ODD", 6) @@ 8 :> Stat(8, Tag), 0 :> R("ODD", 3) @@ 4 :> Stat(8, Tag),
     0 :> R("ODD", 21), 16 :> R("ATTR", 8), 0 :> R("ODD", 16) @@ 16 :> Stat(12, Tag),
     0 :> R("ATTR", 6) @@ 8 :> R("ATTR", 8), 0 :> R("ODD", 16) @@ 16 :> R("UNDEL", 8)}
Records ==
    {D(s, Two, All, A :> C(Tag, 1, {X}, 2, a) @@ X :> C(Tag, 1, {}, 0, x)) :
       s \in {Slot0(k, A) : k \in {"live", "dead", "free", "unreadable"}}, a \in Layouts, x \in Layouts}

ChainReqs == {[op |-> o, tag |-> Tag, set |-> 1, check |-> "none"] :
                o \in {"stat", "file", "dir", "undel", "fsext", "fsattr"}}

-----------------------------------------------------------------------------
\* Scans: the file's two mcells, one of its tag in another fileset, one of an
\* earlier file with its tag, on whole, unterminated, long and empty maps.
Maps == {Ends(3), <<[bs_page |-> 0, term |-> FALSE]>>, Ends(9), <<>>,
         <<[bs_page |-> 0, term |-> FALSE], [bs_page |-> 1, term |-> FALSE]>>}
Scans ==
    {D(Slot0(k, p), w, All \ g,
       p :> C(Tag, 1, {q}, To({q}, p.vd), Full(Tag)) @@ q :> C(Tag, 1, {}, 0, <<>>)
       @@ L(1, 1, 0) :> C(Tag, 2, {}, 0, Full(Tag)) @@ o :> C(Old, 1, {}, 0, Full(Old))
       @@ L(1, 0, 0) :> C(Other, 1, {}, 0, Full(Other))) :
       k \in {"live", "free", "unreadable"}, p \in {L(1, 2, 0), L(2, 1, 0)},
       q \in {L(1, 0, 1), L(2, 0, 1)}, o \in {L(1, 1, 1), L(2, 1, 1)}, g \in {{}, {<<1, 1>>}, {<<2, 1>>}},
       w \in {<<[vd |-> 1, map |-> m], [vd |-> 2, map |-> Ends(2)]>> : m \in Maps}
             \cup {<<[vd |-> 2, map |-> Ends(2)], [vd |-> 1, map |-> Ends(3)]>>}}
Misses ==
    {D(Slot0("free", A), <<[vd |-> 1, map |-> m]>>, All, l :> C(Tag, 1, {}, 0, Full(Tag))) :
       m \in Maps, l \in {L(p[1], p[2], 1) : p \in All}}

ScanReqs == {[op |-> "stat", tag |-> t, set |-> 1, check |-> c] :
               t \in {Tag, Old}, c \in {"none", "num", "strict"}}

\* Which requests are made of which disks.
mcDisks == Chains \cup Records \cup Scans \cup Misses
mcRequests == ChainReqs \cup ScanReqs
=============================================================================
