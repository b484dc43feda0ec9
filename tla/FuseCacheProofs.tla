-------------------------- MODULE FuseCacheProofs --------------------------
(***************************************************************************)
(* Proofs about FuseCache for any number of threads, any files and any     *)
(* heap: the inductive invariant, the safety properties the runs check,    *)
(* and that the cached reader implements FileReads.                        *)
(***************************************************************************)
EXTENDS FuseCache, SequenceTheorems, TLAPS

\* cache_lock is owned by exactly the thread between lock and unlock.
Mutex == \A t \in Threads : pc[t] \in InCS <=> cache_lock = t

\* A thread past ReadEnter has its arguments.
HasRequest == \A t \in Threads : pc[t] # "idle" => req[t] \in Requests

\* Thread t has a buffer of its own that holds the file it was asked for.
Loaded(t) == data[t] \in Bufs /\ heap[data[t]] = File[req[t].tag]

\* What holds at each point of the critical section.
Phase(t) ==
    /\ pc[t] \in PC \ {"idle", "unlock"} => ret[t] = Pending
    /\ pc[t] \in {"check", "load"} => CacheWhole
    /\ pc[t] = "load" => ~CacheHit(t)
    /\ pc[t] = "free" => CacheWhole /\ Loaded(t) /\ data[t] # cache_buf
    /\ pc[t] = "setbuf" => /\ Loaded(t) /\ data[t] # cache_buf
                           /\ cache_buf # NULL => heap[cache_buf] = Freed
    /\ pc[t] = "setsize" => Loaded(t) /\ cache_buf = data[t]
    /\ pc[t] = "settag" => /\ Loaded(t) /\ cache_buf = data[t]
                           /\ cache_size = Len(File[req[t].tag])
    /\ pc[t] = "copy" => CacheWhole /\ CacheHit(t)
    /\ pc[t] = "unlock" => /\ CacheWhole /\ ret[t] # Pending
                           /\ ret[t].status = "err" => ~CacheHit(t)

IInv ==
    /\ TypeOK
    /\ Mutex
    /\ HasRequest
    /\ UnlockedIsWhole
    /\ \A t \in Threads : Phase(t)
    /\ NoLeak
    /\ ReadsOwnFile

-----------------------------------------------------------------------------
\* The initial state of advfs_fuse_ctx_init_cache satisfies the invariant.
LEMMA InitInv == Init => IInv
BY ThreadsAssumption, HeapAssumption
   DEF Init, IInv, TypeOK, Mutex, HasRequest, UnlockedIsWhole, CacheWhole,
       Phase, NoLeak, ReadsOwnFile, PC, InCS, Results, Pending

\* The invariant is preserved by the entry into advfs_op_read.
LEMMA ReadEnterInv ==
  ASSUME IInv, NEW t \in Threads, NEW tag \in Tags, NEW off \in Offsets,
         NEW size \in Sizes, ReadEnter(t, tag, off, size)
  PROVE  IInv'
<1> USE ThreadsAssumption, TagsAssumption, FileAssumption, BufsAssumption,
        HeapAssumption DEF IInv, ReadEnter, Goto, cache, thread
<1>1. TypeOK'
  BY RequestAssumption DEF TypeOK, PC, InCS, Requests, Results, Failed, Pending
<1>2. Mutex'
  BY RequestAssumption DEF Mutex, TypeOK, PC, InCS
<1>3. HasRequest'
  BY RequestAssumption DEF HasRequest, TypeOK, Mutex, InCS, Requests
<1>4. UnlockedIsWhole'
  BY RequestAssumption DEF UnlockedIsWhole, CacheWhole, TypeOK, Mutex, InCS
<1>5. (\A u \in Threads : Phase(u))'
  BY RequestAssumption DEF Phase, CacheWhole, CacheHit, Loaded, TypeOK, Mutex, InCS, PC,
         Failed, Pending
<1>6. NoLeak'
  BY RequestAssumption DEF NoLeak, TypeOK, Mutex, InCS
<1>7. ReadsOwnFile'
  BY RequestAssumption DEF ReadsOwnFile, TypeOK, Failed, Pending
<1> QED BY <1>1, <1>2, <1>3, <1>4, <1>5, <1>6, <1>7

\* The invariant is preserved by a refused call.
LEMMA ReadRefusedInv ==
  ASSUME IInv, NEW t \in Threads, ReadRefused(t)
  PROVE  IInv'
<1> USE ThreadsAssumption, TagsAssumption, FileAssumption, BufsAssumption,
        HeapAssumption DEF IInv, ReadRefused, Goto, cache, thread
<1>1. TypeOK'
  BY DEF TypeOK, PC, InCS, Requests, Results, Failed, Pending
<1>2. Mutex'
  BY DEF Mutex, TypeOK, PC, InCS
<1>3. HasRequest'
  BY DEF HasRequest, TypeOK, Mutex, InCS, Requests
<1>4. UnlockedIsWhole'
  BY DEF UnlockedIsWhole, CacheWhole, TypeOK, Mutex, InCS
<1>5. (\A u \in Threads : Phase(u))'
  BY DEF Phase, CacheWhole, CacheHit, Loaded, TypeOK, Mutex, InCS, PC,
         Failed, Pending
<1>6. NoLeak'
  BY DEF NoLeak, TypeOK, Mutex, InCS
<1>7. ReadsOwnFile'
  BY DEF ReadsOwnFile, TypeOK, Failed, Pending
<1> QED BY <1>1, <1>2, <1>3, <1>4, <1>5, <1>6, <1>7

\* The invariant is preserved by pthread_mutex_lock.
LEMMA LockInv ==
  ASSUME IInv, NEW t \in Threads, Lock(t)
  PROVE  IInv'
<1> USE ThreadsAssumption, TagsAssumption, FileAssumption, BufsAssumption,
        HeapAssumption DEF IInv, Lock, Goto, cache, thread
<1>1. TypeOK'
  BY DEF TypeOK, PC, InCS, Requests, Results, Failed, Pending
<1>2. Mutex'
  BY DEF Mutex, TypeOK, PC, InCS
<1>3. HasRequest'
  BY DEF HasRequest, TypeOK, Mutex, InCS, Requests
<1>4. UnlockedIsWhole'
  BY DEF UnlockedIsWhole, CacheWhole, TypeOK, Mutex, InCS
<1>5. (\A u \in Threads : Phase(u))'
  BY DEF Phase, CacheWhole, CacheHit, Loaded, TypeOK, Mutex, InCS, PC,
         Failed, Pending, UnlockedIsWhole
<1>6. NoLeak'
  BY DEF NoLeak, TypeOK, Mutex, InCS
<1>7. ReadsOwnFile'
  BY DEF ReadsOwnFile, TypeOK, Failed, Pending
<1> QED BY <1>1, <1>2, <1>3, <1>4, <1>5, <1>6, <1>7

\* The invariant is preserved by the hit test.
LEMMA CheckInv ==
  ASSUME IInv, NEW t \in Threads, Check(t)
  PROVE  IInv'
<1> USE ThreadsAssumption, TagsAssumption, FileAssumption, BufsAssumption,
        HeapAssumption DEF IInv, Check, Goto, cache, thread
<1>1. TypeOK'
  BY DEF TypeOK, PC, InCS, Requests, Results, Failed, Pending
<1>2. Mutex'
  BY DEF Mutex, TypeOK, PC, InCS
<1>3. HasRequest'
  BY DEF HasRequest, TypeOK, Mutex, InCS, Requests
<1>4. UnlockedIsWhole'
  BY DEF UnlockedIsWhole, CacheWhole, TypeOK, Mutex, InCS
<1>5. (\A u \in Threads : Phase(u))'
  BY DEF Phase, CacheWhole, CacheHit, Loaded, TypeOK, Mutex, InCS, PC,
         Failed, Pending
<1>6. NoLeak'
  BY DEF NoLeak, TypeOK, Mutex, InCS
<1>7. ReadsOwnFile'
  BY DEF ReadsOwnFile, TypeOK, Failed, Pending
<1> QED BY <1>1, <1>2, <1>3, <1>4, <1>5, <1>6, <1>7

\* The invariant is preserved by a load that succeeds.
LEMMA LoadOkInv ==
  ASSUME IInv, NEW t \in Threads, LoadOk(t)
  PROVE  IInv'
<1> USE ThreadsAssumption, TagsAssumption, FileAssumption, BufsAssumption,
        HeapAssumption DEF IInv, LoadOk, Goto, cache, thread
<1>1. TypeOK'
  <2>1. PICK b \in Bufs : /\ heap' = [heap EXCEPT ![b] = File[req[t].tag]]
                          /\ data' = [data EXCEPT ![t] = b]
    OBVIOUS
  <2>2. File[req[t].tag] \in Seq(Byte)
    BY DEF HasRequest, Requests
  <2> QED BY <2>1, <2>2 DEF TypeOK, PC, InCS
<1>2. Mutex'
  BY DEF Mutex, TypeOK, PC, InCS
<1>3. HasRequest'
  BY DEF HasRequest, TypeOK, Mutex, InCS, Requests
<1>4. UnlockedIsWhole'
  BY DEF UnlockedIsWhole, CacheWhole, TypeOK, Mutex, InCS
<1>5. (\A u \in Threads : Phase(u))'
  BY DEF Phase, CacheWhole, CacheHit, Loaded, TypeOK, Mutex, InCS, PC,
         Failed, Pending
<1>6. NoLeak'
  BY DEF NoLeak, TypeOK, Mutex, InCS
<1>7. ReadsOwnFile'
  BY DEF ReadsOwnFile, TypeOK, Failed, Pending
<1> QED BY <1>1, <1>2, <1>3, <1>4, <1>5, <1>6, <1>7

\* The invariant is preserved by a load that fails.
LEMMA LoadFailInv ==
  ASSUME IInv, NEW t \in Threads, LoadFail(t)
  PROVE  IInv'
<1> USE ThreadsAssumption, TagsAssumption, FileAssumption, BufsAssumption,
        HeapAssumption DEF IInv, LoadFail, Goto, cache, thread
<1>1. TypeOK'
  BY DEF TypeOK, PC, InCS, Requests, Results, Failed, Pending
<1>2. Mutex'
  BY DEF Mutex, TypeOK, PC, InCS
<1>3. HasRequest'
  BY DEF HasRequest, TypeOK, Mutex, InCS, Requests
<1>4. UnlockedIsWhole'
  BY DEF UnlockedIsWhole, CacheWhole, TypeOK, Mutex, InCS
<1>5. (\A u \in Threads : Phase(u))'
  BY DEF Phase, CacheWhole, CacheHit, Loaded, TypeOK, Mutex, InCS, PC,
         Failed, Pending
<1>6. NoLeak'
  BY DEF NoLeak, TypeOK, Mutex, InCS
<1>7. ReadsOwnFile'
  BY DEF ReadsOwnFile, TypeOK, Failed, Pending
<1> QED BY <1>1, <1>2, <1>3, <1>4, <1>5, <1>6, <1>7

\* The invariant is preserved by free of the old buffer.
LEMMA FreeOldInv ==
  ASSUME IInv, NEW t \in Threads, FreeOld(t)
  PROVE  IInv'
<1> USE ThreadsAssumption, TagsAssumption, FileAssumption, BufsAssumption,
        HeapAssumption DEF IInv, FreeOld, Goto, cache, thread
<1>1. TypeOK'
  BY DEF TypeOK, PC, InCS, Requests, Results, Failed, Pending, Free
<1>2. Mutex'
  BY DEF Mutex, TypeOK, PC, InCS
<1>3. HasRequest'
  BY DEF HasRequest, TypeOK, Mutex, InCS, Requests
<1>4. UnlockedIsWhole'
  BY DEF UnlockedIsWhole, CacheWhole, TypeOK, Mutex, InCS
<1>5. (\A u \in Threads : Phase(u))'
  BY DEF Phase, CacheWhole, CacheHit, Loaded, TypeOK, Mutex, InCS, PC,
         Failed, Pending, Free
<1>6. NoLeak'
  BY DEF NoLeak, TypeOK, Mutex, InCS, Free, Phase, CacheWhole, Loaded
<1>7. ReadsOwnFile'
  BY DEF ReadsOwnFile, TypeOK, Failed, Pending
<1> QED BY <1>1, <1>2, <1>3, <1>4, <1>5, <1>6, <1>7

\* The invariant is preserved by the assignment of cache_buf.
LEMMA SetBufInv ==
  ASSUME IInv, NEW t \in Threads, SetBuf(t)
  PROVE  IInv'
<1> USE ThreadsAssumption, TagsAssumption, FileAssumption, BufsAssumption,
        HeapAssumption DEF IInv, SetBuf, Goto, cache, thread
<1>1. TypeOK'
  BY DEF TypeOK, PC, InCS, Requests, Results, Failed, Pending
<1>2. Mutex'
  BY DEF Mutex, TypeOK, PC, InCS
<1>3. HasRequest'
  BY DEF HasRequest, TypeOK, Mutex, InCS, Requests
<1>4. UnlockedIsWhole'
  BY DEF UnlockedIsWhole, CacheWhole, TypeOK, Mutex, InCS
<1>5. (\A u \in Threads : Phase(u))'
  BY DEF Phase, CacheWhole, CacheHit, Loaded, TypeOK, Mutex, InCS, PC,
         Failed, Pending
<1>6. NoLeak'
  BY DEF NoLeak, TypeOK, Mutex, InCS, Phase, Loaded
<1>7. ReadsOwnFile'
  BY DEF ReadsOwnFile, TypeOK, Failed, Pending
<1> QED BY <1>1, <1>2, <1>3, <1>4, <1>5, <1>6, <1>7

\* The invariant is preserved by the assignment of cache_size.
LEMMA SetSizeInv ==
  ASSUME IInv, NEW t \in Threads, SetSize(t)
  PROVE  IInv'
<1> USE ThreadsAssumption, TagsAssumption, FileAssumption, BufsAssumption,
        HeapAssumption DEF IInv, SetSize, Goto, cache, thread
<1>1. TypeOK'
  BY DEF TypeOK, PC, InCS, Requests, Results, Failed, Pending
<1>2. Mutex'
  BY DEF Mutex, TypeOK, PC, InCS
<1>3. HasRequest'
  BY DEF HasRequest, TypeOK, Mutex, InCS, Requests
<1>4. UnlockedIsWhole'
  BY DEF UnlockedIsWhole, CacheWhole, TypeOK, Mutex, InCS
<1>5. (\A u \in Threads : Phase(u))'
  BY DEF Phase, CacheWhole, CacheHit, Loaded, TypeOK, Mutex, InCS, PC,
         Failed, Pending
<1>6. NoLeak'
  BY DEF NoLeak, TypeOK, Mutex, InCS
<1>7. ReadsOwnFile'
  BY DEF ReadsOwnFile, TypeOK, Failed, Pending
<1> QED BY <1>1, <1>2, <1>3, <1>4, <1>5, <1>6, <1>7

\* The invariant is preserved by the assignment of cache_tag_num.
LEMMA SetTagInv ==
  ASSUME IInv, NEW t \in Threads, SetTag(t)
  PROVE  IInv'
<1> USE ThreadsAssumption, TagsAssumption, FileAssumption, BufsAssumption,
        HeapAssumption DEF IInv, SetTag, Goto, cache, thread
<1>1. TypeOK'
  BY DEF TypeOK, PC, InCS, Requests, Results, Failed, Pending, HasRequest
<1>2. Mutex'
  BY DEF Mutex, TypeOK, PC, InCS
<1>3. HasRequest'
  BY DEF HasRequest, TypeOK, Mutex, InCS, Requests
<1>4. UnlockedIsWhole'
  BY DEF UnlockedIsWhole, CacheWhole, TypeOK, Mutex, InCS
<1>5. (\A u \in Threads : Phase(u))'
  BY DEF Phase, CacheWhole, CacheHit, Loaded, TypeOK, Mutex, InCS, PC,
         Failed, Pending, HasRequest, Requests
<1>6. NoLeak'
  BY DEF NoLeak, TypeOK, Mutex, InCS
<1>7. ReadsOwnFile'
  BY DEF ReadsOwnFile, TypeOK, Failed, Pending
<1> QED BY <1>1, <1>2, <1>3, <1>4, <1>5, <1>6, <1>7

\* A slice of a file is a sequence of bytes.
LEMMA SliceType ==
  ASSUME NEW r \in Requests
  PROVE  FR!Slice(r.tag, r.off, r.size) \in Seq(Byte)
<1> DEFINE s == File[r.tag]
           e == IF r.off + r.size <= Len(s) THEN r.off + r.size ELSE Len(s)
<1>1. r.tag \in Tags /\ r.off \in Nat /\ r.size \in Nat
  BY RequestAssumption DEF Requests
<1>2. s \in Seq(Byte)
  BY <1>1, FileAssumption
<1>3. Len(s) \in Nat /\ e \in Int /\ e <= Len(s)
  BY <1>1, <1>2, LenProperties
<1>4. \A i \in (r.off + 1)..e : s[i] \in Byte
  BY <1>1, <1>2, <1>3, ElementOfSeq
<1>5. SubSeq(s, r.off + 1, e) \in Seq(Byte)
  BY <1>1, <1>3, <1>4, SubSeqProperties
<1> QED BY <1>5 DEF FR!Slice

\* The length copied, for a cached file of c bytes: what the caller asked for,
\* cut at the end of the file.
LEMMA CopyLenValue ==
  ASSUME NEW c \in Nat, NEW o \in Nat, NEW z \in Nat
  PROVE  LET n == CopyLen(c, o, z) IN
         /\ n \in Nat
         /\ n = 0 => o >= c \/ z = 0
         /\ n # 0 => /\ o < c /\ ~(o + n > c)
                     /\ o + n = IF o + z <= c THEN o + z ELSE c
<1>1. CASE o >= c
  <2>1. CopyLen(c, o, z) = 0
    BY <1>1 DEF CopyLen
  <2> QED BY <1>1, <2>1
<1>2. CASE o < c /\ z < c - o
  <2>1. CopyLen(c, o, z) = z
    BY <1>2 DEF CopyLen
  <2> QED BY <1>2, <2>1
<1>3. CASE o < c /\ ~(z < c - o)
  <2>1. CopyLen(c, o, z) = c - o
    BY <1>3 DEF CopyLen
  <2> QED BY <1>3, <2>1
<1> QED BY <1>1, <1>2, <1>3

\* Inside the cached file the copy is the slice the caller asked for.
LEMMA CopyIsSlice ==
  ASSUME TypeOK, NEW t \in Threads, CacheWhole, CacheHit(t), req[t] \in Requests
  PROVE  MemRead(cache_buf, req[t].off, CopyLen(cache_size, req[t].off, req[t].size))
           = FR!Slice(req[t].tag, req[t].off, req[t].size)
<1> DEFINE s == File[req[t].tag]
           off == req[t].off
           size == req[t].size
           n == CopyLen(Len(s), off, size)
<1>1. s \in Seq(Byte) /\ Len(s) \in Nat /\ off \in Nat /\ size \in Nat
  <2>1. req[t].tag \in Tags /\ off \in Nat /\ size \in Nat
    BY RequestAssumption DEF Requests
  <2>2. s \in Seq(Byte)
    BY <2>1, FileAssumption
  <2> QED BY <2>1, <2>2, LenProperties
<1>2. /\ cache_buf # NULL /\ cache_buf \in Bufs
      /\ heap[cache_buf] = s /\ cache_size = Len(s) /\ s # Freed
  BY <1>1, HeapAssumption DEF CacheWhole, CacheHit, TypeOK
<1>3. /\ n \in Nat
      /\ n = 0 => off >= Len(s) \/ size = 0
      /\ n # 0 => /\ off < Len(s) /\ ~(off + n > Len(s))
                  /\ off + n = IF off + size <= Len(s) THEN off + size ELSE Len(s)
  <2> HIDE DEF s, off, size
  <2> QED BY <1>1, CopyLenValue
<1>4. CASE n = 0
  <2>1. FR!Slice(req[t].tag, off, size) = <<>>
    <3> DEFINE e == IF off + size <= Len(s) THEN off + size ELSE Len(s)
    <3>1. e \in Int /\ e < off + 1
      <4> HIDE DEF s, off, size, n
      <4> QED BY <1>1, <1>3, <1>4
    <3>2. SubSeq(s, off + 1, e) = <<>>
      <4> HIDE DEF s, off, size, n, e
      <4> QED BY <1>1, <3>1, SubSeqEmpty
    <3> QED BY <3>2 DEF FR!Slice
  <2> QED BY <1>2, <1>4, <2>1 DEF MemRead
<1>5. CASE n # 0
  <2>2. MemRead(cache_buf, off, CopyLen(cache_size, off, size)) = SubSeq(s, off + 1, off + n)
    <3>1. CopyLen(cache_size, off, size) = n
      BY <1>2
    <3> HIDE DEF n, s, off, size
    <3>3. MemRead(cache_buf, off, n) = SubSeq(s, off + 1, off + n)
      BY <1>2, <1>3, <1>5 DEF MemRead
    <3> QED BY <3>1, <3>3
  <2> QED BY <1>3, <1>5, <2>2 DEF FR!Slice
<1> QED BY <1>4, <1>5

\* The invariant is preserved by the copy to the caller.
LEMMA CopyInv ==
  ASSUME IInv, NEW t \in Threads, Copy(t)
  PROVE  IInv'
<1> USE ThreadsAssumption, TagsAssumption, FileAssumption, BufsAssumption,
        HeapAssumption DEF IInv, Copy, Goto, cache, thread
<1>1. TypeOK'
  <2>1. FR!Slice(req[t].tag, req[t].off, req[t].size) \in Seq(Byte)
    BY SliceType DEF HasRequest, InCS
  <2>2. MemRead(cache_buf, req[t].off, CopyLen(cache_size, req[t].off, req[t].size))
          \in Seq(Byte)
    BY <2>1, CopyIsSlice DEF Phase, HasRequest
  <2> QED BY <2>2 DEF TypeOK, PC, InCS, Results
<1>2. Mutex'
  BY DEF Mutex, TypeOK, PC, InCS
<1>3. HasRequest'
  BY DEF HasRequest, TypeOK, Mutex, InCS, Requests
<1>4. UnlockedIsWhole'
  BY DEF UnlockedIsWhole, CacheWhole, TypeOK, Mutex, InCS
<1>5. (\A u \in Threads : Phase(u))'
  BY DEF Phase, CacheWhole, CacheHit, Loaded, TypeOK, Mutex, InCS, PC,
         Failed, Pending
<1>6. NoLeak'
  BY DEF NoLeak, TypeOK, Mutex, InCS
<1>7. ReadsOwnFile'
  <2>1. ret'[t].bytes = FR!Slice(req[t].tag, req[t].off, req[t].size)
    BY CopyIsSlice DEF Phase, HasRequest, TypeOK
  <2>2. \A u \in Threads : u # t => ret'[u] = ret[u]
    BY DEF TypeOK
  <2> QED BY <2>1, <2>2 DEF ReadsOwnFile, FR!Slice
<1> QED BY <1>1, <1>2, <1>3, <1>4, <1>5, <1>6, <1>7

\* The invariant is preserved by pthread_mutex_unlock.
LEMMA UnlockInv ==
  ASSUME IInv, NEW t \in Threads, Unlock(t)
  PROVE  IInv'
<1> USE ThreadsAssumption, TagsAssumption, FileAssumption, BufsAssumption,
        HeapAssumption DEF IInv, Unlock, Goto, cache, thread
<1>1. TypeOK'
  BY DEF TypeOK, PC, InCS, Requests, Results, Failed, Pending
<1>2. Mutex'
  BY DEF Mutex, TypeOK, PC, InCS
<1>3. HasRequest'
  BY DEF HasRequest, TypeOK, Mutex, InCS, Requests
<1>4. UnlockedIsWhole'
  BY DEF UnlockedIsWhole, CacheWhole, TypeOK, Mutex, InCS, Phase
<1>5. (\A u \in Threads : Phase(u))'
  BY DEF Phase, CacheWhole, CacheHit, Loaded, TypeOK, Mutex, InCS, PC,
         Failed, Pending
<1>6. NoLeak'
  BY DEF NoLeak, TypeOK, Mutex, InCS
<1>7. ReadsOwnFile'
  BY DEF ReadsOwnFile, TypeOK, Failed, Pending
<1> QED BY <1>1, <1>2, <1>3, <1>4, <1>5, <1>6, <1>7

\* The invariant is preserved by the teardown.
LEMMA DropCacheInv ==
  ASSUME IInv, DropCache
  PROVE  IInv'
<1> USE ThreadsAssumption, TagsAssumption, FileAssumption, BufsAssumption,
        HeapAssumption DEF IInv, DropCache, Goto, cache, thread
<1>1. TypeOK'
  BY DEF TypeOK, PC, InCS, Requests, Results, Failed, Pending, Free
<1>2. Mutex'
  BY DEF Mutex, TypeOK, PC, InCS
<1>3. HasRequest'
  BY DEF HasRequest, TypeOK, Mutex, InCS, Requests
<1>4. UnlockedIsWhole'
  BY DEF UnlockedIsWhole, CacheWhole, TypeOK, Mutex, InCS
<1>5. (\A u \in Threads : Phase(u))'
  BY DEF Phase, CacheWhole, CacheHit, Loaded, TypeOK, Mutex, InCS, PC,
         Failed, Pending, Free
<1>6. NoLeak'
  BY DEF NoLeak, TypeOK, Mutex, InCS, Free, UnlockedIsWhole, CacheWhole
<1>7. ReadsOwnFile'
  BY DEF ReadsOwnFile, TypeOK, Failed, Pending
<1> QED BY <1>1, <1>2, <1>3, <1>4, <1>5, <1>6, <1>7

\* Every step preserves the invariant.
LEMMA NextInv == IInv /\ [Next]_vars => IInv'
<1> SUFFICES ASSUME IInv, [Next]_vars PROVE IInv'
  OBVIOUS
<1>1. CASE UNCHANGED vars
  BY <1>1 DEF vars, IInv, TypeOK, Mutex, HasRequest, UnlockedIsWhole, CacheWhole,
              Phase, CacheHit, Loaded, NoLeak, ReadsOwnFile
<1>2. ASSUME NEW t \in Threads, NEW tag \in Tags, NEW off \in Offsets,
             NEW size \in Sizes, ReadEnter(t, tag, off, size)
      PROVE  IInv'
  BY <1>2, ReadEnterInv
<1>3. ASSUME NEW t \in Threads, ReadRefused(t) PROVE IInv'
  BY <1>3, ReadRefusedInv
<1>4. ASSUME NEW t \in Threads, Step(t) PROVE IInv'
  BY <1>4, LockInv, CheckInv, LoadOkInv, LoadFailInv, FreeOldInv, SetBufInv,
     SetSizeInv, SetTagInv, CopyInv, UnlockInv DEF Step
<1>5. CASE DropCache
  BY <1>5, DropCacheInv
<1>6. CASE Exited
  BY <1>6, <1>1 DEF Exited
<1> QED BY <1>1, <1>2, <1>3, <1>4, <1>5, <1>6 DEF Next

\* The inductive invariant holds of every behaviour of the read path.
THEOREM Invariance == Spec => []IInv
BY InitInv, NextInv, PTL DEF Spec

(***************************************************************************)
(* The cache fields and the locals of every reading thread always have     *)
(* their types (cache_file_locked, advfs_op_read).                         *)
(***************************************************************************)
THEOREM TypeCorrect == Spec => []TypeOK
<1>1. IInv => TypeOK
  BY DEF IInv
<1> QED BY <1>1, Invariance, PTL

(***************************************************************************)
(* A successful read returns the bytes of the file it named, for any       *)
(* number of threads sharing the one-entry cache.                          *)
(***************************************************************************)
THEOREM ReadCorrect == Spec => []ReadsOwnFile
<1>1. IInv => ReadsOwnFile
  BY DEF IInv
<1> QED BY <1>1, Invariance, PTL

(***************************************************************************)
(* The heap is never misused: no buffer is lost, none is freed twice, and  *)
(* the cache is whole whenever its lock is free.                           *)
(***************************************************************************)
THEOREM HeapSafety == Spec => [](HeapOwned /\ UnlockedIsWhole)
<1>1. IInv => NoLeak /\ UnlockedIsWhole
  BY DEF IInv
<1>2. IInv => NoDoubleFree
  BY FileAssumption, HeapAssumption
     DEF IInv, NoDoubleFree, UnlockedIsWhole, Phase, CacheWhole, TypeOK
<1>3. IInv => HeapOwned /\ UnlockedIsWhole
  BY <1>1, <1>2 DEF HeapOwned
<1> QED BY <1>3, Invariance, PTL

(***************************************************************************)
(* A read of the cached file never fails.                                  *)
(***************************************************************************)
THEOREM HitsSucceed == Spec => []FailsOnlyOnMiss
<1>1. IInv => FailsOnlyOnMiss
  BY DEF IInv, Phase, FailsOnlyOnMiss
<1> QED BY <1>1, Invariance, PTL

-----------------------------------------------------------------------------
\* The initial states of the cached reader are initial states of FileReads.
LEMMA InitRefines == Init => FR!Init
BY DEF Init, FR!Init, Pending, FR!Pending

\* A step of the cached reader is a step of FileReads or changes nothing there.
LEMMA NextRefines == IInv /\ [Next]_vars => [FR!Next]_FR!vars
<1> SUFFICES ASSUME IInv, [Next]_vars PROVE [FR!Next]_FR!vars
  OBVIOUS
<1> USE DEF Goto, cache, thread
<1>0. TypeOK
  BY DEF IInv
<1>1. CASE UNCHANGED vars
  BY <1>1 DEF vars, FR!vars
<1>2. ASSUME NEW t \in Threads, NEW tag \in Tags, NEW off \in Offsets,
             NEW size \in Sizes, ReadEnter(t, tag, off, size)
      PROVE  FR!Next
  <2>1. FR!Call(t, tag, off, size)
    BY <1>0, <1>2 DEF ReadEnter, FR!Call, TypeOK, Pending, FR!Pending
  <2> QED BY <2>1 DEF FR!Next
<1>3. ASSUME NEW t \in Threads, ReadRefused(t) PROVE FR!Next
  <2>1. FR!Refuse(t)
    BY <1>0, <1>3 DEF ReadRefused, FR!Refuse, TypeOK, Failed, FR!Failed
  <2> QED BY <2>1 DEF FR!Next
<1>4. ASSUME NEW t \in Threads,
             \/ Lock(t) \/ Check(t) \/ LoadOk(t) \/ FreeOld(t)
             \/ SetBuf(t) \/ SetSize(t) \/ SetTag(t)
      PROVE  UNCHANGED FR!vars
  BY <1>0, <1>4 DEF Lock, Check, LoadOk, FreeOld, SetBuf, SetSize, SetTag,
                    TypeOK, PC, InCS, FR!vars
<1>5. ASSUME NEW t \in Threads, LoadFail(t) PROVE FR!Next
  <2>1. FR!Serve(t)
    BY <1>0, <1>5 DEF IInv, Phase, LoadFail, FR!Serve, TypeOK, PC, InCS,
                      Failed, FR!Failed, Pending, FR!Pending
  <2> QED BY <2>1 DEF FR!Next
<1>6. ASSUME NEW t \in Threads, Copy(t) PROVE FR!Next
  <2>1. MemRead(cache_buf, req[t].off, CopyLen(cache_size, req[t].off, req[t].size))
          = FR!Slice(req[t].tag, req[t].off, req[t].size)
    BY <1>0, <1>6, CopyIsSlice DEF IInv, Phase, HasRequest, Copy
  <2>2. FR!Serve(t)
    BY <1>0, <1>6, <2>1 DEF IInv, Phase, Copy, FR!Serve, TypeOK, PC, InCS,
                            Pending, FR!Pending
  <2> QED BY <2>2 DEF FR!Next
<1>7. ASSUME NEW t \in Threads, Unlock(t) PROVE FR!Next
  <2>1. FR!Finish(t)
    BY <1>0, <1>7 DEF IInv, Phase, Unlock, FR!Finish, TypeOK, PC, InCS,
                      Pending, FR!Pending
  <2> QED BY <2>1 DEF FR!Next
<1>8. CASE DropCache
  <2>1. FR!Unmount
    BY <1>0, <1>8 DEF DropCache, FR!Unmount, TypeOK
  <2> QED BY <2>1 DEF FR!Next
<1>9. CASE Exited
  BY <1>9, <1>1 DEF Exited
<1> QED BY <1>1, <1>2, <1>3, <1>4, <1>5, <1>6, <1>7, <1>8, <1>9 DEF Next, Step

(***************************************************************************)
(* The cached, locked reader implements the atomic one: the cache cannot   *)
(* be seen by the callers of advfs_op_read.                                *)
(***************************************************************************)
THEOREM Refinement == Spec => ImplementsFileReads
BY InitRefines, NextRefines, Invariance, PTL DEF Spec, ImplementsFileReads, FR!Spec
=============================================================================
