------------------------------ MODULE FuseCache ------------------------------
(***************************************************************************)
(* The read path of the FUSE layer (fuse_ops.c): a one-entry cache holding *)
(* the whole contents of the last file read, guarded by cache_lock, filled *)
(* field by field and dropped at teardown.                                 *)
(*                                                                         *)
(* main always passes "-s", so FUSE calls one read at a time: what can go  *)
(* wrong is the entry that loads, hits and failed loads leave to the next  *)
(* read.  The module keeps the mutex of the code and any number of         *)
(* threads, which has the behaviours of one thread among its own.          *)
(*                                                                         *)
(* Every memory access a thread makes between lock and unlock is a step of *)
(* its own.  The heap is explicit: a buffer is Freed or holds bytes, and   *)
(* malloc may hand out again an identifier that was freed, so dangling     *)
(* pointers and recycled addresses are states of the model.                *)
(***************************************************************************)
EXTENDS Integers, Sequences

CONSTANTS
    Threads,    \* threads that call advfs_op_read (the program has one)
    NoThread,   \* owner of an unlocked mutex
    Tags,       \* tag numbers of the fileset's files
    Byte,       \* byte values
    File,       \* File[tag]: what advfs_filedata_read_clone returns for tag
    Bufs,       \* identifiers malloc can return
    NULL,       \* the null pointer
    Freed,      \* contents of a buffer that is not allocated
    Garbage,    \* what a read of freed or foreign memory yields
    Offsets,    \* offsets a caller may ask for (off_t: may be negative)
    Sizes       \* sizes a caller may ask for

ASSUME ThreadsAssumption == NoThread \notin Threads
ASSUME TagsAssumption == Tags \subseteq Nat \ {0}
ASSUME FileAssumption == File \in [Tags -> Seq(Byte)]
ASSUME BufsAssumption == NULL \notin Bufs
ASSUME HeapAssumption == Freed \notin Seq(Byte) /\ Garbage \notin Seq(Byte)
ASSUME RequestAssumption == Offsets \subseteq Int /\ Sizes \subseteq Nat

VARIABLES
    cache_lock,     \* owner of ctx->cache_lock
    cache_tag_num,  \* ctx->cache_tag_num, 0 = empty
    cache_buf,      \* ctx->cache_buf
    cache_size,     \* ctx->cache_size
    heap,           \* contents of every buffer
    pc,             \* where each thread is in advfs_op_read
    req,            \* the arguments of its call
    data,           \* its local "data" in cache_file_locked
    ret,            \* the status and bytes of its last call
    mounted         \* fuse_main has not returned

vars == <<cache_lock, cache_tag_num, cache_buf, cache_size, heap,
          pc, req, data, ret, mounted>>
cache == <<cache_tag_num, cache_buf, cache_size>>
thread == <<req, data, ret>>

Requests == [tag : Tags, off : Offsets \cap Nat, size : Sizes]
Results == [status : {"none", "ok", "err"}, bytes : Seq(Byte) \cup {Garbage}]
Failed == [status |-> "err", bytes |-> <<>>]
Pending == [status |-> "none", bytes |-> <<>>]

\* The program counters between pthread_mutex_lock and pthread_mutex_unlock.
InCS == {"check", "load", "free", "setbuf", "setsize", "settag", "copy", "unlock"}
PC == InCS \cup {"idle", "lock"}

TypeOK ==
    /\ cache_lock \in Threads \cup {NoThread}
    /\ cache_tag_num \in Tags \cup {0}
    /\ cache_buf \in Bufs \cup {NULL}
    /\ cache_size \in Nat
    /\ heap \in [Bufs -> Seq(Byte) \cup {Freed}]
    /\ pc \in [Threads -> PC]
    /\ req \in [Threads -> Requests \cup {NULL}]
    /\ data \in [Threads -> Bufs \cup {NULL}]
    /\ ret \in [Threads -> Results]
    /\ mounted \in BOOLEAN

\* advfs_fuse_ctx_init_cache.
Init ==
    /\ cache_lock = NoThread
    /\ cache_tag_num = 0
    /\ cache_buf = NULL
    /\ cache_size = 0
    /\ heap = [b \in Bufs |-> Freed]
    /\ pc = [t \in Threads |-> "idle"]
    /\ req = [t \in Threads |-> NULL]
    /\ data = [t \in Threads |-> NULL]
    /\ ret = [t \in Threads |-> Pending]
    /\ mounted = TRUE

Goto(t, l) == pc' = [pc EXCEPT ![t] = l]

(***************************************************************************)
(* advfs_op_read up to the lock: the tag comes from fi->fh or from path    *)
(* resolution, which may fail; a negative offset is refused.               *)
(***************************************************************************)
ReadEnter(t, tag, off, size) ==
    /\ mounted /\ pc[t] = "idle"
    /\ off >= 0
    /\ req' = [req EXCEPT ![t] = [tag |-> tag, off |-> off, size |-> size]]
    /\ ret' = [ret EXCEPT ![t] = Pending]
    /\ Goto(t, "lock")
    /\ UNCHANGED <<cache_lock, cache, heap, data, mounted>>

\* -EINVAL for a negative offset, or the error of advfs_fuse_resolve_path.
ReadRefused(t) ==
    /\ mounted /\ pc[t] = "idle"
    /\ req' = [req EXCEPT ![t] = NULL]
    /\ ret' = [ret EXCEPT ![t] = Failed]
    /\ UNCHANGED <<cache_lock, cache, heap, pc, data, mounted>>

Lock(t) ==
    /\ pc[t] = "lock" /\ cache_lock = NoThread
    /\ cache_lock' = t
    /\ Goto(t, "check")
    /\ UNCHANGED <<cache, heap, thread, mounted>>

\* Mutant of CacheHit: any buffer will do.
CacheHitAnyTag(t) == cache_buf # NULL

\* cache_file_locked: is the file wanted the one in the cache?
CacheHit(t) == cache_tag_num = req[t].tag /\ cache_buf # NULL

Check(t) ==
    /\ pc[t] = "check"
    /\ Goto(t, IF CacheHit(t) THEN "copy" ELSE "load")
    /\ UNCHANGED <<cache_lock, cache, heap, thread, mounted>>

\* advfs_filedata_read_clone returns a fresh buffer holding the whole file...
LoadOk(t) ==
    /\ pc[t] = "load"
    /\ \E b \in Bufs :
         /\ heap[b] = Freed
         /\ heap' = [heap EXCEPT ![b] = File[req[t].tag]]
         /\ data' = [data EXCEPT ![t] = b]
    /\ Goto(t, "free")
    /\ UNCHANGED <<cache_lock, cache, req, ret, mounted>>

\* Mutant of LoadFail: the lock is kept on the error path.
LoadFailKeepsLock(t) ==
    /\ pc[t] = "load"
    /\ ret' = [ret EXCEPT ![t] = Failed]
    /\ Goto(t, "idle")
    /\ UNCHANGED <<cache_lock, cache, heap, req, data, mounted>>

\* Mutant of LoadFail: the old buffer was freed before the load was tried.
LoadFailAfterFree(t) ==
    /\ pc[t] = "load"
    /\ ret' = [ret EXCEPT ![t] = Failed]
    /\ heap' = IF cache_buf = NULL THEN heap ELSE [heap EXCEPT ![cache_buf] = Freed]
    /\ Goto(t, "unlock")
    /\ UNCHANGED <<cache_lock, cache, req, data, mounted>>

\* ... or an error (I/O, corrupt metadata, no memory), with nothing allocated.
LoadFail(t) ==
    /\ pc[t] = "load"
    /\ ret' = [ret EXCEPT ![t] = Failed]
    /\ Goto(t, "unlock")
    /\ UNCHANGED <<cache_lock, cache, heap, req, data, mounted>>

Free(b) == IF b = NULL THEN heap ELSE [heap EXCEPT ![b] = Freed]

\* Mutant of FreeOld: the old buffer is overwritten without being freed.
FreeOldForgotten(t) ==
    /\ pc[t] = "free"
    /\ Goto(t, "setbuf")
    /\ UNCHANGED <<cache_lock, cache, heap, thread, mounted>>

FreeOld(t) ==
    /\ pc[t] = "free"
    /\ heap' = Free(cache_buf)
    /\ Goto(t, "setbuf")
    /\ UNCHANGED <<cache_lock, cache, thread, mounted>>

SetBuf(t) ==
    /\ pc[t] = "setbuf"
    /\ cache_buf' = data[t]
    /\ Goto(t, "setsize")
    /\ UNCHANGED <<cache_lock, cache_tag_num, cache_size, heap, thread, mounted>>

\* The size reported by the file-data reader is the length of its buffer.
SetSize(t) ==
    /\ pc[t] = "setsize"
    /\ cache_size' = Len(File[req[t].tag])
    /\ Goto(t, "settag")
    /\ UNCHANGED <<cache_lock, cache_tag_num, cache_buf, heap, thread, mounted>>

SetTag(t) ==
    /\ pc[t] = "settag"
    /\ cache_tag_num' = req[t].tag
    /\ data' = [data EXCEPT ![t] = NULL]    \* the local goes out of scope
    /\ Goto(t, "copy")
    /\ UNCHANGED <<cache_lock, cache_buf, cache_size, heap, req, ret, mounted>>

\* Mutant of CopyLen: the end of the file does not limit the copy.
CopyLenUnclipped(csize, off, size) == IF off < csize THEN size ELSE 0

\* n = 0 at or past the end, else min(size, cache_size - offset).
CopyLen(csize, off, size) ==
    IF off < csize THEN (IF size < csize - off THEN size ELSE csize - off) ELSE 0

\* memcpy(dst, b + off, n); memory that is freed or out of b's bounds is garbage.
MemRead(b, off, n) ==
    IF n = 0 THEN <<>>
    ELSE IF b = NULL THEN Garbage
    ELSE IF heap[b] = Freed THEN Garbage
    ELSE IF off + n > Len(heap[b]) THEN Garbage
    ELSE SubSeq(heap[b], off + 1, off + n)

Copy(t) ==
    /\ pc[t] = "copy"
    /\ LET n == CopyLen(cache_size, req[t].off, req[t].size) IN
         ret' = [ret EXCEPT ![t] =
                    [status |-> "ok", bytes |-> MemRead(cache_buf, req[t].off, n)]]
    /\ Goto(t, "unlock")
    /\ UNCHANGED <<cache_lock, cache, heap, req, data, mounted>>

\* pthread_mutex_unlock and return.
Unlock(t) ==
    /\ pc[t] = "unlock"
    /\ cache_lock' = NoThread
    /\ Goto(t, "idle")
    /\ UNCHANGED <<cache, heap, thread, mounted>>

(***************************************************************************)
(* fuse_main returns once its workers are done; main then calls            *)
(* advfs_fuse_ctx_drop_cache, alone in the process.                        *)
(***************************************************************************)
DropCache ==
    /\ mounted /\ \A t \in Threads : pc[t] = "idle"
    /\ heap' = Free(cache_buf)
    /\ cache_buf' = NULL
    /\ cache_tag_num' = 0
    /\ cache_size' = 0
    /\ mounted' = FALSE
    /\ UNCHANGED <<cache_lock, pc, thread>>

\* The process has exited.
Exited == ~mounted /\ UNCHANGED vars

\* The steps a thread takes on its own once it is in advfs_op_read.
Step(t) ==
    \/ Lock(t) \/ Check(t) \/ LoadOk(t) \/ LoadFail(t) \/ FreeOld(t)
    \/ SetBuf(t) \/ SetSize(t) \/ SetTag(t) \/ Copy(t) \/ Unlock(t)

Next ==
    \/ \E t \in Threads, tag \in Tags, off \in Offsets, size \in Sizes :
         ReadEnter(t, tag, off, size)
    \/ \E t \in Threads : ReadRefused(t) \/ Step(t)
    \/ DropCache
    \/ Exited

Spec == Init /\ [][Next]_vars

(***************************************************************************)
(* Fairness: a thread that can run is run by the OS, and the call it makes *)
(* into the file-data reader returns.  Nobody promises that a thread       *)
(* queued on the (unfair) pthread mutex is ever the one chosen.            *)
(***************************************************************************)
FairSpec == Spec /\ \A t \in Threads : WF_vars(Step(t))

-----------------------------------------------------------------------------
(***************************************************************************)
(* The abstract specification, with the threads inside advfs_op_read as    *)
(* the busy ones.                                                          *)
(***************************************************************************)
FR == INSTANCE FileReads WITH busy <- {t \in Threads : pc[t] # "idle"}

(***************************************************************************)
(* The cache is invisible: seen from the callers, every read is served     *)
(* atomically from the file it names (advfs_op_read).                      *)
(***************************************************************************)
ImplementsFileReads == FR!Spec

(***************************************************************************)
(* A read that succeeds returns the bytes of the file it was asked for, at *)
(* the offset it was asked for, whatever other threads loaded into the     *)
(* shared cache in between (advfs_op_read, cache_file_locked).             *)
(***************************************************************************)
ReadsOwnFile ==
    \A t \in Threads :
      ret[t].status = "ok" =>
        ret[t].bytes = FR!Slice(req[t].tag, req[t].off, req[t].size)

(***************************************************************************)
(* Whenever the lock is free the cache is whole: empty, or a live buffer   *)
(* holding exactly the file its tag names, with that file's length.        *)
(***************************************************************************)
CacheWhole ==
    \/ cache_buf = NULL /\ cache_tag_num = 0 /\ cache_size = 0
    \/ /\ cache_buf # NULL /\ cache_tag_num \in Tags
       /\ heap[cache_buf] = File[cache_tag_num]
       /\ cache_size = Len(File[cache_tag_num])

UnlockedIsWhole == cache_lock = NoThread => CacheWhole

(***************************************************************************)
(* No buffer is lost: one that is allocated is the cached one or the one a *)
(* thread is about to install, and after teardown none is allocated.       *)
(***************************************************************************)
NoLeak ==
    \A b \in Bufs : heap[b] # Freed =>
      \/ cache_buf = b
      \/ \E t \in Threads : data[t] = b /\ pc[t] \in {"free", "setbuf"}

(***************************************************************************)
(* What FreeOld or DropCache is about to free is allocated, or is NULL.    *)
(***************************************************************************)
NoDoubleFree ==
    /\ cache_buf # NULL
    /\ (\E t \in Threads : pc[t] = "free") \/ cache_lock = NoThread
    => heap[cache_buf] # Freed

(***************************************************************************)
(* Every buffer has exactly one owner: none is leaked by cache_file_locked *)
(* or by advfs_fuse_ctx_drop_cache, and none is freed twice.               *)
(***************************************************************************)
HeapOwned == NoLeak /\ NoDoubleFree

(***************************************************************************)
(* A read fails only if its file could not be served from the cache: a     *)
(* failed load of one file never costs the reader of the cached one.       *)
(***************************************************************************)
FailsOnlyOnMiss ==
    \A t \in Threads :
      pc[t] = "unlock" /\ ret[t].status = "err" => CacheWhole /\ ~CacheHit(t)

(***************************************************************************)
(* As long as someone waits for the lock, some read completes: the cache   *)
(* never brings the mount to a halt (though the unfair mutex may pass the  *)
(* same thread over for ever).                                             *)
(***************************************************************************)
SomeReadCompletes ==
    (\E t \in Threads : pc[t] = "lock") ~> (\E t \in Threads : pc[t] = "unlock")
=============================================================================
