------------------------------ MODULE FileReads ------------------------------
(***************************************************************************)
(* What the FUSE read operation promises its callers: a call on a file     *)
(* ends with the requested slice of that file or with an error, and no     *)
(* call is running when the mount goes away.  There is no cache, no lock   *)
(* and no buffer here; FuseCache implements this specification.            *)
(***************************************************************************)
EXTENDS Integers, Sequences

CONSTANTS Threads, Tags, File, Offsets, Sizes, NULL

VARIABLES
    busy,       \* the threads inside a read call
    req,        \* the arguments of each thread's last call
    ret,        \* its outcome
    mounted

vars == <<busy, req, ret, mounted>>

Failed == [status |-> "err", bytes |-> <<>>]
Pending == [status |-> "none", bytes |-> <<>>]

\* The bytes of the file at off .. off+size-1 that exist.
Slice(tag, off, size) ==
    LET end == Len(File[tag]) IN
    SubSeq(File[tag], off + 1, IF off + size <= end THEN off + size ELSE end)

Init ==
    /\ busy = {}
    /\ req = [t \in Threads |-> NULL]
    /\ ret = [t \in Threads |-> Pending]
    /\ mounted = TRUE

Call(t, tag, off, size) ==
    /\ mounted /\ t \notin busy /\ off >= 0
    /\ busy' = busy \cup {t}
    /\ req' = [req EXCEPT ![t] = [tag |-> tag, off |-> off, size |-> size]]
    /\ ret' = [ret EXCEPT ![t] = Pending]
    /\ UNCHANGED mounted

Refuse(t) ==
    /\ mounted /\ t \notin busy
    /\ req' = [req EXCEPT ![t] = NULL]
    /\ ret' = [ret EXCEPT ![t] = Failed]
    /\ UNCHANGED <<busy, mounted>>

\* The outcome is decided, once: the slice asked for, or an error.
Serve(t) ==
    /\ t \in busy /\ ret[t] = Pending
    /\ \/ ret' = [ret EXCEPT ![t] =
                    [status |-> "ok",
                     bytes  |-> Slice(req[t].tag, req[t].off, req[t].size)]]
       \/ ret' = [ret EXCEPT ![t] = Failed]
    /\ UNCHANGED <<busy, req, mounted>>

Finish(t) ==
    /\ t \in busy /\ ret[t] # Pending
    /\ busy' = busy \ {t}
    /\ UNCHANGED <<req, ret, mounted>>

Unmount ==
    /\ mounted /\ busy = {}
    /\ mounted' = FALSE
    /\ UNCHANGED <<busy, req, ret>>

Next ==
    \/ \E t \in Threads, tag \in Tags, off \in Offsets, size \in Sizes :
         Call(t, tag, off, size)
    \/ \E t \in Threads : Refuse(t) \/ Serve(t) \/ Finish(t)
    \/ Unmount

Spec == Init /\ [][Next]_vars
=============================================================================
