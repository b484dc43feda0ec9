------------------------------ MODULE ToolWalk ------------------------------
(***************************************************************************)
(* The recursive commands of the offline tool (advfs_tool.c): --list -r    *)
(* resolves a path and counts what is below it (count_recursive), and      *)
(* --scan-deleted looks for deleted entries from the root on               *)
(* (scan_dir_deleted), on structures in which two entries may lead to one  *)
(* directory and directories may form a cycle.  The C call stack is the    *)
(* variable stack.                                                         *)
(***************************************************************************)
EXTENDS Namespace

CONSTANT MaxDepth       \* TOOL_MAX_DEPTH

ASSUME WalkAssumption == MaxDepth \in Nat

VARIABLES
    call,       \* directory the walk is called on, {} when none is
    stack,      \* frames: directory, the loop it is in and the entry to look at next
    visited,
    cnt,        \* rcount_t, scan_stats_t
    listed      \* how often each directory's entries were read

walkVars == <<call, stack, visited, cnt, listed>>
vars == <<pathVars, walkVars>>

Init ==
    /\ NamespaceInit
    /\ call = {} /\ stack = <<>> /\ visited = {}
    /\ cnt = [c \in {"reg", "lnk", "other", "dirs", "errors", "deleted", "recoverable"} |-> 0]
    /\ listed = [x \in Dirs |-> 0]

Scan == req.op = "scan"
Plus(c, f) == [c EXCEPT ![f] = @ + 1]
Top == stack[Len(stack)]

\* The depth of a call is the number of frames below it.
TooDeep == Len(stack) > MaxDepth

-----------------------------------------------------------------------------
\* --list -r of what its path led to; --scan-deleted of the root.
Begin ==
    /\ \/ Found /\ req.op = "count" /\ isDir
       \/ pc = "start" /\ Scan
    /\ pc' = "walking" /\ call' = {cur}
    /\ UNCHANGED <<tree, req, cur, isDir, i, attr, rows, answer, faults>>
    /\ UNCHANGED <<stack, visited, cnt, listed>>

NotDirectory ==
    /\ Found /\ req.op = "count" /\ ~isDir /\ Answered("ENOTDIR")
    /\ UNCHANGED <<rows, faults, walkVars>>

\* Mutant of Guarded: directories are not remembered.
GuardedNever(x) == TooDeep

\* The call returns at once: too deep or, in the count, seen before.
Guarded(x) == TooDeep \/ (~Scan /\ x \in visited)

\* The count counts an error, the scan goes on.
Missed == IF Scan THEN cnt ELSE Plus(cnt, "errors")

Walking == pc = "walking" /\ UNCHANGED <<tree, req, cur, isDir, i, attr, rows, answer>>

CallRefused(x) ==
    /\ Walking /\ call = {x} /\ Guarded(x)
    /\ call' = {} /\ cnt' = Missed
    /\ UNCHANGED <<pc, stack, visited, listed, faults>>

\* Mutant of CallFails: the error is not counted.
CallFailsSilently(x) ==
    /\ Walking /\ call = {x} /\ ~Guarded(x)
    /\ call' = {} /\ Fault
    /\ visited' \in {visited, visited \cup {x}}
    /\ UNCHANGED <<pc, stack, cnt, listed>>

\* The directory cannot be read, or there is no memory for the visited set.
CallFails(x) ==
    /\ Walking /\ call = {x} /\ ~Guarded(x)
    /\ call' = {} /\ cnt' = Missed
    /\ \/ /\ IF Unreadable(x) THEN UNCHANGED faults ELSE Fault
          /\ visited' = IF Scan THEN visited ELSE visited \cup {x}
       \/ ~Scan /\ Fault /\ UNCHANGED visited
    /\ UNCHANGED <<pc, stack, listed>>

\* read_dir_entries: the whole list is read before its first entry is looked
\* at.  The scan looks at the deleted entries first.
Call(x) ==
    /\ Walking /\ call = {x} /\ ~Guarded(x) /\ ~Unreadable(x)
    /\ call' = {} /\ visited' = IF Scan THEN visited ELSE visited \cup {x}
    /\ listed' = [listed EXCEPT ![x] = @ + 1]
    /\ stack' = Append(stack, [dir |-> x, loop |-> IF Scan THEN "dead" ELSE "live", k |-> 1])
    /\ UNCHANGED <<pc, cnt, faults>>

Entries == Read(Top.dir)

\* The next entry of the innermost call is e.
At(e) ==
    /\ Walking /\ call = {} /\ stack # <<>>
    /\ Top.k <= Len(Entries) /\ Entries[Top.k] = e
    /\ stack' = [stack EXCEPT ![Len(stack)].k = @ + 1]

IsDot(e) == e.name \in {".", ".."}

\* An entry the loop passes over: deleted ones while looking at live ones and
\* the other way round, "." and "..", and for the scan what is no directory.
PassedOver(e) ==
    IF Top.loop = "dead" THEN ~e.dead
    ELSE e.dead \/ IsDot(e) \/ (Scan /\ StatKind(e.to) # "dir")

Pass(e) ==
    /\ At(e) /\ PassedOver(e)
    /\ UNCHANGED <<pc, call, visited, cnt, listed, faults>>

\* print_deleted_row: the metadata may be gone.
Row(e) ==
    /\ At(e) /\ ~PassedOver(e) /\ Top.loop = "dead"
    /\ cnt' = IF StatKind(e.to) = "bad" THEN Plus(cnt, "deleted")
              ELSE Plus(Plus(cnt, "deleted"), "recoverable")
    /\ UNCHANGED <<pc, call, visited, listed, faults>>

IsSub(e) == Top.loop = "live" /\ StatKind(e.to) = "dir"

\* Mutant of Descend: a subdirectory that was visited is not called on.
DescendOnce(e) ==
    /\ At(e) /\ ~PassedOver(e) /\ IsSub(e)
    /\ cnt' = IF Scan THEN cnt ELSE Plus(cnt, "dirs")
    /\ call' = IF e.to \in visited THEN {} ELSE {e.to}
    /\ UNCHANGED <<pc, visited, listed, faults>>

Descend(e) ==
    /\ At(e) /\ ~PassedOver(e) /\ IsSub(e)
    /\ cnt' = IF Scan THEN cnt ELSE Plus(cnt, "dirs")
    /\ call' = {e.to}
    /\ UNCHANGED <<pc, visited, listed, faults>>

\* The path of an entry does not fit the buffer: no row, no descent.
PathTooLong(e) ==
    /\ At(e) /\ ~PassedOver(e) /\ (IsSub(e) \/ Top.loop = "dead")
    /\ cnt' = IF Scan THEN cnt ELSE Plus(Plus(cnt, "dirs"), "errors")
    /\ Fault
    /\ UNCHANGED <<pc, call, visited, listed>>

Count(e) ==
    /\ At(e) /\ ~PassedOver(e) /\ Top.loop = "live" /\ ~IsSub(e)
    /\ cnt' = Plus(cnt, IF StatKind(e.to) = "bad" THEN "errors" ELSE StatKind(e.to))
    /\ UNCHANGED <<pc, call, visited, listed, faults>>

\* The entry's stat fails on a disk error.
EntryFails(e) ==
    /\ At(e) /\ (IF Top.loop = "dead" THEN e.dead ELSE ~e.dead /\ ~IsDot(e))
    /\ cnt' = IF Top.loop = "dead" THEN Plus(cnt, "deleted") ELSE Missed
    /\ Fault
    /\ UNCHANGED <<pc, call, visited, listed>>

\* Mutant of EndLoop: the scan never gets to the subdirectories.
EndLoopReturns ==
    /\ Walking /\ call = {} /\ stack # <<>> /\ Top.k > Len(Entries)
    /\ stack' = SubSeq(stack, 1, Len(stack) - 1)
    /\ UNCHANGED <<pc, call, visited, cnt, listed, faults>>

\* The end of a loop: the scan's second one follows, or the call returns.
EndLoop ==
    /\ Walking /\ call = {} /\ stack # <<>> /\ Top.k > Len(Entries)
    /\ stack' = IF Top.loop = "dead"
                THEN [stack EXCEPT ![Len(stack)].loop = "live", ![Len(stack)].k = 1]
                ELSE SubSeq(stack, 1, Len(stack) - 1)
    /\ UNCHANGED <<pc, call, visited, cnt, listed, faults>>

\* The totals are printed.
Report ==
    /\ pc = "walking" /\ call = {} /\ stack = <<>>
    /\ Answered("ok")
    /\ UNCHANGED <<rows, faults, walkVars>>

Walk ==
    \/ \E x \in Dirs : CallRefused(x) \/ CallFails(x) \/ Call(x)
    \/ stack # <<>> /\ Top.k <= Len(Entries) /\
         LET e == Entries[Top.k] IN
         Pass(e) \/ Row(e) \/ Descend(e) \/ PathTooLong(e) \/ Count(e) \/ EntryFails(e)
    \/ EndLoop

Finished == pc = "answered" /\ UNCHANGED vars

Next ==
    \/ PathStep /\ UNCHANGED walkVars
    \/ Begin \/ NotDirectory \/ Walk \/ Report \/ Finished

Spec == Init /\ [][Next]_vars

-----------------------------------------------------------------------------
Done == pc = "answered" /\ answer = "ok"
Counted == Done /\ req.op = "count"

\* Entries of directory x that the walk looks at: live, and no dot entries.
Looked(x) == {k \in 1..Len(Read(x)) : ~Read(x)[k].dead /\ ~IsDot(Read(x)[k])}

\* Those of them that lead to a directory y.
LeadsTo(x, y) == {k \in Looked(x) : Read(x)[k].to = y /\ StatKind(y) = "dir"}

\* Directories that can be reached from the start of the walk.
Reachable ==
    LET r[n \in 0..Cardinality(Dirs)] ==
          IF n = 0 THEN {cur}
          ELSE r[n - 1] \cup {y \in Dirs : \E x \in r[n - 1] :
                                ~Unreadable(x) /\ LeadsTo(x, y) # {}}
    IN  r[Cardinality(Dirs)]

\* Entries of the directories of S whose stat says they are of kind k.
OfKind(S, k) ==
    Cardinality(UNION {{<<x, j>> : j \in {l \in Looked(x) : StatKind(Read(x)[l].to) = k}} : x \in S})

\* The count reads no directory twice, so counts no file twice, and neither
\* walk's C stack is deeper than TOOL_MAX_DEPTH allows, on any structure.
EachOnce ==
    /\ ~Scan => \A x \in Dirs : listed[x] <= 1
    /\ Len(stack) <= MaxDepth + 1

\* A count that reports no error has seen everything: whatever is skipped, for
\* depth, for a cycle, for a fault or for a bad tag, shows up in errors.
NothingMissedSilently ==
    Counted /\ cnt.errors = 0 =>
      /\ {x \in Dirs : listed[x] = 1} = Reachable
      /\ OfKind(Reachable, "bad") = 0 /\ faults = 0

\* On a structure within the depth limit the count is exact, and errors is
\* the number of bad tags, of directories that cannot be read and of entries
\* that lead back to a directory seen.
CountExact ==
    LET R == {x \in Reachable : ~Unreadable(x)} IN
    Counted /\ faults = 0 /\ Cardinality(Reachable) <= MaxDepth + 1 =>
      /\ \A k \in {"reg", "lnk", "other"} : cnt[k] = OfKind(R, k)
      /\ cnt.dirs = OfKind(R, "dir")
      /\ cnt.errors = OfKind(R, "bad") + Cardinality(Reachable \ R)
                      + cnt.dirs - (Cardinality(Reachable) - 1)

\* A step of a route: an entry, with the directory it is in.
Steps == UNION {{x} \X (1..Len(Read(x))) : x \in {y \in Dirs : ~Unreadable(y)}}
EntryAt(s) == Read(s[1])[s[2]]
LastOf(r) == EntryAt(r[Len(r)])

\* The routes of up to TOOL_MAX_DEPTH subdirectories from the root to a
\* deleted entry.
Routes ==
    {r \in UNION {[1..n -> Steps] : n \in 1..MaxDepth + 1} :
       /\ r[1][1] = Root /\ LastOf(r).dead
       /\ \A n \in 1..Len(r) - 1 : r[n][2] \in LeadsTo(r[n][1], r[n + 1][1])}

\* The scan prints a deleted entry once for each route to it, and counts it as
\* recoverable if its metadata is still there: exactly once in a sound tree,
\* but again and again where entries share a directory or form a cycle.
ScanRowsPerPath ==
    Done /\ Scan /\ faults = 0 =>
      /\ cnt.deleted = Cardinality(Routes)
      /\ cnt.recoverable = Cardinality({r \in Routes : StatKind(LastOf(r).to) # "bad"})
=============================================================================
