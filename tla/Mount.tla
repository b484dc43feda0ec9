------------------------------- MODULE Mount --------------------------------
(***************************************************************************)
(* One run of either program: a mount (main of main.c) or a command of the *)
(* offline tool (cmd_info, cmd_scan_deleted, cmd_list, cmd_list_recursive  *)
(* of advfs_tool.c).  Both open the volumes and the domain, enumerate the  *)
(* filesets and choose among them; each step may fail, and then undoes     *)
(* what was done.                                                          *)
(***************************************************************************)
EXTENDS CommandLine, FiniteSets

CONSTANTS
    MaxFilesets,    \* ADVFS_MAX_FILESETS
    Cases           \* what may be run: [prog, argv, sets], with sets the
                    \* domain's filesets [name, clone] in enumeration order

ASSUME MountAssumption ==
    /\ MaxFilesets \in Nat \ {0}
    /\ Cases \subseteq [prog : {"fuse", "tool"}, argv : Seq(STRING),
                        sets : Seq([name : STRING, clone : BOOLEAN])]

VARIABLES
    pc, prog, argv, sets,
    line,           \* what the command line came to
    next,           \* position of the enumeration
    seen,           \* positions of the filesets handed to the callback
    pick,           \* position of the fileset in first.info, 0 for none
    found,          \* first.found
    list,           \* the tool's array of filesets: positions
    todo,           \* filesets the tool's command has still to visit
    visited, failed,    \* those it did, and those with no tag directory
    openCount,      \* opens of each volume
    closeCount,     \* closes of each volume
    held            \* what else is held: filt, domain, cache, fuse

input == <<prog, argv, sets>>
choice == <<next, seen, pick, found, list>>
work == <<todo, visited, failed>>
vars == <<pc, input, line, choice, work, openCount, closeCount, held>>

Vols == 1..Len(line.vds)
OpenVols == {v \in Vols : openCount[v] > closeCount[v]}
target == line.fileset

Init ==
    /\ \E c \in Cases : prog = c.prog /\ argv = c.argv /\ sets = c.sets
    /\ pc = "main" /\ line = Refused
    /\ next = 1 /\ seen = {} /\ pick = 0 /\ found = FALSE /\ list = <<>>
    /\ todo = <<>> /\ visited = {} /\ failed = {}
    /\ openCount = <<>> /\ closeCount = <<>> /\ held = {}

\* Close the volumes of S, release R and return.
Exit(S, R) ==
    /\ pc' = "exit" /\ held' = held \ R
    /\ closeCount' = [v \in Vols |-> closeCount[v] + (IF v \in S THEN 1 ELSE 0)]
    /\ UNCHANGED <<input, line, choice, work, openCount>>

-----------------------------------------------------------------------------
Help == argv # <<>> /\ argv[1] \in {"-h", "--help"}
TooFew == Len(argv) < IF prog = "fuse" THEN 2 ELSE 1

Usage == pc = "main" /\ (Help \/ TooFew) /\ Exit({}, {})

\* The mount's copy of the arguments is on the heap, or cannot be.
Parse ==
    /\ pc = "main" /\ ~Help /\ ~TooFew
    /\ line' = IF prog = "fuse" THEN FuseLine(argv) ELSE ToolLine(argv)
    /\ openCount' = [v \in 1..Len(line'.vds) |-> 0] /\ closeCount' = openCount'
    /\ pc' = "args" /\ held' = IF prog = "fuse" THEN {"filt"} ELSE {}
    /\ UNCHANGED <<input, choice, work>>

ParseFails == pc = "main" /\ prog = "fuse" /\ ~Help /\ ~TooFew /\ Exit({}, {})

BadLine ==
    /\ pc = "args" /\ (~line.ok \/ Len(line.vds) > MaxVds)
    /\ Exit({}, {"filt"})

\* advfs_volume_read_disklabel, which opens and closes the image on its own.
DisklabelFails == pc = "args" /\ line.partition # {} /\ Exit({}, {"filt"})

Start ==
    /\ pc = "args" /\ line.ok /\ Len(line.vds) <= MaxVds
    /\ pc' = "open"
    /\ UNCHANGED <<input, line, choice, work, openCount, closeCount, held>>

\* The volume opened next.
This == Cardinality({v \in Vols : openCount[v] > 0}) + 1

OpenVolume ==
    /\ pc = "open" /\ This \in Vols
    /\ openCount' = [openCount EXCEPT ![This] = @ + 1]
    /\ UNCHANGED <<pc, input, line, choice, work, closeCount, held>>

\* Mutant of OpenVolumeFails: the volumes before it stay open.
OpenVolumeFailsLeaks == pc = "open" /\ This \in Vols /\ Exit({}, {"filt"})

OpenVolumeFails == pc = "open" /\ This \in Vols /\ Exit(1..This - 1, {"filt"})

DomainFails == pc = "open" /\ This \notin Vols /\ Exit(Vols, {"filt"})

\* Mutant of DomainOpens: the domain is opened with the primary volume alone.
DomainOpensEarly ==
    /\ pc = "open" /\ This > 1
    /\ pc' = "list" /\ held' = held \cup {"domain"}
    /\ UNCHANGED <<input, line, choice, work, openCount, closeCount>>

DomainOpens ==
    /\ pc = "open" /\ This \notin Vols
    /\ pc' = "list" /\ held' = held \cup {"domain"}
    /\ UNCHANGED <<input, line, choice, work, openCount, closeCount>>

-----------------------------------------------------------------------------
Listing == pc = "list" /\ next <= Len(sets) /\ ~found
Enumerated == pc = "list" /\ (found \/ next > Len(sets))

\* first.info.name is not empty: a fileset has been remembered.
Remembered == pick # 0 /\ sets[pick].name # ""

\* Mutant of Capture: the clone remembered is the last one.
CaptureLast ==
    /\ Listing /\ prog = "fuse"
    /\ next' = next + 1 /\ seen' = seen \cup {next}
    /\ LET s == sets[next] IN
       IF target # {}
       THEN IF s.name \in target THEN pick' = next /\ found' = TRUE
            ELSE UNCHANGED <<pick, found>>
       ELSE pick' = next /\ found' = ~s.clone
    /\ UNCHANGED <<pc, input, line, list, work, openCount, closeCount, held>>

\* capture_first_fileset, for the next fileset; found stops the enumeration.
Capture ==
    /\ Listing /\ prog = "fuse"
    /\ next' = next + 1 /\ seen' = seen \cup {next}
    /\ LET s == sets[next] IN
       IF target # {}
       THEN IF s.name \in target THEN pick' = next /\ found' = TRUE
            ELSE UNCHANGED <<pick, found>>
       ELSE IF s.clone
       THEN pick' = (IF Remembered THEN pick ELSE next) /\ UNCHANGED found
       ELSE pick' = next /\ found' = TRUE
    /\ UNCHANGED <<pc, input, line, list, work, openCount, closeCount, held>>

\* collect_fileset_cb.
Collect ==
    /\ Listing /\ prog = "tool"
    /\ next' = next + 1 /\ seen' = seen \cup {next}
    /\ list' = IF Len(list) < MaxFilesets THEN Append(list, next) ELSE list
    /\ UNCHANGED <<pc, input, line, pick, found, work, openCount, closeCount, held>>

\* advfs_fileset_list: a directory page or an mcell that cannot be read costs
\* its filesets, without an error.
Skip ==
    /\ Listing
    /\ next' = next + 1
    /\ UNCHANGED <<pc, input, line, seen, pick, found, list, work, openCount, closeCount, held>>

\* The map of the set directory cannot be read.
ListFails == pc = "list" /\ next = 1 /\ Exit(Vols, {"domain", "filt"})

-----------------------------------------------------------------------------
\* The mount: nothing for the user, or on to the fileset's tag directory.
NoFileset == Enumerated /\ prog = "fuse" /\ ~Remembered /\ Exit(Vols, {"domain", "filt"})

Listed ==
    /\ Enumerated /\ prog = "fuse" /\ Remembered
    /\ pc' = "extents"
    /\ UNCHANGED <<input, line, choice, work, openCount, closeCount, held>>

TagExtentsFail == pc = "extents" /\ Exit(Vols, {"domain", "filt"})

\* The tag directory is resolved and the cache is initialised.
TagExtents ==
    /\ pc = "extents"
    /\ pc' = "fuse" /\ held' = held \cup {"cache"}
    /\ UNCHANGED <<input, line, choice, work, openCount, closeCount>>

ArgvFails == pc = "fuse" /\ Exit(Vols, {"cache", "domain", "filt"})

FuseMain ==
    /\ pc = "fuse"
    /\ pc' = "serve" /\ held' = held \cup {"fuse"}
    /\ UNCHANGED <<input, line, choice, work, openCount, closeCount>>

\* fuse_main returns, after an unmount or because it could not mount.
Teardown == pc = "serve" /\ Exit(Vols, {"fuse", "filt", "cache", "domain"})

-----------------------------------------------------------------------------
\* The tool: --info and --scan-deleted go through all filesets in a loop and
\* visit the ones they want, the former no clones and the latter the named
\* ones or, without a name, no clones; --list takes the first named one, or
\* the first original, or the first of all.
Looping == line.cmd \in {"info", "scan"}
NamedSet(p) == sets[p].name \in target
Original(p) == ~sets[p].clone
AnySet(p) == TRUE

Wanted(p) == IF line.cmd = "scan" /\ target # {} THEN NamedSet(p) ELSE Original(p)

Candidates ==
    LET all == 1..Len(list) IN
    IF target # {} THEN {i \in all : NamedSet(list[i])}
    ELSE IF \E i \in all : Original(list[i]) THEN {i \in all : Original(list[i])}
    ELSE all

\* No filesets, which --info reports as such, or none of that name.
Nothing == line.cmd # "info" /\ (list = <<>> \/ (target # {} /\ Candidates = {}))

NothingToDo == Enumerated /\ prog = "tool" /\ Nothing /\ Exit(Vols, {"domain"})

Chosen ==
    /\ Enumerated /\ prog = "tool" /\ ~Nothing
    /\ pc' = "work"
    /\ todo' = IF Looping THEN list
               ELSE <<list[CHOOSE i \in Candidates : \A j \in Candidates : i <= j]>>
    /\ UNCHANGED <<input, line, choice, visited, failed, openCount, closeCount, held>>

\* A fileset that the loop passes over.
Pass ==
    /\ pc = "work" /\ todo # <<>> /\ Looping /\ ~Wanted(Head(todo))
    /\ todo' = Tail(todo)
    /\ UNCHANGED <<pc, input, line, choice, visited, failed, openCount, closeCount, held>>

\* fs_ctx_open and the command's work on one fileset.
Visit ==
    /\ pc = "work" /\ todo # <<>> /\ (Looping => Wanted(Head(todo)))
    /\ todo' = Tail(todo) /\ visited' = visited \cup {Head(todo)}
    /\ UNCHANGED <<pc, input, line, choice, failed, openCount, closeCount, held>>

\* The fileset's tag directory cannot be resolved: the loops go on.
VisitFails ==
    /\ pc = "work" /\ todo # <<>> /\ (Looping => Wanted(Head(todo)))
    /\ failed' = failed \cup {Head(todo)} /\ todo' = Tail(todo)
    /\ IF Looping THEN UNCHANGED <<pc, closeCount, held>>
       ELSE /\ pc' = "exit" /\ held' = held \ {"domain"}
            /\ closeCount' = [v \in Vols |-> closeCount[v] + 1]
    /\ UNCHANGED <<input, line, choice, visited, openCount>>

ToolDone == pc = "work" /\ todo = <<>> /\ Exit(Vols, {"domain"})

Exited == pc = "exit" /\ UNCHANGED vars

Next ==
    \/ Usage \/ Parse \/ ParseFails \/ BadLine \/ DisklabelFails \/ Start
    \/ OpenVolume \/ OpenVolumeFails \/ DomainFails \/ DomainOpens
    \/ Capture \/ Collect \/ Skip \/ ListFails
    \/ NoFileset \/ Listed \/ TagExtentsFail \/ TagExtents \/ ArgvFails \/ FuseMain \/ Teardown
    \/ NothingToDo \/ Chosen \/ Pass \/ Visit \/ VisitFails \/ ToolDone \/ Exited

Spec == Init /\ [][Next]_vars

-----------------------------------------------------------------------------
\* Every way out of either program leaves no volume open and nothing else
\* held, and no volume is closed twice or without having been opened.
ReleasedOnce ==
    /\ \A v \in Vols : closeCount[v] <= openCount[v] /\ openCount[v] <= 1
    /\ pc = "exit" => OpenVols = {} /\ held = {}

\* While FUSE serves or the tool works, everything they reach is alive: the
\* domain, every volume a vd_index can lead to and, for FUSE, the cache.
ServesAlive ==
    /\ pc \in {"serve", "work"} => OpenVols = Vols /\ "domain" \in held
    /\ pc = "serve" => "cache" \in held

\* The first fileset of S that has P.
First(S, p, P(_)) == p \in S /\ P(p) /\ \A i \in S : i < p => ~P(i)

(***************************************************************************)
(* Both programs pick by one rule, of the filesets that could be read: the *)
(* first one with the name asked for, else the first original wherever it  *)
(* comes in the enumeration, else the first clone - for FUSE the first     *)
(* that has a name (capture_first_fileset).  The tool knows MaxFilesets of *)
(* them.  Its loops leave out none that they should visit: one that cannot *)
(* be opened does not cost the others.                                     *)
(***************************************************************************)
PicksFileset ==
    LET known     == {p \in seen : Cardinality({i \in seen : i <= p}) <= MaxFilesets}
        named(p)  == sets[p].name # ""
        Rule(S, p, P(_)) ==
          IF target # {} THEN First(S, p, NamedSet)
          ELSE First(S, p, Original) \/ (First(S, p, P) /\ ~\E i \in S : Original(i))
        scan == line.cmd = "scan" /\ target # {}
    IN  /\ pc \in {"extents", "fuse", "serve"} => Rule(seen, pick, named)
        /\ line.cmd \in {"list", "count"} => \A p \in visited \cup failed : Rule(known, p, AnySet)
        /\ line.cmd \in {"info", "scan"} /\ pc = "exit" /\ visited \cup failed # {} =>
             visited \cup failed = {p \in known : IF scan THEN NamedSet(p) ELSE Original(p)}

\* What each argument is to the mount: one of its options, the value of the
\* option before it, or an argument that it keeps.
Roles(a) ==
    LET role[i \in 0..Len(a)] ==
          IF i = 0 THEN "kept"
          ELSE IF role[i - 1] = "option" THEN "value"
          ELSE IF a[i] \in ValueOptions THEN "option" ELSE "kept"
    IN  role

\* The arguments that it keeps, in order.
Kept(a) ==
    LET kept[i \in 0..Len(a)] ==
          IF i = 0 THEN <<>> ELSE IF Roles(a)[i] = "kept" THEN Append(kept[i - 1], a[i]) ELSE kept[i - 1]
    IN  kept[Len(a)]

\* Positions of the words of a line: neither flags nor the value of -o.
WordsOf(args) == {i \in 1..Len(args) : args[i] \notin Flags /\ ~(i > 1 /\ args[i - 1] = "-o")}

(***************************************************************************)
(* The words of a command line are the arguments that are neither options  *)
(* of the program, nor flags, nor the value of the option before them.  On *)
(* a line in the documented order, FUSE options last, a mount opens all    *)
(* but the last word as volumes, in order, and FUSE is given exactly what  *)
(* follows them: no option's value is taken for a volume or the mountpoint *)
(* and no word is lost.                                                    *)
(***************************************************************************)
ArgsSplit ==
    prog = "fuse" /\ line.ok =>
      LET args  == Kept(argv)
          words == WordsOf(args)
          mp    == CHOOSE i \in words : \A j \in words : i >= j
      IN  (\A i \in 1..Len(args), j \in words : args[i] = "-o" => i > j) =>
            /\ Len(line.vds) = Cardinality(words) - 1
            /\ \A j \in words \ {mp} : line.vds[Cardinality({i \in words : i <= j})] = args[j]
            /\ line.rest = SubSeq(args, mp, Len(args))
=============================================================================
