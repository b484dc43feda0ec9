---------------------------- MODULE CommandLine -----------------------------
(***************************************************************************)
(* How the two programs take their command lines apart (main of main.c and *)
(* of advfs_tool.c).  A command line is the sequence of the arguments      *)
(* after the program's name.                                               *)
(***************************************************************************)
EXTENDS Naturals, Sequences

CONSTANTS
    Flags,          \* arguments that start with '-', "-o" and "-h" among them
    Letters,        \* a..p
    Numbers,        \* valid values of --offset
    RegularFiles,   \* arguments that name regular files
    MaxVds,         \* ADVFS_MAX_DOM_VDS
    MaxArgs         \* capacity of the tool's argument list

ASSUME LineAssumption == MaxVds \in Nat \ {0} /\ MaxArgs \in Nat /\ {"-o", "-h"} \subseteq Flags

(***************************************************************************)
(* The options both programs extract, with the arguments that remain: the  *)
(* last of several equal options wins, and an option at the end of the     *)
(* line or --offset with no valid number is an error.  The tool also takes *)
(* out -r, checks every --partition letter as it comes and has room for    *)
(* MaxArgs arguments.                                                      *)
(***************************************************************************)
ValueOptions == {"--fileset", "--partition", "--offset"}
Recursive == {"-r", "--recursive"}
NoOptions == [filt |-> <<>>, fileset |-> {}, partition |-> {}, offset |-> FALSE,
              recursive |-> FALSE, err |-> FALSE]

Extract(argv, tool) ==
    LET n == Len(argv)
        last(old, x) == IF old = {} THEN {x} ELSE old
        f[i \in 1..n + 2] ==
          IF i > n THEN NoOptions
          ELSE IF tool /\ argv[i] \in Recursive THEN [f[i + 1] EXCEPT !.recursive = TRUE]
          ELSE IF argv[i] \notin ValueOptions THEN [f[i + 1] EXCEPT !.filt = <<argv[i]>> \o @]
          ELSE IF i = n THEN [NoOptions EXCEPT !.err = TRUE]
          ELSE LET r == f[i + 2]
                   x == argv[i + 1]
               IN  CASE argv[i] = "--fileset" -> [r EXCEPT !.fileset = last(@, x)]
                     [] argv[i] = "--partition" -> [r EXCEPT !.partition = last(@, x),
                                                             !.err = @ \/ (tool /\ x \notin Letters)]
                     [] argv[i] = "--offset" -> [r EXCEPT !.offset = TRUE, !.err = @ \/ x \notin Numbers]
        r == f[1]
    IN  IF tool /\ Len(r.filt) > MaxArgs THEN [r EXCEPT !.filt = SubSeq(@, 1, MaxArgs)] ELSE r

\* --partition wants one letter and excludes --offset.
BadPartition(r) == r.partition # {} /\ (r.offset \/ ~(r.partition \subseteq Letters))

-----------------------------------------------------------------------------
\* Mutant of Mountpoint: the value of -o is not passed over.
MountpointLast(filt) ==
    LET b[i \in 0..Len(filt)] == IF i = 0 \/ filt[i] \notin Flags THEN i ELSE b[i - 1]
    IN  b[Len(filt)]

\* Position of the mountpoint, 0 if there is none: backward past flags and
\* past the value of -o together with its -o.
Mountpoint(filt) ==
    LET b[i \in 0..Len(filt)] ==
          IF i = 0 THEN 0
          ELSE IF filt[i] \in Flags THEN b[i - 1]
          ELSE IF i > 1 /\ filt[i - 1] = "-o" THEN b[i - 2] ELSE i
    IN  b[Len(filt)]

\* The arguments of s that are no flags, in order.
NonFlags(s) ==
    LET v[i \in 0..Len(s)] ==
          IF i = 0 THEN <<>> ELSE IF s[i] \in Flags THEN v[i - 1] ELSE Append(v[i - 1], s[i])
    IN  v[Len(s)]

\* What a program makes of its line: whether it goes on, the volumes, the
\* fileset and the partition asked for, and what it passes to FUSE.
Refused == [ok |-> FALSE, cmd |-> "none", vds |-> <<>>, fileset |-> {}, partition |-> {}, rest |-> <<>>]
Accepted(cmd, r, vds, rest) ==
    [ok |-> TRUE, cmd |-> cmd, vds |-> vds, fileset |-> r.fileset, partition |-> r.partition, rest |-> rest]

FuseLine(argv) ==
    LET r   == Extract(argv, FALSE)
        mp  == Mountpoint(r.filt)
        vds == NonFlags(SubSeq(r.filt, 1, mp - 1))
    IN  IF r.err \/ mp = 0 \/ Len(vds) \notin 1..MaxVds \/ BadPartition(r) THEN Refused
        ELSE Accepted("fuse", r, vds, SubSeq(r.filt, mp, Len(r.filt)))

\* The tool's mode comes first.  --list takes the files at the left as
\* volumes; the first argument that is no file is the path.
LeadingFiles(s) ==
    LET others == {i \in 1..Len(s) : s[i] \notin RegularFiles}
    IN  IF others = {} THEN s ELSE SubSeq(s, 1, (CHOOSE i \in others : \A j \in others : i <= j) - 1)

Modes == {"--info", "--scan-deleted", "--list"}

ToolLine(argv) ==
    LET r    == Extract(Tail(argv), TRUE)
        list == argv[1] = "--list"
        cmd  == IF list THEN IF r.recursive THEN "count" ELSE "list"
                ELSE IF argv[1] = "--info" THEN "info" ELSE "scan"
        vds  == IF list THEN LeadingFiles(r.filt) ELSE r.filt
    IN  IF argv[1] \notin Modes \/ r.err \/ BadPartition(r) \/ vds = <<>> THEN Refused
        ELSE Accepted(cmd, r, vds, SubSeq(r.filt, Len(vds) + 1, Len(r.filt)))
=============================================================================
