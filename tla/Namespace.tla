----------------------------- MODULE Namespace ------------------------------
(***************************************************************************)
(* Paths (fuse_ops.c, advfs_tool.c): how the mounted file system and the   *)
(* offline tool turn a path into a tag, and what getattr, readdir, open,   *)
(* readlink and --list make of it, on directories that may be damaged:     *)
(* names twice, entries without a FS_STAT record, directories that cannot  *)
(* be read, files whose data parses as directory entries.                  *)
(***************************************************************************)
EXTENDS Naturals, Sequences, FiniteSets

CONSTANTS
    Dirs,       \* directory tags
    Root,       \* ADVFS_ROOT_TAG_NUM, TOOL_ROOT_TAG
    Cases,      \* structures and what is asked of them: a set of [trees, reqs]
    MaxPath,    \* components of the longest path the buffers hold
    MaxFaults   \* bound: disk errors of one command

\* What is no directory: a file, a link, something else, and a tag without a
\* readable FS_STAT record.
Kinds == {"reg", "lnk", "other", "bad"}
Tags == Dirs \cup Kinds

(***************************************************************************)
(* A structure:                                                            *)
(*   own     each tag's entries as its own fileset has them, in order:     *)
(*           [name, to, dead]; those of a file are its data, parsed        *)
(*   merged  the same read with the clone fallback                         *)
(*   nostat  directories without a FS_STAT record                          *)
(*   broken  directories that cannot be read                               *)
(* A request: front, op, path, cap: names that fit the caller's buffer.    *)
(***************************************************************************)
Entry == [name : STRING, to : Tags, dead : BOOLEAN]
Trees == [own : [Tags -> Seq(Entry)], merged : [Tags -> Seq(Entry)],
          nostat : SUBSET Dirs, broken : SUBSET Dirs]
Requests ==
    [front : {"fuse"}, op : {"readdir", "readlink", "open", "openw", "statfs"},
     path : Seq(STRING), cap : Nat]
    \cup [front : {"tool"}, op : {"list", "count", "scan"}, path : Seq(STRING), cap : Nat]

ASSUME NamespaceAssumption ==
    /\ Root \in Dirs /\ IsFiniteSet(Dirs) /\ MaxPath \in Nat /\ MaxFaults \in Nat
    /\ \A c \in Cases : c.trees \subseteq Trees /\ c.reqs \subseteq Requests

VARIABLES
    tree, req,
    pc,
    cur,        \* tag resolved so far
    isDir,      \* is_dir of the tool
    i,          \* next component
    attr,       \* file type getattr answered, "none" before it did
    rows,       \* names handed out
    answer,     \* "ok" or an error
    faults

pathVars == <<tree, req, pc, cur, isDir, i, attr, rows, answer, faults>>

NamespaceInit ==
    /\ \E c \in Cases : tree \in c.trees /\ req \in c.reqs
    /\ pc = "start" /\ cur = Root /\ isDir = TRUE /\ i = 1
    /\ attr = "none" /\ rows = <<>> /\ answer = "none" /\ faults = 0

Fuse == req.front = "fuse"

\* FUSE looks a path up with getattr before any other operation on it.
Op == IF Fuse /\ attr = "none" THEN "getattr" ELSE req.op

Fault == faults < MaxFaults /\ faults' = faults + 1

StatKind(x) == IF x \notin Dirs THEN x ELSE IF x \in tree.nostat THEN "bad" ELSE "dir"

\* Entries of x as this program reads them: the mounted file system calls
\* advfs_dir_read, the tool the clone-aware reader.
Read(x) == IF Fuse THEN tree.own[x] ELSE tree.merged[x]
Live(x) ==
    LET s == Read(x)
        upto[k \in 0..Len(s)] ==
          IF k = 0 THEN <<>> ELSE IF s[k].dead THEN upto[k - 1] ELSE Append(upto[k - 1], s[k])
    IN  upto[Len(s)]
Unreadable(x) == x \in tree.broken

Answered(a) ==
    /\ pc' = "answered" /\ answer' = a
    /\ UNCHANGED <<tree, req, cur, isDir, i, attr>>

-----------------------------------------------------------------------------
\* What is answered before the path is looked at: {} or an error.
Early ==
    IF Op = "openw" THEN {"EROFS"}
    ELSE IF Op = "readlink" /\ req.cap = 0 THEN {"EINVAL"}
    ELSE IF Op = "statfs" THEN {"ok"}
    ELSE IF Len(req.path) > MaxPath THEN {"ENAMETOOLONG"}
    ELSE {}

Refuse ==
    /\ pc = "start" /\ \E a \in Early : Answered(a)
    /\ UNCHANGED <<rows, faults>>

Start ==
    /\ pc = "start" /\ Early = {} /\ Op # "scan"
    /\ pc' = "walk" /\ cur' = Root /\ isDir' = TRUE /\ i' = 1
    /\ UNCHANGED <<tree, req, attr, rows, answer, faults>>

\* Mutant of FirstNamed: the last entry of that name counts.
FirstNamedLast(x, n) ==
    LET s == Read(x)
        S == {k \in 1..Len(s) : ~s[k].dead /\ s[k].name = n}
    IN  {s[k].to : k \in {j \in S : \A l \in S : l <= j}}

\* lookup_cb, lookup_entry: the first live entry of directory x called n.
FirstNamed(x, n) ==
    LET s == Read(x)
        S == {k \in 1..Len(s) : ~s[k].dead /\ s[k].name = n}
    IN  {s[k].to : k \in {j \in S : \A l \in S : j <= l}}

\* Looking one component up in cur: {} or an error.
LookupError(n) ==
    IF Unreadable(cur) THEN {"EIO"} ELSE IF FirstNamed(cur, n) = {} THEN {"ENOENT"} ELSE {}

\* advfs_fuse_resolve_path: a component that is not the last one must be a
\* directory, or its data would be parsed as entries.
FuseComponent ==
    LET n == req.path[i] IN
    /\ Fuse /\ pc = "walk" /\ i <= Len(req.path)
    /\ \/ \E a \in LookupError(n) : Answered(a)
       \/ /\ LookupError(n) = {}
          /\ \E x \in FirstNamed(cur, n) :
               IF i < Len(req.path) /\ StatKind(x) # "dir"
               THEN Answered(IF StatKind(x) = "bad" THEN "ENODATA" ELSE "ENOTDIR")
               ELSE cur' = x /\ i' = i + 1 /\ UNCHANGED <<tree, req, pc, isDir, attr, answer>>
    /\ UNCHANGED <<rows, faults>>

\* cmd_list, cmd_list_recursive: "." is passed over, what cannot be statted
\* counts as no directory.
ToolComponent ==
    LET n == req.path[i] IN
    /\ ~Fuse /\ pc = "walk" /\ i <= Len(req.path)
    /\ IF n = "." THEN i' = i + 1 /\ UNCHANGED <<tree, req, pc, cur, isDir, attr, answer>>
       ELSE IF ~isDir THEN Answered("ENOTDIR")
       ELSE \/ \E a \in LookupError(n) : Answered(a)
            \/ /\ LookupError(n) = {}
               /\ \E x \in FirstNamed(cur, n) : cur' = x /\ isDir' = (StatKind(x) = "dir")
               /\ i' = i + 1 /\ UNCHANGED <<tree, req, pc, attr, answer>>
    /\ UNCHANGED <<rows, faults>>

\* A disk read fails below a lookup, or below the stat of an inner component.
ComponentFails ==
    /\ pc = "walk" /\ i <= Len(req.path)
    /\ \/ Fuse \/ (req.path[i] # "." /\ isDir)
    /\ Answered("EIO") /\ Fault
    /\ UNCHANGED rows

\* The tool's stat fails: the component is taken for no directory.
StatFails ==
    /\ ~Fuse /\ pc = "walk" /\ i <= Len(req.path) /\ req.path[i] # "." /\ isDir
    /\ LookupError(req.path[i]) = {}
    /\ cur' \in FirstNamed(cur, req.path[i]) /\ isDir' = FALSE /\ i' = i + 1
    /\ Fault
    /\ UNCHANGED <<tree, req, pc, attr, rows, answer>>

Found == pc = "walk" /\ i > Len(req.path)

-----------------------------------------------------------------------------
\* Attributes made up for an object without a FS_STAT record: a directory if
\* it is the root or has an entry, else an empty file.
Synthesized ==
    IF cur = Root \/ (~Unreadable(cur) /\ Live(cur) # <<>>) THEN "dir" ELSE "reg"

Got(k) ==
    /\ Found /\ Op = "getattr"
    /\ attr' = k /\ pc' = "start"
    /\ UNCHANGED <<tree, req, cur, isDir, i, rows, answer>>

Getattr ==
    Got(IF StatKind(cur) # "bad" THEN StatKind(cur) ELSE Synthesized) /\ UNCHANGED faults

\* Any failure to read the record is taken for its absence, and a directory
\* whose probe fails for a file.  One fault is a failed read in either, or both.
GetattrFails ==
    /\ \E k \in {Synthesized} \cup (IF cur = Root THEN {} ELSE {"reg"}) : Got(k)
    /\ Fault

\* Mutant of Dots: the directory's own . and .. are not noticed.
DotsAlways(names) == <<".", "..">>

\* The entries readdir supplies itself.
Dots(names) ==
    LET seen(n) == \E k \in 1..Len(names) : names[k] = n
    IN  (IF seen(".") THEN <<>> ELSE <<".">>) \o (IF seen("..") THEN <<>> ELSE <<"..">>)

\* What the filler takes: a full buffer ends the walk and leaves the dots out.
Listing(names) ==
    LET all == names \o Dots(names)
        fit == IF Len(all) < req.cap THEN Len(all) ELSE req.cap
    IN  SubSeq(all, 1, fit)

Names(s) == [k \in 1..Len(s) |-> s[k].name]

Readdir ==
    /\ Found /\ Op = "readdir"
    /\ IF StatKind(cur) \notin {"bad", "dir"} THEN Answered("ENOTDIR") /\ UNCHANGED rows
       ELSE IF Unreadable(cur) THEN Answered("EIO") /\ UNCHANGED rows
       ELSE Answered("ok") /\ rows' = Listing(Names(Live(cur)))
    /\ UNCHANGED faults

\* Mutant of Open: an object without FS_STAT cannot be opened.
OpenStrict ==
    /\ Found /\ Op = "open"
    /\ Answered(IF StatKind(cur) = "dir" THEN "EISDIR"
                ELSE IF StatKind(cur) = "bad" THEN "ENODATA" ELSE "ok")
    /\ UNCHANGED <<rows, faults>>

Open ==
    /\ Found /\ Op = "open"
    /\ Answered(IF StatKind(cur) = "dir" THEN "EISDIR" ELSE "ok")
    /\ UNCHANGED <<rows, faults>>

Readlink ==
    /\ Found /\ Op = "readlink"
    /\ Answered(IF StatKind(cur) = "bad" THEN "ENODATA"
                ELSE IF StatKind(cur) # "lnk" THEN "EINVAL" ELSE "ok")
    /\ UNCHANGED <<rows, faults>>

\* A disk read below one of these fails.  open and readdir go on without their
\* stat, so that readdir may parse a file's data as entries.
OpFails ==
    /\ Found /\ Fault
    /\ \/ Op \in {"readdir", "readlink"} /\ Answered("EIO") /\ UNCHANGED rows
       \/ Op = "open" /\ Answered("ok") /\ UNCHANGED rows
       \/ /\ Op = "readdir" /\ ~Unreadable(cur)
          /\ Answered("ok") /\ rows' = Listing(Names(Live(cur)))

LastName ==
    LET p == SelectSeq(req.path, LAMBDA n : n # ".") IN p[Len(p)]

\* cmd_list: one line for a file, or a line for each entry, deleted ones too.
List ==
    /\ Found /\ Op = "list"
    /\ IF ~isDir THEN Answered("ok") /\ rows' = <<LastName>>
       ELSE IF Unreadable(cur) THEN Answered("EIO") /\ UNCHANGED rows
       ELSE Answered("ok") /\ rows' = Names(Read(cur))
    /\ UNCHANGED faults

ListFails ==
    /\ Found /\ Op = "list" /\ isDir
    /\ Answered("EIO") /\ Fault
    /\ UNCHANGED rows

PathStep ==
    \/ Refuse \/ Start \/ FuseComponent \/ ToolComponent \/ ComponentFails \/ StatFails
    \/ Getattr \/ GetattrFails \/ Readdir \/ Open \/ Readlink \/ OpFails
    \/ List \/ ListFails

-----------------------------------------------------------------------------
\* Component k of the path is a name to look up: the tool ignores ".".
IsName(k) == Fuse \/ req.path[k] # "."

\* The first live entry called n of the readable directory x leads to y.
Leads(x, n, y) ==
    LET s == Read(x)
        First(k) == ~s[k].dead /\ \A j \in 1..k - 1 : s[j].dead \/ s[j].name # s[k].name
    IN  ~Unreadable(x) /\ \E k \in 1..Len(s) : First(k) /\ s[k].name = n /\ s[k].to = y

\* v is a chain of tags from the root along the first n components of the
\* path, and each name after the first is looked up in a known directory.
Chain(v, n) ==
    /\ v[0] = Root
    /\ \A k \in 1..n :
         IF ~IsName(k) THEN v[k] = v[k - 1]
         ELSE /\ Leads(v[k - 1], req.path[k], v[k])
              /\ (\E j \in 1..k - 1 : IsName(j)) => StatKind(v[k - 1]) = "dir"

\* The tags the path denotes.
Denoted ==
    LET n == Len(req.path) IN {v[n] : v \in {w \in [0..n -> Tags] : Chain(w, n)}}

\* Both programs resolve a path to the one object it denotes, and only a
\* fault, an overlong path or a component without FS_STAT keeps them from it:
\* never by way of a file's data, a deleted entry or a second entry of a name.
ResolvesRight ==
    /\ Found => Denoted = {cur}
    /\ pc = "answered" /\ i <= Len(req.path) /\ answer \in {"ENOENT", "ENOTDIR", "EIO", "ENODATA"}
       /\ faults = 0 => Denoted = {}

\* A listing that fits the caller's buffer has every entry of the directory,
\* in order, and "." and ".." whether or not the directory has them, but not
\* once more; one that does not fit is cut, never reordered.
ListingComplete ==
    LET s == Read(cur)
        c(n) == Cardinality({k \in 1..Len(rows) : rows[k] = n})
        has(n) == Cardinality({k \in 1..Len(s) : s[k].name = n /\ ~s[k].dead})
    IN  /\ pc = "answered" /\ answer = "ok" /\ Op = "list" =>
             (isDir => rows = Names(s)) /\ (~isDir => Len(rows) = 1)
        /\ pc = "answered" /\ answer = "ok" /\ Op = "readdir" =>
             /\ Len(rows) < req.cap =>
                  \A n \in {s[k].name : k \in 1..Len(s)} \cup {".", ".."} :
                    c(n) = IF n \in {".", ".."} /\ has(n) = 0 THEN 1 ELSE has(n)
             /\ \A k \in 1..Len(rows) : k <= Len(Live(cur)) => rows[k] = Live(cur)[k].name

\* What getattr called a directory can be listed, what it called a link can be
\* read as one and what it called a file can be opened, also where the type
\* was made up; and an object with FS_STAT that was called something else than
\* a directory cannot be listed.
GetattrMatches ==
    pc = "answered" /\ faults = 0 /\ attr # "none" =>
      /\ req.op = "readdir" /\ attr = "dir" => answer = "ok" \/ Unreadable(cur)
      /\ req.op = "readdir" /\ attr # "dir" /\ StatKind(cur) # "bad" => answer = "ENOTDIR"
      /\ req.op = "readlink" /\ req.cap > 0 => (answer = "ok" <=> attr = "lnk")
      /\ req.op = "open" /\ attr # "dir" => answer = "ok"

\* docs/architecture.md:149: "Both file data and directory pages support clone
\* fallback."  The mounted file system lists the entries of a clone's
\* directory that lie in pages still shared with the original.
CloneListsShared ==
    pc = "answered" /\ answer = "ok" /\ req.op = "readdir" /\ Len(rows) < req.cap /\ faults = 0 =>
      \A k \in 1..Len(tree.merged[cur]) :
        tree.merged[cur][k].dead \/ \E r \in 1..Len(rows) : rows[r] = tree.merged[cur][k].name
=============================================================================
