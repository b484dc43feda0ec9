# TLA+ specifications of advfs-fuse

advfs-fuse mounts Tru64 AdvFS volumes read-only through FUSE.  This directory
holds TLA+ modules translated from its C source (`src/src/*.c`), the TLC
configurations that check them on small instances, and TLAPS proofs about every
state machine among them.  Paths below are relative to the repository (`src/` in PROJECT.json).

## 1. The system and its parts

| Part | State it keeps | Operations | What must hold |
|---|---|---|---|
| Volume access (`volume.c`) | open file, partition window, page count | disklabel lookup, open at offset, page/block read, close | a read is complete and inside the partition, or fails |
| Extent maps (`extents.c`) | the map under construction | page lookup, page count, chain walk, stripe interleaving, data read | a file page goes to the block the metadata says, on the right volume |
| Domain (`domain.c`, `util.c`) | table of volumes, each with the map of its BMT | open (several volumes), find vd, read BMT page, list filesets, close | one domain, no ambiguous vd, BMT pages found through the right map |
| Fileset enumeration (`fileset.c`) | none between calls | list filesets, tag-directory extents | every readable fileset is reported, in order |
| File data (`filedata.c`) | one buffer per call, memo of the clone's original | stat, whole-file read, clone read | the bytes of the file, or an error and no buffer |
| Directories (`dir.c`) | none between calls | read, lookup, undelete search | each entry once; clone holes come from the original; a damaged entry costs its block at most |
| FUSE layer (`fuse_ops.c`) | one-entry whole-file cache under a mutex | getattr, readdir, open, read, readlink, statfs | reads return the file asked for, whatever earlier reads left in the cache |
| Mount (`main.c`) | volumes, domain, cache, FUSE arguments | parse arguments, set up, serve, tear down | everything acquired is released once on every path |
| Offline tool (`advfs_tool.c`) | visited set, counters | `--info`, `--list`, `--list -r`, `--scan-deleted` | corrupt trees neither hang it nor are miscounted |
| BMT records (`bmt.c`) | none | cell access, record search | a record found is the mcell's, and in it whole |

Calls go downwards: `main` opens volumes and hands them to the domain; the FUSE
operations resolve paths with directories and read data with file data; both
look up tags through the fileset's tag directory, read extent maps along mcell
chains that may cross volumes, and read pages of volumes.  The only state that one
FUSE operation leaves to the next is the file cache.  No two operations run at once:
`main` always passes `-s` to FUSE (main.c:391).

The hard parts are: the cache over sequences of hits, loads and failing loads;
partial and interrupted transfers on an image that may shrink; metadata chains
that are found through themselves, cross volumes, loop, or break off; striped
maps assembled page by page; clones, where a hole, a missing tag or a missing
original each mean something different; and error paths that must release what
was acquired.  `hazards` in PROJECT.json lists them with their lines.

## 2. Modules

`FileReads` (abstract) - a mounted fileset without a cache: each read is served
atomically from the file it names, or fails.

`FuseCache` - `advfs_op_read`, `cache_file_locked`, `advfs_fuse_ctx_init_cache`
and `advfs_fuse_ctx_drop_cache`.  Each access to the shared fields between lock
and unlock is a step (`Check`, `LoadOk`/`LoadFail`, `FreeOld`, `SetBuf`,
`SetSize`, `SetTag`, `Copy`, `Unlock`).  The heap is explicit, and `malloc` may
hand a freed identifier out again, so a dangling pointer is a state that can be
reached.  Since the program forces FUSE to be single-threaded, the hazard of this
code is the entry one read leaves to the next, not a race.  The code takes the mutex
all the same, so the model has any number of threads; what holds for any number
holds for one.  A file's
contents do not change: the mount is read-only, and a load is taken to succeed with
those contents or to fail.  (A clone whose original cannot be reached for a moment
can load with zeros in its holes, and then keeps them while cached; that is
`FileData`'s subject.)

`Volume` - `volume.c`.  A byte of the image is represented by its address.
`PreadSome` returns any positive number of bytes, `PreadEINTR`, `PreadError` and
`PreadEOF` are the other branches of the loop in `vol_pread`, and the
environment may `Truncate` the image at any time.

`ExtentMap` - operators, no state: page count, the lookup of a page with every
way it can end, and the lookup of a column's page.  Block numbers wrap at `U32`.

`Stripe` - the loop of `advfs_extents_stripe_interleave`, one run per step.

`ExtentChain` - `extents_read_core`: the primary record, then one step per
overflow mcell.  The metadata is arbitrary, and is chosen when it is first read
and then remembered, so that a loop finds the same cell again.

`Extents` composes the two: a striped walk hands its columns to an instance of
`Stripe`, which other callers of `extents.h` may also enter directly.

`TagLookup` - from a tag to a record, in `filedata.c`, `dir.c`, `fileset.c`,
`bmt.c` and the tool: the slot of the tag directory, the scan over the BMT pages
of every volume when the slot is dead or unreadable, and the walk along the
mcell chain, one step per slot, page or mcell.  The six searches of the code
differ in the record wanted, in hop limits and in what they make of an error; the
variable `req` says which of them runs.
`advfs_bmt_find_rec` is the operator `FindRec`, with the size checks and the
alignment of the C loop.

`FileData` - `filedata_read_impl`: stat, allocation, inline record, page copies,
clone fallback with its remembered lookup, frag tail.  `DiskFault` may strike at
every step that reads the disk.

`Domain` - `advfs_domain_open_multi` with `build_meta_extent_map`: primary and
secondary volumes, the V3 and the V4 (RBMT) bootstrap, one step per overflow
mcell; then BMT page reads and close.

`CommandLine` - operators, no state: how `main` of each program takes `argv`
apart, left to right, with the options that are consumed and what remains.

`Mount` - one run of either program, from `argv` to exit: one action per step, and
one for each way it fails.  The mount and the four commands of the tool share the
opening of volumes and domain and differ in what follows.  Fileset enumeration
appears as the calls of the callback, in order, some filesets being skipped as
unreadable; the search from one slot is in `TagLookup`.

`DirRead` - `advfs_dir_read_full_clone` and `walk_dir_block`: which pages are
walked, from which fileset, and which entries of a block reach the callbacks.
One header may be damaged in any way, and the bytes inside an entry may
themselves look like a header.

`Namespace` - `advfs_fuse_resolve_path`, getattr, readdir, open, readlink and
statfs of the mount, and the path resolution and `--list` of the tool: one step
per component of the path, on structures with repeated names, unreadable
directories, missing FS_STAT records and files whose data parse as entries.  A
tree has its entries as the fileset's own pages give them and as the clone
fallback would, so that it shows which of the two each operation uses.

`ToolWalk` extends it with `count_recursive` and `scan_dir_deleted`; the C call
stack is an explicit stack of frames.

How the modules fit: `Mount` ends where FUSE serves (`FuseCache`, `Namespace`) or
where a command visits a fileset (`Namespace`, `ToolWalk`).  Those take from
`DirRead` the entries of a directory and from `FileData` the contents of a file;
both use `TagLookup` and `Extents` to find pages, which `Domain` and `Volume` read.
Below each of these borders the lower module's outcomes, its failures included, are
choices of the upper one.

`FuseCacheProofs`, `VolumeProofs`, `FileDataProofs`, `MountProofs`,
`DirReadProofs`, `TagLookupProofs`, `ExtentsProofs`, `ToolWalkProofs` - proofs about the
module of that name; `VolumeProofs` also holds those about `Domain`, `ToolWalkProofs` those
about `Namespace`, `ExtentsProofs` those about `ExtentChain` and `Stripe`.  `MC*` - instances for TLC.  An
operator whose comment begins "Mutant of" is a wrong version of the definition
that follows it; no specification uses it.  Each property is
known to fail when one of them takes its definition's place.

Code under `src/` is mapped definition by definition in PROJECT.json.  What the
code gets from outside (the outcome of `pread`, of `malloc`, of the FUSE
library) is a nondeterministic choice over the outcomes the code distinguishes.

## 3. Runs

| Run | Instance | What it shows |
|---|---|---|
| `cache` | 2 threads, 3 files (empty, 1 and 2 bytes), 2 buffer identifiers, offsets -1 to past the end | reads return their own file; buffers are neither leaked nor freed twice; a failed load does not hurt the cached file; some waiting read always completes; the cached reader implements `FileReads` |
| `volume` | 13-byte image, pages of 3, four label entries of which one is past `nparts` and one empty, one reaching past the end | exact reads under short transfers and truncation; nothing outside the partition; the page count is the exact limit; every read returns |
| `extents` | 2 attached volumes and one that is not, 2 cells on each, 5 hops, 3 columns, room for 5 descriptors; and directly, all pairs of columns over 3 pages from a set with holes and duplicate boundaries, triples, columns for each way of not being `Sound`, 4-bit page and block numbers | the descriptors are the chain's, tagged with the volume they were read from; columns partition them; the flat map agrees with the striping rule page by page; the call ends |
| `lookup` | every chain over 3 mcells on 2 volumes, with loops, missing cells and volumes; damaged records; scans past mcells of other filesets and of earlier files with the tag; 2 hops | the searches agree on every chain; the scan finds what is in its reach; the record found is the tag's own; every search ends |
| `filedata` | files of up to 3 pages of 3 slots, all combinations of maps, sizes, inline records and frag tails in `MCFileData` | the bytes returned are the file's; holes of one read are filled consistently; the buffer is freed or handed out, exactly |
| `domain` | all lists of up to 2 of 10 volumes, triples and quadruples of some; chains as long as, and longer than, the hop bound | vd numbers are unique and own; pages are resolved right or not at all; opening ends |
| `mount` | every mount line of up to 5 of 6 words, tool lines of up to 4, with good and bad option values; each command with every list of up to 3 filesets (limit 2) whose names repeat or are empty | resources are released once on each path; everything is alive while FUSE serves; the filesets used are the documented ones; volumes, mountpoint and FUSE arguments are told apart |
| `dir` | all maps of up to 3 own and 2 or 4 original pages, stubs, maps out of range, without an end and longer than allowed, limit of 4 pages; blocks of 64 bytes, 2 a page, with every damage to one header | pages come once, in order, from the right fileset, none is left out; damage costs no entry outside its block and invents none before it; the read ends |
| `namespace` | two directories with every combination of damage and 9 paths for the path operations; all graphs of 3 directories with up to 2 entries and many of 4 for the walks; depth limit 2, up to 2 disk errors | paths lead where the entries say; listings are whole and getattr agrees with them; each directory is counted once, nothing is missed without an error, counts are exact; the scan reports each deleted entry once per route to it |
| `stripe_lost`, `filedata_frag_holes`, `namespace_clone` | | violations, see section 5 |

*Bounds.*  In `cache`, one thread is the program; the second is there for the mutex,
and is enough for one to replace what another is about to use.  Two identifiers are enough for a freed one to be reused (a load that
finds none takes the failing branch); the safety properties and the refinement
are proved for all numbers.  In `volume` a page takes up to three transfers.
The widths in the map modules (4 and 6 bits) put overflow within a few
pages; hop, column and array limits are small enough that each is reached and
passed.  The chain walk needs four hops to return to a cell and go on.  In `lookup` two
hops are one more than the shortest loop, and the scan limits (1, 2 and 6 pages
for 16, 64 and `MAX_BMT_SCAN_PAGES`) fall before, on and after the last page of
the maps.  A block of 64 bytes holds three entries, which is a neighbour on either
side of the damaged one.  The depth limit of 2 is passed by chains of four
directories.  Disk errors of one command are bounded by `MaxFaults`; other
counters are bounded by the code's own limits or by the end of the call, so no
run uses a state constraint.  No symmetry is used.

*Deadlock* is checked in every run: a call that has returned, and a process that
has exited, stutter explicitly.

*Fairness.*
- `FuseCache`: weak fairness of each thread's own steps: the OS runs a runnable
  thread, and a call into the reader returns.  `ReadEnter` is not fair (nobody
  has to read), and nothing is assumed of who gets the mutex: pthread
  mutexes are not fair, so only "some read completes" is claimed.
- `Volume`: weak fairness of a successful transfer, of end of file and of the
  loop's end.  `EINTR` leaves the state as it was, so this says that signals do
  not interrupt every attempt for ever.
- `Extents`, `Domain`, `DirRead`, `TagLookup`: sequential code; weak fairness of
  the call's own next step, disk faults excepted.  Callers' requests are not fair.

## 4. Proofs

`FuseCacheProofs`, for any sets of threads, files, buffers and requests, from
the named assumptions in `FuseCache` (`NoThread` is no thread, tags are positive,
`NULL` is no buffer, the marks for freed and foreign memory are no byte
sequences, offsets are integers and sizes naturals):
- `ReadCorrect`, `HeapSafety`, `HitsSucceed`: the invariants of the run, for
  every instance, and `TypeCorrect`, type correctness;
- `Refinement`: `FuseCache` implements `FileReads`.

None of the properties is inductive alone: `ReadsOwnFile` says nothing about a
thread that has yet to copy.  `IInv` adds `Mutex` (the lock's owner is the only
thread in the critical section), `HasRequest` (a busy thread's arguments are
well-formed), and `Phase`, which says for each program counter what the owner
has established: from `check` to `free` the cache is whole, from `setbuf` on the
old buffer is gone and the new one is the thread's, at `copy` the cache is whole
and holds the thread's file.  One lemma per action shows that it preserves
`IInv`; `CopyIsSlice` relates the arithmetic of the copied length to the slice
of the file.  The refinement maps the threads that are not idle to `busy`:
entering, copying or failing, and returning are the abstract steps, the rest
stutters.

`VolumeProofs`, for any image, label, page size and partition:
`ReadsAreExact`, `ReadsStayInside` and `PageCountExact`.  The invariant is
`VolOK` (the window lies in the partition and in the image as it was at open)
and `ReadOK` (the buffer is a prefix of the window asked for, which was in
bounds).  The image's present length does not occur in it, which is why
truncation is harmless.  `DivLimit` is the arithmetic fact behind the page count.

The lemma everything inductive rests on is `Least` (in `VolumeProofs` `LeastNat`): a
non-empty set of naturals has a least element.  Induction over the naturals (`NatInd`)
follows from it for sets, and with it (`Rounds`) the equation of a recursively defined
function, so references such as `ChainFrom`, `FullMap`, `Live` and `Reachable` can be
reasoned about.

`VolumeProofs`, about `Domain`, for any disks and any lists of them:
`OneDomainAlways`, `ReadsRightPageAlways`, `CleanOpenIsCompleteAlways`.  `NextIndex` says that the
index chosen for the volume being opened is no one else's.  `Collecting` says what the
map under construction is: what the first records of the chain hold, or, once a
chain has led back into itself, the whole map followed by entries that it has already
(`PartTo`); and that it has not outgrown the array (`RoomLeft`).  `PartResolves`
is the reason why a part is safe: its last entry is a boundary, so a page
past it is refused, and repeated entries are never the first to cover a page.
`FoundThere` shows that a chain in order can be followed through the part of the map known
at each record (the RBMT's whole map for the BMT of V4, `RbmtKnown`), so that
without faults nothing is missing.  The latter two rest on `ChainAssumption` about
the disks: each record of a chain has entries, ends with a boundary,
and lies on a page that the map known before it covers ("guaranteed by construction,
since the kernel must be able to find its own metadata", `src/src/domain.c:57-67`); and
the entries of as many records as the hop limit allows fit in the array (64 hops of at most 32
entries against `ADVFS_MAX_BMT_EXTENTS`, 4096).  A record that ends without a boundary is
excluded: its last entry would be open-ended, and a read past a chain cut off there
would go to a wrong block.

`ToolWalkProofs`, for any directory structure, paths and limits (`NamespaceAssumption`):
`ResolvesRightAlways`, `GetattrMatchesAlways`, `ListingCompleteAlways`, and for the recursive count
`EachOnceAlways`, `NothingMissedSilentlyAlways`, `CountExactAlways`, and for the scan
`ScanRowsPerPathAlways`.  `PathInv` follows a
lookup: `OnChain` has a witness, the chain of tags along the components done, and
`ChainUnique` makes it the only one; `AttrRight` carries what getattr saw to the
operation after it.  Listings are counted name by name (`LiveCount`, `ConcatCount`).  `WalkInv`
follows the count: `Once` (each directory listed is in the visited set, and the calls on the
stack are in different directories), `InReach` (what is visited lies in every
closed set around the start, hence in `Reachable`, which `ReachableIs` shows to be the least
one) and `Tally`, the books: counts are the cardinalities of the sets of entries
already looked at, and every call, of which there is one more than subdirectories met, is
pending, was the first of its directory, or is among the errors.  `Tally` is claimed while
no error was counted, or while only the structure itself can have caused one.
`ScanInv` follows the scan: `OnRoute` says that its stack is a route from the root (the
entry each frame looked at last leads to the next frame's directory), and `RowsOK` that
the rows printed so far are those of the routes that are neither through the call about to
be made (`InCall`) nor through an entry some frame has still to look at (`Ahead`).  Each
step but a row leaves that set as it is, the turn from deleted to live entries and
the refusal at the depth limit included; a row removes one route from what is ahead
(`RouteHere`), and when the stack is empty nothing is.

`FileDataProofs`, for any page size, size limit, files and disk faults
(`FileAssumption`: the page has a size, and a file's maps are sequences of extents,
in any order and range): `ReadsAreExact`, `CleanReadsAreExact`, `BuffersAreOwned`
and `SparseReadsSucceed`.  The invariant says for each program counter how much
of the buffer is filled: `OwnLoop`, the first `loop.off` bytes are those of the
mapped part and the rest is zero; `FragLoop`, the mapped part is complete and the tail
is there up to `loop.dst`.  What "those of the mapped part" means depends on
the clone's remembered lookup, so it is said of every map in `Sources`: both
the original's and none while no permanent hole was met, exactly one after that.
That is the argument why one read never mixes the two.  `RefusedOK` records
why a call without a fault failed.

`MountProofs`, for any command line, any filesets and limits (`MountAssumption`,
`LineAssumption`): `EverythingReleased`, `AliveWhileServing`, `FilesetPicked`,
`ArgumentsSplit`.
`VolumesOK` says which volumes are open at each point (a prefix of the list while
they are being opened, all of them while the program works) and `HeldOK` what
else is held, so that each error path can be compared with it.  `FirstOK` is the
meaning of `capture_first_fileset`'s state after the filesets seen so far,
`ListOK` that of the tool's array, `WorkOK` that of its loops.  `ArgsSplit` compares two
readings of the command line: its reference (`Roles`, from left to right) calls each
argument one of the program's options, the value of one, or one to keep; the model of
the code takes the options out by a recursion from the right and looks for the mountpoint
from the end.  `ExtractKeeps` shows
by induction on the line that what the extraction leaves is what the roles keep,
`NonFlagsAre` that the volumes are the words before the mountpoint, in order, and
`MountpointIs` that the mountpoint is the last word.

`DirReadProofs`, for any maps, blocks, entries and one damaged header
(`DirAssumption`: maps are sequences of extents, blocks were written entry after
entry before one header was damaged in any way, and what is read inside an
entry is any header): `WalksAreSound`, `NoPageIsLeftOut`, `DamageIsContained`.
`BoundOK` relates `max_page` to both maps, `WalkOK` the pages walked to those that
can be read below the current one, `BlockOK` the reports to the entries: every block
before the current one is `Complete`, the current one is `Partial`, that is, the walk
is at the beginning of an entry and has reported all before it, or it is behind the
damage.  The proof of `NoPageLeftOut` found its exception: a clone's own map of more than
`MAX_DIR_PAGES` pages passes for a V3 stub (`src/src/dir.c:632`), so that only the
original's pages are sure to be read.  The run has such a map now.

`TagLookupProofs`, for any disk, limits and request (`LookupAssumption`,
`DiskAssumption`: locations are numbers and an mcell has at most one successor):
`SearchesDoAgree`, `ScansAreComplete`, `RecordsAreOwn`.  `ChainOK` has a witness,
the function `g` with the mcells walked so far, each looked at in vain and each
the successor of the one before; `WalkedIsChain` shows by induction that this is
`ChainFrom`, whose equation is `ChainEquation`.  Since `g` is bounded by the hops, loops need
no argument of their own.  `ScanOK` says that no mcell of the tag is behind
the scan's position, `ScanPagesReach` how far `bmt_scan_pages` makes it go, and `OwnOK` that the
chain of a sound disk stays with the tag.

`ExtentsProofs`, for any chain, columns, segment size and limits (`ChainAssumption`,
`PrimsAssumption`, `ExtentsAssumption`: volumes and cells have numbers, a record's
fields are 32-bit numbers, there is a file to read): `WalkCollectsChain`,
`ColumnsArePartition`, `FlatMapsAreStriped`.
`ChainInv` gives the reference (`Trail`, `From`) its values by witnesses instead of by
recursion: `Links(t)`, each cell passed is the one its predecessor links to and is
on the disk, `Sums(t, f)`, the descriptors from each hop on, and `Ranks`, the
start of each column as the length of the map less that of what follows.
A hop extends both functions by one value (`LongerTrail`, `LongerSums`), which a
circular chain does not disturb; `TrailIs` and `FromIs` show that they are the only functions
with those equations.  `StripeInv` says that the descriptors written begin in
order below `fpage` (`StripeShape`) and that each page below `fpage` is covered by one that
says what the striping rule says (`StripeRight`).  Two lemmas carry the loop:
`LookupRun`, the pages of the run that `col_lookup` returns are the column's own, and
`MergedSays`, a run that is merged is said of by the descriptor it is merged into.  The
proof needed the hypothesis `Sound` of `FlatMapIsStriped`; each of its conditions is
necessary, as the columns added to the run show (section 5).

Every one of these invariants was checked with TLC on its run's instance before
it was proved, that of `Extents` with the reference's functions for its witnesses.

Model-checked only: liveness under fairness, which is outside the prover's reach, and the
expected violations of section 5.

## 5. Where the code and its documentation disagree

- `stripe_lost`: the interleaver takes the sum of the columns' page counts as
  the file's length.  If a column is shorter than the others, mapped pages of the
  longer ones have higher file page numbers and are left out of the map
  (`src/src/extents.c:491`, against `src/src/extents.h:143-145`).
- `filedata_frag_holes`: the frag tail of a clone's file is read without
  the clone fallback, so a tail on a permanent hole of the frag file is zeros
  (`src/src/filedata.c:554`, against `src/src/filedata.h:82-83`).
- `namespace_clone`: `readdir` and path resolution read a directory without the
  clone fallback, so a mounted clone does not show entries in directory pages it
  still shares with the original (`src/src/fuse_ops.c:100,348`, against
  `src/docs/architecture.md:149`).

Behaviours the models contain, without a run of their own:
- a clone's file with a hole, whose original has an extent map without
  descriptors, fails with EINVAL instead of degrading to zeros
  (`src/src/filedata.c:406`, against the comment at 384-386);
- a circular extent chain ends at the hop limit and is reported as success with
  repeated descriptors (`src/src/extents.c:218`);
- `col_lookup` and `read_data_core` do not read a column alike, which is why
  `FlatMapIsStriped` is about `Sound` columns.  Block 0, to `read_data_core` a
  clone's hole (`src/src/extents.c:656`), is storage to `col_lookup` (`src/src/extents.c:457`), so
  that from its second page on the hole becomes blocks of the boot area; a permanent hole at
  the end of a column, to `read_data_core` the end of the map, becomes a
  permanent hole of the file; a block number that happens to be a marker's becomes a
  hole; and if a column does not begin at page 0, the run returned for the pages before
  its first descriptor is `UINT32_MAX` (`src/src/extents.c:473`), which hides that
  descriptor for the rest of the segment;
- the BMT scan takes the first mcell with the tag and does not look at its
  `link_segment`, so it may name a chained mcell, from which the records of the
  primary one are not found (`src/src/filedata.c:166`, whose comment at 126 speaks of
  the primary mcell); `ScanComplete` and `RecordIsOwn` say what it does guarantee;
- `scan_dir_deleted` has no visited set: a shared directory is scanned once for each path
  to it, a cycle down to the depth limit (`src/src/advfs_tool.c:579`);
- arguments of `advfs-fuse` before the mountpoint that start with `-` are passed
  to nobody, and the value of a `-o` there counts as a volume.

## 6. Not modelled, and the plan

Not modelled, because nothing in them decides what the programs do next: logging
and the formatting of output (sizes, times, modes, the lines of `--info`, the
total size of `--list -r`); the packed layout of `ods.h` apart from the markers,
record types and sizes that steer control; the disklabel checksum, which only
produces a warning; the attributes getattr fills in besides the file type.
`advfs_domain_list_filesets` is called by a test only and `advfs_bmt_next_rec` by no program;
`advfs_bmt_read_page` adds to the page read no more than a check of the version.

Some outcomes are left out or folded into others where no property tells them apart:
`PageOutcome` has no -ENODEV for a volume that is not attached (its users treat it
as they treat a failed read); `ReadPrimary` has no error for a primary mcell that
cannot be read, nor for a caller's array smaller than the map, which end the call
before and after the walk; `ToolLine` counts `-V` and help as refused, since they
acquire nothing; `ToolDone` is all exits of `--list` after the context is open, which
release the same things; `StatKind` is also the tool's stat, whose failure on a
different `st_ino` is one of the ways to have no record.  `GetattrMatches` speaks of
commands that meet no disk error: after one, getattr may well make attributes up
for an object that has its own.

The operations that change state are all actions, and every invariant that the passing runs
check is proved for all values of the constants.
