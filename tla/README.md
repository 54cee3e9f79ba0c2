# flocate in TLA+

This directory holds a TLA+ development of flocate: modules that model the
program, TLC configurations that check them on small instances, and theorems
that TLAPS proves for every instance. `PROJECT.json` lists the components, the
runs, the mutants, the lines every definition models, the hazards and the
theorems. Source paths below are relative to the repository.

## 1. The system

flocate is a locate(1): `updatedb` walks the file system and writes a database,
`flocate` searches it, `showdiff` compares databases with each other or with the
live file system. Databases also carry stat metadata, optional digests, and a
history of the changes seen by the last runs.

| Component | State | Operations | Interacts with |
|---|---|---|---|
| scan (`src/updatedb.cpp`, `scan`, `main`) | open directories, entries of the current directory, history events, static cache of `time_is_current` | enter a directory, readdir or reuse the old listing, stat, hash, open subdirectories, add, recurse | file system (which changes meanwhile), old-database reader, database writer |
| old-database reader (`ExistingDB`) | cursor over three compressed streams (names, directory times, metadata), one unread record, sticky error | `read_next`, `unread`, `read_history_events` | called by scan in path order |
| directory times (`metadata.h`, `time_is_current`) | static cache | compare, reject times that are too current | decide whether a listing is reused |
| metadata and digests (`metadata_hash.cpp`, `metadata_codec.cpp`) | none | compute or reuse a digest, encode, decode | scan, reader, writer, showdiff |
| history (`updatedb.cpp`, `trim_history_runs`) | events of the last runs, separated by markers | record, merge, trim to a depth | scan, reader, writer, showdiff |
| database writer (`database-builder.cpp`) | temporary file, header, corpus, posting lists, trigram hash table | add a file, flush a block, finish, publish | scan, `flocate-build`; readers see its file |
| bind mounts (`bind-mount.cpp`) | list of bind mount paths, dirty flag set by a polling thread | poll, rebuild, look up | scan, the kernel's list of mounts |
| linear search (`flocate.cpp`, `scan_all_docids`) | work queue, worker threads with result queues | feed, take, scan, deliver | serializer, access cache |
| serializer (`serializer.cpp`) | next sequence number, priority queue | print in order, apply the limit | both searches |
| indexed search (`flocate.cpp`, `parse_trigrams.cpp`) | candidate document numbers, posting lists still to read | look up trigrams, intersect, stop early | I/O engine |
| I/O engine (`io_uring_engine.cpp`) | queued and pending reads | submit, complete, finish | indexed search, access cache |
| access cache (`access_rx_cache.cpp`) | known directories, pending checks and their callbacks | check access | both searches |
| several databases (`flocate.cpp`, `main`) | a pipe and a child per database | fork, pass the remaining limit on | serializer |
| posting list codec (`turbopfor-encode.h`, `turbopfor.cpp`) | none | encode a block, decode a list | database writer, indexed search |
| showdiff (`showdiff.cpp`) | two loaded databases, or one and a stack of directories | merge, walk, compare, filter | database format, live file system |
| configuration (`conf.cpp`) | options, configuration block | parse, generate the block | scan (a changed block discards the old database) |

What is hard here: the scan races with every other process on the machine, and
its result feeds the next scan, so a wrong record can live for ever; the old
database may be damaged; a run may die anywhere; publication is two system
calls; the search has worker threads, a bounded queue, asynchronous I/O and
results that must still come out in order, each exactly once.

What makes each part correct:

* scan: a listing taken from the old database is the directory's listing; a run
  that nothing disturbs records exactly what is there; the history explains the
  difference of two databases; once changes stop the database becomes exact.
* digests: a stored digest is the file's for as long as its stat data is the
  stored one.
* history: a database carries the events of exactly the runs that the depths
  since allow, each run whole.
* old-database reader: name, directory time and metadata of a record belong
  together wherever the streams break; a damaged database is read up to the
  damage.
* database writer: whoever opens the name gets one complete database; every
  trigram of a block is in a posting list that the lookup finds.
* posting list codec: a list decodes to what was encoded, in the space reserved.
* searches: every name that matches and may be shown is printed once, in
  database order, up to the limit; the search ends.
* I/O engine and access cache: every callback runs exactly once, and never more
  than the queue depth is in flight.
* several databases: the limit holds over all of them.
* bind mounts: no change of the mounts is lost; a directory that is mounted
  several times is listed once, and never not at all.
* showdiff: what it prints is the difference, and its walk covers what updatedb
  covers.

## 2. Modules

| Module | Models | Proofs | TLC |
|---|---|---|---|
| `Updatedb` | the file system, the incremental scan, the database it leaves | `UpdatedbProofs` | `MCUpdatedb` |
| `Publish` | the database file: overlapping runs, faults, readers, history over runs | `PublishProofs` | `MCPublish` |
| `DatabaseFile` | abstract: what publication promises | (refined by `Publish`) | |
| `Serializer` | in-order printing and the limit | | |
| `LinearScan` | `scan_all_docids`, extends `Serializer` | `LinearScanProofs` | `MCLinearScan` |
| `IOUring` | the asynchronous I/O engine | `IndexSearchProofs` | (in `IndexSearch`) |
| `AccessCache` | visibility of a name's directories | `IndexSearchProofs` | (in `IndexSearch`) |
| `IndexSearch` | `main` and `do_search_file` of flocate; composes `Serializer`, `IOUring`, `AccessCache` | `IndexSearchProofs`, `IndexOutputProofs` | `MCIndexSearch` |
| `TurboPFor` | the posting list codec | | (in `Database`) |
| `DatabaseBuilder` | blocks, trigrams, posting lists, hash table, streams; extends `TurboPFor` | `DatabaseProofs` | (in `Database`) |
| `ExistingDB` | the old-database reader; extends `DatabaseBuilder` for the format | | (in `Database`) |
| `ShowDiff` | flocate-showdiff; extends `ExistingDB` for the format | | (in `Database`) |
| `BindMount` | mounts that come and go, their polling thread, the list of bind mounts, pruning in `scan` | `BindMountProofs` | `MCBindMount` |
| `Database` | a database from the names to its readers; composes the four above | `DatabaseProofs` | `MCDatabase` |
| `Induction` | least elements, induction over finite sets, loops as iterations: what the proofs count with | itself | |

Definitions have the names of the code where there is one
(`reuse_previous_hash`, `trim_history_runs`, `apply_limit`, ...). A definition
introduced as "Mutant of ..." is a plausible bug in the definition after it and
is used only to show that a property notices it.

### Updatedb

The file system is a tree of paths; each has a kind, an inode, a stamp and a
content. One stamp stands for max(ctime, mtime) and for whatever else of stat()
a change moves. `FileSystem` creates, removes and modifies between any two
system calls of the scan. A run is `Start`, then for each directory `Enter`
(read the old listing, reuse it or not), `Readdir`, `Stat`, `Hash`, `Open`,
`Add` (REMOVED events, records, recursion), then `Finish`; `fds` holds the open
directories that the recursion still has to visit, `ents` the vector `entries`
of the current one, `dbent` the vector `db_entries`, `tcache` the static cache
of `time_is_current()`. Conditions such as the order of `Enter`'s three cases
are those of the code. A directory's time is an integer: -1 `not_a_dir`, 0
`unknown_dir_time`. `db` is replaced in one step by `Finish`; that this is fair
is what `Publish` shows.

With `FineClock` every change of an inode gets a new stamp; without, changes
within a tick share one. `Faults` says what may go wrong: a record of the old
database cannot be read ("olddb"), an existing directory fails to open ("open"),
the run dies ("crash").

Left out: rename (a remove and a create of the same content), hard links, device
changes and PRUNEFS (like PRUNENAMES: listed and not opened), a file that is too
large or unreadable for a digest (no digest), and mounts, which have a module of
their own (`BindMount`). The old database is read here as "the entries of this
directory, up to an error"; that `ExistingDB::read_next` delivers this is the
subject of module `ExistingDB`.

### Publish and DatabaseFile

Any number of updatedb processes work on one name without a lock: `OpenOld`
(open, `ExistingDB`), `Create` (O_TMPFILE or mkstemp), `Scan` (scan, then the
history of main()), `WriteBody`, `WriteHeader` (both parts of `finish_corpus`,
unchecked writes included), then `Rename`, or `Unlink` and `Linkat`. Faults are
actions of their own: `SetupFails`, `RenameFails`, `LinkatFails`, `Kill`, and
the failing disjuncts of the two writes. flocate is `ReaderOpen`, `ReaderHeader`
(the `Corpus` constructor) and `ReaderSearch`. A run's number is also its
file's. A file has a header (absent, version -1, version 2, foreign), a body
(whole or cut), the configuration it was written with (the depth, which is part
of the configuration block), and its history event by event.

An uninitialised or foreign header is read as a choice: the length of the
history that `read_history_events()` finds is harmless, or one at which the
vector cannot be made and the process aborts.

`DatabaseFile` states the promise: one complete database or none, each grown
from an earlier published one; only without an atomic replacement may the name
be withdrawn first. `Refines` maps the database to the lineage of the file under
the name.

### Serializer and LinearScan

`Serializer::print` is three cases (`PrintCounted`, `PrintLater`, `PrintInTurn`)
and the loop `Drain`; `apply_limit` may end the process. In `LinearScan` the
main thread pushes chunks of blocks to a bounded queue, collects the workers'
results and prints; workers take chunks, scan and append to their result queue,
where empty results are merged (`Received`). Both condition variables are
modelled with their waiting threads, `notify_one`, `notify_all` and spurious
wakeups. What a block holds is chosen in `Init`: for each candidate, whether it
matches and may be shown.

### IndexSearch, IOUring and AccessCache

`IndexSearch` is a search that uses the index, from `main` to the exit. The
databases are searched one after the other, all but the last in a child process
that reports its matches through a pipe (`OpenDatabase`, `Return`); fork, child
and wait are sequential, so one set of variables serves both, with `parent_left`
what the parent keeps meanwhile. Within a database: `Lookup` submits the hash
table reads, `EarlyExit` gives up when a group of alternatives has no known
trigram, `SortGroups` orders the groups, `NextGroup`, `ReadPostings` and
`CaughtUp` submit posting lists while not too many are under way,
`new_posting_list_read` unites and intersects them as they arrive,
`get_compressed_filename_block` submits the candidates' blocks. Each callback
(`OnLookup`, `OnPostings`, `OnBlock`, `OnAccessStat`, `OnExistsStat`) runs at a
completion; the calls it makes are kept in `todo` and made one after the other,
so that a callback that submits, prints or ends the process does it in the
code's order. `Serializer` is the one of the linear search.

Data: a pattern is a set of groups of trigrams, a database says which blocks
hold a trigram and which names of a block match. `Indexed` is the fact a
database must provide, that a block with a match has a trigram of each group;
`Database` shows it of the builder (but for the three-byte names of finding 4).

`IOUring` has the two queues, the submission ring, what the kernel holds, and
`pending_reads`. `finish()` is `CallFinish`, `Peek`, `Wait`, completions in any
order, `ShortRead` (the rest of a read is submitted again), `SubmitQueued` after
the batch, and `FinishReturns`. Without io_uring a read is made and its callback
run at once (`sync`). A failed read is `ReadFails`.

`AccessCache` keeps answers per directory and `pending_stats`: a name joins a
stat under way for a name below the same directory, found by `lower_bound` in
the order of the names and a prefix test, or starts one.

### TurboPFor

Encoder and decoder, bit by bit, each written from its own side of the code:
`BitWriter` says which bit of which value an output bit is, `BitReader` where a
bit of a value is found. `decide_block_type` chooses among constant, plain bits
(FOR), and bits with exceptions as a bitmap or as varbytes, by the estimates of
the code. Full blocks of 128 deltas are interleaved, the last is not. The model's
bytes were compared with those of the compiled encoder when it was written. The
SIMD variants compute the same function as the generic ones and are mapped to
it. Docids are below 2^24 (see "Seen while modelling").

### DatabaseBuilder

`add_file` appends a name to the current block, its time and metadata to their
streams, and flushes a full block: the block's trigrams, as bytes of the names
with NUL between them, go to posting lists (`flush_block`, `add_docid`).
`AddShortBlocks` is a run of blocks whose names are shorter than a trigram; it
moves the docid on without millions of steps. `FinishLists` is the first part of
`finish_corpus`; then the Robin Hood table is filled (`TakeTrigram`, `Probe` and
`Swapped`, `Put`), started over with more buckets when an entry would be more
than `num_overflow_slots` from its bucket (`Grow`), and written with the offsets
of the lists (`WriteTable`). `hash_trigram` is the code's CRC. `find_trigram` is
flocate's side: it takes a list's length from the offset in the slot behind.

A stream is a sequence of record parts; `Compress` moves what exceeds `Slop` to
the compressed side, as `StreamEncoder` does with bytes.

### ExistingDB

`read_next` is a state machine: `ReadUnread`, `ReadNothing`, `ReadBlock`,
`ReadOn` find the next name; `RefillDirTimes` decompresses `Piece` parts at a
time until a record is whole, `TakeRecord` takes it, and likewise
`RefillMetadata` and `TakeMetadata`. `DirTimesEnd` is an error, `MetadataEnds`
only turns metadata off. `Keep` and `unread` are the two things `scan` does with
a record. `got` keeps what `scan` was given.

### ShowDiff

`Load` is `load_snapshot`, with the paths and their metadata sorted through one
permutation. `Merge` is one round of `diff_snapshots`. The walk of
`diff_with_live` is `StartWalk`, `OpenDir`, `VisitEntry` in any order of the
entries, `CloseDir` and `WalkEnds`; `Descend` is its own copy of updatedb's
pruning and `WantHash` its decision when to compute a digest.

### Database

Scenarios choose what is built and who reads it: posting lists looked up in the
last database, updatedb reading it as its old one, showdiff comparing two or one
with a file system. What is read may be damaged: a stream cut anywhere, a block
that cannot be read. `ScanOf` is what updatedb stores of a file system at rest;
it is the reference for the walk of showdiff.

### BindMount

`table` is the kernel's list of mounts, each with its number, the mount it is on,
device, root directory on the device and mount point; `Mount` and `Umount` change
it at any time, and `event` counts the changes as the kernel does for poll(). The
thread is `Poll` (poll() returns) and `Notice` (the flag is set), so that a
change may come between the two. `is_bind_mount()` is `TestAndClear`, then, if
the flag was up, `ReadMounts` (mountinfo is read and the pruned mounts are left
out, `find_whether_under_pruned`) and `MatchMounts` (`IsBind` for each pair of
mounts of a device, the list sorted and its position reset), then `Lookup`.
`bind_mount_init()` is `Start`, the same rebuild, and the start of the thread.
`string_list_contains_dir_path()` is modelled with its position, which is why
lookups depend on the order in which `scan()` asks.

`scan()` is reduced to directories: `Enter` (PRUNEPATHS), the lookup, `List`
(readdir, or the old database's listing if the time is the same), `Open` for each
name (descriptor, `filesystem_is_excluded`, the record), and the recursion
(`ScanNext`, `ScanReturns`) over `frames`. Directories do not change, so the time
of one stands for which directory it is. mountinfo may fail to be opened or read
("unopened", "unreadable"), and poll() may fail, which ends the process.

## 3. Runs

| Run | States | Shows |
|---|---|---|
| `updatedb_fine` | 1.2 million | incremental scanning and digests are sound, quiet runs exact, history explains, database becomes exact |
| `updatedb_faults` | 3.1 million | listings are never partial or mixed when directories fail to open, records cannot be read and runs die, with directories scanned and pruned side by side |
| `updatedb_coarse` | violation | a second change within a clock tick is missed for ever |
| `updatedb_openfail` | violation | a directory that failed to open once stays empty |
| `publish_overlap` | 0.5 million | overlapping runs with different depths, a reader, all faults of publication; refinement of `DatabaseFile`; the history is that of the lineage; the name returns |
| `publish_first` | violation | the first run with a depth above 1 may abort |
| `linear_scan` | 0.2 million | order, completeness, limit, wakeups, termination |
| `search` | 0.5 million | no match missed in any order of completions, output exact and in order, the limit over all databases, engine bounds, access cache, termination |
| `database` | 17 thousand, up to 449 steps deep | codec, lookup, hash table, buffer sizes, the old-database reader, showdiff of two databases and live |
| `database_short` | violation | a name of three bytes that is the last of its block is in no posting list |
| `database_stuck` | violation | a hash table of 19 slots "increased by 5%" stays at 19 for ever |
| `bind_mount` | 0.7 million | no change of the mounts lost, lookups exact, no directory listed twice, none that can be seen left out |

Bounds and why they are enough:

* Two paths, one below the other, give a directory with an entry that may be a
  file, a directory or missing, replaced by another kind, and a directory inside
  a directory. In `updatedb_faults` /a is a directory that is scanned, with an
  entry x that is listed and, being a name of PRUNENAMES, not opened, and a sibling
  /b of PRUNEPATHS; with contents of one kind, as no digest matters there. That
  pruned runs are exact whatever PRUNENAMES and PRUNEPATHS hold is proved
  (`QuietRuns`). `MaxNow` 5 (4 with the other faults) leaves room for several
  changes around two or three runs, as many as a stale record needs to be written,
  reused and noticed; `Margin` 1 is the three seconds.
* Two updatedb processes give every overlap of unlink() and linkat(); three runs
  let a third one start from what the race left. One damaged file is enough as
  files do not influence each other. One process works with depth 2, the other
  with 1, so every sequence of these depths occurs, a third run exceeds the larger
  one, and a run may find a database of the other configuration. Sequences of all
  depths are the subject of the theorem `FaithfulHistory`.
* Three blocks, two workers and a queue of one chunk make the queue full, empty
  and out of order; limits below and above the number of matches; blocks with
  no candidate, a match, and a miss before a match.
* `search`: two blocks per database (`NumDocs`) and up to two databases; patterns
  of one to four groups, with alternatives and with a trigram shared by groups;
  `QueueDepth` 2, so that stats and reads are queued and restarted; `ReadUnits`
  2, so that a read comes in two parts; `Ahead` 2 (5 in the code) and `Ratio` 1
  (100; a group that many times larger than the candidates is not read), so that
  both cut-offs happen; at most two names match in a block, of `Span` 4 sequence
  numbers. Names `/a/x`, `/a/b/y` and `/ab/z` with every set of readable
  directories: `/ab/z` starts with `/a` and is not below it. Names that are gone
  and databases without matches, without a trigram, with a dictionary.
* `database`: the block size 128 and the 16 overflow slots are the code's. Lists
  of 3 to 132 docids and distances up to 9 million give every block type as a
  full block, and FOR, varbyte and constant as the last one. Twenty trigrams
  that fit neither 23 nor 29 buckets make the table grow twice. `Slop` and
  `Piece` 2 make the streams break within records. File systems have up to
  eight entries on two devices, with a name (`/d/a0`) that sorts differently in a
  database and by its bytes; one entry added, removed, changed, unreadable,
  mounted elsewhere, or replaced by another kind between two databases.
  Behaviours are long but nearly deterministic, so states are few.
* `bind_mount`: three tables of mounts to begin with (one file system whose second
  mount would get a lower number; one mounted below a pruned mount, on a pruned
  path, and where it is to be kept; a pruned one stacked on it), two mounts that
  may be made, one of them a directory bound below itself. `MaxChanges` 2: a
  change that raises the flag and one that comes during the rebuild. `MaxRuns` 2:
  the second run reuses what the first stored. `MaxId` 6 leaves numbers free.
* `MaxNow`, `MaxRuns`, `MaxChanges`, `MaxDamaged` end behaviours that go on in
  reality, and searches and readers end, so deadlock is not checked in `Publish`,
  `LinearScan`, `IndexSearch`, `Database` and `BindMount`; that nobody waits for ever is
  `NameReturns`, `NoLostWakeup`, `Terminates` and `TableEnds`.

Fairness. `EventuallyExact` assumes weak fairness of the scan: updatedb is
started by a timer again and again and is not starved. Changes and faults are
not fair. `NameReturns` assumes it of each process that has started. `Terminates`
assumes it of the main thread and of each worker; spurious wakeups are not fair.
`Terminates` of `IndexSearch` assumes it of the process together with the
kernel, which completes what was submitted; failing opens and reads are not
fair. `TableEnds` and `TableAlwaysEnds` assume it of the loop of `finish_corpus`,
which runs in one thread.

## 4. Findings

1. `dir_time::operator>=` (`include/metadata.h:20`) has its operands swapped, so
   `time_is_current()` never holds back a time that is too current
   (`updatedb_coarse`).
2. A directory that cannot be opened is stored with its time; the next run
   reuses the empty listing (`updatedb_openfail`).
3. `ExistingDB::hdr` is uninitialised when there is no previous database, and
   `read_history_events()` uses it (`publish_first`).
4. `flush_block()` stops at `ptr < end - 3` (`src/database-builder.cpp:359`), which
   needs four bytes, though the comment there says three: a name of three bytes
   that is the last of its block is in no posting list, and a search that uses the
   index does not find it. updatedb stores such a path for a two-letter name
   directly under `/`. `database_short` shows it (`EveryNameIndexed`); `IndexExact`
   says what holds: no other block is missing, and none is listed by mistake.
5. The hash table grows to 105% of its size, rounded down, and from there to the
   next prime: a size of 19 is its own successor, so 18 or 19 trigrams that all
   have one bucket, more than it holds with its 16 overflow slots, keep
   `finish_corpus` busy for ever. `database_stuck` shows it (`TableAlwaysEnds`).
   `TableEnds` keeps to at most 17 trigrams, which always fit, and tables of 20
   buckets and more, each of which is larger than the one before; that is checked
   for the corpora of `database` and is no theorem.

Seen while modelling and not stated as a run:

* Of the writes of `DatabaseBuilder` only those of the blocks of names are checked
  (`src/database-builder.cpp:393`; a process that ends there leaves what one that
  is killed leaves), so a disk that is full later replaces a good database by a
  cut one (`Publish` models it, and its properties except such files). The mkstemp() fallback leaves its file behind when a run ends early,
  against NEWS. Two overlapping runs drop one run's history. A removed
  directory's descendants get no REMOVED event.
* The bit writers and readers hold 32 bits, so a delta of 2^24 or more may not
  survive, though `src/database-builder.cpp` speaks of docids up to 2^32. The
  interleaved writer may write up to 16 bytes past its block where a comment
  says 4; the buffer is large enough (`BlockFits` counts them).
* With several databases, a hopeless group in the last one ends flocate with
  status 1 whatever the earlier ones printed, and a child that reaches the limit
  exits without writing to its pipe, so its parent reports a short read. A
  case-sensitive search takes an empty intersection for "no candidates yet" and
  starts over with the next group; that costs time, not matches.
* `showdiff --live` on a database without a file takes `/` for the scanned
  directory and reports the whole file system as added; `LiveExact` is about
  databases with files. A file stored without a digest is never hashed live.
* A directory bound on itself is skipped as a bind mount and, being hidden by its
  own mount, is nowhere in the database; `man/updatedb.conf.5.in:128` and
  `include/bind-mount.h:30` say that such mounts are not skipped. The test
  whether one mount's root contains another's compares strings: with Btrfs
  subvolumes `/@` and `/@home` the second counts as a part of the first and is
  skipped, which the same manual page (lines 132-133) recommends as the remedy.
* A bind mount that is skipped has been stored with its time by its parent. When
  the mount it duplicated goes away, the next run no longer skips it, finds its
  time unchanged (`src/updatedb.cpp:879`) and reuses the empty listing.
  `RunComplete` is therefore about mounts that are the same as in the run before.
* `filesystem_is_excluded()` takes the first listed of several mounts on one
  directory, which is the hidden one. What is skipped as a duplicate may be hidden
  by a further mount where it is expected instead (the condition `Plain` of
  `RunComplete`). If mountinfo cannot be opened for a rebuild, the flag is down
  and the change is forgotten.

## 5. Proofs

TLAPS proves, for every value of the constants:

* `UpdatedbProofs!TypeCorrect`: `TypeOK`. With the types go two facts without
  which they are not inductive: what a loop still has to visit is an entry, and
  the old entries are records (`TInv`).
* `UpdatedbProofs!IncrementalSoundness`, under `FineClock` and without "open" in
  `Faults`, the two conditions that findings 1 and 2 show to be needed. The
  inductive invariant says what a time that was read still means: as long as the
  inode has that stamp (`Fresh`), the part of the listing read so far is the
  listing, an open descriptor is the directory at the path, an entry with a
  current time was or can be opened, and the records written so far are sound but
  for directories still to be scanned. A change moves the stamp forward, so it
  makes facts about the changed inode vacuous and leaves the others alone; that is
  why every conjunct has `Fresh` as its premise.
* `UpdatedbProofs!ListingWhole` and `HashSoundness` need `FineClock` only. The
  same invariant is stated with "its listing is whole or empty" in place of "is
  whole": a directory that cannot be opened leaves an empty listing behind, and
  that is all that the fault can do.
* `UpdatedbProofs!QuietRuns` and `HistoryLeads` (`QuietRunExact`,
  `HistoryExplains`), under the conditions of `IncrementalSoundness`. While nothing
  has changed since the run began (`Quiet`), everything read is right *now*: the
  directories to scan are there (`QFds`), the listing read so far is the listing
  (`QList`), the entries that the stat loop has passed have the present metadata
  (`QStat`), and the new records are right and complete for the scanned
  directories (`QOut`). That what was reused instead of read is right is
  `IncrementalSoundness`. For the events the invariant says of each path whether it
  has been compared yet; it needs that a stamp tells a directory from a file that
  took its place (`KindInv`).
* `LinearScanProofs!TypeCorrect`, `WakeupsSuffice` (`NoLostWakeup`, inductive
  with the types) and `OutputOrdered` (`OutputInOrder`). The last one rests on
  `OInv`: every element in a worker's result queue, in the main thread's batch
  or in the serializer covers a stretch of sequence numbers of which only the
  first may be a name to be shown (`Valid`), so printing it in turn extends the
  output to the end of its stretch.
* `LinearScanProofs!AllDelivered` and `LimitRespected` (`DeliversAll`,
  `LimitExact`) are about conservation: every sequence number is covered by exactly
  one of what was printed, what waits in the serializer, the batch, the workers'
  results, the chunks that workers or the queue hold, and what is still to be
  queued. When the last three are gone and the serializer's least element is in
  turn, all has been printed. The limit is the number of names not yet printed or
  counted, which the same partition gives.
* `PublishProofs!CompletePublication`, `UndisturbedReaders`, `NameAlmostAlways`
  and `Refinement` (`Spec => Refines`). The invariant `PInv`: a running process
  has a file number of its own that has not been published; whatever can be
  opened or is open has been published; a published file is sound and so is one
  about to be; its lineage extends one of a published database. As a step
  changes only the process's own file (`Framed`), everything published is
  frozen, and one lemma for steps that go on (`MoveStep`) and one for steps that
  end (`EndStep`) serve all actions.
* `PublishProofs!TypeCorrect` and `FaithfulHistory` (`HistoryFaithful`), without
  any hypothesis. A history in good order is a chain of runs, each a marker
  followed by its changes, with descending numbers on the way back (`Chain`);
  appending a change or a new marker keeps it one, and trimming it to depth `d`
  leaves exactly its last `d` runs (`Trimmed`, an induction over the position from
  the end). What of the lineage survives all later depths (`Tells`) is then what
  the chain's markers are, from one run to the next (`NewTells`, `KeptByLast`).
* `IndexSearchProofs!EngineSoundness`, `NoMatchIsMissed` and `AccessIsSound`
  (`EngineSound`, `NoMatchMissed`, `AccessSound`) share the invariant `SInv`. Its
  core is that no callback is under way twice (`Distinct`): the ring, the two
  queues and the synchronous read hold different requests, so a step that takes one
  out takes out all that is left of it, and the engine's counter is a cardinality.
  Of the lookups it says that a group's `remaining` counts the trigrams not yet
  answered (`LookupOK`), of the posting lists that the candidates are the
  intersection over the groups complete so far (`PostOK`), of the blocks that every
  name of every candidate is at one place only: unread, to be called, waiting for a
  statx(), or statted (`ScanOK`), and that a pending statx() has its request
  (`StatsOK`).
* `IndexOutputProofs!OutputIsExact` and `LimitIsOverAll` (`OutputExact`,
  `LimitOverAll`) build `OInv` on `SInv`. A name that is at none of the places of
  `ScanOK` is finished (`Finished`). The elements of the candidates' names, with
  their `skip`, cover the sequence numbers without gap or overlap and in the order
  of the names (`Laid`); so `next_seq` is always at the boundary of an element, all
  before it is finished and printed, and the serializer holds what is finished
  behind it (`OutOK`). An answer that is on its way to be printed is right
  (`Truth`), `matched` counts the finished names to be shown, and `total`,
  `limit_left` and `parent_left` follow from it (`Counts`). When finish() returns
  nothing is live, hence every name is finished, hence all is printed
  (`AllPrinted`). The proof needs that no element of an earlier database is left
  for its turn in the serializer when the next search starts (`~CanDrain`).
* `BindMountProofs!ChangesNoticed`: `ListCurrent`. The invariant says how far the
  list lags behind: if poll() has nothing to report, no notice is under way, and
  the flag is down, then what was read of mountinfo, or the list once it has been
  matched, is that of the mounts there are. It needs the flag to be lowered before
  the mounts are read: a change after that is still to be polled, or noticed, or
  has raised the flag again.
* `BindMountProofs!LookupsExact`: `LookupExact`, for any tree, any mounts and any
  number of replacements of the list during the scan. Paths are ordered by `Nth`,
  as the strings are by `dir_path_cmp()` (`InOrder`), and the invariant `LookupInv`
  says that whatever lies before the position of a list is before every path that
  `scan()` can still ask for: the directory of each frame comes before the rest of
  its entries, and those before what the frame below has left. A list that is
  replaced starts over at its first element, which makes the claim about it
  vacuous; a list is sorted (`Sorted`), so skipping what is smaller skips nothing
  that will be asked for.
* `DatabaseProofs!TableIsSound`: `TableSound`, for any corpus and table size. The
  builder's part of the invariant (`BuilderInv`) says that the posting lists are
  lists of the block numbers in ascending order, that a trigram has a list exactly
  if a flushed block has it (`Indexed` as an iteration over the names of a block),
  and what the table holds (`TableInv`): the trigrams taken are those in the slots
  and the one in the hand, each once; an entry's distance from its bucket is at
  most `num_overflow_slots`; and every slot between an entry's bucket and its slot
  is taken, which is what makes linear probing find it. A swap keeps all of it as
  the richer entry gives way to the poorer one. `HashRange` shows that every
  trigram has a bucket, whatever its CRC is.
* `DatabaseProofs!CursorStaysInStep` and `CursorReadsAll` (`CursorInStep`,
  `CursorComplete`), for any corpus, any cut of a stream, any unreadable block and
  any pieces in which a stream arrives. What `DatabaseBuilder` writes is described
  first (`StoreInv`): a flushed block is split by its NULs into the names of its
  place (`BlocksOf`, from `OneName` and `MoreNames`), the open block into those added
  since, and each stream, compressed part and buffer together, is the concatenation
  of the records so far (`StreamOf`). From it follows what a reader may assume of a
  database, damaged or not (`ReadableDb`). The invariant of the reader (`Reader`)
  then says of each of the three positions to which record it belongs: the names
  left are the rest of the block, and each buffer is the piece of its stream from
  the beginning of a record to the position read (`Buffered`). The names and times
  are ahead of the metadata by one record while it is read, and ahead of what
  `scan()` has kept by one while a record is returned or given back (`Situation`). A
  record is recognised as whole from its first parts (`DirTimeRead`, `MetadataRead`),
  so taking it leaves a buffer that begins with the next one (`TakenRecord`), and a
  stream that is exhausted in the middle of a record had exactly the records before
  it (`StreamEnds`).

Assumptions are the named ASSUMEs of the modules: a tree ordered by `Rank`
(`TreeAssumption`), mounts with their mount points in it (`MountAssumption`),
names of 1 to 255 bytes and integer times and digests (`CorpusAssumption`,
`RecordAssumption`), scenarios the programs can be called in
(`ScenarioAssumption`), numeric bounds, non-empty limits. They are checked by TLC
in each run.

Induction is over sets. The induction theorems of the library take an operator as
a parameter, which the provers cannot instantiate; `Induction` states the same for
a *set* of numbers that has 0 and with each number the next, and for sets of sets.
A recursive function inside an action is shown to exist by exhibiting the states
of its loop (`Iteration`). What grew a history, what a batch holds, how many
posting lists are missing, into which strings a block is split and how long the
first records of a stream are is proved that way.

Only model-checked: liveness (`EventuallyExact`, `NameReturns`, `Terminates`,
`TableEnds`), as fairness and ENABLED are beyond the prover; `IndexExact` and
`BlockFits`, which rest on what the bit-level codec computes, on powers of two
and on `SelectSeq`; `DiffExact` and `LiveExact`, whose filters and sorting are
`SelectSeq` and `SortSeq` (the prover has no facts about these operators);
`ScannedOnce` and `RunComplete` of `bind_mount`. Neither holds of
every table of mounts. With the root itself on a file system of PRUNEFS, which
`scan()` does not test, every mount counts as being under a pruned one, the list
of bind mounts stays empty, and a directory is listed once for each mount that
leads to it (TLC finds it with `PruneFs = {"A"}`). `RunComplete` has its condition, `Plain`.

## 6. Not modelled, and the plan

Not modelled, and why:

* option and configuration parsing (`conf.cpp`): string handling; the
  configuration block is modelled where it is compared (`ExistingDB`,
  `Publish`);
* `flocate-build`: the database writer without a scan; the benchmark;
* digest algorithms, the text of mountinfo, zstd and the sampling of blocks for
  its dictionary, escaping and output formats, showdiff's printing of a stored
  history: data or layout;
* the decomposition of a pattern into trigrams and the matching of a name: data
  of `IndexSearch`;
* what a file system keeps of files that were not synced before a power failure;
  a failing fork() or pipe(); a file system that changes during showdiff's walk,
  whose result has no reference to be compared with; digests that cannot be
  computed during the walk.

Proofs that could be added: `DiffExact`, from `ReadableDb` for both databases,
once its filters can be reasoned about; `ScannedOnce`, for roots that are not of
PRUNEFS and with the mounts as a tree.
