----------------------------- MODULE BindMount -----------------------------
(***************************************************************************)
(* Bind mount detection and the pruning of scan(), while file systems are  *)
(* mounted and unmounted: a thread polls the kernel's list of mounts and   *)
(* raises a flag, is_bind_mount() lowers it and rebuilds its list of       *)
(* paths, and scan() looks its directories up with a position that only    *)
(* moves forward.                                                          *)
(*                                                                         *)
(* A path is a sequence of names, the root <<>>, and a name a number, so   *)
(* that names are ordered.  Directories do not change, only mounts do.     *)
(***************************************************************************)
EXTENDS Integers, Sequences, FiniteSets, SequencesExt

CONSTANTS
    Tree,          \* the directories of each device
    NamePrefix,    \* <<a, b>>: as a string, the name b starts with a
    PruneFs,       \* devices with a file system of PRUNEFS
    conf_prunepaths, \* sorted
    Tables,        \* mounts there may be in the beginning: [id, parent, dev, root, point]
    Mountings,     \* what may be mounted: [dev, root, point]
    MaxId,         \* bound: mount IDs
    MaxChanges,    \* bound: mounts and unmounts
    MaxRuns        \* bound: runs of updatedb

ASSUME BoundAssumption == MaxId \in Nat /\ MaxChanges \in Nat /\ MaxRuns \in Nat

Path == Seq(Int)

\* A device has finitely many directories, and there is always a root.
ASSUME TreeAssumption ==
    \A v \in DOMAIN Tree : IsFiniteSet(Tree[v]) /\ \A d \in Tree[v] : d \in Path
ASSUME MountAssumption ==
    /\ \A t \in Tables :
           /\ IsFiniteSet(t) /\ \E m \in t : m.point = <<>>
           /\ \A m \in t : m \in [id : Nat, parent : Nat, dev : DOMAIN Tree, root : Path, point : Path]
    /\ \A b \in Mountings : b.dev \in DOMAIN Tree /\ b.root \in Path /\ b.point \in Path

VARIABLES
    table,         \* the mounts, /proc/self/mountinfo
    event,         \* how often they changed
    poller,        \* the thread: "none", "polling", or "noticed" before it sets the flag
    polled,        \* the change that poll() last reported
    mountinfo_updated,
    mount_entries, \* what was read of table, while the paths are being rebuilt
    bind_mount_paths, bind_mount_paths_index,
    conf_prunepaths_index,
    pc,            \* where updatedb is
    call,          \* the arguments of scan(): the directory it was called with
    frames,        \* callers: their directory, names still to open, subdirectories to scan
    db,            \* the old database: [path, time] of each directory
    newdb,
    runs,
    asked,         \* history: the last answers of the two lookups
    scanned,       \* history: the directories listed in this run, with their entries
    trouble        \* history: what happened in this run

mountVars == <<table, event>>
listVars == <<mount_entries, bind_mount_paths, bind_mount_paths_index>>
threadVars == <<poller, polled, mountinfo_updated>>
scanVars == <<call, frames, db, newdb, runs, scanned>>
vars == <<mountVars, threadVars, listVars, conf_prunepaths_index, pc, scanVars, asked, trouble>>

-----------------------------------------------------------------------------
(* Paths.                                                                  *)

\* dir_path_cmp(): a directory, what is below it, then its next sibling.
Before(p, q) ==
    \E n \in 0 .. Len(p) :
        /\ n < Len(q) /\ SubSeq(p, 1, n) = SubSeq(q, 1, n)
        /\ n = Len(p) \/ p[n + 1] < q[n + 1]

\* string_list_dir_path_sort() leaves nothing in the wrong order.
Sorted(list) == \A k, l \in DOMAIN list : k < l => ~Before(list[l], list[k])
ASSUME PrunePathsAssumption == conf_prunepaths \in Seq(Path) /\ Sorted(conf_prunepaths)

Under(p, top) == Len(top) <= Len(p) /\ SubSeq(p, 1, Len(top)) = top
Rest(p, top) == SubSeq(p, Len(top) + 1, Len(p))

\* As strings, q starts with p and is longer.
StringPrefix(p, q) ==
    \/ p # q /\ Under(q, p)
    \/ /\ p # <<>> /\ Len(p) <= Len(q) /\ Front(p) = SubSeq(q, 1, Len(p) - 1)
       /\ <<Last(p), q[Len(p)]>> \in NamePrefix

\* sort(): the place k of S in order; of equals one stands for the others.
Nth(S, k, Less(_, _)) ==
    CHOOSE x \in S : /\ Cardinality({y \in S : Less(y, x)}) < k
                     /\ Cardinality({y \in S : ~Less(x, y)}) >= k

\* string_list_contains_dir_path(): where *idx moves to, and the answer.
string_list_contains_dir_path(list, idx, path) ==
    LET size == Len(list)
        stop == CHOOSE k \in idx .. (IF idx < size THEN size ELSE idx) :
                    /\ k >= size \/ ~Before(list[k + 1], path)
                    /\ \A l \in idx .. k - 1 : Before(list[l + 1], path)
        found == stop < size /\ list[stop + 1] = path
    IN  [found |-> found, idx |-> IF found THEN stop + 1 ELSE stop]

-----------------------------------------------------------------------------
(* The kernel: mounts and where a path leads.                              *)

\* A directory as a file descriptor has it, and the top of what is mounted there.
OnTop(t, at, path) ==
    LET up[k \in 0 .. Cardinality(t)] ==
            IF k = 0 THEN at
            ELSE LET below == up[k - 1]
                     on == {m \in t : m.parent = below.mnt /\ m.point = path}
                 IN  IF on = {} THEN below
                     ELSE LET m == CHOOSE m \in on : TRUE
                          IN  [mnt |-> m.id, dev |-> m.dev, dir |-> m.root]
    IN  up[Cardinality(t)]
RootMount(t) == CHOOSE m \in t : m.point = <<>>
RootDir(t) == LET m == RootMount(t) IN [mnt |-> m.id, dev |-> m.dev, dir |-> m.root]
openat(t, fd, path) == OnTop(t, [fd EXCEPT !.dir = Append(@, Last(path))], path)
Resolve(t, path) ==
    LET down[n \in 0 .. Len(path)] ==
            IF n = 0 THEN RootDir(t) ELSE openat(t, down[n - 1], SubSeq(path, 1, n))
    IN  down[Len(path)]
Exists(t, path) == LET d == Resolve(t, path) IN d.dir \in Tree[d.dev]

\* The descriptors that updatedb has open.
Fds == (IF pc = "return" THEN {} ELSE {call.fd})
           \cup UNION {{f.fd} \cup {sub.fd : sub \in ToSet(f.subs)} : f \in ToSet(frames)}

\* What is being done elsewhere on the machine.
Changed(t) ==
    /\ event < MaxChanges /\ event' = event + 1 /\ table' = t
    /\ trouble' = trouble \cup {"changed"}
    /\ UNCHANGED <<threadVars, listVars, conf_prunepaths_index, pc, scanVars, asked>>

\* The kernel takes the lowest number that is free.
Mount ==
    LET free == (2 .. MaxId) \ {m.id : m \in table}
    IN  \E b \in Mountings, id \in free :
            /\ \A k \in free : id <= k
            /\ Exists(table, b.point)
            /\ Changed(table \cup {[id |-> id, parent |-> Resolve(table, b.point).mnt, dev |-> b.dev,
                                    root |-> b.root, point |-> b.point]})

\* A mount that is in use stays.
Umount ==
    \E m \in table :
        /\ m.point # <<>> /\ \A n \in table : n.parent # m.id
        /\ pc # "off" => \A fd \in Fds : fd.mnt # m.id
        /\ Changed(table \ {m})

-----------------------------------------------------------------------------
(* Rebuilding the list of bind mounts.                                     *)

\* Mutant of find_whether_under_pruned: only the mount itself is looked at.
FindWhetherPruned(t, m) ==
    m.dev \in PruneFs \/ m.point \in ToSet(conf_prunepaths)

\* find_whether_under_pruned(): is m pruned, or a mount above it?
find_whether_under_pruned(t, m) ==
    LET above[k \in 0 .. Cardinality(t)] ==
            IF k = 0 THEN {m}
            ELSE above[k - 1] \cup {p \in t : \E c \in above[k - 1] : c.parent = p.id}
    IN  \E p \in above[Cardinality(t)] : p.dev \in PruneFs \/ p.point \in ToSet(conf_prunepaths)

read_mount_entries(t) == {m \in t : ~find_whether_under_pruned(t, m)}

\* Mutant of IsBind: of two mounts of one directory none is preferred.
IsBindOfParent(m, entries) ==
    \E other \in entries : other.dev = m.dev /\ other.id # m.id /\ StringPrefix(other.root, m.root)

IsBind(m, entries) ==
    \E other \in entries :
        /\ other.dev = m.dev /\ other.id # m.id
        /\ StringPrefix(other.root, m.root) \/ (m.root = other.root /\ m.id > other.id)

\* The mount points, sorted.
BindPaths(entries) ==
    LET binds == {m \in entries : IsBind(m, entries)}
    IN  [k \in 1 .. Cardinality(binds) |-> Nth(binds, k, LAMBDA m, n : Before(m.point, n.point)).point]

\* Back to bind_mount_init(), which starts the thread, or to is_bind_mount().
Rebuilt ==
    /\ bind_mount_paths_index' = 0
    /\ IF poller = "none" THEN poller' = "polling" /\ pc' = "enter"
       ELSE UNCHANGED poller /\ pc' = "lookup"

ReadMounts ==
    /\ pc = "read" /\ mount_entries' = read_mount_entries(table) /\ pc' = "match"
    /\ UNCHANGED <<mountVars, threadVars, bind_mount_paths, bind_mount_paths_index,
                   conf_prunepaths_index, scanVars, asked, trouble>>

\* fopen() fails: the list stays as it is.
ReadMountsFails ==
    /\ pc = "read" /\ Rebuilt /\ trouble' = trouble \cup {"unreadable"}
    /\ UNCHANGED <<mountVars, polled, mountinfo_updated, mount_entries, bind_mount_paths,
                   conf_prunepaths_index, scanVars, asked>>

\* Mutant of MatchMounts: the flag is lowered after the rebuild.
MatchThenLower ==
    /\ pc = "match" /\ bind_mount_paths' = BindPaths(mount_entries) /\ mount_entries' = {}
    /\ Rebuilt /\ mountinfo_updated' = FALSE
    /\ UNCHANGED <<mountVars, polled, conf_prunepaths_index, scanVars, asked, trouble>>

\* Mutant of MatchMounts: the position is kept.
MatchKeepsIndex ==
    /\ pc = "match" /\ bind_mount_paths' = BindPaths(mount_entries) /\ mount_entries' = {}
    /\ IF poller = "none" THEN poller' = "polling" /\ pc' = "enter"
       ELSE UNCHANGED poller /\ pc' = "lookup"
    /\ UNCHANGED <<mountVars, polled, mountinfo_updated, bind_mount_paths_index,
                   conf_prunepaths_index, scanVars, asked, trouble>>

MatchMounts ==
    /\ pc = "match" /\ bind_mount_paths' = BindPaths(mount_entries) /\ mount_entries' = {}
    /\ Rebuilt
    /\ UNCHANGED <<mountVars, polled, mountinfo_updated, conf_prunepaths_index, scanVars, asked,
                   trouble>>

-----------------------------------------------------------------------------
(* The polling thread: poll() reports a change once, then the flag is set. *)

Poll ==
    /\ poller = "polling" /\ polled # event
    /\ polled' = event /\ poller' = "noticed"
    /\ UNCHANGED <<mountVars, mountinfo_updated, listVars, conf_prunepaths_index, pc, scanVars,
                   asked, trouble>>
Notice ==
    /\ poller = "noticed" /\ mountinfo_updated' = TRUE /\ poller' = "polling"
    /\ UNCHANGED <<mountVars, polled, listVars, conf_prunepaths_index, pc, scanVars, asked, trouble>>

\* poll() fails, and the thread ends the process.
PollFails ==
    /\ poller = "polling" /\ poller' = "none" /\ pc' = "off" /\ trouble' = trouble \cup {"died"}
    /\ UNCHANGED <<mountVars, polled, mountinfo_updated, listVars, conf_prunepaths_index, scanVars, asked>>

-----------------------------------------------------------------------------
(* scan().                                                                 *)

Unknown == <<>>      \* unknown_dir_time; else the time stands for the directory
Time(fd) == <<fd.dev, fd.dir>>
StoredTime(path) ==
    IF \E r \in db : r.path = path THEN (CHOOSE r \in db : r.path = path).time ELSE Unknown
Called(path, fd, db_modified) == [path |-> path, fd |-> fd, db_modified |-> db_modified]

\* main() opens the root, bind_mount_init() opens mountinfo.
Start ==
    /\ pc = "off" /\ runs < MaxRuns
    /\ runs' = runs + 1 /\ pc' \in {"read", "enter"}
    /\ call' = Called(<<>>, RootDir(table), Unknown)
    /\ frames' = <<>> /\ newdb' = {} /\ scanned' = <<>>
    /\ polled' = event /\ bind_mount_paths' = <<>> /\ bind_mount_paths_index' = 0
    /\ conf_prunepaths_index' = 0 /\ mountinfo_updated' = FALSE
    /\ trouble' = IF pc' = "enter" THEN {"unopened"} ELSE {}
    /\ UNCHANGED <<mountVars, poller, mount_entries, db, asked>>

\* The directory may be in PRUNEPATHS.
Enter ==
    LET hit == string_list_contains_dir_path(conf_prunepaths, conf_prunepaths_index, call.path)
    IN  /\ pc = "enter"
        /\ conf_prunepaths_index' = hit.idx /\ pc' = IF hit.found THEN "return" ELSE "asked"
        /\ asked' = [path |-> call.path, list |-> conf_prunepaths, found |-> hit.found]
        /\ UNCHANGED <<mountVars, threadVars, listVars, scanVars, trouble>>

\* is_bind_mount(): the flag is tested and lowered in one step.
TestAndClear ==
    /\ pc = "asked"
    /\ mountinfo_updated' = FALSE /\ pc' = IF mountinfo_updated THEN "read" ELSE "lookup"
    /\ UNCHANGED <<mountVars, poller, polled, listVars, conf_prunepaths_index, scanVars, asked, trouble>>

Lookup ==
    LET hit == string_list_contains_dir_path(bind_mount_paths, bind_mount_paths_index, call.path)
    IN  /\ pc = "lookup"
        /\ bind_mount_paths_index' = hit.idx /\ pc' = IF hit.found THEN "return" ELSE "list"
        /\ asked' = [path |-> call.path, list |-> bind_mount_paths, found |-> hit.found]
        /\ UNCHANGED <<mountVars, threadVars, mount_entries, bind_mount_paths, conf_prunepaths_index,
                       scanVars, trouble>>

\* The names in a directory: from the old database if its time is the same.
Readdir(fd) == {Last(d) : d \in {e \in Tree[fd.dev] : e # <<>> /\ Front(e) = fd.dir}}
OldListing(path) == {Last(r.path) : r \in {e \in db : Front(e.path) = path}}
InOrder(names) == [k \in 1 .. Cardinality(names) |-> Nth(names, k, <)]
List ==
    /\ pc = "list"
    /\ LET reuse == call.db_modified # Unknown /\ call.db_modified = Time(call.fd)
           names == IF reuse THEN OldListing(call.path) ELSE Readdir(call.fd)
       IN  /\ frames' = Append(frames, [path |-> call.path, fd |-> call.fd, subs |-> <<>>,
                                        left |-> InOrder(names)])
           /\ scanned' = Append(scanned, [path |-> call.path, dev |-> call.fd.dev,
                                          dir |-> call.fd.dir, names |-> names])
           /\ pc' = IF names = {} THEN "return" ELSE "open"
    /\ UNCHANGED <<mountVars, threadVars, listVars, conf_prunepaths_index, call, db, newdb, runs,
                   asked, trouble>>

\* The first mount listed at the path decides: of several mounts upon each other
\* the lowest, as a mount is listed before those that were made on it.
filesystem_is_excluded(path) ==
    \E m \in table : /\ m.point = path /\ m.dev \in PruneFs
                     /\ \A n \in table : n.point = path => n.id # m.parent

Top == frames[Len(frames)]

\* A subdirectory is stat()ed, opened, and stored with its time even if it is excluded.
Open ==
    /\ pc = "open" /\ pc' = IF Len(Top.left) = 1 THEN "return" ELSE pc
    /\ LET path == Append(Top.path, Head(Top.left))
           fd == openat(table, Top.fd, path)
           excluded == fd.dev # Top.fd.dev /\ filesystem_is_excluded(path)
       IN  /\ frames' = [frames EXCEPT ![Len(frames)].left = Tail(@),
                                       ![Len(frames)].subs =
                             IF excluded THEN @ ELSE Append(@, Called(path, fd, StoredTime(path)))]
           /\ newdb' = newdb \cup {[path |-> path, time |-> Time(fd)]}
    /\ UNCHANGED <<mountVars, threadVars, listVars, conf_prunepaths_index, call, db, runs,
                   scanned, asked, trouble>>

\* scan() has returned, or comes to its recursion: the next subdirectory.
ScanNext ==
    /\ pc = "return" /\ frames # <<>> /\ Top.subs # <<>>
    /\ call' = Head(Top.subs) /\ frames' = [frames EXCEPT ![Len(frames)].subs = Tail(@)]
    /\ pc' = "enter"
    /\ UNCHANGED <<mountVars, threadVars, listVars, conf_prunepaths_index, db, newdb, runs, scanned,
                   asked, trouble>>

ScanReturns ==
    /\ pc = "return" /\ frames # <<>> /\ Top.subs = <<>>
    /\ frames' = Front(frames)
    /\ UNCHANGED <<mountVars, threadVars, listVars, conf_prunepaths_index, pc, call, db, newdb, runs,
                   scanned, asked, trouble>>

\* The database is published; the process ends, its thread with it.
Exit ==
    /\ pc = "return" /\ frames = <<>>
    /\ db' = newdb /\ pc' = "off" /\ poller' = "none"
    /\ UNCHANGED <<mountVars, polled, mountinfo_updated, listVars, conf_prunepaths_index, call,
                   frames, newdb, runs, scanned, asked, trouble>>

Init ==
    /\ table \in Tables /\ event = 0
    /\ poller = "none" /\ polled = 0 /\ mountinfo_updated = FALSE
    /\ mount_entries = {} /\ bind_mount_paths = <<>> /\ bind_mount_paths_index = 0
    /\ conf_prunepaths_index = 0
    /\ pc = "off" /\ call = Called(<<>>, RootDir(table), Unknown) /\ frames = <<>>
    /\ db = {} /\ newdb = {} /\ runs = 0
    /\ asked = [path |-> <<>>, list |-> <<>>, found |-> FALSE]
    /\ scanned = <<>> /\ trouble = {}

Rebuild == ReadMounts \/ ReadMountsFails \/ MatchMounts
Scan == Enter \/ TestAndClear \/ Lookup \/ List \/ Open \/ ScanNext \/ ScanReturns
Next == Mount \/ Umount \/ Poll \/ Notice \/ PollFails \/ Start \/ Rebuild \/ Scan \/ Exit

Spec == Init /\ [][Next]_vars

-----------------------------------------------------------------------------
(* Properties.                                                             *)

\* No change of the mounts is lost between the thread and the scan: if the thread
\* has nothing to report and the flag is down, the list is that of the mounts
\* there are, whenever the change came, while the list was being rebuilt included.
ListCurrent ==
    /\ poller = "polling" /\ polled = event /\ ~mountinfo_updated
    /\ pc \notin {"read", "match"} /\ "unreadable" \notin trouble
    => bind_mount_paths = BindPaths(read_mount_entries(table))

\* string_list_contains_dir_path() tells whether the path is in the list although
\* it only looks ahead: scan() asks in the order of the lists, and a new list is
\* searched from its beginning, so that neither position leaves its list.
LookupExact ==
    /\ asked.found <=> asked.path \in ToSet(asked.list)
    /\ bind_mount_paths_index \in 0 .. Len(bind_mount_paths)
    /\ conf_prunepaths_index \in 0 .. Len(conf_prunepaths)

\* While mounts do not change, no directory is listed twice, by whatever number of
\* mounts it can be reached.  The root is not of PRUNEFS: else all mounts are pruned,
\* and the list of bind mounts is empty.
ScannedOnce ==
    trouble = {} =>
        \A k, l \in DOMAIN scanned :
            scanned[k].dev = scanned[l].dev /\ scanned[k].dir = scanned[l].dir => k = l

PathOf(m, dir) == m.point \o Rest(dir, m.root)

\* The directories that can be seen on a file system that is not pruned.
Seen(m, d) ==
    /\ Under(d, m.root)
    /\ Resolve(table, PathOf(m, d)) = [mnt |-> m.id, dev |-> m.dev, dir |-> d]
    /\ \A p \in ToSet(conf_prunepaths) : ~Under(PathOf(m, d), p)
Wanted == UNION {{<<m.dev, d>> : d \in {e \in Tree[m.dev] : Seen(m, e)}} : m \in read_mount_entries(table)}

\* Nothing is mounted or pruned on, above or below what is mounted a second time,
\* nothing is mounted below another mount but the root or a pruned one, and names
\* of roots do not start with each other.
Plain ==
    LET kept == read_mount_entries(table)
        others(o) == ({n.point : n \in table \ {o}} \cup ToSet(conf_prunepaths)) \ {<<>>}
    IN  \A m, o \in kept :
            /\ m # o /\ m.dev = o.dev /\ (m.root = o.root \/ StringPrefix(o.root, m.root)) =>
                   /\ Under(m.root, o.root)
                   /\ \A p \in others(o) : /\ ~Under(p, PathOf(o, m.root))
                                           /\ ~Under(PathOf(o, m.root), p)
            /\ m # o /\ o.point # <<>> => ~Under(m.point, o.point)

\* Skipping bind mounts loses nothing: what is skipped at one place is listed at
\* another, and that is never one that pruning hides; neither does reusing the
\* listings of a run that skipped them.  For plain mounts that are the same as in
\* the run before, if there was one.
RunComplete ==
    pc = "off" /\ runs > 0 /\ trouble = {} /\ (runs = 1 \/ event = 0) /\ Plain =>
        \A c \in Wanted : \E s \in ToSet(scanned) :
            s.dev = c[1] /\ s.dir = c[2] /\ s.names = Readdir([dev |-> c[1], dir |-> c[2]])
=============================================================================
