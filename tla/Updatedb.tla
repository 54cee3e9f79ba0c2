------------------------------ MODULE Updatedb ------------------------------
(***************************************************************************)
(* updatedb: the incremental scan of a file system that changes while it   *)
(* is being scanned, and the database that the scan leaves behind.         *)
(*                                                                         *)
(* The file system is a tree of paths (Parent, Root).  An updatedb run     *)
(* walks it in dir_path_cmp order (Rank): for each directory it reads the  *)
(* listing (readdir, or the old database when the directory's time has not *)
(* moved), stats and hashes the entries, opens and fstats the              *)
(* subdirectories, records REMOVED events, adds the entries to the new     *)
(* database and only then recurses.  Between any two of those system calls *)
(* the file system may change.                                             *)
(*                                                                         *)
(* A dir_time is an integer: not_a_dir is -1, unknown_dir_time is 0, and a *)
(* real time is at least 1.  One stamp per inode stands for                *)
(* max(ctime, mtime) and everything else stat() returns that a change      *)
(* moves; stamp 0 in a FileMetadata means enabled = false.                 *)
(***************************************************************************)
EXTENDS Integers, FiniteSets

CONSTANTS
    Path,        \* the paths that may exist below the scan root
    Root,        \* conf_scan_root
    Parent,      \* the directory that contains a path
    Rank,        \* position of a path in dir_path_cmp order
    Content,     \* contents of a regular file, told apart by their digest
    PruneNames,  \* directories listed but never opened: PRUNENAMES, PRUNEFS
    PrunePaths,  \* directories scan() returns from at once: PRUNEPATHS
    FineClock,   \* TRUE: every change of an inode gets a stamp of its own
    Margin,      \* the three seconds of time_is_current()
    MaxNow,      \* bound on the clock, hence on the number of changes
    RehashAll,   \* conf_rehash_all
    Faults       \* what may go wrong: "open", "olddb", "crash"

ASSUME TreeAssumption ==
    /\ Root \notin Path
    /\ Parent \in [Path -> Path \cup {Root}]
    /\ Rank \in [Path \cup {Root} -> Nat]
    /\ \A p \in Path : Rank[Parent[p]] < Rank[p]
    /\ \A p, q \in Path \cup {Root} : Rank[p] = Rank[q] => p = q
    /\ PruneNames \subseteq Path /\ PrunePaths \subseteq Path

ASSUME ClockAssumption ==
    /\ FineClock \in BOOLEAN /\ RehashAll \in BOOLEAN
    /\ Margin \in Nat /\ MaxNow \in Nat
    /\ Content \subseteq Nat \ {0}
    /\ Faults \subseteq {"open", "olddb", "crash"}

Node == Path \cup {Root}
unknown_dir_time == 0
not_a_dir == -1
NoHash == 0
NoMetadata == [stamp |-> 0, hash |-> NoHash]
NoInode == 0

Children(d) == {p \in Path : Parent[p] = d}

\* The element that a loop over a sorted vector takes first.
First(S) == {p \in S : \A q \in S : Rank[p] <= Rank[q]}

VARIABLES
    kind,      \* what is at a path: "none", "file" or "dir"
    stamp,     \* max(ctime, mtime) of the inode at a path
    ino,       \* which inode is at a path: counts the creations there
    content,   \* content of the regular file at a path, 0 if there is none
    now,       \* the clock of the file system and of gettimeofday()
    db,        \* the published database
    pc,        \* where the updatedb run is
    baseline,  \* baseline_run
    olderr,    \* ExistingDB::error
    tcache,    \* the static cache of time_is_current()
    fds,       \* directories that are open and still to be scanned
    cur,       \* the directory scan() is in
    ents,      \* entries: the entries of cur
    dbent,     \* db_entries: cur's listing in the old database
    pend,      \* what the current loop has not come to yet
    out,       \* the records added to the new database
    events,    \* history_events of this run
    dirty      \* auxiliary: the file system has changed since the run began

fsVars == <<kind, stamp, ino, content, now>>
runVars == <<baseline, olderr, tcache, fds, cur, ents, dbent, pend, out, events>>
vars == <<fsVars, db, pc, runVars, dirty>>

Metadata == [stamp : Nat, hash : Content \cup {NoHash}]
DirTime == Nat \cup {not_a_dir}
Record == [dt : DirTime, meta : Metadata]
OpenDir == [dt : DirTime, dbm : DirTime, ino : Nat \ {NoInode}]
Entry == [isdir : BOOLEAN, dt : DirTime, dbm : DirTime, meta : Metadata,
          prev : Metadata, existed : BOOLEAN, fd : Nat]
Event == [kind : {"ADDED", "REMOVED", "MODIFIED"}, path : Path,
          old : Metadata, new : Metadata]
PC == {"idle", "enter", "readdir", "stat", "hash", "open"}
Empty == [p \in {} |-> NoMetadata]

-----------------------------------------------------------------------------
(* The file system.                                                        *)

Listing(d) == {p \in Children(d) : kind[p] # "none"}

\* Stamps every inode in S with the time of the change.
Change(S) ==
    /\ now' = (IF FineClock THEN now + 1 ELSE now)
    /\ now' <= MaxNow
    /\ stamp' = [n \in Node |-> IF n \in S THEN now' ELSE stamp[n]]
    /\ dirty' = TRUE
    /\ UNCHANGED <<db, pc, runVars>>

Create(p, k, c) ==
    /\ kind[p] = "none" /\ kind[Parent[p]] = "dir"
    /\ kind' = [kind EXCEPT ![p] = k]
    /\ ino' = [ino EXCEPT ![p] = @ + 1]
    /\ content' = [content EXCEPT ![p] = IF k = "file" THEN c ELSE 0]
    /\ Change({p, Parent[p]})

\* unlink() or rmdir(); a directory must be empty.
Remove(p) ==
    /\ kind[p] # "none" /\ Listing(p) = {}
    /\ kind' = [kind EXCEPT ![p] = "none"]
    /\ content' = [content EXCEPT ![p] = 0]
    /\ UNCHANGED ino
    /\ Change({p, Parent[p]})

\* write(), chmod(), touch: moves the stamp of the inode itself.
Modify(p, c) ==
    /\ kind[p] # "none"
    /\ content' = [content EXCEPT ![p] = IF kind[p] = "file" THEN c ELSE 0]
    /\ UNCHANGED <<kind, ino>>
    /\ Change({p})

Tick ==
    /\ now < MaxNow
    /\ now' = now + 1
    /\ UNCHANGED <<kind, stamp, ino, content, db, pc, runVars, dirty>>

FileSystem ==
    \/ \E p \in Path, k \in {"file", "dir"}, c \in Content : Create(p, k, c)
    \/ \E p \in Path : Remove(p)
    \/ \E p \in Path, c \in Content : Modify(p, c)
    \/ Tick

-----------------------------------------------------------------------------
(* Directory times.                                                        *)

\* dir_time::operator>=, as the header defines it.
dir_time_ge(a, b) == ~(b < a)

\* time_is_current(t), and the value its static cache has afterwards.
time_is_current(t) == ~(t < tcache) /\ dir_time_ge(t, now - Margin)
CacheAfter(t) == IF t < tcache THEN tcache ELSE now - Margin

get_dirtime_from_stat(t) == IF time_is_current(t) THEN unknown_dir_time ELSE t

-----------------------------------------------------------------------------
(* One run of updatedb.                                                    *)

\* The inode behind the open directory of the current scan() is still linked.
Alive == kind[cur] = "dir" /\ ino[cur] = fds[cur].ino

\* main(): opens the old database and the scan root.  The old database is
\* unusable if there is none, or if its configuration block differs.
Start ==
    /\ pc = "idle"
    /\ baseline' \in {~db.valid, TRUE}
    /\ olderr' = baseline'
    /\ fds' = [n \in {Root} |-> [dt |-> IF dir_time_ge(stamp[Root], now - Margin)
                                        THEN unknown_dir_time ELSE stamp[Root],
                                 dbm |-> unknown_dir_time, ino |-> ino[Root]]]
    /\ tcache' = now - Margin
    /\ out' = Empty
    /\ events' = {}
    /\ dirty' = FALSE
    /\ pc' = "enter"
    /\ UNCHANGED <<fsVars, db, cur, ents, dbent, pend>>

\* What scan(d) reads of d's old listing.  An I/O error of the old database
\* cuts it short and silences the old database for the rest of the run.
OldListing(d) == IF olderr THEN {} ELSE Children(d) \cap DOMAIN db.rec
ReadOld(d) ==
    \/ /\ dbent' = OldListing(d)
       /\ UNCHANGED olderr
    \/ /\ "olddb" \in Faults /\ ~olderr
       /\ \/ dbent' = OldListing(d)
          \/ \E p \in OldListing(d) :
                 dbent' = {q \in OldListing(d) : Rank[q] < Rank[p]}
       /\ olderr' = TRUE

\* scan() returns without reading the listing.
SkipDir(d) ==
    /\ fds' = [n \in DOMAIN fds \ {d} |-> fds[n]]
    /\ UNCHANGED <<pc, cur, ents, pend>>

FromDb(p) ==
    [isdir |-> db.rec[p].dt >= 0, dt |-> unknown_dir_time, dbm |-> db.rec[p].dt,
     meta |-> NoMetadata, prev |-> db.rec[p].meta, existed |-> TRUE, fd |-> NoInode]

FromReaddir(p) ==
    [isdir |-> kind[p] = "dir", dt |-> unknown_dir_time,
     dbm |-> IF p \in dbent THEN db.rec[p].dt ELSE unknown_dir_time,
     meta |-> NoMetadata,
     prev |-> IF p \in dbent THEN db.rec[p].meta ELSE NoMetadata,
     existed |-> p \in dbent, fd |-> NoInode]

\* Mutants of Unchanged: without the error check, without the comparison.
UnchangedDespiteError(d) == fds[d].dbm > 0 /\ fds[d].dt = fds[d].dbm
UnchangedIfKnown(d) == ~olderr' /\ fds[d].dbm > 0 /\ fds[d].dt > 0

\* The listing in the old database may stand in for readdir().
Unchanged(d) ==
    /\ ~olderr'
    /\ fds[d].dbm > 0
    /\ fds[d].dt = fds[d].dbm

\* scan(d), up to the choice between readdir() and the old database.
EnterPruned(d) ==
    /\ d \in PrunePaths
    /\ SkipDir(d)
    /\ UNCHANGED <<olderr, dbent>>

EnterUnchanged(d) ==
    /\ d \notin PrunePaths
    /\ ReadOld(d)
    /\ Unchanged(d)
    /\ cur' = d
    /\ ents' = [p \in dbent' |-> FromDb(p)]
    /\ pend' = dbent'
    /\ pc' = "stat"
    /\ UNCHANGED fds

EnterChanged(d) ==
    /\ d \notin PrunePaths
    /\ ReadOld(d)
    /\ ~Unchanged(d)
    /\ \/ /\ cur' = d
          /\ ents' = Empty
          /\ pend' = Children(d)
          /\ pc' = "readdir"
          /\ UNCHANGED fds
       \/ "open" \in Faults /\ SkipDir(d)      \* fdopendir() fails

Enter ==
    /\ pc = "enter"
    /\ \E d \in First(DOMAIN fds) :
           EnterPruned(d) \/ EnterUnchanged(d) \/ EnterChanged(d)
    /\ UNCHANGED <<fsVars, db, baseline, tcache, out, events, dirty>>

\* readdir() is not atomic: each name is seen as it is when its turn comes.
Readdir ==
    /\ pc = "readdir"
    /\ \E p \in First(pend) :
           /\ pend' = pend \ {p}
           /\ ents' = IF Alive /\ kind[p] # "none"
                      THEN [q \in DOMAIN ents \cup {p} |->
                                IF q = p THEN FromReaddir(p) ELSE ents[q]]
                      ELSE ents
    /\ UNCHANGED <<fsVars, db, pc, baseline, olderr, tcache, fds, cur, dbent,
                   out, events, dirty>>

ReaddirDone ==
    /\ pc = "readdir" /\ pend = {}
    /\ pend' = DOMAIN ents
    /\ pc' = "stat"
    /\ UNCHANGED <<fsVars, db, baseline, olderr, tcache, fds, cur, ents, dbent,
                   out, events, dirty>>

\* Mutant of HistoryOf: the digest is left out of the comparison.
HistoryIgnoringHash(p, e) ==
    IF baseline THEN {}
    ELSE IF ~e.existed
    THEN {[kind |-> "ADDED", path |-> p, old |-> NoMetadata, new |-> e.meta]}
    ELSE IF e.meta.stamp # e.prev.stamp
    THEN {[kind |-> "MODIFIED", path |-> p, old |-> e.prev, new |-> e.meta]}
    ELSE {}

\* record_history_event() for an entry that was found.  A null sink drops it.
HistoryOf(p, e) ==
    IF baseline THEN {}
    ELSE IF ~e.existed
    THEN {[kind |-> "ADDED", path |-> p, old |-> NoMetadata, new |-> e.meta]}
    ELSE IF e.meta # e.prev
    THEN {[kind |-> "MODIFIED", path |-> p, old |-> e.prev, new |-> e.meta]}
    ELSE {}

\* The first loop of scan(): fstatat(), the digest, and the event.
StatFails(p) ==
    /\ ~(Alive /\ kind[p] # "none")
    /\ pend' = pend \ {p}
    /\ UNCHANGED <<pc, tcache, ents, events>>

Statted(p) ==
    [ents[p] EXCEPT
        !.meta = [stamp |-> stamp[p], hash |-> NoHash],
        !.dt = IF kind[p] = "dir" THEN get_dirtime_from_stat(stamp[p])
                                  ELSE not_a_dir]

\* Mutant of reuse_previous_hash: any earlier digest will do.
ReuseAnyHash(p) == ~RehashAll /\ ents[p].prev.hash # NoHash

reuse_previous_hash(p) ==
    /\ ~RehashAll
    /\ ents[p].prev.hash # NoHash
    /\ ents[p].prev.stamp = stamp[p]

StatDone(p, e) ==
    /\ ents' = [ents EXCEPT ![p] = e]
    /\ events' = events \cup HistoryOf(p, e)
    /\ pend' = pend \ {p}
    /\ pc' = "stat"

StatDir(p) ==
    /\ Alive /\ kind[p] = "dir"
    /\ StatDone(p, Statted(p))
    /\ tcache' = CacheAfter(stamp[p])

StatSameHash(p) ==
    /\ Alive /\ kind[p] = "file" /\ reuse_previous_hash(p)
    /\ StatDone(p, [Statted(p) EXCEPT !.meta.hash = ents[p].prev.hash])
    /\ UNCHANGED tcache

StatToHash(p) ==
    /\ Alive /\ kind[p] = "file" /\ ~reuse_previous_hash(p)
    /\ ents' = [ents EXCEPT ![p] = Statted(p)]
    /\ pc' = "hash"
    /\ UNCHANGED <<pend, tcache, events>>

Stat ==
    /\ pc = "stat"
    /\ \E p \in First(pend) :
           StatFails(p) \/ StatDir(p) \/ StatSameHash(p) \/ StatToHash(p)
    /\ UNCHANGED <<fsVars, db, baseline, olderr, fds, cur, dbent, out, dirty>>

\* compute_file_hash_at(), or no digest: too large, hashing not allowed on
\* this file system, or a read error.
Hash ==
    /\ pc = "hash"
    /\ \E p \in First(pend) :
       \E h \in {NoHash} \cup (IF Alive /\ kind[p] = "file" THEN {content[p]} ELSE {}) :
           StatDone(p, [ents[p] EXCEPT !.meta.hash = h])
    /\ UNCHANGED <<fsVars, db, baseline, olderr, tcache, fds, cur, dbent, out, dirty>>

StatLoopDone ==
    /\ pc = "stat" /\ pend = {}
    /\ pend' = DOMAIN ents
    /\ pc' = "open"
    /\ UNCHANGED <<fsVars, db, baseline, olderr, tcache, fds, cur, ents, dbent,
                   out, events, dirty>>

\* The second loop of scan(): opens and fstats the subdirectories.
OpenNothing(p) ==
    /\ ~ents[p].isdir
    /\ ents' = [ents EXCEPT ![p].dt = not_a_dir]
    /\ UNCHANGED tcache

OpenFails(p) ==
    /\ ents[p].isdir
    /\ \/ p \in PruneNames
       \/ ~(Alive /\ kind[p] = "dir")
       \/ "open" \in Faults
    /\ UNCHANGED <<ents, tcache>>

OpenDirectory(p) ==
    /\ ents[p].isdir /\ p \notin PruneNames
    /\ Alive /\ kind[p] = "dir"
    /\ ents' = [ents EXCEPT ![p].dt = get_dirtime_from_stat(stamp[p]),
                            ![p].fd = ino[p]]
    /\ tcache' = CacheAfter(stamp[p])

Open ==
    /\ pc = "open"
    /\ \E p \in First(pend) :
           /\ OpenNothing(p) \/ OpenFails(p) \/ OpenDirectory(p)
           /\ pend' = pend \ {p}
    /\ UNCHANGED <<fsVars, db, pc, baseline, olderr, fds, cur, dbent, out,
                   events, dirty>>

\* The old entries that matched nothing; none when the old listing was reused,
\* because entries = move(db_entries) empties it.
Unmatched == dbent \ DOMAIN ents

\* Mutant of Subdirs: directories that could not be opened are scanned too.
SubdirsUnopened == {p \in DOMAIN ents : ents[p].isdir}

\* The entries that scan() recurses into.
Subdirs == {p \in DOMAIN ents : ents[p].isdir /\ ents[p].fd # NoInode}

\* The tail of scan(): REMOVED events, add_file(), and the recursion.
Add ==
    /\ pc = "open" /\ pend = {}
    /\ events' = events \cup
           {[kind |-> "REMOVED", path |-> p, old |-> db.rec[p].meta, new |-> NoMetadata] :
                p \in IF baseline THEN {} ELSE Unmatched}
    /\ out' = [p \in DOMAIN out \cup DOMAIN ents |->
                  IF p \in DOMAIN ents
                  THEN [dt |-> ents[p].dt, meta |-> ents[p].meta]
                  ELSE out[p]]
    /\ fds' = [n \in (DOMAIN fds \ {cur}) \cup Subdirs |->
                  IF n \in Subdirs
                  THEN [dt |-> ents[n].dt, dbm |-> ents[n].dbm, ino |-> ents[n].fd]
                  ELSE fds[n]]
    /\ pc' = "enter"
    /\ ents' = Empty
    /\ dbent' = {}
    /\ UNCHANGED <<fsVars, db, baseline, olderr, tcache, cur, pend, dirty>>

\* The process is gone, and its variables with it.
EndRun ==
    /\ pc' = "idle"
    /\ baseline' = TRUE /\ olderr' = TRUE /\ tcache' = 0 /\ cur' = Root
    /\ fds' = Empty /\ ents' = Empty /\ out' = Empty
    /\ dbent' = {} /\ pend' = {} /\ events' = {}
    /\ UNCHANGED <<fsVars, dirty>>

\* finish_corpus(): the new database takes the old one's place.
Finished == pc = "enter" /\ DOMAIN fds = {}
Finish ==
    /\ Finished
    /\ db' = [valid |-> TRUE, rec |-> out]
    /\ EndRun

\* exit(1), or the process is killed: the temporary file is never linked.
Abort ==
    /\ "crash" \in Faults
    /\ pc # "idle"
    /\ UNCHANGED db
    /\ EndRun

Scan == Start \/ Enter \/ Readdir \/ ReaddirDone \/ Stat \/ Hash
        \/ StatLoopDone \/ Open \/ Add \/ Finish

Init ==
    /\ kind \in [Node -> {"none", "file", "dir"}]
    /\ kind[Root] = "dir"
    /\ \A p \in Path : kind[p] # "none" => kind[Parent[p]] = "dir"
    /\ now = Margin + 1
    /\ stamp = [n \in Node |-> 1]
    /\ ino = [n \in Node |-> 1]
    /\ content \in [Node -> Content \cup {0}]
    /\ \A n \in Node : content[n] = 0 <=> kind[n] # "file"
    /\ db = [valid |-> FALSE, rec |-> Empty]
    /\ pc = "idle" /\ baseline = TRUE /\ olderr = TRUE /\ tcache = 0
    /\ fds = Empty /\ cur = Root
    /\ ents = Empty /\ dbent = {} /\ pend = {}
    /\ out = Empty /\ events = {}
    /\ dirty = FALSE

Next == FileSystem \/ Scan \/ Abort

Spec == Init /\ [][Next]_vars

\* updatedb is started by a timer and is never starved of the processor.
FairSpec == Spec /\ WF_vars(Scan)

-----------------------------------------------------------------------------
(* Properties.                                                             *)

\* The variables of main() and scan() have the types their declarations give
\* them; in particular no directory is scanned without a descriptor.
TypeOK ==
    /\ kind \in [Node -> {"none", "file", "dir"}]
    /\ stamp \in [Node -> Nat] /\ ino \in [Node -> Nat \ {NoInode}]
    /\ content \in [Node -> Content \cup {0}]
    /\ now \in Nat /\ tcache \in Int
    /\ db.valid \in BOOLEAN /\ db.rec \in [DOMAIN db.rec -> Record]
    /\ DOMAIN db.rec \subseteq Path
    /\ pc \in PC /\ baseline \in BOOLEAN /\ olderr \in BOOLEAN
    /\ fds \in [DOMAIN fds -> OpenDir] /\ DOMAIN fds \subseteq Node
    /\ cur \in Node
    /\ ents \in [DOMAIN ents -> Entry] /\ DOMAIN ents \subseteq Path
    /\ dbent \subseteq Path /\ pend \subseteq Path
    /\ out \in [DOMAIN out -> Record] /\ DOMAIN out \subseteq Path
    /\ events \subseteq Event
    /\ dirty \in BOOLEAN

Scanned == Path \ (PruneNames \cup PrunePaths)

\* The condition scan() relies on when it takes a listing from the database
\* instead of calling readdir(): if the time stored for a directory is still
\* the directory's time, the stored listing is the directory's listing, with
\* the right entries marked as directories.
IncrementalSound ==
    \A d \in Scanned \cap DOMAIN db.rec :
        (kind[d] = "dir" /\ db.rec[d].dt > 0 /\ db.rec[d].dt = stamp[d]) =>
            /\ Children(d) \cap DOMAIN db.rec = Listing(d)
            /\ \A p \in Listing(d) : db.rec[p].dt >= 0 <=> kind[p] = "dir"

\* What is left of IncrementalSound when opening a directory may fail: the
\* stored listing of a directory that has its stored time is all of its
\* listing or none of it, never a part or a listing of another time.
ListingAllOrNothing ==
    \A d \in Scanned \cap DOMAIN db.rec :
        (kind[d] = "dir" /\ db.rec[d].dt > 0 /\ db.rec[d].dt = stamp[d]) =>
            Children(d) \cap DOMAIN db.rec \in {{}, Listing(d)}

\* A digest in the database is the digest of the file as long as stat() still
\* returns what the database has: what reuse_previous_hash relies on, over any
\* number of runs that hand the digest on.
HashSound ==
    \A p \in DOMAIN db.rec :
        (kind[p] = "file" /\ db.rec[p].meta.stamp = stamp[p]) =>
            db.rec[p].meta.hash \in {NoHash, content[p]}

\* No ancestor of p keeps scan() from reaching it.
InScope[p \in Path] ==
    Parent[p] = Root \/ (Parent[p] \in Scanned /\ InScope[Parent[p]])

\* A set of records describes the file system as it is now.
Describes(rec) ==
    /\ DOMAIN rec = {p \in Path : kind[p] # "none" /\ InScope[p]}
    /\ \A p \in DOMAIN rec :
           /\ rec[p].dt >= 0 <=> kind[p] = "dir"
           /\ rec[p].meta.stamp = stamp[p]
           /\ rec[p].meta.hash \in {NoHash, content[p]}

\* A run during which nothing changed produces the file system, whatever the
\* old database was, however much of it was reused or unreadable, and whatever
\* happened during the runs before.
QuietRunExact == (Finished /\ ~dirty) => Describes(out)

\* The recorded events lead from the old database to the new one: they match
\* both at the path they name, an entry with metadata but no event has not
\* changed, and after a quiet run an entry that is gone was reported, or lies
\* below a directory that was reported as removed or replaced.
MetaIn(rec, p) == IF p \in DOMAIN rec THEN rec[p].meta ELSE NoMetadata
Reported(k) == {e.path : e \in {e \in events : e.kind = k}}
Explained[p \in Path] ==
    \/ p \in Reported("REMOVED")
    \/ p \in Reported("MODIFIED") /\ kind[p] # "dir"
    \/ Parent[p] # Root /\ Explained[Parent[p]]
HistoryExplains ==
    (Finished /\ ~baseline /\ ~olderr) =>
        /\ \A e \in events :
               /\ e.old = MetaIn(db.rec, e.path) /\ e.new = MetaIn(out, e.path)
               /\ e.kind = "REMOVED" <=> e.path \notin DOMAIN out
               /\ e.kind = "ADDED" <=> e.path \notin DOMAIN db.rec
        /\ \A p \in DOMAIN out :
               (out[p].meta # NoMetadata /\ out[p].meta # MetaIn(db.rec, p)) =>
                   p \in Reported("ADDED") \cup Reported("MODIFIED")
        /\ ~dirty => \A p \in DOMAIN db.rec \ DOMAIN out : Explained[p]

\* Once the file system stops changing the database comes to describe it and
\* keeps doing so.  (The clock bound makes every behaviour stop changing.)
EventuallyExact == <>[](db.valid /\ Describes(db.rec))

=============================================================================
