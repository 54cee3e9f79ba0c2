------------------------------ MODULE ShowDiff ------------------------------
(***************************************************************************)
(* flocate-showdiff: two databases are loaded and merged, or one is        *)
(* compared with the file system by a walk that follows the pruning the    *)
(* database was built with.                                                *)
(*                                                                         *)
(* A path is a sequence of bytes and ordered as one: the databases are not *)
(* in this order, a directory's entries come before those of its           *)
(* subdirectories.                                                         *)
(***************************************************************************)
EXTENDS ExistingDB

VARIABLES
    show,     \* the arguments: [mode, only, compare_atime], and the file system:
              \* [tree, roots, unreadable, denied]
    snaps,    \* the Snapshots loaded
    step,     \* what showdiff is doing
    i, j,     \* the positions of the merge
    stack,    \* directories to walk: [path, dev, hash_allowed, check_fs]
    dir,      \* the one being read, with the entries still to come
    seen,     \* paths of the database that were met
    events    \* the HistoryEvents, in order

showVars == <<show, snaps, step, i, j, stack, dir, seen, events>>

Slash == 47
Prefix(a, n) == SubSeq(a, 1, n)
\* string::compare().
Less(a, b) ==
    \E n \in 0 .. Len(a) :
        /\ n < Len(b) /\ Prefix(a, n) = Prefix(b, n)
        /\ n = Len(a) \/ a[n + 1] < b[n + 1]

\* Where the last slash among the first n bytes is; 0 if there is none.
LastSlash(a, n) == Max({0} \cup {k \in 1 .. n : a[k] = Slash})
DirOf(p) == LET k == LastSlash(p, Len(p)) IN IF k = 1 THEN <<Slash>> ELSE Prefix(p, k - 1)
NameOf(p) == SubSeq(p, LastSlash(p, Len(p)) + 1, Len(p))

-----------------------------------------------------------------------------
(* Loading a database.                                                     *)

extract_paths_from_block(block) == SelectSeq(CStrings(block), LAMBDA p : p # <<>>)

\* The metadata records of a stream, up to one that is not complete.
MetadataOf(stream) ==
    LET after[n \in 0 .. Len(stream)] ==       \* the first n records, at most
            IF n = 0 THEN [out |-> <<>>, rest |-> stream]
            ELSE LET prev == after[n - 1]
                 IN  IF prev.rest = <<>> \/ Len(prev.rest) < MetadataNeeds(prev.rest) THEN prev
                     ELSE [out |-> Append(prev.out, decode_metadata_record(prev.rest)),
                           rest |-> SubSeq(prev.rest, MetadataNeeds(prev.rest) + 1, Len(prev.rest))]
    IN  after[Len(stream)].out

\* The directory part of the longest prefix that all paths share.
scan_root_from_paths(sorted) ==
    LET a == sorted[1]
        b == sorted[Len(sorted)]
        n == Max({k \in 0 .. Len(a) : k <= Len(b) /\ Prefix(a, k) = Prefix(b, k)})
        slash == LastSlash(a, IF n = 0 THEN 1 ELSE n)
    IN  IF sorted = <<>> \/ slash <= 1 THEN <<Slash>> ELSE Prefix(a, slash - 1)

\* Mutant of ByPath: only the paths are sorted.
ByPathAlone(paths, metadata) ==
    LET order == SortSeq([k \in DOMAIN paths |-> k], LAMBDA k, l : Less(paths[k], paths[l]))
    IN  [paths |-> [k \in DOMAIN order |-> paths[order[k]]], metadata |-> metadata]

\* Paths and metadata, sorted through one permutation.
ByPath(paths, metadata) ==
    LET order == SortSeq([k \in DOMAIN paths |-> k], LAMBDA k, l : Less(paths[k], paths[l]))
    IN  [paths |-> [k \in DOMAIN order |-> paths[order[k]]],
         metadata |-> [k \in DOMAIN order |-> metadata[order[k]]]]

Snapshot(db) ==
    LET paths == FlattenSeq([d \in DOMAIN db.blocks |-> extract_paths_from_block(db.blocks[d])])
        metadata == MetadataOf(db.metadata)
        sorted == ByPath(paths, [k \in DOMAIN paths |->
                                    IF k \in DOMAIN metadata THEN metadata[k] ELSE NoMetadata])
    IN  [paths |-> sorted.paths, metadata |-> sorted.metadata,
         hashed |-> \E k \in DOMAIN metadata : metadata[k].hash # 0,
         prune |-> db.prune, scan_root |-> scan_root_from_paths(sorted.paths)]

\* load_snapshot() refuses a database without metadata, or with a bad block.
Loadable(db) == db.stored /\ \A d \in DOMAIN db.blocks : db.blocks[d] # <<>>

Load(dbs) ==
    /\ step = "load"
    /\ LET db == dbs[Len(snaps) + 1]
       IN  IF Loadable(db)
           THEN /\ snaps' = Append(snaps, Snapshot(db))
                /\ step' = IF Len(snaps') = Len(dbs) THEN show.mode ELSE step
           ELSE step' = "failed" /\ UNCHANGED snaps
    /\ UNCHANGED <<show, i, j, stack, dir, seen, events>>

-----------------------------------------------------------------------------
(* Comparisons.                                                            *)

metadata_equals(a, b, compare_atime) ==
    /\ a.enabled = b.enabled
    /\ a.enabled => /\ compare_atime => a.atime = b.atime
                    /\ a.stamp = b.stamp /\ a.hash = b.hash

Event(kind, path, old_meta, new_meta) ==
    [kind |-> kind, path |-> path, old |-> old_meta, new |-> new_meta]
Changes(path, a, b) ==
    IF metadata_equals(a, b, show.compare_atime) THEN <<>>
    ELSE <<Event("MODIFIED", path, a, b)>>

Comparison ==
    IF i > Len(snaps[1].paths) THEN 1
    ELSE IF j > Len(snaps[2].paths) THEN -1
    ELSE IF Less(snaps[1].paths[i], snaps[2].paths[j]) THEN -1
    ELSE IF snaps[1].paths[i] = snaps[2].paths[j] THEN 0 ELSE 1

\* One round of diff_snapshots().
Merge ==
    /\ step = "diff"
    /\ i <= Len(snaps[1].paths) \/ j <= Len(snaps[2].paths)
    /\ LET a == snaps[1]
           b == snaps[2]
           cmp == Comparison
       IN  /\ events' = events \o
                  (IF cmp = 0 THEN Changes(b.paths[j], a.metadata[i], b.metadata[j])
                   ELSE IF cmp < 0 THEN <<Event("REMOVED", a.paths[i], a.metadata[i], NoMetadata)>>
                   ELSE <<Event("ADDED", b.paths[j], NoMetadata, b.metadata[j])>>)
           /\ i' = IF cmp <= 0 THEN i + 1 ELSE i
           /\ j' = IF cmp >= 0 THEN j + 1 ELSE j
    /\ UNCHANGED <<show, snaps, step, stack, dir, seen>>

\* EventFilter: without an option every kind is accepted.
accepts(kind) == show.only = {} \/ kind \in show.only
print_events(all) == SelectSeq(all, LAMBDA e : accepts(e.kind))

MergeEnds ==
    /\ step = "diff" /\ i > Len(snaps[1].paths) /\ j > Len(snaps[2].paths)
    /\ events' = print_events(events) /\ step' = "done"
    /\ UNCHANGED <<show, snaps, i, j, stack, dir, seen>>

-----------------------------------------------------------------------------
(* The walk of diff_with_live().                                           *)

NoDir == [path |-> <<>>, dev |-> 0, hash_allowed |-> FALSE, left |-> {}]
ChildrenOf(d) == {p \in DOMAIN show.tree : DirOf(p) = d}

\* An fstatat() of an entry gives its metadata without a digest.
metadata_from_stat(p) ==
    [enabled |-> TRUE, stamp |-> show.tree[p].stamp, atime |-> show.tree[p].atime, hash |-> 0]

StartWalk ==
    /\ step = "live" /\ stack = <<>> /\ dir = NoDir /\ seen = {}
    /\ LET root == snaps[1].scan_root
       IN  IF root \notin DOMAIN show.roots
           THEN step' = "failed" /\ UNCHANGED stack
           ELSE /\ stack' = <<[path |-> root, dev |-> show.roots[root], hash_allowed |-> TRUE,
                               check_fs |-> TRUE]>>
                /\ step' = "walk"
    /\ UNCHANGED <<show, snaps, i, j, dir, seen, events>>

OpenDir ==
    /\ step = "walk" /\ dir = NoDir /\ stack # <<>>
    /\ LET d == stack[Len(stack)]
       IN  /\ stack' = Front(stack)
           /\ dir' = IF d.path \in show.unreadable THEN NoDir
                     ELSE [path |-> d.path, dev |-> d.dev, left |-> ChildrenOf(d.path),
                           hash_allowed |-> d.hash_allowed /\ (d.check_fs /\ snaps[1].hashed
                                                                 => d.dev \notin show.denied)]
    /\ UNCHANGED <<show, snaps, step, i, j, seen, events>>

Known(p) == \E k \in DOMAIN snaps[1].paths : snaps[1].paths[k] = p
StoredMetadata(p) == snaps[1].metadata[CHOOSE k \in DOMAIN snaps[1].paths : snaps[1].paths[k] = p]

\* A digest is computed only where the database has one to compare it with.
WantHash(p) ==
    /\ snaps[1].hashed /\ dir.hash_allowed /\ ~show.tree[p].isdir
    /\ IF Known(p) THEN StoredMetadata(p).hash # 0 ELSE ~show.tree[p].large
LiveMetadata(p) ==
    [metadata_from_stat(p) EXCEPT !.hash = IF WantHash(p) THEN show.tree[p].content ELSE 0]

\* Mutant of Descend: PRUNEFS is not looked at.
DescendAnyFs(p) ==
    /\ show.tree[p].isdir
    /\ NameOf(p) \notin snaps[1].prune.names /\ p \notin snaps[1].prune.paths

\* The same pruning as updatedb's, but for bind mounts.
Descend(p) ==
    /\ show.tree[p].isdir
    /\ NameOf(p) \notin snaps[1].prune.names /\ p \notin snaps[1].prune.paths
    /\ show.tree[p].dev # dir.dev => show.tree[p].dev \notin snaps[1].prune.fs

VisitEntry ==
    /\ step = "walk" /\ dir # NoDir
    /\ \E p \in dir.left :
           /\ dir' = [dir EXCEPT !.left = @ \ {p}]
           /\ events' = events \o
                  (IF Known(p) THEN Changes(p, StoredMetadata(p), LiveMetadata(p))
                   ELSE <<Event("ADDED", p, NoMetadata, LiveMetadata(p))>>)
           /\ seen' = IF Known(p) THEN seen \cup {p} ELSE seen
           /\ stack' = IF Descend(p)
                       THEN Append(stack, [path |-> p, dev |-> show.tree[p].dev,
                                           hash_allowed |-> dir.hash_allowed,
                                           check_fs |-> show.tree[p].dev # dir.dev])
                       ELSE stack
    /\ UNCHANGED <<show, snaps, step, i, j>>

CloseDir ==
    /\ step = "walk" /\ dir # NoDir /\ dir.left = {}
    /\ dir' = NoDir
    /\ UNCHANGED <<show, snaps, step, i, j, stack, seen, events>>

\* Whatever was not met is gone; the events are sorted by path.
WalkEnds ==
    /\ step = "walk" /\ dir = NoDir /\ stack = <<>>
    /\ LET unseen == SelectSeq([k \in DOMAIN snaps[1].paths |->
                                   Event("REMOVED", snaps[1].paths[k], snaps[1].metadata[k], NoMetadata)],
                               LAMBDA e : e.path \notin seen)
       IN  events' = print_events(SortSeq(events \o unseen, LAMBDA a, b : Less(a.path, b.path)))
    /\ step' = "done"
    /\ UNCHANGED <<show, snaps, i, j, stack, dir, seen>>

Show ==
    \/ Merge \/ MergeEnds
    \/ StartWalk \/ OpenDir \/ VisitEntry \/ CloseDir \/ WalkEnds
=============================================================================
