------------------------------ MODULE Database ------------------------------
(***************************************************************************)
(* A database from the names to its readers: DatabaseBuilder writes one or *)
(* two databases, and then a search looks up posting lists in the last, or *)
(* updatedb reads it as its old database, or flocate-showdiff compares     *)
(* what was written.  What is read may be damaged: a filename block that   *)
(* cannot be read, a stream that ends early.                               *)
(***************************************************************************)
EXTENDS ShowDiff

CONSTANT
    Scenarios    \* [use, corpora, damage, conf, show]: what is built, one after the other;
                 \* whether the last may be damaged; the configuration it is read with

\* updatedb reads what updatedb wrote: directory times and metadata are there.
ASSUME ScenarioAssumption ==
    \A s \in Scenarios :
        /\ s.corpora \in Seq(Corpora) /\ s.corpora # <<>>
        /\ s.use = "cursor" => Len(s.corpora) = 1 /\ s.corpora[1].store

VARIABLES
    scenario,
    dbs          \* the databases written, as far as they can be read

vars == <<builderVars, cursorVars, showVars, scenario, dbs>>

Init ==
    /\ scenario \in Scenarios
    /\ corpus = scenario.corpora[1] /\ BuilderInit
    /\ old = [blocks |-> <<>>] /\ cur = NoCursor /\ call = "closed" /\ got = <<>>
    /\ show = scenario.show /\ snaps = <<>> /\ step = "load" /\ i = 1 /\ j = 1
    /\ stack = <<>> /\ dir = NoDir /\ seen = {} /\ events = <<>>
    /\ dbs = <<>>

Add ==
    /\ AddNames
    /\ UNCHANGED <<cursorVars, showVars, scenario, dbs>>

Fill ==
    /\ FillTable
    /\ UNCHANGED <<cursorVars, showVars, scenario, dbs>>

\* A database is closed and the next one begun.
PublishAndBuild ==
    /\ phase = "written" /\ Len(dbs) + 1 < Len(scenario.corpora)
    /\ dbs' = Append(dbs, Written)
    /\ BuildNext(scenario.corpora[Len(dbs) + 2])
    /\ UNCHANGED <<cursorVars, showVars, scenario>>

\* What may be left of a database when it is read.
Damaged(db) ==
    {[db EXCEPT !.dir_times = SubSeq(@, 1, n)] : n \in 0 .. Len(db.dir_times) - 1}
        \cup {[db EXCEPT !.metadata = SubSeq(@, 1, n)] : n \in 0 .. Len(db.metadata) - 1}
        \cup {[db EXCEPT !.blocks[d] = <<>>] : d \in DOMAIN db.blocks}

PublishLast ==
    /\ phase = "written" /\ scenario.use # "search" /\ Len(dbs) + 1 = Len(scenario.corpora)
    /\ \E db \in {Written} \cup {d \in Damaged(Written) : scenario.damage} : dbs' = Append(dbs, db)
    /\ phase' = "published"
    /\ UNCHANGED <<corpus, pos, enc, ht_size, ht, left, hand, file, names,
                   cursorVars, showVars, scenario>>

Open ==
    /\ phase = "published" /\ scenario.use = "cursor"
    /\ OpenOld(dbs[1], scenario.conf)
    /\ UNCHANGED <<builderVars, showVars, scenario, dbs>>

Scan ==
    /\ ReadNext
    /\ UNCHANGED <<builderVars, showVars, scenario, dbs>>

Compare ==
    /\ phase = "published" /\ scenario.use \in {"diff", "live"}
    /\ Load(IF scenario.use = "diff" THEN dbs ELSE <<dbs[1]>>) \/ Show
    /\ UNCHANGED <<builderVars, cursorVars, scenario, dbs>>

Next == Add \/ Fill \/ PublishAndBuild \/ PublishLast \/ Open \/ Scan \/ Compare

\* The loop of finish_corpus() goes on.
Spec == Init /\ [][Next]_vars /\ WF_vars(Fill)

-----------------------------------------------------------------------------
(* What updatedb stores of a file system at rest, without an old database. *)

\* The directories of tree below root that are descended into, and what is in them.
Ancestors(p, root) == {q \in {Prefix(p, n) : n \in 1 .. Len(p) - 1} : p[Len(q) + 1] = Slash
                                                                    /\ Len(q) > Len(root)}
DevOf(t, p, root) == IF p = root THEN t.roots[root] ELSE t.tree[p].dev
Scanned(t, q, prune) ==
    /\ NameOf(q) \notin prune.names /\ q \notin prune.paths /\ q \notin t.unreadable
    /\ t.tree[q].dev # DevOf(t, DirOf(q), t.root) => t.tree[q].dev \notin prune.fs
Covered(t, prune) ==
    {p \in DOMAIN t.tree : \A q \in Ancestors(p, t.root) : Scanned(t, q, prune)}

\* Hashing is given up at the first file system it is not allowed on.
HashAllowed(t, p) ==
    /\ t.roots[t.root] \notin t.denied
    /\ \A q \in Ancestors(p, t.root) : t.tree[q].dev \notin t.denied
MetadataOfFile(t, p, hashing) ==
    [enabled |-> TRUE, stamp |-> t.tree[p].stamp, atime |-> t.tree[p].atime,
     hash |-> IF hashing /\ HashAllowed(t, p) /\ ~t.tree[p].isdir /\ ~t.tree[p].large
              THEN t.tree[p].content ELSE 0]

\* A directory is listed before those below it: dir_path_cmp().
InScanOrder(p, q) ==
    LET key(a) == [k \in DOMAIN a |-> IF a[k] # Slash THEN a[k]
                                      ELSE IF k = LastSlash(a, Len(a)) THEN 0 ELSE 1]
    IN  Less(key(p), key(q))
ScanOf(t, prune, hashing) ==
    LET paths == Covered(t, prune)
        order == [k \in 1 .. Cardinality(paths) |->
                     CHOOSE p \in paths : Cardinality({q \in paths : InScanOrder(q, p)}) = k - 1]
    IN  [k \in DOMAIN order |->
            [name |-> order[k], skip |-> 0,
             dt |-> IF t.tree[order[k]].isdir THEN t.tree[order[k]].stamp ELSE not_a_dir,
             meta |-> MetadataOfFile(t, order[k], hashing)]]

-----------------------------------------------------------------------------
(* Properties.                                                             *)

\* The trigrams of a name; the blocks with a name that has one; and those of them
\* where it is not only in a name of three bytes at the end of the block.
Windows(name) == {name[k] + 256 * name[k + 1] + 65536 * name[k + 2] : k \in 1 .. Len(name) - 2}
Blocks(t) == {d \in DOMAIN names : \E k \in DOMAIN names[d] : t \in Windows(names[d][k])}
BlocksInside(t) ==
    {d \in Blocks(t) : \E k \in DOMAIN names[d] :
        t \in Windows(names[d][k]) /\ (Len(names[d][k]) > 3 \/ k < Len(names[d]))}
AllWindows == UNION {UNION {Windows(name) : name \in ToSet(names[d])} : d \in DOMAIN names}

\* What a search reads for a trigram: the list up to the next slot's, decoded.
PostingList(hit) ==
    IF hit.num_docids = 0 THEN [out |-> <<>>, at |-> hit.len]
    ELSE decode_pfor_delta1(SubSeq(file, hit.offset + 1, hit.offset + hit.len), hit.num_docids, TRUE)

\* The index from end to end: for every trigram of the names, find_trigram() leads
\* to a list, its length taken from the slot behind it, that decode_pfor_delta1()
\* reads to its last byte as blocks that hold the trigram, in order; over block
\* types, full (interleaved) and last blocks, every width of a docid, and a table
\* that had to grow.  No block is missing but one whose only such name has three
\* bytes and is its last.  For other trigrams it finds nothing.
IndexExact ==
    phase = "written" =>
        \A t \in AllWindows \cup {u + 1 : u \in AllWindows} :
            LET hit == find_trigram(t)
                read == PostingList(hit)
            IN  /\ read.at = hit.len /\ Len(read.out) = hit.num_docids
                /\ \E found \in {ToSet(read.out)} :
                       BlocksInside(t) \subseteq found /\ found \subseteq Blocks(t)
                /\ \A k \in 2 .. hit.num_docids : read.out[k - 1] < read.out[k]

\* A block is found by each trigram of each of its names: flush_block() takes up
\* every name "that's at least three bytes", the last of a block like the others.
EveryNameIndexed ==
    phase = "written" =>
        \A t \in AllWindows : Blocks(t) \subseteq ToSet(PostingList(find_trigram(t)).out)

\* While create_hashtable() puts the trigrams, each one is still to come, in
\* hand or in one slot, not further from its bucket than find_trigram() looks,
\* the distance in hand is the true one, the table is not left and the sentinel
\* stays empty.
TableSound ==
    phase = "table" =>
        LET filled == {s \in Slots(ht_size) : ht[s].num_docids # 0}
            put == {ht[s].trgm : s \in filled}
            held == IF hand = NoHand THEN {} ELSE {hand.entry.trgm}
        IN  /\ left \cup held \cup put = DOMAIN enc.invindex
            /\ Cardinality(put) = Cardinality(filled)
            /\ left \cap held = {} /\ left \cap put = {} /\ held \cap put = {}
            /\ \A s \in filled : s - hash_trigram(ht[s].trgm, ht_size) \in 0 .. num_overflow_slots
            /\ hand # NoHand => /\ hand.distance = hand.bucket - hash_trigram(hand.entry.trgm, ht_size)
                                /\ hand.bucket \in Slots(ht_size)
            /\ ht_size + num_overflow_slots \notin filled

\* decide_block_type() estimates sizes it does not measure: a block is never
\* larger than it would be as plain bits, and fits into the buffer, with the 16
\* bytes that the interleaved writer may write too far.
BlockFits ==
    \A t \in DOMAIN enc.invindex : \A k \in DOMAIN enc.invindex[t].sizes :
        LET size == enc.invindex[t].sizes[k]
        IN  size.bytes <= size.plain /\ size.bytes + 16 <= P4NENC_BOUND(BlockSize)

\* A table that finish_corpus() keeps "increasing by 5%% and trying again" while a
\* trigram finds no place becomes large enough in the end, and is written.
TableAlwaysEnds == phase = "table" ~> phase = "written"

\* It does if it cannot fail, with no more trigrams than one bucket can hold, or if
\* 5% is a bucket at least.
CanEnd == Cardinality(DOMAIN enc.invindex) <= num_overflow_slots + 1 \/ ht_size >= 20
TableEnds == phase = "table" /\ CanEnd ~> phase = "written"

\* How many of the records of a stream are complete in what is left of it.
Surviving(records, stream) ==
    Max({n \in 0 .. Len(records) : Len(FlattenSeq(SubSeq(records, 1, n))) <= Len(stream)})
MetadataRecords(files) == [k \in DOMAIN files |-> encode_metadata_record(files[k].meta)]
DirTimeRecords(files) == [k \in DOMAIN files |-> DirTimeRecord(files[k].dt)]

\* What scan() keeps of the old database is what was stored, record by record:
\* the name, the directory time and the metadata belong together, a record given
\* back included, and a cut metadata stream only takes the metadata.
CursorInStep ==
    call # "closed" =>
        LET files == corpus.files
            known == Surviving(MetadataRecords(files), old.metadata)
        IN  /\ Len(got) <= Len(files)
            /\ \A k \in DOMAIN got :
                   got[k] = [name |-> files[k].name, dt |-> files[k].dt,
                             meta |-> IF k <= known THEN files[k].meta ELSE NoMetadata]

\* The reader ends where the directory times or the blocks end and not before:
\* a database that is whole is read to its end and without an error, one with
\* another configuration not at all.
CursorComplete ==
    call # "closed" /\ (cur.eof \/ cur.error) =>
        LET files == corpus.files
            bad == {d \in DOMAIN old.blocks : old.blocks[d] = <<>>}
            named == IF bad = {} THEN Len(files) ELSE (Min(bad) - 1) * corpus.block_size
            timed == Surviving(DirTimeRecords(files), old.dir_times)
            readable == IF scenario.conf = corpus.prune THEN Min({named, timed}) ELSE 0
        IN  /\ Len(got) = readable
            /\ cur.error <=> scenario.conf # corpus.prune \/ readable < Len(files)

\* The files of a database as a reader can know them: a function of the path.
FilesOf(n) ==
    LET files == scenario.corpora[n].files
        known == Surviving(MetadataRecords(files), dbs[n].metadata)
    IN  [p \in {files[k].name : k \in DOMAIN files} |->
            LET k == CHOOSE l \in DOMAIN files : files[l].name = p
            IN  IF k <= known THEN files[k].meta ELSE NoMetadata]
Differences(a, b) ==
    {<<"REMOVED", p>> : p \in DOMAIN a \ DOMAIN b} \cup {<<"ADDED", p>> : p \in DOMAIN b \ DOMAIN a}
        \cup {<<"MODIFIED", p>> : p \in {q \in DOMAIN a \cap DOMAIN b :
                                            ~metadata_equals(a[q], b[q], show.compare_atime)}}
Shown(differences) == {d \in differences : accepts(d[1])}
Ordered == \A k \in 1 .. Len(events) - 1 : Less(events[k].path, events[k + 1].path)

\* showdiff OLD NEW prints exactly the differences that were asked for, each
\* once, by path and with the metadata of that path.
DiffExact ==
    step = "done" /\ scenario.use = "diff" =>
        LET a == FilesOf(1)
            b == FilesOf(2)
            of(f, p) == IF p \in DOMAIN f THEN f[p] ELSE NoMetadata
        IN  /\ {<<e.kind, e.path>> : e \in ToSet(events)} = Shown(Differences(a, b))
            /\ Ordered
            /\ \A e \in ToSet(events) : e.old = of(a, e.path) /\ e.new = of(b, e.path)

\* showdiff --live prints what a comparison with a database built now would:
\* the walk covers what updatedb covers, and hashes where there is a digest.
LiveExact ==
    step = "done" /\ scenario.use = "live" =>
        /\ {<<e.kind, e.path>> : e \in ToSet(events)}
               = Shown(Differences(FilesOf(1), [p \in {f.name : f \in ToSet(scenario.corpora[2].files)} |->
                   (CHOOSE f \in ToSet(scenario.corpora[2].files) : f.name = p).meta]))
        /\ Ordered
=============================================================================
