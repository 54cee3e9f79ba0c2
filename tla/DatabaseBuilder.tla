-------------------------- MODULE DatabaseBuilder --------------------------
(***************************************************************************)
(* EncodingCorpus and DatabaseBuilder: names are gathered into blocks, the *)
(* trigrams of a block are added to posting lists under its docid, and     *)
(* finish_corpus() encodes the lists and puts them into a Robin Hood hash  *)
(* table that has to hold every trigram at most extra_ht_slots from its    *)
(* bucket.  find_trigram() is flocate's side of the table.                 *)
(*                                                                         *)
(* A name is a sequence of bytes and a block its names with NUL between    *)
(* them.  A corpus also has runs of blocks whose names are shorter than a  *)
(* trigram: they only move the docid on, so that lists get any distance    *)
(* between their docids.                                                   *)
(***************************************************************************)
EXTENDS TurboPFor

CONSTANTS
    Corpora,      \* [block_size, store, files, prune]: store is store_dir_times and
                  \* store_metadata, prune the configuration block; a file is [name, dt, meta],
                  \* or stands for as many short blocks as its skip
    MaxDocid,     \* bound: see CorpusAssumption
    Slop,         \* allowed_slop, in parts of records
    num_overflow_slots

\* BitWriter and BitReader hold 32 bits and up to 7 of them are left from the
\* value before, so no delta may have more than 24 bits; the code has no check.
ASSUME CorpusAssumption ==
    /\ MaxDocid \in 1 .. 2^24
    /\ num_overflow_slots \in Nat /\ Slop \in Nat \ {0}
    /\ \A c \in Corpora : /\ c.block_size \in Nat \ {0}
                          /\ c.files \in Seq({c.files[i] : i \in DOMAIN c.files})
                          /\ \A i \in DOMAIN c.files :
                                 \/ /\ c.files[i].name # <<>> /\ c.files[i].skip = 0
                                    /\ c.files[i].name \in Seq(1 .. 255)
                                 \/ /\ c.files[i].name = <<>> /\ c.files[i].skip \in Nat \ {0}
                                    /\ ~c.store

VARIABLES
    corpus,     \* the names to store
    pos,        \* how many of them add_file() was called with
    enc,        \* the EncodingCorpus
    phase,      \* what finish_corpus() is doing
    ht_size, ht,\* the hash table
    left,       \* trigrams still to be put into it
    hand,       \* the entry being put, while one is
    file,       \* the posting lists as written, and where they start
    names       \* history: the names of each block

builderVars == <<corpus, pos, enc, phase, ht_size, ht, left, hand, file, names>>

-----------------------------------------------------------------------------
(* PostingListBuilder.                                                     *)

add_first_docid(docid) ==
    [encoded |-> write_baseval(docid), pending_deltas |-> <<>>, num_docids |-> 1,
     last_docid |-> docid, sizes |-> <<>>]

\* A block is encoded; sizes is a history of the bytes and the plain cost of each.
Encoded(pl, interleaved) ==
    LET block == encode_pfor_single_block(pl.pending_deltas, interleaved)
        d == decide_block_type(pl.pending_deltas)
    IN  [pl EXCEPT !.encoded = @ \o block, !.pending_deltas = <<>>,
                   !.num_docids = @ + Len(pl.pending_deltas),
                   !.sizes = Append(@, [bytes |-> Len(block),
                       plain |-> 1 + bytes_for_packed_bits(Len(pl.pending_deltas), d.max_bits)])]

add_docid(pl, docid) ==
    LET more == [pl EXCEPT !.pending_deltas = Append(@, docid - pl.last_docid - 1),
                           !.last_docid = docid]
    IN  IF docid = pl.last_docid THEN pl
        ELSE IF Len(more.pending_deltas) = BlockSize THEN Encoded(more, TRUE)
        ELSE more

finish(pl) == IF pl.pending_deltas = <<>> THEN pl ELSE Encoded(pl, FALSE)

-----------------------------------------------------------------------------
(* EncodingCorpus.                                                         *)

TrigramAt(block, ptr) == block[ptr] + 256 * block[ptr + 1] + 65536 * block[ptr + 2]

AddTrigram(invindex, trgm, docid) ==
    [t \in DOMAIN invindex \cup {trgm} |->
        IF t # trgm THEN invindex[t]
        ELSE IF t \in DOMAIN invindex THEN add_docid(invindex[t], docid)
        ELSE add_first_docid(docid)]

\* The loops over a block, of which each step moves ptr, the number of a byte; a byte
\* past the end is the NUL of c_str().
ShortName(block, ptr) ==
    LET nuls == {k \in 0 .. 2 : ptr + k > Len(block) \/ block[ptr + k] = 0}
    IN  IF nuls = {} THEN 0 ELSE Min(nuls) + 1
IndexStep(block, docid, s) ==
    LET last == s.ptr + 3 > Len(block) \/ block[s.ptr + 3] = 0
    IN  IF ~s.inName /\ s.ptr > Len(block) - 3 THEN s
        ELSE IF ~s.inName /\ ShortName(block, s.ptr) > 0
        THEN [s EXCEPT !.ptr = @ + ShortName(block, s.ptr)]
        ELSE [ptr |-> IF last THEN s.ptr + 4 ELSE s.ptr + 1, inName |-> ~last,
              invindex |-> AddTrigram(s.invindex, TrigramAt(block, s.ptr), docid)]
Indexed(invindex, block, docid) ==
    LET loop[k \in 0 .. Len(block)] ==
            IF k = 0 THEN [ptr |-> 1, inName |-> FALSE, invindex |-> invindex]
            ELSE IndexStep(block, docid, loop[k - 1])
    IN  loop[Len(block)].invindex

flush_block(e) ==
    IF e.current_block = <<>> THEN e
    ELSE [e EXCEPT !.invindex = Indexed(@, e.current_block, e.num_blocks),
                   !.filename_blocks = [d \in DOMAIN @ \cup {e.num_blocks} |->
                                           IF d = e.num_blocks THEN e.current_block ELSE @[d]],
                   !.current_block = <<>>, !.num_files_in_block = 0, !.num_blocks = @ + 1]

Appended(e, name) ==
    [e EXCEPT !.current_block = IF @ = <<>> THEN name ELSE @ \o <<0>> \o name,
              !.num_files_in_block = @ + 1]

\* A record of the two streams is the parts that a reader asks for one by one.
not_a_dir == -1
NoMetadata == [enabled |-> FALSE, stamp |-> 0, atime |-> 0, hash |-> 0]
ASSUME RecordAssumption ==
    \A c \in Corpora : \A k \in DOMAIN c.files :
        /\ c.files[k].dt \in Int
        /\ c.files[k].meta \in {NoMetadata} \cup [enabled : {TRUE}, stamp : Int, atime : Int, hash : Int]
Part(u, val) == [u |-> u, val |-> val]
DirTimeRecord(dt) ==
    IF dt = not_a_dir THEN <<Part("file", <<>>)>> ELSE <<Part("dir", <<>>), Part("time", <<dt>>)>>
encode_metadata_record(m) ==
    IF ~m.enabled THEN <<Part("none", <<>>)>>
    ELSE <<Part("some", <<>>), Part("fixed", <<m.stamp, m.atime, IF m.hash = 0 THEN 0 ELSE 1>>)>>
             \o (IF m.hash = 0 THEN <<>> ELSE <<Part("hash", <<m.hash>>)>>)

\* compress_dir_times() and compress_metadata(): what has gathered goes to zstd,
\* which takes all of it.
Compress(stream, allowed_slop) ==
    IF Len(stream.buffer) >= allowed_slop
    THEN [buffer |-> <<>>, compressed |-> stream.compressed \o stream.buffer]
    ELSE stream
Stored(stream, record) == Compress([stream EXCEPT !.buffer = @ \o record], Slop)
Streamed(e, f) ==
    IF corpus.store
    THEN [e EXCEPT !.dir_times = Stored(@, DirTimeRecord(f.dt)),
                   !.metadata = Stored(@, encode_metadata_record(f.meta))]
    ELSE e

EmptyStream == [buffer |-> <<>>, compressed |-> <<>>]
EmptyCorpus == [current_block |-> <<>>, num_files_in_block |-> 0, num_blocks |-> 0,
                invindex |-> <<>>, filename_blocks |-> <<>>,
                dir_times |-> EmptyStream, metadata |-> EmptyStream]

add_file ==
    /\ phase = "names" /\ pos < Len(corpus.files) /\ corpus.files[pos + 1].skip = 0
    /\ LET f == corpus.files[pos + 1]
           e == Appended(enc, f.name)
       IN  enc' = Streamed(IF e.num_files_in_block = corpus.block_size THEN flush_block(e) ELSE e, f)
    /\ pos' = pos + 1
    /\ names' = [d \in DOMAIN names \cup {enc.num_blocks} |->
                    (IF d \in DOMAIN names THEN names[d] ELSE <<>>)
                       \o (IF d = enc.num_blocks THEN <<corpus.files[pos + 1].name>> ELSE <<>>)]
    /\ UNCHANGED <<corpus, phase, ht_size, ht, left, hand, file>>

\* So many blocks of names without trigrams, which start at a block of their own.
AddShortBlocks ==
    /\ phase = "names" /\ pos < Len(corpus.files) /\ corpus.files[pos + 1].skip > 0
    /\ enc.num_files_in_block = 0
    /\ enc' = [enc EXCEPT !.num_blocks = @ + corpus.files[pos + 1].skip]
    /\ enc'.num_blocks < MaxDocid
    /\ pos' = pos + 1
    /\ UNCHANGED <<corpus, phase, ht_size, ht, left, hand, file, names>>

-----------------------------------------------------------------------------
(* The hash table.                                                         *)

\* A 32-bit value as the set of its bits; Poly is 0x1edc6f41.
Bits(val) == {k \in 0 .. 29 : Bit(val, k) = 1}
Poly == Bits(517762881)
Xor(A, B) == (A \ B) \cup (B \ A)
Crc(trgm) ==
    LET shifted(crc) == {k + 1 : k \in crc \ {31}}
        step[n \in 0 .. 32] ==      \* UNION: of the one value before
            IF n = 0 THEN Bits(trgm)
            ELSE UNION {IF 31 \in crc THEN Xor(shifted(crc), Poly) ELSE shifted(crc) :
                            crc \in {step[n - 1]}}
    IN  step[32]
hash_trigram(trgm, size) ==
    LET crc == Crc(trgm)
        high[k \in 0 .. 32] ==
            IF k = 32 THEN 0 ELSE (2 * high[k + 1] + (IF k \in crc THEN 1 ELSE 0)) % size
    IN  high[0]

is_prime(x) ==
    /\ x % 2 # 0 /\ x % 3 # 0
    /\ LET limit == CHOOSE r \in 0 .. x : r * r >= x /\ (r > 0 => (r - 1) * (r - 1) < x)
       IN  \A factor \in 5 .. limit : x % factor # 0
\* A set of one, by Bertrand's postulate: the loop ends.
next_prime(x) == {y \in x .. 2 * x + 5 : is_prime(y) /\ \A z \in x .. y - 1 : ~is_prime(z)}

EmptySlot == [trgm |-> -1, num_docids |-> 0, offset |-> 0]
NoHand == [entry |-> EmptySlot, bucket |-> 0, distance |-> 0]
Slots(size) == 0 .. size + num_overflow_slots     \* the last one is the sentinel
EmptyTable(size) == [i \in Slots(size) |-> EmptySlot]

\* The corpus and the lists are finished, and the first table is begun.
FinishLists ==
    /\ phase = "names" /\ pos = Len(corpus.files)
    /\ LET e == flush_block(enc)
       IN  /\ enc' = [e EXCEPT !.invindex = [t \in DOMAIN @ |-> finish(@[t])]]
           /\ ht_size' \in next_prime(Cardinality(DOMAIN e.invindex))
           /\ left' = DOMAIN e.invindex
    /\ ht' = EmptyTable(ht_size') /\ phase' = "table"
    /\ UNCHANGED <<corpus, pos, hand, file, names>>

TakeTrigram ==
    /\ phase = "table" /\ hand = NoHand
    /\ \E trgm \in left :
           /\ \A t \in left : trgm <= t
           /\ hand' = [entry |-> [trgm |-> trgm, num_docids |-> enc.invindex[trgm].num_docids,
                                  offset |-> 0],
                       bucket |-> hash_trigram(trgm, ht_size), distance |-> 0]
           /\ left' = left \ {trgm}
    /\ UNCHANGED <<corpus, pos, enc, phase, ht_size, ht, file, names>>

\* Mutant of Swapped: the distance stays that of the entry that was put down.
SwappedKeepsDistance ==
    LET other == hand.bucket - hash_trigram(ht[hand.bucket].trgm, ht_size)
    IN  IF hand.distance > other
        THEN [table |-> [ht EXCEPT ![hand.bucket] = hand.entry],
              hand |-> [hand EXCEPT !.entry = ht[hand.bucket]]]
        ELSE [table |-> ht, hand |-> hand]

\* Robin Hood: the entry further from its bucket gets the slot.
Swapped ==
    LET other == hand.bucket - hash_trigram(ht[hand.bucket].trgm, ht_size)
    IN  IF hand.distance > other
        THEN [table |-> [ht EXCEPT ![hand.bucket] = hand.entry],
              hand |-> [hand EXCEPT !.entry = ht[hand.bucket], !.distance = other]]
        ELSE [table |-> ht, hand |-> hand]

Probe ==
    /\ phase = "table" /\ hand # NoHand /\ ht[hand.bucket].num_docids # 0
    /\ LET s == Swapped
           next == [s.hand EXCEPT !.bucket = @ + 1, !.distance = @ + 1]
       IN  /\ hand' = next /\ ht' = s.table
           /\ phase' = IF next.distance > num_overflow_slots THEN "full" ELSE phase
    /\ UNCHANGED <<corpus, pos, enc, ht_size, left, file, names>>

Put ==
    /\ phase = "table" /\ hand # NoHand /\ ht[hand.bucket].num_docids = 0
    /\ ht' = [ht EXCEPT ![hand.bucket] = hand.entry] /\ hand' = NoHand
    /\ UNCHANGED <<corpus, pos, enc, phase, ht_size, left, file, names>>

\* Mutant of Larger: the table is tried again at the same size.
LargerSame(size) == {size}

\* create_hashtable() gave up: the next prime 5% up.
Larger(size) == next_prime((size * 105) \div 100)
Grow ==
    /\ phase = "full"
    /\ ht_size' \in Larger(ht_size)
    /\ ht' = EmptyTable(ht_size') /\ left' = DOMAIN enc.invindex /\ hand' = NoHand
    /\ phase' = "table"
    /\ UNCHANGED <<corpus, pos, enc, file, names>>

SizeOf(slot) == IF slot.num_docids = 0 THEN 0 ELSE Len(enc.invindex[slot.trgm].encoded)

\* Every slot, empty ones too, gets the place of the next list.
WithOffsets ==
    LET before[i \in Slots(ht_size)] == IF i = 0 THEN 0 ELSE before[i - 1] + SizeOf(ht[i - 1])
    IN  [i \in Slots(ht_size) |-> [ht[i] EXCEPT !.offset = before[i]]]

WriteTable ==
    /\ phase = "table" /\ hand = NoHand /\ left = {}
    /\ ht' = WithOffsets
    /\ file' = FlattenSeq([i \in 1 .. Cardinality(Slots(ht_size)) |->
                  IF ht[i - 1].num_docids = 0 THEN <<>> ELSE enc.invindex[ht[i - 1].trgm].encoded])
    /\ enc' = [enc EXCEPT !.dir_times = Compress(@, 0), !.metadata = Compress(@, 0)]
    /\ phase' = "written"
    /\ UNCHANGED <<corpus, pos, ht_size, left, hand, names>>

\* What readers other than a search read of the file.
Written ==
    [blocks |-> [d \in 1 .. enc.num_blocks |-> enc.filename_blocks[d - 1]],
     dir_times |-> enc.dir_times.compressed, metadata |-> enc.metadata.compressed,
     stored |-> corpus.store, prune |-> corpus.prune]

\* Corpus::find_trigram(): the slots it may be in and one more are read.
find_trigram(trgm) ==
    LET bucket == hash_trigram(trgm, ht_size)
        hits == {i \in bucket .. bucket + num_overflow_slots : ht[i].trgm = trgm}
        i == Min(hits)
    IN  IF hits = {} THEN [num_docids |-> 0, offset |-> 0, len |-> 0]
        ELSE [num_docids |-> ht[i].num_docids, offset |-> ht[i].offset,
              len |-> ht[i + 1].offset - ht[i].offset]

-----------------------------------------------------------------------------
BuilderInit ==
    /\ corpus \in Corpora /\ pos = 0 /\ enc = EmptyCorpus /\ phase = "names"
    /\ ht_size = 1 /\ ht = EmptyTable(1) /\ left = {} /\ hand = NoHand /\ file = <<>>
    /\ names = <<>>

\* Another run of updatedb.
BuildNext(c) ==
    /\ corpus' = c /\ pos' = 0 /\ enc' = EmptyCorpus /\ phase' = "names"
    /\ ht_size' = 1 /\ ht' = EmptyTable(1) /\ left' = {} /\ hand' = NoHand /\ file' = <<>>
    /\ names' = <<>>

AddNames == add_file \/ AddShortBlocks \/ FinishLists
FillTable == TakeTrigram \/ Probe \/ Put \/ Grow \/ WriteTable
BuilderNext == AddNames \/ FillTable
=============================================================================
