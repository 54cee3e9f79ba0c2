--------------------------- MODULE DatabaseProofs ---------------------------
(***************************************************************************)
(* The trigram table, for every corpus and every table size: a trigram is  *)
(* never lost, doubled or put where find_trigram() does not look, however  *)
(* often entries change places and however often the table has to grow.    *)
(*                                                                         *)
(* The old database, for every corpus, every damage to it and every way    *)
(* its streams come in pieces: names, directory times and metadata are     *)
(* written as blocks and streams that hold the records in order, and the   *)
(* reader takes them apart in step and to their end.                       *)
(***************************************************************************)
EXTENDS Database, Induction, SequenceTheorems

-----------------------------------------------------------------------------
(* hash_trigram().                                                         *)

\* A trigram has a bucket, whatever it is.
LEMMA HashRange ==
    ASSUME NEW trgm, NEW size \in Nat \ {0}
    PROVE  hash_trigram(trgm, size) \in 0 .. size - 1
  <1> DEFINE R == 0 .. size - 1
             crc == Crc(trgm)
             bit(k) == IF k \in crc THEN 1 ELSE 0
             G(f) == f = [k \in 0 .. 32 |-> IF k = 32 THEN 0 ELSE (2 * f[k + 1] + bit(k)) % size]
             high == CHOOSE f : G(f)
             h == [n \in Nat |-> [v \in R |-> (2 * v + bit(32 - n)) % size]]
  <1>1. hash_trigram(trgm, size) = high[0]
    BY DEF hash_trigram
  <1> HIDE DEF crc
  <1>2. \A k : bit(k) \in 0 .. 1
    OBVIOUS
  <1> HIDE DEF bit
  <1>3. \A v \in R : \A k : (2 * v + bit(k)) % size \in R
    <2> SUFFICES ASSUME NEW v \in R, NEW k PROVE (2 * v + bit(k)) % size \in R
      OBVIOUS
    <2>1. 2 * v + bit(k) \in Nat
      BY <1>2
    <2> HIDE DEF bit
    <2> QED BY <2>1
  <1>4. h \in [Nat -> [R -> R]] /\ 0 \in R
    BY <1>3
  <1>5. PICK g : IsRun(g, R, 0, h, 32)
    BY <1>4, Iteration
  <1> DEFINE f == [k \in 0 .. 32 |-> g[32 - k]]
  <1>6. G(f)
    <2>1. g \in [0 .. 32 -> R] /\ g[0] = 0 /\ \A n \in 1 .. 32 : g[n] = h[n][g[n - 1]]
      BY <1>5 DEF IsRun
    <2>2. ASSUME NEW k \in 0 .. 32, k # 32 PROVE f[k] = (2 * f[k + 1] + bit(k)) % size
      <3>1. 32 - k \in 1 .. 32 /\ 32 - k \in Nat /\ (32 - k) - 1 = 32 - (k + 1) /\ k + 1 \in 0 .. 32
            /\ 32 - (32 - k) = k /\ 32 - (k + 1) \in 0 .. 32
        BY <2>2
      <3>2. f[k] = g[32 - k] /\ f[k + 1] = g[32 - (k + 1)] /\ g[32 - (k + 1)] \in R
        BY <2>1, <3>1
      <3>3. g[32 - k] = h[32 - k][g[32 - (k + 1)]]
        BY <2>1, <3>1
      <3>4. h[32 - k][g[32 - (k + 1)]] = (2 * g[32 - (k + 1)] + bit(k)) % size
        BY <3>1, <3>2
      <3> HIDE DEF f, h
      <3> QED BY <3>2, <3>3, <3>4
    <2>3. f[32] = 0
      BY <2>1
    <2>4. f = [k \in 0 .. 32 |-> f[k]]
      OBVIOUS
    <2> HIDE DEF f
    <2> QED BY <2>2, <2>3, <2>4
  <1>7. G(high)
    BY <1>6
  <1> HIDE DEF high, f, h
  <1> DEFINE T == {n \in Nat : n <= 32 => high[32 - n] \in R}
  <1>8. 0 \in T
    BY <1>4, <1>7
  <1>9. ASSUME NEW n \in Nat, n \in T PROVE n + 1 \in T
    <2> SUFFICES ASSUME n + 1 <= 32 PROVE high[32 - (n + 1)] \in R
      OBVIOUS
    <2>1. high[32 - n] \in R /\ 32 - (n + 1) \in 0 .. 32 /\ 32 - (n + 1) # 32 /\ (32 - (n + 1)) + 1 = 32 - n
      BY <1>9
    <2>2. high[32 - (n + 1)] = (2 * high[32 - n] + bit(32 - (n + 1))) % size
      BY <1>7, <2>1
    <2> QED BY <1>3, <2>1, <2>2
  <1>10. 32 \in T
    <2> HIDE DEF T
    <2> QED BY <1>8, <1>9, SetInduction
  <1> QED BY <1>1, <1>10

-----------------------------------------------------------------------------
(* The index: every trigram in it has at least one docid.                  *)

IsList(pl) ==
    /\ "pending_deltas" \in DOMAIN pl /\ "num_docids" \in DOMAIN pl /\ "last_docid" \in DOMAIN pl
    /\ pl.pending_deltas \in Seq(Int) /\ pl.num_docids \in Nat \ {0} /\ pl.last_docid \in Nat
Index(inv) == IsFiniteSet(DOMAIN inv) /\ \A t \in DOMAIN inv : IsList(inv[t])

LEMMA EncodedList ==
    ASSUME NEW pl, IsList(pl), NEW interleaved
    PROVE  IsList(Encoded(pl, interleaved))
  <1> DEFINE e == Encoded(pl, interleaved)
             block == encode_pfor_single_block(pl.pending_deltas, interleaved)
             size == [bytes |-> Len(block),
                      plain |-> 1 + bytes_for_packed_bits(Len(pl.pending_deltas),
                                        decide_block_type(pl.pending_deltas).max_bits)]
  <1>1. e = [pl EXCEPT !.encoded = @ \o block, !.pending_deltas = <<>>,
                       !.num_docids = @ + Len(pl.pending_deltas), !.sizes = Append(@, size)]
    BY DEF Encoded
  <1> HIDE DEF e, block, size
  <1>2. pl.num_docids + Len(pl.pending_deltas) \in Nat \ {0} /\ pl.last_docid \in Nat
    BY DEF IsList
  <1>3. /\ DOMAIN e = DOMAIN pl /\ e.pending_deltas = <<>> /\ e.last_docid = pl.last_docid
        /\ e.num_docids = pl.num_docids + Len(pl.pending_deltas)
    BY <1>1 DEF IsList
  <1>4. <<>> \in Seq(Int)
    OBVIOUS
  <1> QED BY <1>2, <1>3, <1>4 DEF IsList, e

LEMMA AddedDocid ==
    ASSUME NEW pl, IsList(pl), NEW docid \in Nat
    PROVE  IsList(add_docid(pl, docid))
  <1> DEFINE more == [pl EXCEPT !.pending_deltas = Append(@, docid - pl.last_docid - 1),
                                !.last_docid = docid]
             deltas == Append(pl.pending_deltas, docid - pl.last_docid - 1)
  <1>1. deltas \in Seq(Int) /\ pl.num_docids \in Nat \ {0}
    BY DEF IsList
  <1>2. /\ DOMAIN more = DOMAIN pl /\ more.pending_deltas = deltas /\ more.last_docid = docid
        /\ more.num_docids = pl.num_docids
    BY DEF IsList
  <1> HIDE DEF deltas, more
  <1>3. IsList(more)
    BY <1>1, <1>2 DEF IsList
  <1>4. add_docid(pl, docid) \in {pl, Encoded(more, TRUE), more}
    BY DEF add_docid, more
  <1> QED BY <1>3, <1>4, EncodedList

LEMMA FirstDocid ==
    ASSUME NEW docid \in Nat
    PROVE  IsList(add_first_docid(docid))
  <1>1. <<>> \in Seq(Int)
    OBVIOUS
  <1> DEFINE b == write_baseval(docid)
  <1>2. add_first_docid(docid) = [encoded |-> b, pending_deltas |-> <<>>, num_docids |-> 1,
                                  last_docid |-> docid, sizes |-> <<>>]
    BY DEF add_first_docid
  <1> HIDE DEF b
  <1> QED BY <1>1, <1>2 DEF IsList

LEMMA Finished ==
    ASSUME NEW pl, IsList(pl)
    PROVE  IsList(finish(pl))
  BY EncodedList DEF finish

LEMMA AddedTrigram ==
    ASSUME NEW inv, Index(inv), NEW trgm, NEW docid \in Nat
    PROVE  Index(AddTrigram(inv, trgm, docid))
  <1> DEFINE new == AddTrigram(inv, trgm, docid)
  <1>1. /\ DOMAIN new = DOMAIN inv \cup {trgm}
        /\ \A t \in DOMAIN new : new[t] \in {inv[t], add_docid(inv[t], docid), add_first_docid(docid)}
        /\ \A t \in DOMAIN new : t \notin DOMAIN inv => new[t] = add_first_docid(docid)
    BY DEF AddTrigram
  <1> HIDE DEF new
  <1>2. IsFiniteSet(DOMAIN inv \cup {trgm})
    BY FS_AddElement DEF Index
  <1>3. ASSUME NEW t \in DOMAIN new PROVE IsList(new[t])
    <2>1. CASE t \in DOMAIN inv
      BY <1>1, <2>1, AddedDocid, FirstDocid DEF Index
    <2>2. CASE t \notin DOMAIN inv
      BY <1>1, <2>2, FirstDocid
    <2> QED BY <2>1, <2>2
  <1> QED BY <1>1, <1>2, <1>3 DEF Index, new

IsLoop(s) == s = [ptr |-> s.ptr, inName |-> s.inName, invindex |-> s.invindex] /\ Index(s.invindex)

LEMMA IndexStepped ==
    ASSUME NEW s, IsLoop(s), NEW block, NEW docid \in Nat
    PROVE  IsLoop(IndexStep(block, docid, s))
  <1> DEFINE p == s.ptr + ShortName(block, s.ptr)
             last == s.ptr + 3 > Len(block) \/ block[s.ptr + 3] = 0
             q == IF last THEN s.ptr + 4 ELSE s.ptr + 1
             n == ~last
             inv == AddTrigram(s.invindex, TrigramAt(block, s.ptr), docid)
  <1>1. IndexStep(block, docid, s) \in
            {s, [s EXCEPT !.ptr = p], [ptr |-> q, inName |-> n, invindex |-> inv]}
    BY DEF IndexStep
  <1>2. Index(inv)
    BY AddedTrigram DEF IsLoop
  <1> HIDE DEF p, q, n, inv
  <1>3. [s EXCEPT !.ptr = p] = [ptr |-> p, inName |-> s.inName, invindex |-> s.invindex]
    BY DEF IsLoop
  <1>4. IsLoop([ptr |-> p, inName |-> s.inName, invindex |-> s.invindex])
    BY DEF IsLoop
  <1>5. IsLoop([ptr |-> q, inName |-> n, invindex |-> inv])
    BY <1>2 DEF IsLoop
  <1> QED BY <1>1, <1>3, <1>4, <1>5

LEMMA IndexedRight ==
    ASSUME NEW inv, Index(inv), NEW block, Len(block) \in Nat, NEW docid \in Nat
    PROVE  Index(Indexed(inv, block, docid))
  <1> DEFINE size == Len(block)
             first == [ptr |-> 1, inName |-> FALSE, invindex |-> inv]
             turn(s) == IndexStep(block, docid, s)
             G(f) == f = [k \in 0 .. size |-> IF k = 0 THEN first ELSE turn(f[k - 1])]
             loop == CHOOSE f : G(f)
             Run(f, n) == /\ f = [k \in 0 .. n |-> f[k]] /\ f[0] = first
                          /\ \A k \in 1 .. n : f[k] = turn(f[k - 1])
             N == {n \in Nat : \E f : Run(f, n)}
  <1>1. Indexed(inv, block, docid) = loop[size].invindex
    BY DEF Indexed
  <1>2. IsLoop(first)
    BY DEF IsLoop
  <1>3. \A s : IsLoop(s) => IsLoop(turn(s))
    BY IndexStepped
  <1> HIDE DEF first, turn
  <1>4. 0 \in N
    <2>1. Run([k \in 0 .. 0 |-> first], 0)
      OBVIOUS
    <2> QED BY <2>1
  <1>5. ASSUME NEW n \in Nat, n \in N PROVE n + 1 \in N
    <2>1. PICK f : Run(f, n)
      BY <1>5
    <2> DEFINE g == [k \in 0 .. n + 1 |-> IF k <= n THEN f[k] ELSE turn(f[n])]
    <2>2. g = [k \in 0 .. n + 1 |-> g[k]] /\ g[0] = first
      BY <2>1
    <2>3. ASSUME NEW k \in 1 .. n + 1 PROVE g[k] = turn(g[k - 1])
      <3>1. CASE k <= n
        BY <2>1, <3>1
      <3>2. CASE k = n + 1
        BY <3>2
      <3> QED BY <3>1, <3>2
    <2> HIDE DEF g
    <2>4. Run(g, n + 1)
      BY <2>2, <2>3
    <2>5. n + 1 \in Nat
      OBVIOUS
    <2> HIDE DEF Run
    <2> QED BY <2>4, <2>5
  <1>6. size \in N
    <2> HIDE DEF N
    <2> QED BY <1>4, <1>5, SetInduction
  <1>7. PICK f : Run(f, size)
    BY <1>6
  <1>8. G(f)
    <2>1. f = [k \in 0 .. size |-> f[k]] /\ f[0] = first /\ \A k \in 1 .. size : f[k] = turn(f[k - 1])
      BY <1>7
    <2>2. \A k \in 0 .. size : k = 0 \/ k \in 1 .. size
      OBVIOUS
    <2> HIDE DEF size
    <2> QED BY <2>1, <2>2
  <1>9. G(loop)
    BY <1>8
  <1> HIDE DEF loop
  <1> DEFINE T == {n \in Nat : n <= size => IsLoop(loop[n])}
  <1>10. 0 \in T
    <2>1. 0 \in 0 .. size
      OBVIOUS
    <2>2. loop[0] = first
      BY <1>9, <2>1
    <2> QED BY <1>2, <2>2
  <1>11. ASSUME NEW n \in Nat, n \in T PROVE n + 1 \in T
    <2> SUFFICES ASSUME n + 1 <= size PROVE IsLoop(loop[n + 1])
      OBVIOUS
    <2>1. IsLoop(loop[n]) /\ n + 1 \in 0 .. size /\ n + 1 # 0 /\ (n + 1) - 1 = n
      BY <1>11
    <2>2. loop[n + 1] = turn(loop[n])
      BY <1>9, <2>1
    <2> QED BY <1>3, <2>1, <2>2
  <1>12. size \in T
    <2> HIDE DEF T
    <2> QED BY <1>10, <1>11, SetInduction
  <1> QED BY <1>1, <1>12 DEF IsLoop

-----------------------------------------------------------------------------
(* The EncodingCorpus.                                                     *)

IsEnc(e) ==
    /\ "current_block" \in DOMAIN e /\ "num_blocks" \in DOMAIN e /\ "invindex" \in DOMAIN e
    /\ e.current_block \in Seq(Int) /\ e.num_blocks \in Nat /\ Index(e.invindex)

LEMMA EmptyEnc == IsEnc(EmptyCorpus)
  <1>1. <<>> \in Seq(Int) /\ DOMAIN <<>> = {}
    OBVIOUS
  <1>2. Index(<<>>)
    BY <1>1, FS_EmptySet DEF Index
  <1>3. /\ "current_block" \in DOMAIN EmptyCorpus /\ "num_blocks" \in DOMAIN EmptyCorpus
        /\ "invindex" \in DOMAIN EmptyCorpus /\ EmptyCorpus.current_block = <<>>
        /\ EmptyCorpus.num_blocks = 0 /\ EmptyCorpus.invindex = <<>>
    BY DEF EmptyCorpus
  <1> QED BY <1>1, <1>2, <1>3 DEF IsEnc

LEMMA Flushed ==
    ASSUME NEW e, IsEnc(e)
    PROVE  IsEnc(flush_block(e))
  <1> DEFINE inv == Indexed(e.invindex, e.current_block, e.num_blocks)
             blocks == [d \in DOMAIN e.filename_blocks \cup {e.num_blocks} |->
                           IF d = e.num_blocks THEN e.current_block ELSE e.filename_blocks[d]]
             f == [e EXCEPT !.invindex = inv, !.filename_blocks = blocks, !.current_block = <<>>,
                            !.num_files_in_block = 0, !.num_blocks = @ + 1]
  <1>1. flush_block(e) = e \/ flush_block(e) = f
    BY DEF flush_block
  <1>2. Index(inv)
    BY IndexedRight DEF IsEnc
  <1> HIDE DEF inv, blocks
  <1>3. /\ DOMAIN f = DOMAIN e /\ f.invindex = inv /\ f.current_block = <<>> /\ f.num_blocks = e.num_blocks + 1
    BY DEF IsEnc
  <1> HIDE DEF f
  <1>4. <<>> \in Seq(Int) /\ e.num_blocks + 1 \in Nat
    BY DEF IsEnc
  <1>5. IsEnc(f)
    BY <1>2, <1>3, <1>4 DEF IsEnc
  <1> QED BY <1>1, <1>5

LEMMA AppendedEnc ==
    ASSUME NEW e, IsEnc(e), NEW name \in Seq(1 .. 255)
    PROVE  IsEnc(Appended(e, name))
  <1> DEFINE b == IF e.current_block = <<>> THEN name ELSE e.current_block \o <<0>> \o name
             f == Appended(e, name)
  <1>1. b \in Seq(Int)
    <2>1. name \in Seq(Int)
      <3> DEFINE S == 1 .. 255
      <3>1. S \subseteq Int /\ name \in Seq(S)
        OBVIOUS
      <3> HIDE DEF S
      <3> QED BY <3>1, SeqMonotonic
    <2>2. <<0>> \in Seq(Int) /\ e.current_block \in Seq(Int)
      BY DEF IsEnc
    <2>3. \A x, y \in Seq(Int) : x \o y \in Seq(Int)
      OBVIOUS
    <2> QED BY <2>1, <2>2, <2>3
  <1>2. DOMAIN f = DOMAIN e /\ f.current_block = b /\ f.num_blocks = e.num_blocks /\ f.invindex = e.invindex
    BY DEF Appended, IsEnc
  <1> HIDE DEF b, f
  <1>3. IsEnc(f)
    BY <1>1, <1>2 DEF IsEnc
  <1> QED BY <1>3 DEF f

LEMMA StreamedEnc ==
    ASSUME NEW e, IsEnc(e), NEW f
    PROVE  IsEnc(Streamed(e, f))
  <1> DEFINE a == Stored(e.dir_times, DirTimeRecord(f.dt))
             b == Stored(e.metadata, encode_metadata_record(f.meta))
             g == [e EXCEPT !.dir_times = a, !.metadata = b]
  <1>1. Streamed(e, f) = e \/ Streamed(e, f) = g
    BY DEF Streamed
  <1> HIDE DEF a, b
  <1>2. /\ DOMAIN g = DOMAIN e /\ g.current_block = e.current_block /\ g.num_blocks = e.num_blocks
        /\ g.invindex = e.invindex
    BY DEF IsEnc
  <1> HIDE DEF g
  <1> QED BY <1>1, <1>2 DEF IsEnc

-----------------------------------------------------------------------------
(* The table while it is being filled.                                     *)

Distance(s, trgm) == s - hash_trigram(trgm, ht_size)

Held ==
    /\ "entry" \in DOMAIN hand /\ "bucket" \in DOMAIN hand /\ "distance" \in DOMAIN hand
    /\ hand.entry.num_docids # 0
    /\ hand.entry.trgm \in DOMAIN enc.invindex /\ hand.entry.trgm \notin left
    /\ \A s \in Slots(ht_size) : ht[s].num_docids # 0 => ht[s].trgm # hand.entry.trgm
    /\ hand.bucket \in Int /\ hand.distance \in 0 .. num_overflow_slots
    /\ hand.distance = Distance(hand.bucket, hand.entry.trgm)
TableInv ==
    /\ DOMAIN ht = Slots(ht_size) /\ left \subseteq DOMAIN enc.invindex
    /\ \A s \in Slots(ht_size) : ht[s].num_docids # 0 =>
           /\ ht[s].trgm \in DOMAIN enc.invindex /\ ht[s].trgm \notin left
           /\ Distance(s, ht[s].trgm) \in 0 .. num_overflow_slots
           /\ \A r \in Slots(ht_size) : ht[r].num_docids # 0 /\ ht[r].trgm = ht[s].trgm => r = s
    /\ \A t \in DOMAIN enc.invindex :
           \/ t \in left
           \/ hand # NoHand /\ t = hand.entry.trgm
           \/ \E s \in Slots(ht_size) : ht[s].num_docids # 0 /\ ht[s].trgm = t
    /\ hand # NoHand => Held

BuilderInv ==
    /\ corpus \in Corpora /\ pos \in Nat /\ IsEnc(enc) /\ ht_size \in Nat \ {0}
    /\ phase = "names" => hand = NoHand
    /\ phase = "table" => TableInv

LEMMA OverflowNat == num_overflow_slots \in Nat
  BY CorpusAssumption

\* Where an entry at a possible distance is, the sentinel is not.
LEMMA InTable ==
    ASSUME ht_size \in Nat \ {0}, NEW s \in Int, NEW t, Distance(s, t) \in 0 .. num_overflow_slots
    PROVE  s \in Slots(ht_size) /\ s # ht_size + num_overflow_slots /\ s + 1 \in Slots(ht_size)
  <1>1. hash_trigram(t, ht_size) \in 0 .. ht_size - 1
    BY HashRange
  <1> QED BY <1>1, OverflowNat DEF Distance, Slots

LEMMA SlotInt ==
    ASSUME ht_size \in Nat \ {0}
    PROVE  \A s \in Slots(ht_size) : s \in Int
  BY OverflowNat DEF Slots

LEMMA Primes ==
    ASSUME NEW x \in Nat, NEW y \in next_prime(x)
    PROVE  y \in Nat \ {0}
  <1>1. y \in x .. 2 * x + 5 /\ y % 2 # 0
    BY DEF next_prime, is_prime
  <1> QED BY <1>1

\* An empty table and everything left.
LEMMA TableBegins ==
    ASSUME ht' = EmptyTable(ht_size'), left' = DOMAIN enc'.invindex, hand' = NoHand
    PROVE  TableInv'
  <1>1. DOMAIN ht' = Slots(ht_size') /\ \A s \in Slots(ht_size') : ht'[s].num_docids = 0
    BY DEF EmptyTable, EmptySlot
  <1> QED BY <1>1 DEF TableInv

\* The invariant says what TableSound says.
LEMMA TableFact ==
    ASSUME BuilderInv
    PROVE  TableSound
  <1> DEFINE filled == {s \in Slots(ht_size) : ht[s].num_docids # 0}
             put == {ht[s].trgm : s \in filled}
             held == IF hand = NoHand THEN {} ELSE {hand.entry.trgm}
  <1> SUFFICES ASSUME phase = "table"
               PROVE  /\ left \cup held \cup put = DOMAIN enc.invindex
                      /\ Cardinality(put) = Cardinality(filled)
                      /\ left \cap held = {} /\ left \cap put = {} /\ held \cap put = {}
                      /\ \A s \in filled : s - hash_trigram(ht[s].trgm, ht_size) \in 0 .. num_overflow_slots
                      /\ hand # NoHand =>
                             /\ hand.distance = hand.bucket - hash_trigram(hand.entry.trgm, ht_size)
                             /\ hand.bucket \in Slots(ht_size)
                      /\ ht_size + num_overflow_slots \notin filled
    BY DEF TableSound
  <1>1. TableInv /\ ht_size \in Nat \ {0}
    BY DEF BuilderInv
  <1>2. \A s \in filled : /\ Distance(s, ht[s].trgm) \in 0 .. num_overflow_slots
                          /\ ht[s].trgm \in DOMAIN enc.invindex /\ ht[s].trgm \notin left
    BY <1>1 DEF TableInv
  <1>3. Cardinality(put) = Cardinality(filled)
    <2> DEFINE f == [s \in filled |-> ht[s].trgm]
    <2>1. f \in Bijection(filled, put)
      BY <1>1 DEF TableInv, Bijection, Injection, Surjection, IsInjective
    <2>2. IsFiniteSet(filled)
      <3>1. IsFiniteSet(Slots(ht_size)) /\ filled \subseteq Slots(ht_size)
        BY <1>1, OverflowNat, FS_Interval DEF Slots
      <3> QED BY <3>1, FS_Subset
    <2> HIDE DEF filled, put, f
    <2>3. ExistsBijection(filled, put)
      BY <2>1 DEF ExistsBijection
    <2> QED BY <2>2, <2>3, FS_Bijection
  <1>4. left \cap held = {} /\ left \cap put = {} /\ held \cap put = {}
    BY <1>1, <1>2 DEF TableInv, Held
  <1>5. left \cup held \cup put = DOMAIN enc.invindex
    <2>1. left \subseteq DOMAIN enc.invindex /\ held \subseteq DOMAIN enc.invindex /\ put \subseteq DOMAIN enc.invindex
      BY <1>1, <1>2 DEF TableInv, Held
    <2>2. \A t \in DOMAIN enc.invindex : t \in left \/ t \in held \/ t \in put
      BY <1>1 DEF TableInv
    <2> QED BY <2>1, <2>2
  <1>6. \A s \in filled : s # ht_size + num_overflow_slots
    BY <1>1, <1>2, InTable, SlotInt
  <1>7. hand # NoHand => hand.bucket \in Slots(ht_size) /\ hand.distance = Distance(hand.bucket, hand.entry.trgm)
    BY <1>1, InTable DEF TableInv, Held
  <1> QED BY <1>2, <1>3, <1>4, <1>5, <1>6, <1>7 DEF Distance

-----------------------------------------------------------------------------
(* Every step keeps the invariant.                                         *)

LEMMA FileOf ==
    ASSUME corpus \in Corpora, pos \in Nat, pos < Len(corpus.files)
    PROVE  LET f == corpus.files[pos + 1]
           IN  f.name \in Seq(1 .. 255) /\ f.skip \in Nat
  <1> DEFINE files == corpus.files
  <1>1. /\ files \in Seq({files[k] : k \in DOMAIN files})
        /\ \A k \in DOMAIN files : \/ files[k].skip = 0 /\ files[k].name \in Seq(1 .. 255)
                                   \/ files[k].name = <<>> /\ files[k].skip \in Nat \ {0}
    BY CorpusAssumption
  <1>2. pos + 1 \in DOMAIN files
    <2>1. DOMAIN files = 1 .. Len(files) /\ Len(files) \in Nat
      BY <1>1
    <2> HIDE DEF files
    <2> QED BY <2>1 DEF files
  <1>3. <<>> \in Seq(1 .. 255)
    OBVIOUS
  <1> HIDE DEF files
  <1>4. files[pos + 1].name \in Seq(1 .. 255) /\ files[pos + 1].skip \in Nat
    <2> DEFINE f == files[pos + 1]
               B == Seq(1 .. 255)
    <2>1. (f.skip = 0 /\ f.name \in B) \/ (f.name = <<>> /\ f.skip \in Nat \ {0})
      BY <1>1, <1>2
    <2> HIDE DEF f, B
    <2>2. <<>> \in B
      BY <1>3 DEF B
    <2>3. f.name \in B /\ f.skip \in Nat
      BY <2>1, <2>2
    <2> QED BY <2>3 DEF f, B
  <1> QED BY <1>4 DEF files

LEMMA NamesStep ==
    ASSUME BuilderInv, AddNames
    PROVE  BuilderInv'
  <1>1. CASE add_file
    <2> DEFINE f == corpus.files[pos + 1]
               e == Appended(enc, f.name)
               g == IF e.num_files_in_block = corpus.block_size THEN flush_block(e) ELSE e
    <2>1. /\ phase = "names" /\ pos < Len(corpus.files) /\ pos' = pos + 1 /\ enc' = Streamed(g, f)
          /\ UNCHANGED <<corpus, phase, ht_size, hand>>
      BY <1>1 DEF add_file
    <2>2. f.name \in Seq(1 .. 255)
      BY <2>1, FileOf DEF BuilderInv
    <2> HIDE DEF f
    <2>3. IsEnc(e)
      BY <2>2, AppendedEnc DEF BuilderInv
    <2>4. IsEnc(g)
      <3> HIDE DEF e
      <3> QED BY <2>3, Flushed
    <2> HIDE DEF g
    <2>5. IsEnc(enc')
      BY <2>1, <2>4, StreamedEnc
    <2> QED BY <2>1, <2>5 DEF BuilderInv
  <1>2. CASE AddShortBlocks
    <2> DEFINE n == corpus.files[pos + 1].skip
    <2>1. /\ phase = "names" /\ pos < Len(corpus.files) /\ pos' = pos + 1
          /\ enc' = [enc EXCEPT !.num_blocks = enc.num_blocks + n]
          /\ UNCHANGED <<corpus, phase, ht_size, hand>>
      BY <1>2 DEF AddShortBlocks
    <2>2. n \in Nat
      BY <2>1, FileOf DEF BuilderInv
    <2> HIDE DEF n
    <2>3. /\ DOMAIN enc' = DOMAIN enc /\ enc'.num_blocks = enc.num_blocks + n
          /\ enc'.current_block = enc.current_block /\ enc'.invindex = enc.invindex
      BY <2>1 DEF BuilderInv, IsEnc
    <2>4. IsEnc(enc')
      BY <2>2, <2>3 DEF BuilderInv, IsEnc
    <2> QED BY <2>1, <2>4 DEF BuilderInv
  <1>3. CASE FinishLists
    <2> DEFINE e == flush_block(enc)
               inv == [t \in DOMAIN e.invindex |-> finish(e.invindex[t])]
    <2>1. /\ phase = "names" /\ phase' = "table" /\ enc' = [e EXCEPT !.invindex = inv]
          /\ ht_size' \in next_prime(Cardinality(DOMAIN e.invindex)) /\ left' = DOMAIN e.invindex
          /\ ht' = EmptyTable(ht_size') /\ UNCHANGED <<corpus, pos, hand>>
      BY <1>3 DEF FinishLists
    <2>2. IsEnc(e)
      BY Flushed DEF BuilderInv
    <2> HIDE DEF e
    <2>3. DOMAIN inv = DOMAIN e.invindex /\ Index(inv)
      BY <2>2, Finished DEF IsEnc, Index
    <2> HIDE DEF inv
    <2>4. /\ DOMAIN enc' = DOMAIN e /\ enc'.invindex = inv /\ enc'.num_blocks = e.num_blocks
          /\ enc'.current_block = e.current_block
      BY <2>1, <2>2 DEF IsEnc
    <2>5. IsEnc(enc')
      BY <2>2, <2>3, <2>4 DEF IsEnc
    <2>6. ht_size' \in Nat \ {0}
      <3>1. Cardinality(DOMAIN e.invindex) \in Nat
        BY <2>2, FS_CardinalityType DEF IsEnc, Index
      <3> QED BY <2>1, <3>1, Primes
    <2>7. TableInv'
      BY <2>1, <2>3, <2>4, TableBegins DEF BuilderInv
    <2> QED BY <2>1, <2>5, <2>6, <2>7 DEF BuilderInv
  <1> QED BY <1>1, <1>2, <1>3 DEF AddNames

\* A trigram is taken: it is nowhere else, and at its bucket.
LEMMA TakeStep ==
    ASSUME BuilderInv, TakeTrigram
    PROVE  BuilderInv'
  <1>1. PICK trgm \in left :
            /\ hand' = [entry |-> [trgm |-> trgm, num_docids |-> enc.invindex[trgm].num_docids,
                                   offset |-> 0],
                        bucket |-> hash_trigram(trgm, ht_size), distance |-> 0]
            /\ left' = left \ {trgm}
    BY DEF TakeTrigram
  <1>2. /\ phase = "table" /\ hand = NoHand /\ UNCHANGED <<corpus, pos, enc, phase, ht_size, ht>>
    BY DEF TakeTrigram
  <1>3. TableInv /\ ht_size \in Nat \ {0} /\ IsEnc(enc)
    BY <1>2 DEF BuilderInv
  <1>4. trgm \in DOMAIN enc.invindex /\ enc.invindex[trgm].num_docids # 0
    BY <1>1, <1>3 DEF TableInv, IsEnc, Index, IsList
  <1>5. hash_trigram(trgm, ht_size) \in Int
    BY <1>3, HashRange
  <1> DEFINE b == hash_trigram(trgm, ht_size)
             n == enc.invindex[trgm].num_docids
  <1>6. /\ "entry" \in DOMAIN hand' /\ "bucket" \in DOMAIN hand' /\ "distance" \in DOMAIN hand'
        /\ hand'.entry.trgm = trgm /\ hand'.entry.num_docids = n /\ hand'.bucket = b /\ hand'.distance = 0
    <2>1. hand' = [entry |-> [trgm |-> trgm, num_docids |-> n, offset |-> 0], bucket |-> b, distance |-> 0]
      BY <1>1
    <2> HIDE DEF b, n
    <2> QED BY <2>1
  <1>7. hand' # NoHand
    BY <1>4, <1>6 DEF NoHand, EmptySlot
  <1>8. Held'
    <2>1. 0 = Distance(b, trgm)' /\ 0 \in 0 .. num_overflow_slots
      BY <1>2, <1>5, OverflowNat DEF Distance
    <2>2. \A s \in Slots(ht_size) : ht[s].num_docids # 0 => ht[s].trgm # trgm
      BY <1>1, <1>3 DEF TableInv
    <2> HIDE DEF b
    <2> QED BY <1>1, <1>2, <1>4, <1>5, <1>6, <2>1, <2>2 DEF Held, b
  <1>9. \A t \in DOMAIN enc.invindex :
            \/ t \in left'
            \/ hand' # NoHand /\ t = hand'.entry.trgm
            \/ \E s \in Slots(ht_size) : ht[s].num_docids # 0 /\ ht[s].trgm = t
    BY <1>1, <1>2, <1>3, <1>6, <1>7 DEF TableInv
  <1>10. TableInv'
    BY <1>1, <1>2, <1>3, <1>8, <1>9 DEF TableInv, Distance
  <1> QED BY <1>2, <1>3, <1>10 DEF BuilderInv

\* The entry in hand is put where nothing was.
LEMMA PutStep ==
    ASSUME BuilderInv, Put
    PROVE  BuilderInv'
  <1> DEFINE b == hand.bucket
  <1>1. /\ phase = "table" /\ hand # NoHand /\ ht[b].num_docids = 0 /\ hand' = NoHand
        /\ ht' = [ht EXCEPT ![b] = hand.entry] /\ UNCHANGED <<corpus, pos, enc, phase, ht_size, left>>
    BY DEF Put
  <1>2. TableInv /\ Held /\ ht_size \in Nat \ {0}
    BY <1>1 DEF BuilderInv, TableInv
  <1>3. b \in Slots(ht_size) /\ Distance(b, hand.entry.trgm) \in 0 .. num_overflow_slots
    BY <1>2, InTable DEF Held
  <1>4. /\ DOMAIN ht' = Slots(ht_size) /\ ht'[b] = hand.entry
        /\ \A s \in Slots(ht_size) : s # b => ht'[s] = ht[s]
    BY <1>1, <1>2, <1>3 DEF TableInv
  <1> HIDE DEF b
  <1>5. ASSUME NEW s \in Slots(ht_size), ht'[s].num_docids # 0
        PROVE  /\ ht'[s].trgm \in DOMAIN enc.invindex /\ ht'[s].trgm \notin left
               /\ Distance(s, ht'[s].trgm) \in 0 .. num_overflow_slots
               /\ \A r \in Slots(ht_size) : ht'[r].num_docids # 0 /\ ht'[r].trgm = ht'[s].trgm => r = s
    <2>1. CASE s = b
      BY <1>2, <1>3, <1>4, <2>1 DEF Held
    <2>2. CASE s # b
      BY <1>2, <1>4, <1>5, <2>2 DEF Held, TableInv
    <2> QED BY <2>1, <2>2
  <1>6. ASSUME NEW t \in DOMAIN enc.invindex, t \notin left
        PROVE  \E s \in Slots(ht_size) : ht'[s].num_docids # 0 /\ ht'[s].trgm = t
    <2>1. CASE t = hand.entry.trgm
      BY <1>2, <1>3, <1>4, <2>1 DEF Held
    <2>2. CASE t # hand.entry.trgm
      <3>1. PICK s \in Slots(ht_size) : ht[s].num_docids # 0 /\ ht[s].trgm = t
        BY <1>2, <1>6, <2>2 DEF TableInv
      <3>2. s # b
        BY <1>1, <3>1 DEF b
      <3> QED BY <1>4, <3>1, <3>2
    <2> QED BY <2>1, <2>2
  <1>7. TableInv'
    BY <1>1, <1>2, <1>4, <1>5, <1>6 DEF TableInv, Distance
  <1> QED BY <1>1, <1>7 DEF BuilderInv

\* The entry further from its bucket stays, the other one moves on; both keep
\* their true distances.
LEMMA ProbeStep ==
    ASSUME BuilderInv, Probe
    PROVE  BuilderInv'
  <1> DEFINE b == hand.bucket
             other == b - hash_trigram(ht[b].trgm, ht_size)
             swap == hand.distance > other
             next == [Swapped.hand EXCEPT !.bucket = @ + 1, !.distance = @ + 1]
  <1>1. /\ phase = "table" /\ hand # NoHand /\ ht[b].num_docids # 0
        /\ hand' = next /\ ht' = Swapped.table
        /\ phase' = IF next.distance > num_overflow_slots THEN "full" ELSE phase
        /\ UNCHANGED <<corpus, pos, enc, ht_size, left>>
    BY DEF Probe
  <1>2. TableInv /\ Held /\ ht_size \in Nat \ {0}
    BY <1>1 DEF BuilderInv, TableInv
  <1>3. /\ b \in Int /\ b \in Slots(ht_size) /\ hand.distance \in 0 .. num_overflow_slots
        /\ hand.distance = Distance(b, hand.entry.trgm)
    BY <1>2, InTable DEF Held
  <1>4. other = Distance(b, ht[b].trgm) /\ other \in 0 .. num_overflow_slots
    BY <1>1, <1>2, <1>3 DEF TableInv, Distance
  <1>5. DOMAIN ht = Slots(ht_size) /\ hand.entry.num_docids # 0
    BY <1>2 DEF TableInv, Held
  <1>6. /\ Swapped = IF swap
                     THEN [table |-> [ht EXCEPT ![b] = hand.entry],
                           hand |-> [hand EXCEPT !.entry = ht[b], !.distance = other]]
                     ELSE [table |-> ht, hand |-> hand]
    BY DEF Swapped
  <1>7. "entry" \in DOMAIN hand /\ "bucket" \in DOMAIN hand /\ "distance" \in DOMAIN hand
    BY <1>2 DEF Held
  <1> HIDE DEF b, other
  <1>8. CASE phase' # "table"
    <2>1. phase' = "full"
      BY <1>1, <1>8
    <2> QED BY <1>1, <2>1 DEF BuilderInv
  <1>9. CASE phase' = "table" /\ ~swap
    <2>1. Swapped.hand = hand /\ Swapped.table = ht
      BY <1>6, <1>9
    <2>2. /\ ht' = ht /\ DOMAIN hand' = DOMAIN hand /\ hand'.entry = hand.entry
          /\ hand'.bucket = b + 1 /\ hand'.distance = hand.distance + 1
      BY <1>1, <1>7, <2>1 DEF b
    <2>3. hand.distance + 1 <= num_overflow_slots
      BY <1>1, <1>3, <1>9, <2>1, <2>2, OverflowNat
    <2>4. hand' # NoHand
      BY <1>5, <2>2 DEF NoHand, EmptySlot
    <2>5. hand'.distance \in 0 .. num_overflow_slots /\ hand'.distance = Distance(b + 1, hand.entry.trgm)
      <3>1. hash_trigram(hand.entry.trgm, ht_size) \in Int
        BY <1>2, HashRange
      <3> QED BY <1>3, <2>2, <2>3, <3>1, OverflowNat DEF Distance
    <2>6. Held'
      BY <1>1, <1>2, <1>3, <2>2, <2>5 DEF Held, Distance
    <2>7. TableInv'
      BY <1>1, <1>2, <2>2, <2>4, <2>6 DEF TableInv, Distance
    <2> QED BY <1>1, <1>9, <2>7 DEF BuilderInv
  <1>10. CASE phase' = "table" /\ swap
    <2>1. /\ Swapped.table = [ht EXCEPT ![b] = hand.entry]
          /\ Swapped.hand = [hand EXCEPT !.entry = ht[b], !.distance = other]
      BY <1>6, <1>10
    <2>2. /\ DOMAIN Swapped.hand = DOMAIN hand /\ Swapped.hand.entry = ht[b]
          /\ Swapped.hand.bucket = b /\ Swapped.hand.distance = other
      BY <1>7, <2>1 DEF b
    <2>3. /\ DOMAIN hand' = DOMAIN hand /\ hand'.entry = ht[b]
          /\ hand'.bucket = b + 1 /\ hand'.distance = other + 1
      BY <1>1, <1>7, <2>2
    <2>4. other + 1 <= num_overflow_slots
      BY <1>3, <1>4, <1>10, OverflowNat
    <2>5. /\ DOMAIN ht' = Slots(ht_size) /\ ht'[b] = hand.entry
          /\ \A s \in Slots(ht_size) : s # b => ht'[s] = ht[s]
      BY <1>1, <1>3, <1>5, <2>1
    <2>6. ht[b].num_docids # 0 /\ ht[b].trgm \in DOMAIN enc.invindex /\ ht[b].trgm \notin left
      BY <1>1, <1>2, <1>3 DEF TableInv
    <2>7. hand' # NoHand
      BY <2>3, <2>6 DEF NoHand, EmptySlot
    <2>8. hand'.distance \in 0 .. num_overflow_slots /\ hand'.distance = Distance(b + 1, ht[b].trgm)
      <3>1. hash_trigram(ht[b].trgm, ht_size) \in Int
        BY <1>2, HashRange
      <3> QED BY <1>3, <1>4, <2>3, <2>4, <3>1, OverflowNat DEF Distance
    <2>9. \A s \in Slots(ht_size) : ht'[s].num_docids # 0 => ht'[s].trgm # ht[b].trgm
      <3> SUFFICES ASSUME NEW s \in Slots(ht_size), ht'[s].num_docids # 0 PROVE ht'[s].trgm # ht[b].trgm
        OBVIOUS
      <3>1. CASE s = b
        BY <1>2, <1>3, <2>5, <2>6, <3>1 DEF Held
      <3>2. CASE s # b
        BY <1>2, <1>3, <2>5, <2>6, <3>2 DEF TableInv
      <3> QED BY <3>1, <3>2
    <2>10. Held'
      BY <1>1, <1>3, <1>7, <2>3, <2>6, <2>8, <2>9 DEF Held, Distance
    <2>11. ASSUME NEW s \in Slots(ht_size), ht'[s].num_docids # 0
           PROVE  /\ ht'[s].trgm \in DOMAIN enc.invindex /\ ht'[s].trgm \notin left
                  /\ Distance(s, ht'[s].trgm) \in 0 .. num_overflow_slots
                  /\ \A r \in Slots(ht_size) : ht'[r].num_docids # 0 /\ ht'[r].trgm = ht'[s].trgm => r = s
      <3>1. CASE s = b
        BY <1>2, <1>3, <2>5, <3>1 DEF Held
      <3>2. CASE s # b
        BY <1>2, <2>5, <2>11, <3>2 DEF Held, TableInv
      <3> QED BY <3>1, <3>2
    <2>12. ASSUME NEW t \in DOMAIN enc.invindex, t \notin left, t # hand'.entry.trgm
           PROVE  \E s \in Slots(ht_size) : ht'[s].num_docids # 0 /\ ht'[s].trgm = t
      <3>1. CASE t = hand.entry.trgm
        BY <1>3, <1>5, <2>5, <3>1
      <3>2. CASE t # hand.entry.trgm
        <4>1. PICK s \in Slots(ht_size) : ht[s].num_docids # 0 /\ ht[s].trgm = t
          BY <1>2, <2>12, <3>2 DEF TableInv
        <4>2. s # b
          BY <2>3, <2>12, <4>1
        <4> QED BY <2>5, <4>1, <4>2
      <3> QED BY <3>1, <3>2
    <2>13. TableInv'
      BY <1>1, <1>2, <2>5, <2>7, <2>10, <2>11, <2>12 DEF TableInv, Distance
    <2> QED BY <1>1, <1>10, <2>13 DEF BuilderInv
  <1> QED BY <1>8, <1>9, <1>10

LEMMA GrowStep ==
    ASSUME BuilderInv, Grow
    PROVE  BuilderInv'
  <1>1. /\ phase' = "table" /\ ht_size' \in next_prime((ht_size * 105) \div 100) /\ hand' = NoHand
        /\ ht' = EmptyTable(ht_size') /\ left' = DOMAIN enc.invindex /\ UNCHANGED <<corpus, pos, enc>>
    BY DEF Grow, Larger
  <1>2. (ht_size * 105) \div 100 \in Nat
    BY DEF BuilderInv
  <1>3. ht_size' \in Nat \ {0}
    BY <1>1, <1>2, Primes
  <1>4. TableInv'
    BY <1>1, TableBegins
  <1> QED BY <1>1, <1>3, <1>4 DEF BuilderInv

LEMMA WriteStep ==
    ASSUME BuilderInv, WriteTable
    PROVE  BuilderInv'
  <1> DEFINE a == Compress(enc.dir_times, 0)
             c == Compress(enc.metadata, 0)
  <1>1. /\ phase' = "written" /\ UNCHANGED <<corpus, pos, ht_size>>
        /\ enc' = [enc EXCEPT !.dir_times = a, !.metadata = c]
    BY DEF WriteTable
  <1> HIDE DEF a, c
  <1>2. /\ DOMAIN enc' = DOMAIN enc /\ enc'.current_block = enc.current_block
        /\ enc'.num_blocks = enc.num_blocks /\ enc'.invindex = enc.invindex
    BY <1>1 DEF BuilderInv, IsEnc
  <1>3. IsEnc(enc')
    BY <1>2 DEF BuilderInv, IsEnc
  <1> QED BY <1>1, <1>3 DEF BuilderInv

LEMMA SameBuilder ==
    ASSUME BuilderInv, UNCHANGED builderVars
    PROVE  BuilderInv'
  BY DEF BuilderInv, TableInv, Held, Distance, builderVars

\* The databases written before, and which corpora they are of.
DatabaseInv ==
    /\ BuilderInv /\ scenario \in Scenarios /\ \E S : dbs \in Seq(S)

LEMMA BuildBegins ==
    ASSUME corpus' \in Corpora, pos' = 0, enc' = EmptyCorpus, phase' = "names", ht_size' = 1, hand' = NoHand
    PROVE  BuilderInv'
  BY EmptyEnc DEF BuilderInv

LEMMA DatabaseInit == Init => DatabaseInv
  <1> SUFFICES ASSUME Init PROVE DatabaseInv
    OBVIOUS
  <1>1. scenario \in Scenarios /\ dbs = <<>>
    BY DEF Init
  <1>2. /\ corpus \in Corpora /\ pos = 0 /\ enc = EmptyCorpus /\ phase = "names" /\ ht_size = 1
        /\ hand = NoHand
    BY DEF Init, BuilderInit
  <1>3. BuilderInv
    BY <1>2, EmptyEnc DEF BuilderInv
  <1>4. dbs \in Seq({})
    BY <1>1
  <1> QED BY <1>1, <1>3, <1>4 DEF DatabaseInv

LEMMA DatabaseStep == DatabaseInv /\ [Next]_vars => DatabaseInv'
  <1> SUFFICES ASSUME DatabaseInv, [Next]_vars PROVE DatabaseInv'
    OBVIOUS
  <1>1. CASE Add
    BY <1>1, NamesStep DEF Add, DatabaseInv
  <1>2. CASE Fill
    BY <1>2, TakeStep, ProbeStep, PutStep, GrowStep, WriteStep DEF Fill, FillTable, DatabaseInv
  <1>3. CASE PublishAndBuild
    <2> DEFINE c == scenario.corpora[Len(dbs) + 2]
               w == Written
    <2>1. /\ Len(dbs) + 1 < Len(scenario.corpora) /\ dbs' = Append(dbs, w) /\ scenario' = scenario
          /\ corpus' = c /\ pos' = 0 /\ enc' = EmptyCorpus /\ phase' = "names" /\ ht_size' = 1
          /\ hand' = NoHand
      BY <1>3 DEF PublishAndBuild, BuildNext
    <2> HIDE DEF w
    <2>2. PICK S : dbs \in Seq(S)
      BY DEF DatabaseInv
    <2>3. dbs \in Seq(S \cup {w})
      BY <2>2, SeqMonotonic
    <2>4. dbs' \in Seq(S \cup {w})
      BY <2>1, <2>3
    <2>5. corpus' \in Corpora
      <3>1. scenario.corpora \in Seq(Corpora) /\ Len(dbs) \in Nat
        BY <2>2, ScenarioAssumption DEF DatabaseInv
      <3>2. Len(dbs) + 2 \in 1 .. Len(scenario.corpora)
        BY <2>1, <3>1
      <3> QED BY <2>1, <3>1, <3>2
    <2> QED BY <2>1, <2>4, <2>5, BuildBegins DEF DatabaseInv
  <1>4. CASE PublishLast
    <2>1. PICK db : dbs' = Append(dbs, db)
      BY <1>4 DEF PublishLast
    <2>2. phase' = "published" /\ UNCHANGED <<corpus, pos, enc, ht_size, scenario>>
      BY <1>4 DEF PublishLast
    <2>3. PICK S : dbs \in Seq(S)
      BY DEF DatabaseInv
    <2>4. dbs \in Seq(S \cup {db})
      BY <2>3, SeqMonotonic
    <2>5. dbs' \in Seq(S \cup {db})
      BY <2>1, <2>4
    <2> QED BY <2>2, <2>5 DEF DatabaseInv, BuilderInv
  <1>5. CASE Open \/ Scan \/ Compare \/ UNCHANGED vars
    <2>1. UNCHANGED builderVars /\ UNCHANGED <<scenario, dbs>>
      BY <1>5 DEF Open, Scan, Compare, vars
    <2> QED BY <2>1, SameBuilder DEF DatabaseInv
  <1> QED BY <1>1, <1>2, <1>3, <1>4, <1>5 DEF Next

\* For every corpus, however its trigrams collide, however often the table grows
\* and over any number of databases: create_hashtable() never loses or doubles a
\* trigram, leaves none where find_trigram() does not look, stays inside the table
\* and keeps the sentinel empty.
THEOREM TableIsSound == Spec => []TableSound
  <1>1. Init => DatabaseInv
    BY DatabaseInit
  <1>2. DatabaseInv /\ [Next]_vars => DatabaseInv'
    BY DatabaseStep
  <1>3. DatabaseInv => TableSound
    BY TableFact DEF DatabaseInv
  <1> QED BY <1>1, <1>2, <1>3, PTL DEF Spec
-----------------------------------------------------------------------------
(* A stream is its records one after the other, and what can be read of it *)
(* the beginning of that.                                                  *)

Tags == {"file", "dir", "time", "none", "some", "fixed", "hash"}
Parts == [u : Tags, val : Seq(Int)]
Whole(recs, n) == FlattenSeq(SubSeq(recs, 1, n))
Off(recs, n) == Len(Whole(recs, n))
IsCut(st, recs) ==
    /\ st \in Seq(Parts) /\ recs \in Seq(Seq(Parts)) /\ Len(st) <= Off(recs, Len(recs))
    /\ \A m \in 1 .. Len(st) : st[m] = Whole(recs, Len(recs))[m]

LEMMA Elements ==
    ASSUME NEW S, NEW recs \in Seq(Seq(S))
    PROVE  Len(recs) \in Nat /\ \A k \in 1 .. Len(recs) : recs[k] \in Seq(S)
  <1> DEFINE Q == Seq(S)
  <1>1. recs \in Seq(Q)
    OBVIOUS
  <1> HIDE DEF Q
  <1>2. Len(recs) \in Nat /\ \A k \in 1 .. Len(recs) : recs[k] \in Q
    BY <1>1
  <1> QED BY <1>2 DEF Q

LEMMA WholeGrows ==
    ASSUME NEW S, NEW recs \in Seq(Seq(S))
    PROVE  /\ Whole(recs, 0) = <<>>
           /\ \A n \in 0 .. Len(recs) : Whole(recs, n) \in Seq(S)
           /\ \A n \in 1 .. Len(recs) : Whole(recs, n) = Whole(recs, n - 1) \o recs[n]
  <1> DEFINE N == Len(recs)
             Q == Seq(S)
             h == [k \in Nat |-> [s \in Q |-> IF k \in 1 .. N THEN s \o recs[k] ELSE s]]
  <1>1. N \in Nat /\ <<>> \in Q /\ \A s \in Q : Len(s) \in Nat /\ <<>> \o s = s
    OBVIOUS
  <1>2. h \in [Nat -> [Q -> Q]]
    <2>1. \A k \in 1 .. N : recs[k] \in Q
      BY Elements
    <2>2. \A s, t \in Q : s \o t \in Q
      OBVIOUS
    <2> HIDE DEF Q, N
    <2> QED BY <2>1, <2>2
  <1>3. PICK f : IsRun(f, Q, <<>>, h, N)
    <2> HIDE DEF h, Q, N
    <2> QED BY <1>1, <1>2, Iteration
  <1>4. f \in [0 .. N -> Q] /\ f[0] = <<>>
    BY <1>3 DEF IsRun
  <1>5. \A k \in 1 .. N : f[k] = f[k - 1] \o recs[k]
    <2> SUFFICES ASSUME NEW k \in 1 .. N PROVE f[k] = f[k - 1] \o recs[k]
      OBVIOUS
    <2>1. k \in Nat /\ k - 1 \in 0 .. N
      BY <1>1
    <2> HIDE DEF Q, N
    <2>2. f[k - 1] \in Q
      BY <1>4, <2>1
    <2>3. f[k] = h[k][f[k - 1]]
      <3> HIDE DEF h
      <3> QED BY <1>3 DEF IsRun
    <2> QED BY <2>1, <2>2, <2>3
  <1>6. ASSUME NEW n \in 0 .. N PROVE Whole(recs, n) = f[n]
    <2> DEFINE part == SubSeq(recs, 1, n)
               G(g) == g = [k \in 1 .. Len(part) |-> IF k = 1 THEN part[k] ELSE g[k - 1] \o part[k]]
               flatten == CHOOSE g : G(g)
               r == [k \in 1 .. n |-> f[k]]
    <2>1. Len(part) = n /\ \A k \in 1 .. n : part[k] = recs[k]
      BY <1>1
    <2>2. Whole(recs, n) = IF Len(part) = 0 THEN part ELSE flatten[Len(part)]
      BY DEF Whole, FlattenSeq
    <2>3. CASE n = 0
      <3>1. part = <<>>
        BY <2>3
      <3> QED BY <1>4, <2>1, <2>2, <2>3, <3>1
    <2>4. CASE n > 0
      <3> HIDE DEF part
      <3>1. ASSUME NEW k \in 1 .. n PROVE r[k] = IF k = 1 THEN part[k] ELSE r[k - 1] \o part[k]
        <4>1. k \in 1 .. N /\ recs[k] \in Q /\ f[k] = f[k - 1] \o recs[k] /\ part[k] = recs[k]
          <5>1. k \in 1 .. N
            BY <1>1
          <5> HIDE DEF Q
          <5> QED BY <1>5, <2>1, <5>1, Elements DEF Q
        <4> HIDE DEF Q
        <4>2. CASE k = 1
          <5>0. k - 1 = 0 /\ <<>> \o recs[k] = recs[k]
            BY <1>1, <4>1, <4>2
          <5>1. f[1] = <<>> \o recs[1] /\ <<>> \o recs[1] = recs[1]
            BY <1>4, <4>1, <4>2, <5>0
          <5> QED BY <4>1, <4>2, <5>1
        <4>3. CASE k # 1
          <5>1. k - 1 \in 1 .. n
            BY <1>1, <4>3
          <5> QED BY <4>1, <4>3, <5>1
        <4> QED BY <4>2, <4>3
      <3>2. G(r)
        <4> HIDE DEF r
        <4>1. r = [k \in 1 .. n |-> r[k]]
          BY DEF r
        <4> QED BY <2>1, <3>1, <4>1
      <3>3. G(flatten)
        <4> HIDE DEF r
        <4> QED BY <3>2
      <3> HIDE DEF flatten
      <3> DEFINE T == {k \in Nat : k + 1 <= n => flatten[k + 1] = f[k + 1]}
      <3>4. 0 \in T
        <4>1. 1 \in 1 .. n /\ flatten[1] = part[1]
          BY <2>1, <2>4, <3>3
        <4>2. r[1] = part[1] /\ r[1] = f[1]
          BY <3>1, <4>1
        <4> QED BY <4>1, <4>2
      <3>5. ASSUME NEW k \in Nat, k \in T PROVE k + 1 \in T
        <4> SUFFICES ASSUME k + 2 <= n PROVE flatten[k + 2] = f[k + 2]
          OBVIOUS
        <4>1. flatten[k + 1] = f[k + 1] /\ k + 2 \in 1 .. n /\ k + 2 # 1 /\ (k + 2) - 1 = k + 1
              /\ k + 2 \in 1 .. N
          BY <1>1, <3>5
        <4>2. flatten[k + 2] = flatten[k + 1] \o part[k + 2]
          BY <2>1, <3>3, <4>1
        <4>3. f[k + 2] = f[k + 1] \o part[k + 2]
          BY <1>5, <2>1, <4>1
        <4> QED BY <4>1, <4>2, <4>3
      <3>6. n - 1 \in T
        <4> HIDE DEF T
        <4>1. n - 1 \in Nat
          BY <2>4
        <4> QED BY <3>4, <3>5, <4>1, SetInduction
      <3> QED BY <2>1, <2>2, <2>4, <3>6
    <2> QED BY <2>3, <2>4
  <1>7. ASSUME NEW n \in 1 .. N PROVE n \in 0 .. N /\ n - 1 \in 0 .. N
    BY <1>1
  <1>8. 0 \in 0 .. N
    BY <1>1
  <1> HIDE DEF N, Q
  <1>9. \A n \in 0 .. N : Whole(recs, n) \in Q
    BY <1>4, <1>6
  <1> QED BY <1>4, <1>5, <1>6, <1>7, <1>8, <1>9 DEF N, Q

\* The records before the end are where they were.
LEMMA WholePrefix ==
    ASSUME NEW S, NEW recs \in Seq(Seq(S)), NEW l \in 0 .. Len(recs), NEW n \in l .. Len(recs)
    PROVE  /\ Off(recs, l) \in Nat /\ Off(recs, n) \in Nat /\ Off(recs, l) <= Off(recs, n)
           /\ \A m \in 1 .. Off(recs, l) : Whole(recs, n)[m] = Whole(recs, l)[m]
  <1> DEFINE N == Len(recs)
             w(k) == Whole(recs, k)
             Holds(k) == /\ w(l + k) \in Seq(S) /\ Len(w(l)) <= Len(w(l + k))
                         /\ \A m \in 1 .. Len(w(l)) : w(l + k)[m] = w(l)[m]
             T == {k \in Nat : l + k <= N => Holds(k)}
  <1>1. N \in Nat /\ l \in Nat /\ n \in Nat /\ l <= n /\ n <= N
    OBVIOUS
  <1>2. \A k \in 0 .. N : w(k) \in Seq(S)
    BY WholeGrows
  <1>3. \A k \in 1 .. N : w(k) = w(k - 1) \o recs[k] /\ recs[k] \in Seq(S)
    BY WholeGrows, Elements, Zenon
  <1> HIDE DEF w
  <1>4. 0 \in T
    <2>1. w(l) \in Seq(S) /\ l + 0 = l
      BY <1>1, <1>2
    <2> QED BY <2>1
  <1>5. ASSUME NEW k \in Nat, k \in T PROVE k + 1 \in T
    <2> SUFFICES ASSUME l + (k + 1) <= N PROVE Holds(k + 1)
      OBVIOUS
    <2>1. /\ Holds(k) /\ l + (k + 1) \in 1 .. N /\ (l + (k + 1)) - 1 = l + k
      BY <1>1, <1>5
    <2>2. w(l + (k + 1)) = w(l + k) \o recs[l + (k + 1)] /\ recs[l + (k + 1)] \in Seq(S)
      BY <1>3, <2>1
    <2>3. w(l) \in Seq(S)
      BY <1>1, <1>2
    <2> DEFINE a == w(l + k)
               b == recs[l + (k + 1)]
               x == w(l)
    <2>4. /\ a \in Seq(S) /\ b \in Seq(S) /\ x \in Seq(S) /\ Len(x) <= Len(a)
          /\ \A m \in 1 .. Len(x) : a[m] = x[m]
      BY <2>1, <2>2, <2>3
    <2> HIDE DEF a, b, x
    <2>5. /\ a \o b \in Seq(S) /\ Len(a \o b) = Len(a) + Len(b) /\ Len(a) \in Nat /\ Len(b) \in Nat
          /\ Len(x) \in Nat
      BY <2>4
    <2>6. \A m \in 1 .. Len(a) : (a \o b)[m] = a[m]
      BY <2>4, <2>5
    <2>7. Len(x) <= Len(a \o b) /\ \A m \in 1 .. Len(x) : (a \o b)[m] = x[m]
      BY <2>4, <2>5, <2>6
    <2> QED BY <2>2, <2>5, <2>7 DEF a, b, x
  <1>6. n - l \in T
    <2>1. n - l \in Nat
      BY <1>1
    <2> HIDE DEF T
    <2> QED BY <1>4, <1>5, <2>1, SetInduction
  <1>7. Holds(n - l) /\ l + (n - l) = n /\ w(l) \in Seq(S)
    BY <1>1, <1>2, <1>6
  <1> QED BY <1>7 DEF w, Off

\* Where a record is in the stream.
LEMMA RecordPlace ==
    ASSUME NEW S, NEW recs \in Seq(Seq(S)), NEW n \in 0 .. Len(recs) - 1
    PROVE  /\ Off(recs, n) \in Nat /\ recs[n + 1] \in Seq(S)
           /\ Off(recs, n + 1) = Off(recs, n) + Len(recs[n + 1])
           /\ Off(recs, n + 1) <= Off(recs, Len(recs))
           /\ \A m \in 1 .. Len(recs[n + 1]) :
                  Whole(recs, Len(recs))[Off(recs, n) + m] = recs[n + 1][m]
  <1> DEFINE N == Len(recs)
             w(k) == Whole(recs, k)
  <1>1. N \in Nat /\ n \in Nat /\ n + 1 \in 1 .. N /\ (n + 1) - 1 = n /\ n + 1 \in 0 .. N /\ N \in (n + 1) .. N
    OBVIOUS
  <1>2. w(n) \in Seq(S) /\ w(n + 1) = w(n) \o recs[n + 1] /\ recs[n + 1] \in Seq(S)
    <2>1. n \in 0 .. N
      BY <1>1
    <2> QED BY <1>1, <2>1, WholeGrows, Elements, Zenon
  <1>3. /\ Len(w(n + 1)) <= Len(w(N))
        /\ \A m \in 1 .. Len(w(n + 1)) : w(N)[m] = w(n + 1)[m]
    BY <1>1, WholePrefix DEF Off
  <1> HIDE DEF w, N
  <1>4. Len(w(n)) \in Nat /\ Len(w(n + 1)) = Len(w(n)) + Len(recs[n + 1]) /\ Len(recs[n + 1]) \in Nat
    BY <1>2
  <1>5. ASSUME NEW m \in 1 .. Len(recs[n + 1]) PROVE w(N)[Len(w(n)) + m] = recs[n + 1][m]
    <2>1. Len(w(n)) + m \in 1 .. Len(w(n + 1))
      BY <1>4
    <2>2. (w(n) \o recs[n + 1])[Len(w(n)) + m] = recs[n + 1][m]
      BY <1>2, <1>4
    <2> QED BY <1>2, <1>3, <2>1, <2>2
  <1> QED BY <1>2, <1>3, <1>4, <1>5 DEF w, N, Off

LEMMA SurvivingIs ==
    ASSUME NEW recs, NEW st, IsCut(st, recs), NEW n \in 0 .. Len(recs)
    PROVE  /\ Surviving(recs, st) \in 0 .. Len(recs)
           /\ Off(recs, n) <= Len(st) => n <= Surviving(recs, st)
           /\ Len(st) < Off(recs, n) => Surviving(recs, st) < n
  <1> DEFINE N == Len(recs)
             T == {k \in 0 .. N : Len(FlattenSeq(SubSeq(recs, 1, k))) <= Len(st)}
             R == {N - k : k \in T}
             s == Surviving(recs, st)
  <1>1. N \in Nat /\ Len(st) \in Nat /\ recs \in Seq(Seq(Parts))
    BY Elements DEF IsCut
  <1>2. \A k \in 0 .. N : k \in T <=> Off(recs, k) <= Len(st)
    BY DEF Off, Whole
  <1>3. 0 \in T
    <2>0. Whole(recs, 0) = <<>>
      BY <1>1, WholeGrows, Zenon
    <2>1. Off(recs, 0) = 0 /\ 0 \in 0 .. N
      BY <1>1, <2>0 DEF Off
    <2> HIDE DEF T, N
    <2> QED BY <1>1, <1>2, <2>1
  <1>4. s = CHOOSE x \in T : \A y \in T : x >= y
    BY DEF Surviving, Max
  <1>5. T \subseteq 0 .. N
    OBVIOUS
  <1> HIDE DEF T
  <1>6. \E x \in T : \A y \in T : x >= y
    <2>1. R \in SUBSET Nat /\ R # {}
      BY <1>1, <1>3, <1>5
    <2>2. PICK r \in R : \A q \in R : r <= q
      <3> HIDE DEF R
      <3> QED BY <2>1, LeastElement
    <2>3. PICK x \in T : r = N - x
      BY <2>2
    <2>4. ASSUME NEW y \in T PROVE x >= y
      <3>1. N - y \in R /\ x \in 0 .. N /\ y \in 0 .. N
        BY <1>5
      <3>2. N - x <= N - y
        BY <2>2, <2>3, <3>1
      <3> HIDE DEF N
      <3> QED BY <1>1, <3>1, <3>2
    <2> QED BY <2>4
  <1>7. s \in T /\ \A y \in T : s >= y
    <2> HIDE DEF s
    <2> QED BY <1>4, <1>6
  <1> HIDE DEF s
  <1>8. s \in 0 .. N /\ Off(recs, s) <= Len(st)
    BY <1>2, <1>5, <1>7
  <1>9. Off(recs, n) <= Len(st) => n <= s
    BY <1>1, <1>2, <1>7, <1>8
  <1>10. Len(st) < Off(recs, n) => s < n
    <2> SUFFICES ASSUME Len(st) < Off(recs, n), ~ (s < n) PROVE FALSE
      OBVIOUS
    <2>1. s \in n .. N
      BY <1>1, <1>8
    <2>2. Off(recs, n) \in Nat /\ Off(recs, s) \in Nat /\ Off(recs, n) <= Off(recs, s)
      BY <1>1, <2>1, WholePrefix
    <2> QED BY <1>1, <1>8, <2>2
  <1> QED BY <1>8, <1>9, <1>10 DEF s

\* Of a stream cut anywhere, n records have been taken, p parts decompressed, and
\* those between are buffered.
Buffered(b, n, p, st, recs) ==
    /\ n \in 0 .. Len(recs) /\ p \in 0 .. Len(st) /\ b \in Seq(Parts)
    /\ Off(recs, n) + Len(b) = p
    /\ \A m \in 1 .. Len(b) : b[m] = st[Off(recs, n) + m]

LEMMA BufferedNumbers ==
    ASSUME NEW recs, NEW st, IsCut(st, recs), NEW b, NEW n, NEW p, Buffered(b, n, p, st, recs)
    PROVE  /\ Len(recs) \in Nat /\ n \in Nat /\ p \in Nat /\ Len(b) \in Nat /\ Len(st) \in Nat
           /\ Off(recs, n) \in Nat /\ recs \in Seq(Seq(Parts)) /\ st \in Seq(Parts)
  <1>1. recs \in Seq(Seq(Parts)) /\ st \in Seq(Parts)
    BY DEF IsCut
  <1>2. Len(recs) \in Nat
    BY <1>1, Elements
  <1>3. n \in 0 .. Len(recs) /\ n \in n .. Len(recs)
    BY <1>2 DEF Buffered
  <1>4. Off(recs, n) \in Nat
    BY <1>1, <1>3, WholePrefix
  <1>5. Len(st) \in Nat /\ Len(b) \in Nat
    BY <1>1 DEF Buffered
  <1> QED BY <1>1, <1>2, <1>3, <1>4, <1>5 DEF Buffered

LEMMA Reached ==
    ASSUME NEW recs, NEW st, IsCut(st, recs), NEW b, NEW n, NEW p, Buffered(b, n, p, st, recs)
    PROVE  n <= Surviving(recs, st) /\ Surviving(recs, st) \in 0 .. Len(recs)
  <1>1. n \in 0 .. Len(recs) /\ Off(recs, n) <= Len(st)
    BY BufferedNumbers DEF Buffered
  <1> QED BY <1>1, SurvivingIs

LEMMA Refilled ==
    ASSUME NEW recs, NEW st, IsCut(st, recs), NEW b, NEW n, NEW p, Buffered(b, n, p, st, recs),
           NEW k \in Nat, p + k <= Len(st)
    PROVE  Buffered(b \o SubSeq(st, p + 1, p + k), n, p + k, st, recs)
  <1> DEFINE o == Off(recs, n)
             new == SubSeq(st, p + 1, p + k)
  <1>1. p \in Nat /\ Len(b) \in Nat /\ Len(st) \in Nat /\ o \in Nat /\ st \in Seq(Parts) /\ b \in Seq(Parts)
    BY BufferedNumbers DEF Buffered
  <1>2. o + Len(b) = p /\ n \in 0 .. Len(recs)
    BY DEF Buffered
  <1>3. \A m \in 1 .. Len(b) : b[m] = st[o + m]
    BY DEF Buffered
  <1> HIDE DEF o
  <1>4. new \in Seq(Parts) /\ Len(new) = k
    <2> DEFINE P == Parts
    <2>1. st \in Seq(P) /\ \A m \in (p + 1) .. (p + k) : st[m] \in P
      BY <1>1
    <2> HIDE DEF P
    <2>2. new \in Seq(P)
      BY <1>1, <2>1
    <2>3. Len(new) = k
      BY <1>1
    <2> QED BY <2>2, <2>3 DEF P
  <1>5. \A m \in 1 .. k : new[m] = st[p + m]
    BY <1>1
  <1> HIDE DEF new
  <1>6. b \o new \in Seq(Parts) /\ Len(b \o new) = Len(b) + k
    <2>1. b \in Seq(Parts) /\ new \in Seq(Parts)
      BY <1>1, <1>4
    <2>2. b \o new \in Seq(Parts) /\ Len(b \o new) = Len(b) + Len(new)
      BY <2>1
    <2> QED BY <1>4, <2>2
  <1>7. ASSUME NEW m \in 1 .. Len(b \o new) PROVE (b \o new)[m] = st[o + m]
    <2>1. m \in Nat /\ m <= Len(b) + k /\ m >= 1
      BY <1>1, <1>6
    <2>2. CASE m <= Len(b)
      <3>1. (b \o new)[m] = b[m]
        BY <1>1, <1>4, <2>1, <2>2
      <3> QED BY <1>1, <1>3, <2>1, <2>2, <3>1
    <2>3. CASE m > Len(b)
      <3>1. (b \o new)[m] = new[m - Len(b)] /\ m - Len(b) \in 1 .. k
        BY <1>1, <1>4, <2>1, <2>3
      <3>2. p + (m - Len(b)) = o + m
        BY <1>1, <1>2, <2>1
      <3> QED BY <1>5, <3>1, <3>2
    <2> QED BY <1>1, <2>1, <2>2, <2>3
  <1>8. p + k \in 0 .. Len(st) /\ o + Len(b \o new) = p + k
    BY <1>1, <1>2, <1>6
  <1> QED BY <1>2, <1>6, <1>7, <1>8 DEF Buffered, o, new

\* The buffer begins with the next record, as far as it has come.
LEMMA NextRecord ==
    ASSUME NEW recs, NEW st, IsCut(st, recs), NEW b, NEW n, NEW p, Buffered(b, n, p, st, recs),
           n < Len(recs)
    PROVE  /\ recs[n + 1] \in Seq(Parts) /\ b \in Seq(Parts)
           /\ \A m \in 1 .. Len(b) : m <= Len(recs[n + 1]) => b[m] = recs[n + 1][m]
  <1> DEFINE o == Off(recs, n)
             w == Whole(recs, Len(recs))
             r == recs[n + 1]
  <1>1. /\ Len(recs) \in Nat /\ n \in Nat /\ p \in Nat /\ Len(b) \in Nat /\ Len(st) \in Nat /\ o \in Nat
        /\ recs \in Seq(Seq(Parts))
    BY BufferedNumbers
  <1>2. n \in 0 .. Len(recs) - 1
    BY <1>1
  <1>3. r \in Seq(Parts) /\ \A m \in 1 .. Len(r) : w[o + m] = r[m]
    BY <1>1, <1>2, RecordPlace
  <1>4. \A m \in 1 .. Len(b) : b[m] = st[o + m] /\ o + m \in 1 .. Len(st)
    BY <1>1 DEF Buffered
  <1>5. \A m \in 1 .. Len(st) : st[m] = w[m]
    BY DEF IsCut
  <1> HIDE DEF o, w, r
  <1>6. Len(r) \in Nat
    BY <1>3
  <1>7. ASSUME NEW m \in 1 .. Len(b), m <= Len(r) PROVE b[m] = r[m]
    <2>1. m \in 1 .. Len(r)
      BY <1>1, <1>6, <1>7
    <2> QED BY <1>3, <1>4, <1>5, <2>1
  <1>8. b \in Seq(Parts)
    BY DEF Buffered
  <1> QED BY <1>3, <1>7, <1>8 DEF r

LEMMA TakenRecord ==
    ASSUME NEW recs, NEW st, IsCut(st, recs), NEW b, NEW n, NEW p, Buffered(b, n, p, st, recs),
           n < Len(recs), Len(recs[n + 1]) <= Len(b)
    PROVE  Buffered(SubSeq(b, Len(recs[n + 1]) + 1, Len(b)), n + 1, p, st, recs)
  <1> DEFINE o == Off(recs, n)
             l == Len(recs[n + 1])
             rest == SubSeq(b, l + 1, Len(b))
  <1>1. /\ Len(recs) \in Nat /\ n \in Nat /\ p \in Nat /\ Len(b) \in Nat /\ Len(st) \in Nat /\ o \in Nat
        /\ recs \in Seq(Seq(Parts))
    BY BufferedNumbers
  <1>2. n \in 0 .. Len(recs) - 1
    BY <1>1
  <1>3. Off(recs, n + 1) = o + l /\ l \in Nat
    <2>1. recs[n + 1] \in Seq(Parts) /\ Off(recs, n + 1) = o + l
      BY <1>1, <1>2, RecordPlace
    <2> QED BY <2>1
  <1>4. /\ b \in Seq(Parts) /\ o + Len(b) = p /\ p \in 0 .. Len(st) /\ l <= Len(b)
        /\ \A m \in 1 .. Len(b) : b[m] = st[o + m]
    BY DEF Buffered
  <1> HIDE DEF o, l
  <1>5. rest \in Seq(Parts) /\ Len(rest) = Len(b) - l /\ \A m \in 1 .. Len(b) - l : rest[m] = b[l + m]
    <2> DEFINE P == Parts
    <2>1. b \in Seq(P) /\ \A m \in (l + 1) .. Len(b) : b[m] \in P
      BY <1>1, <1>3, <1>4
    <2> HIDE DEF P
    <2>2. rest \in Seq(P)
      BY <1>1, <1>3, <1>4, <2>1
    <2>3. Len(rest) = Len(b) - l /\ \A m \in 1 .. Len(b) - l : rest[m] = b[l + m]
      BY <1>1, <1>3, <1>4
    <2> QED BY <2>2, <2>3 DEF P
  <1> HIDE DEF rest
  <1>6. ASSUME NEW m \in 1 .. Len(rest) PROVE rest[m] = st[(o + l) + m]
    <2>1. l + m \in 1 .. Len(b) /\ o + (l + m) = (o + l) + m /\ m \in 1 .. Len(b) - l
      BY <1>1, <1>3, <1>5
    <2>2. rest[m] = b[l + m] /\ b[l + m] = st[o + (l + m)]
      BY <1>4, <1>5, <2>1
    <2> QED BY <2>1, <2>2
  <1>7. n + 1 \in 0 .. Len(recs) /\ (o + l) + Len(rest) = p
    BY <1>1, <1>2, <1>3, <1>4, <1>5
  <1>8. Buffered(rest, n + 1, p, st, recs)
    BY <1>3, <1>4, <1>5, <1>6, <1>7 DEF Buffered
  <1> QED BY <1>8 DEF rest, l

\* A stream that has no more to give ends within the next record.
LEMMA StreamEnds ==
    ASSUME NEW recs, NEW st, IsCut(st, recs), NEW b, NEW n, NEW p, Buffered(b, n, p, st, recs),
           n < Len(recs), Len(b) < Len(recs[n + 1]), p = Len(st)
    PROVE  Surviving(recs, st) = n
  <1> DEFINE l == Len(recs[n + 1])
  <1>1. /\ Len(recs) \in Nat /\ n \in Nat /\ p \in Nat /\ Len(b) \in Nat /\ Off(recs, n) \in Nat
        /\ recs \in Seq(Seq(Parts))
    BY BufferedNumbers
  <1>2. n \in 0 .. Len(recs) - 1 /\ n + 1 \in 0 .. Len(recs)
    BY <1>1
  <1>3. Off(recs, n + 1) = Off(recs, n) + l /\ l \in Nat
    <2>1. recs[n + 1] \in Seq(Parts) /\ Off(recs, n + 1) = Off(recs, n) + l
      BY <1>1, <1>2, RecordPlace
    <2> QED BY <2>1
  <1>4. Len(st) < Off(recs, n + 1)
    BY <1>1, <1>3 DEF Buffered
  <1>5. Surviving(recs, st) < n + 1
    BY <1>2, <1>4, SurvivingIs
  <1>6. n <= Surviving(recs, st) /\ Surviving(recs, st) \in 0 .. Len(recs)
    BY Reached
  <1> QED BY <1>1, <1>5, <1>6

-----------------------------------------------------------------------------
(* What is in the records: read_next() asks for as many parts as there are *)
(* and gets what was stored.                                               *)

Metas == {NoMetadata} \cup [enabled : {TRUE}, stamp : Int, atime : Int, hash : Int]
Agrees(b, r) == \A m \in 1 .. Len(b) : m <= Len(r) => b[m] = r[m]

LEMMA APart ==
    ASSUME NEW u \in Tags, NEW val \in Seq(Int)
    PROVE  Part(u, val) \in Parts
  BY DEF Part, Parts

LEMMA DirTimeRead ==
    ASSUME NEW dt \in Int, NEW b \in Seq(Parts), Agrees(b, DirTimeRecord(dt))
    PROVE  LET r == DirTimeRecord(dt)
               isdir == b[1].u = "dir"
           IN  /\ (b # <<>> /\ (isdir => Len(b) >= 2)) <=> Len(r) <= Len(b)
               /\ Len(r) <= Len(b) => /\ Len(r) = IF isdir THEN 2 ELSE 1
                                      /\ dt = IF isdir THEN b[2].val[1] ELSE not_a_dir
  <1> DEFINE r == DirTimeRecord(dt)
  <1>1. Len(b) \in Nat /\ (b = <<>> <=> Len(b) = 0)
    OBVIOUS
  <1>2. CASE dt = not_a_dir
    <2> DEFINE a == Part("file", <<>>)
    <2>1. r = <<a>>
      BY <1>2 DEF DirTimeRecord
    <2>2. a.u = "file"
      BY DEF Part
    <2> HIDE DEF a
    <2>3. Len(r) = 1 /\ r[1] = a
      BY <2>1
    <2>4. Len(b) >= 1 => b[1] = a
      BY <1>1, <2>3 DEF Agrees
    <2> HIDE DEF r
    <2> QED BY <1>1, <1>2, <2>2, <2>3, <2>4 DEF r
  <1>3. CASE dt # not_a_dir
    <2> DEFINE a == Part("dir", <<>>)
               t == Part("time", <<dt>>)
    <2>1. r = <<a, t>>
      BY <1>3 DEF DirTimeRecord
    <2>2. a.u = "dir" /\ t.val[1] = dt
      BY DEF Part
    <2> HIDE DEF a, t
    <2>3. Len(r) = 2 /\ r[1] = a /\ r[2] = t
      BY <2>1
    <2>4. (Len(b) >= 1 => b[1] = a) /\ (Len(b) >= 2 => b[2] = t)
      BY <1>1, <2>3 DEF Agrees
    <2> HIDE DEF r
    <2> QED BY <1>1, <1>3, <2>2, <2>3, <2>4 DEF r
  <1> QED BY <1>2, <1>3

LEMMA MetadataRead ==
    ASSUME NEW meta \in Metas, NEW b \in Seq(Parts), Agrees(b, encode_metadata_record(meta))
    PROVE  LET r == encode_metadata_record(meta)
           IN  /\ MetadataNeeds(b) <= Len(b) <=> Len(r) <= Len(b)
               /\ Len(r) <= Len(b) => MetadataNeeds(b) = Len(r) /\ decode_metadata_record(b) = meta
  <1> DEFINE r == encode_metadata_record(meta)
  <1>1. Len(b) \in Nat /\ (b = <<>> <=> Len(b) = 0)
    OBVIOUS
  <1>2. CASE meta = NoMetadata
    <2> DEFINE a == Part("none", <<>>)
    <2>1. r = <<a>>
      BY <1>2 DEF encode_metadata_record, NoMetadata
    <2>2. a.u = "none"
      BY DEF Part
    <2> HIDE DEF a
    <2>3. Len(r) = 1 /\ r[1] = a
      BY <2>1
    <2>4. Len(b) >= 1 => b[1] = a
      BY <1>1, <2>3 DEF Agrees
    <2> HIDE DEF r
    <2>5. MetadataNeeds(b) = 1
      BY <1>1, <2>2, <2>4 DEF MetadataNeeds
    <2>6. Len(b) >= 1 => decode_metadata_record(b) = NoMetadata
      BY <2>2, <2>4 DEF decode_metadata_record
    <2> QED BY <1>1, <1>2, <2>3, <2>5, <2>6 DEF r
  <1>3. CASE meta # NoMetadata
    <2> DEFINE a == Part("some", <<>>)
               x == Part("fixed", <<meta.stamp, meta.atime, IF meta.hash = 0 THEN 0 ELSE 1>>)
               y == Part("hash", <<meta.hash>>)
    <2>1. meta \in [enabled : {TRUE}, stamp : Int, atime : Int, hash : Int]
      BY <1>3 DEF Metas
    <2>2. r = <<a, x>> \o (IF meta.hash = 0 THEN <<>> ELSE <<y>>)
      BY <2>1 DEF encode_metadata_record
    <2>3. /\ a.u = "some" /\ x.val[1] = meta.stamp /\ x.val[2] = meta.atime
          /\ x.val[3] = (IF meta.hash = 0 THEN 0 ELSE 1) /\ y.val[1] = meta.hash
      BY DEF Part
    <2>4. meta = [enabled |-> TRUE, stamp |-> meta.stamp, atime |-> meta.atime, hash |-> meta.hash]
      BY <2>1
    <2> HIDE DEF a, x, y
    <2>5. /\ r[1] = a /\ r[2] = x
          /\ meta.hash = 0 => Len(r) = 2
          /\ meta.hash # 0 => Len(r) = 3 /\ r[3] = y
      <3> HIDE DEF r
      <3> QED BY <2>2
    <2> HIDE DEF r
    <2>6. /\ Len(b) >= 1 => b[1] = a
          /\ Len(b) >= 2 => b[2] = x
          /\ meta.hash # 0 /\ Len(b) >= 3 => b[3] = y
      BY <1>1, <2>5 DEF Agrees, r
    <2>7. /\ Len(b) = 0 => MetadataNeeds(b) = 1
          /\ Len(b) = 1 => MetadataNeeds(b) = 2
          /\ Len(b) >= 2 => MetadataNeeds(b) = Len(r)
      <3>1. CASE Len(b) = 0
        BY <1>1, <3>1 DEF MetadataNeeds
      <3>2. CASE Len(b) = 1
        BY <1>1, <2>3, <2>6, <3>2 DEF MetadataNeeds
      <3>3. CASE Len(b) >= 2
        <4>1. b # <<>> /\ b[1].u = "some" /\ b[2] = x /\ Len(b) # 1
          BY <1>1, <2>3, <2>6, <3>3
        <4>2. MetadataNeeds(b) = 2 + x.val[3]
          BY <4>1 DEF MetadataNeeds
        <4>3. MetadataNeeds(b) = Len(r)
          <5>1. CASE meta.hash = 0
            BY <2>3, <2>5, <4>2, <5>1
          <5>2. CASE meta.hash # 0
            BY <2>3, <2>5, <4>2, <5>2
          <5> QED BY <5>1, <5>2
        <4> DEFINE lb == Len(b)
        <4>4. lb \in Nat /\ lb >= 2
          BY <1>1, <3>3
        <4> HIDE DEF lb
        <4>5. lb # 0 /\ lb # 1
          BY <4>4
        <4> QED BY <4>3, <4>5 DEF lb
      <3> QED BY <3>1, <3>2, <3>3
    <2>8. Len(r) <= Len(b) => decode_metadata_record(b) = meta
      <3> SUFFICES ASSUME Len(r) <= Len(b) PROVE decode_metadata_record(b) = meta
        OBVIOUS
      <3>1. b[1].u = "some" /\ b[2] = x /\ (meta.hash # 0 => b[3] = y)
        BY <1>1, <2>3, <2>5, <2>6
      <3>2. decode_metadata_record(b) = [enabled |-> TRUE, stamp |-> x.val[1], atime |-> x.val[2],
                                         hash |-> IF x.val[3] = 0 THEN 0 ELSE b[3].val[1]]
        BY <3>1 DEF decode_metadata_record
      <3>3. (IF x.val[3] = 0 THEN 0 ELSE b[3].val[1]) = meta.hash
        BY <2>3, <3>1
      <3> QED BY <2>3, <2>4, <3>2, <3>3
    <2>9. Len(r) \in {2, 3}
      BY <2>5
    <2> DEFINE lb == Len(b)
               lr == Len(r)
               need == MetadataNeeds(b)
    <2>10. lb \in Nat /\ lr \in {2, 3} /\ (lb = 0 => need = 1) /\ (lb = 1 => need = 2) /\ (lb >= 2 => need = lr)
      BY <1>1, <2>7, <2>9
    <2> HIDE DEF lb, lr, need
    <2>11. (need <= lb <=> lr <= lb) /\ (lr <= lb => need = lr)
      BY <2>10
    <2> QED BY <2>8, <2>11 DEF r, lb, lr, need
  <1> QED BY <1>2, <1>3

LEMMA RecordParts ==
    /\ \A dt \in Int : DirTimeRecord(dt) \in Seq(Parts)
    /\ \A meta \in Metas : encode_metadata_record(meta) \in Seq(Parts)
  <1> DEFINE P == Parts
  <1>1. ASSUME NEW dt \in Int PROVE DirTimeRecord(dt) \in Seq(P)
    <2>1. <<>> \in Seq(Int) /\ <<dt>> \in Seq(Int)
      OBVIOUS
    <2>2. Part("file", <<>>) \in P /\ Part("dir", <<>>) \in P /\ Part("time", <<dt>>) \in P
      <3>1. "file" \in Tags /\ "dir" \in Tags /\ "time" \in Tags
        BY DEF Tags
      <3> QED BY <2>1, <3>1, APart, Zenon
    <2> HIDE DEF P
    <2> QED BY <2>2 DEF DirTimeRecord
  <1>2. ASSUME NEW meta \in Metas PROVE encode_metadata_record(meta) \in Seq(P)
    <2> DEFINE flag == IF meta.hash = 0 THEN 0 ELSE 1
    <2>1. meta.stamp \in Int /\ meta.atime \in Int /\ meta.hash \in Int /\ flag \in Int
      <3>1. CASE meta = NoMetadata
        BY <3>1 DEF NoMetadata
      <3>2. CASE meta \in [enabled : {TRUE}, stamp : Int, atime : Int, hash : Int]
        BY <3>2
      <3> QED BY <3>1, <3>2 DEF Metas
    <2> HIDE DEF flag
    <2>2. <<>> \in Seq(Int) /\ <<meta.stamp, meta.atime, flag>> \in Seq(Int) /\ <<meta.hash>> \in Seq(Int)
      BY <2>1
    <2>3. /\ Part("none", <<>>) \in P /\ Part("some", <<>>) \in P
          /\ Part("fixed", <<meta.stamp, meta.atime, flag>>) \in P /\ Part("hash", <<meta.hash>>) \in P
      <3>1. "none" \in Tags /\ "some" \in Tags /\ "fixed" \in Tags /\ "hash" \in Tags
        BY DEF Tags
      <3> QED BY <2>2, <3>1, APart, Zenon
    <2> HIDE DEF P
    <2> DEFINE a == Part("none", <<>>)
               x == Part("some", <<>>)
               y == Part("fixed", <<meta.stamp, meta.atime, flag>>)
               z == Part("hash", <<meta.hash>>)
    <2>4. encode_metadata_record(meta) \in {<<a>>, <<x, y>> \o <<>>, <<x, y>> \o <<z>>}
      BY DEF encode_metadata_record, flag
    <2>5. a \in P /\ x \in P /\ y \in P /\ z \in P
      BY <2>3
    <2> HIDE DEF a, x, y, z
    <2>6. <<a>> \in Seq(P) /\ <<x, y>> \in Seq(P) /\ <<>> \in Seq(P) /\ <<z>> \in Seq(P)
      BY <2>5
    <2>7. <<x, y>> \o <<>> \in Seq(P) /\ <<x, y>> \o <<z>> \in Seq(P)
      BY <2>6, ConcatProperties
    <2> QED BY <2>4, <2>6, <2>7
  <1> QED BY <1>1, <1>2

LEMMA FilesOfCorpus ==
    ASSUME NEW c \in Corpora
    PROVE  /\ Len(c.files) \in Nat /\ DOMAIN c.files = 1 .. Len(c.files)
           /\ c.block_size \in Nat \ {0}
           /\ \A k \in 1 .. Len(c.files) : c.files[k].dt \in Int /\ c.files[k].meta \in Metas
           /\ c.store => \A k \in 1 .. Len(c.files) :
                  c.files[k].skip = 0 /\ c.files[k].name # <<>> /\ c.files[k].name \in Seq(1 .. 255)
  <1> DEFINE F == {c.files[k] : k \in DOMAIN c.files}
  <1>1. c.files \in Seq(F) /\ c.block_size \in Nat \ {0}
    BY CorpusAssumption, Zenon
  <1> HIDE DEF F
  <1>2. Len(c.files) \in Nat /\ DOMAIN c.files = 1 .. Len(c.files)
    BY <1>1
  <1>3. \A k \in DOMAIN c.files : c.files[k].dt \in Int /\ c.files[k].meta \in Metas
    BY RecordAssumption, Zenon DEF Metas
  <1>4. c.store => \A k \in DOMAIN c.files :
                  c.files[k].skip = 0 /\ c.files[k].name # <<>> /\ c.files[k].name \in Seq(1 .. 255)
    BY CorpusAssumption, Zenon
  <1> QED BY <1>1, <1>2, <1>3, <1>4, Zenon

LEMMA RecordSeqs ==
    ASSUME NEW c \in Corpora
    PROVE  /\ DirTimeRecords(c.files) \in Seq(Seq(Parts)) /\ MetadataRecords(c.files) \in Seq(Seq(Parts))
           /\ Len(DirTimeRecords(c.files)) = Len(c.files) /\ Len(MetadataRecords(c.files)) = Len(c.files)
           /\ \A k \in 1 .. Len(c.files) :
                  /\ DirTimeRecords(c.files)[k] = DirTimeRecord(c.files[k].dt)
                  /\ MetadataRecords(c.files)[k] = encode_metadata_record(c.files[k].meta)
  <1> DEFINE N == Len(c.files)
             Q == Seq(Parts)
             d == DirTimeRecords(c.files)
             m == MetadataRecords(c.files)
  <1>1. N \in Nat /\ DOMAIN c.files = 1 .. N
    BY FilesOfCorpus
  <1>2. \A k \in 1 .. N : c.files[k].dt \in Int /\ c.files[k].meta \in Metas
    BY FilesOfCorpus
  <1>3. \A k \in 1 .. N : DirTimeRecord(c.files[k].dt) \in Q /\ encode_metadata_record(c.files[k].meta) \in Q
    BY <1>2, RecordParts
  <1> HIDE DEF N, Q
  <1>4. /\ d = [k \in 1 .. N |-> DirTimeRecord(c.files[k].dt)]
        /\ m = [k \in 1 .. N |-> encode_metadata_record(c.files[k].meta)]
    BY <1>1 DEF DirTimeRecords, MetadataRecords
  <1> HIDE DEF d, m
  <1>5. d \in Seq(Q) /\ m \in Seq(Q) /\ Len(d) = N /\ Len(m) = N
    BY <1>1, <1>3, <1>4
  <1>6. \A k \in 1 .. N : d[k] = DirTimeRecord(c.files[k].dt) /\ m[k] = encode_metadata_record(c.files[k].meta)
    BY <1>4
  <1> QED BY <1>5, <1>6 DEF N, Q, d, m

-----------------------------------------------------------------------------
(* A block and its names.                                                  *)

NextByte(s, x) == IF x = 0 THEN Append(s, <<>>) ELSE [s EXCEPT ![Len(s)] = Append(@, x)]
IsSplit(f, block) ==
    f[0] = <<<<>>>> /\ \A k \in 1 .. Len(block) : f[k] = NextByte(f[k - 1], block[k])

LEMMA NextByteIn ==
    ASSUME NEW s \in Seq(Seq(Nat)), NEW x \in Nat
    PROVE  NextByte(s, x) \in Seq(Seq(Nat))
  <1> DEFINE Q == Seq(Nat)
  <1>1. <<>> \in Q /\ \A q \in Q : Append(q, x) \in Q
    OBVIOUS
  <1>2. s \in Seq(Q)
    OBVIOUS
  <1> HIDE DEF Q
  <1>3. CASE x = 0
    <2>1. Append(s, <<>>) \in Seq(Q)
      BY <1>1, <1>2
    <2> QED BY <1>3, <2>1 DEF NextByte, Q
  <1>4. CASE x # 0
    <2> DEFINE t == [s EXCEPT ![Len(s)] = Append(@, x)]
    <2>1. NextByte(s, x) = t
      BY <1>4 DEF NextByte
    <2>2. s \in [1 .. Len(s) -> Q] /\ Len(s) \in Nat
      BY <1>2
    <2>3. t \in [1 .. Len(s) -> Q]
      BY <1>1, <2>2
    <2>4. t \in Seq(Q)
      <3> DEFINE n == Len(s)
      <3>1. n \in Nat /\ t \in [1 .. n -> Q]
        BY <2>2, <2>3
      <3> HIDE DEF t, n
      <3> QED BY <3>1
    <2> QED BY <2>1, <2>4 DEF Q
  <1> QED BY <1>3, <1>4

\* A byte that is not NUL goes to the last string.
LEMMA NextByteOn ==
    ASSUME NEW s \in Seq(Seq(Nat)), NEW t \in Seq(Nat), NEW x \in Nat \ {0}
    PROVE  NextByte(Append(s, t), x) = Append(s, Append(t, x))
  <1> DEFINE Q == Seq(Nat)
             r == Append(t, x)
             a == Append(s, t)
             e == [a EXCEPT ![Len(a)] = Append(@, x)]
             z == Append(s, r)
  <1>1. s \in Seq(Q) /\ t \in Q /\ r \in Q
    OBVIOUS
  <1>2. NextByte(a, x) = e
    BY DEF NextByte
  <1> HIDE DEF Q
  <1>3. /\ a \in Seq(Q) /\ Len(a) = Len(s) + 1 /\ Len(s) \in Nat /\ a[Len(s) + 1] = t
        /\ \A k \in 1 .. Len(s) : a[k] = s[k]
    BY <1>1
  <1> HIDE DEF a
  <1>4. a \in [1 .. Len(a) -> Q]
    BY <1>3, LenProperties, Zenon
  <1>5. /\ DOMAIN e = 1 .. Len(s) + 1 /\ e[Len(s) + 1] = r
        /\ \A k \in 1 .. Len(s) : e[k] = s[k]
    BY <1>3, <1>4
  <1> HIDE DEF r
  <1>6. /\ z \in Seq(Q) /\ Len(z) = Len(s) + 1 /\ z[Len(s) + 1] = r
        /\ \A k \in 1 .. Len(s) : z[k] = s[k]
    BY <1>1
  <1> HIDE DEF z
  <1>7. z \in [1 .. Len(s) + 1 -> Q]
    BY <1>6, LenProperties, Zenon
  <1>8. e = [k \in 1 .. Len(s) + 1 |-> e[k]]
    BY <1>5
  <1> HIDE DEF e
  <1>9. ASSUME NEW k \in 1 .. Len(s) + 1 PROVE e[k] = z[k]
    <2>1. k \in 1 .. Len(s) \/ k = Len(s) + 1
      BY <1>3
    <2> QED BY <1>5, <1>6, <2>1
  <1>10. e = z
    BY <1>7, <1>8, <1>9
  <1> QED BY <1>2, <1>10 DEF a, r, z

LEMMA CStringsRun ==
    ASSUME NEW block \in Seq(Nat)
    PROVE  \E f : /\ IsSplit(f, block) /\ f[Len(block)] = CStrings(block)
                  /\ \A k \in 0 .. Len(block) : f[k] \in Seq(Seq(Nat))
  <1> DEFINE N == Len(block)
             Z == Seq(Seq(Nat))
             start == <<<<>>>>
             h == [k \in Nat |-> [s \in Z |-> IF k \in 1 .. N THEN NextByte(s, block[k]) ELSE s]]
             G(g) == g = [k \in 0 .. N |-> IF k = 0 THEN start
                             ELSE IF block[k] = 0 THEN Append(g[k - 1], <<>>)
                                  ELSE [g[k - 1] EXCEPT ![Len(g[k - 1])] = Append(@, block[k])]]
             split == CHOOSE g : G(g)
  <1>1. N \in Nat /\ \A k \in 1 .. N : block[k] \in Nat
    OBVIOUS
  <1>2. start \in Z
    <2> DEFINE Q == Seq(Nat)
    <2>1. <<>> \in Q
      OBVIOUS
    <2> HIDE DEF Q
    <2>2. <<<<>>>> \in Seq(Q)
      BY <2>1
    <2> QED BY <2>2 DEF Q
  <1>3. \A k \in 1 .. N, s \in Z : NextByte(s, block[k]) \in Z
    BY <1>1, NextByteIn
  <1>4. CStrings(block) = split[N]
    BY DEF CStrings
  <1> HIDE DEF Z, start, N
  <1>5. h \in [Nat -> [Z -> Z]]
    BY <1>3
  <1>6. PICK f : IsRun(f, Z, start, h, N)
    <2> HIDE DEF h
    <2> QED BY <1>1, <1>2, <1>5, Iteration
  <1>7. f \in [0 .. N -> Z] /\ f[0] = start
    BY <1>6 DEF IsRun
  <1>8. ASSUME NEW k \in 1 .. N PROVE f[k] = NextByte(f[k - 1], block[k]) /\ k - 1 \in 0 .. N
    <2>1. k \in Nat /\ k - 1 \in 0 .. N
      BY <1>1
    <2>2. f[k - 1] \in Z
      BY <1>7, <2>1
    <2>3. f[k] = h[k][f[k - 1]]
      <3> HIDE DEF h
      <3> QED BY <1>6 DEF IsRun
    <2> QED BY <2>1, <2>2, <2>3
  <1>9. G(f)
    <2>1. f = [k \in 0 .. N |-> f[k]]
      BY <1>7
    <2>2. ASSUME NEW k \in 0 .. N
          PROVE  f[k] = IF k = 0 THEN start
                             ELSE IF block[k] = 0 THEN Append(f[k - 1], <<>>)
                                  ELSE [f[k - 1] EXCEPT ![Len(f[k - 1])] = Append(@, block[k])]
      <3>1. CASE k = 0
        BY <1>7, <3>1
      <3>2. CASE k # 0
        <4>1. k \in 1 .. N
          BY <1>1, <3>2
        <4> QED BY <1>8, <3>2, <4>1, Zenon DEF NextByte
      <3> QED BY <3>1, <3>2
    <2> QED BY <2>1, <2>2, Zenon
  <1>10. G(split)
    BY <1>9, Zenon
  <1> HIDE DEF split
  <1>11. split[0] = start /\ \A k \in 1 .. N : split[k] = NextByte(split[k - 1], block[k])
    <2>1. 0 \in 0 .. N /\ \A k \in 1 .. N : k \in 0 .. N /\ k # 0
      BY <1>1
    <2>2. \A k \in 0 .. N : split[k] = IF k = 0 THEN start
                             ELSE IF block[k] = 0 THEN Append(split[k - 1], <<>>)
                                  ELSE [split[k - 1] EXCEPT ![Len(split[k - 1])] = Append(@, block[k])]
      <3> DEFINE F(g, k) == IF k = 0 THEN start
                             ELSE IF block[k] = 0 THEN Append(g[k - 1], <<>>)
                                  ELSE [g[k - 1] EXCEPT ![Len(g[k - 1])] = Append(@, block[k])]
      <3>1. split = [k \in 0 .. N |-> F(split, k)]
        BY <1>10
      <3> HIDE DEF F
      <3>2. \A k \in 0 .. N : split[k] = F(split, k)
        BY <3>1
      <3> QED BY <3>2 DEF F
    <2> QED BY <2>1, <2>2, Zenon DEF NextByte
  <1> DEFINE T == {k \in Nat : k <= N => split[k] \in Z}
  <1>12. 0 \in T
    BY <1>2, <1>11
  <1>13. ASSUME NEW k \in Nat, k \in T PROVE k + 1 \in T
    <2> SUFFICES ASSUME k + 1 <= N PROVE split[k + 1] \in Z
      OBVIOUS
    <2>1. split[k] \in Z /\ k + 1 \in 1 .. N /\ (k + 1) - 1 = k
      BY <1>1, <1>13
    <2> QED BY <1>3, <1>11, <2>1
  <1>14. \A k \in 0 .. N : split[k] \in Z
    <2>1. Nat \subseteq T
      <3> HIDE DEF T
      <3> QED BY <1>12, <1>13, SetInduction
    <2> QED BY <1>1, <2>1
  <1> QED BY <1>4, <1>11, <1>14 DEF IsSplit, Z, start, N

LEMMA SplitName ==
    ASSUME NEW s \in Seq(Seq(Nat)), NEW name \in Seq(Nat), \A m \in 1 .. Len(name) : name[m] # 0,
           NEW g, NEW o \in Nat, g[o] = Append(s, <<>>),
           \A m \in 1 .. Len(name) : g[o + m] = NextByte(g[(o + m) - 1], name[m])
    PROVE  g[o + Len(name)] = Append(s, name)
  <1> DEFINE L == Len(name)
             first(m) == SubSeq(name, 1, m)
             T == {m \in Nat : m <= L => g[o + m] = Append(s, first(m))}
  <1>1. L \in Nat
    OBVIOUS
  <1>2. 0 \in T
    <2>1. first(0) = <<>> /\ o + 0 = o
      OBVIOUS
    <2> HIDE DEF first
    <2> QED BY <2>1
  <1>3. ASSUME NEW m \in Nat, m \in T PROVE m + 1 \in T
    <2> SUFFICES ASSUME m + 1 <= L PROVE g[o + (m + 1)] = Append(s, first(m + 1))
      OBVIOUS
    <2>1. /\ m + 1 \in 1 .. L /\ (o + (m + 1)) - 1 = o + m /\ g[o + m] = Append(s, first(m))
      BY <1>1, <1>3
    <2>2. first(m) \in Seq(Nat) /\ name[m + 1] \in Nat \ {0}
      BY <1>1, <2>1
    <2>3. first(m + 1) = Append(first(m), name[m + 1])
      BY <1>1, <2>1
    <2> HIDE DEF first
    <2>4. g[o + (m + 1)] = NextByte(Append(s, first(m)), name[m + 1])
      BY <2>1
    <2> QED BY <2>2, <2>3, <2>4, NextByteOn
  <1>4. L \in T
    <2> HIDE DEF T
    <2> QED BY <1>1, <1>2, <1>3, SetInduction
  <1>5. first(L) = name
    OBVIOUS
  <1> QED BY <1>1, <1>4, <1>5

LEMMA NameBytes ==
    ASSUME NEW name \in Seq(1 .. 255)
    PROVE  name \in Seq(Nat) /\ \A m \in 1 .. Len(name) : name[m] # 0
  <1> DEFINE R == 1 .. 255
  <1>1. R \subseteq Nat /\ name \in Seq(R) /\ 0 \notin R
    OBVIOUS
  <1> HIDE DEF R
  <1>2. name \in Seq(Nat)
    BY <1>1, SeqMonotonic
  <1>3. \A m \in 1 .. Len(name) : name[m] \in R
    BY <1>1
  <1> QED BY <1>1, <1>2, <1>3

\* A name is one string, and one more after a NUL.
LEMMA OneName ==
    ASSUME NEW name, name \in Seq(1 .. 255)
    PROVE  CStrings(name) = <<name>>
  <1>1. name \in Seq(Nat) /\ \A m \in 1 .. Len(name) : name[m] # 0
    BY NameBytes
  <1>2. PICK f : IsSplit(f, name) /\ f[Len(name)] = CStrings(name)
    BY <1>1, CStringsRun
  <1>3. <<>> \in Seq(Seq(Nat)) /\ Append(<<>>, <<>>) = <<<<>>>> /\ Append(<<>>, name) = <<name>>
    OBVIOUS
  <1>4. \A m \in 1 .. Len(name) : f[0 + m] = NextByte(f[(0 + m) - 1], name[m])
    <2>1. ASSUME NEW m \in 1 .. Len(name) PROVE 0 + m = m
      BY <1>1
    <2> QED BY <1>2, <2>1, Zenon DEF IsSplit
  <1>5. f[0] = Append(<<>>, <<>>) /\ 0 \in Nat
    BY <1>2, <1>3 DEF IsSplit
  <1>6. f[0 + Len(name)] = Append(<<>>, name)
    BY <1>1, <1>3, <1>4, <1>5, SplitName, Zenon
  <1>7. 0 + Len(name) = Len(name)
    BY <1>1
  <1> QED BY <1>2, <1>3, <1>6, <1>7

LEMMA MoreNames ==
    ASSUME NEW a, a \in Seq(Nat), NEW name, name \in Seq(1 .. 255)
    PROVE  CStrings(a \o <<0>> \o name) = Append(CStrings(a), name)
  <1> DEFINE b == a \o <<0>> \o name
             A == Len(a)
             L == Len(name)
  <1>1. name \in Seq(Nat) /\ \A m \in 1 .. L : name[m] # 0
    BY NameBytes
  <1>2. /\ b \in Seq(Nat) /\ Len(b) = A + 1 + L /\ A \in Nat /\ L \in Nat
        /\ \A k \in 1 .. A : b[k] = a[k]
        /\ b[A + 1] = 0
        /\ \A m \in 1 .. L : b[A + 1 + m] = name[m]
    <2> DEFINE z == a \o <<0>>
    <2>1. name \in Seq(Nat) /\ a \in Seq(Nat) /\ <<0>> \in Seq(Nat)
      BY <1>1
    <2>2. z \in Seq(Nat) /\ Len(z) = A + 1 /\ A \in Nat /\ L \in Nat
      BY <2>1
    <2>3. z[A + 1] = 0 /\ \A k \in 1 .. A : z[k] = a[k]
      BY <2>1, <2>2
    <2> HIDE DEF z
    <2>4. z \o name \in Seq(Nat) /\ Len(z \o name) = A + 1 + L
      <3>1. z \o name \in Seq(Nat) /\ Len(z \o name) = Len(z) + Len(name)
        BY <2>1, <2>2, ConcatProperties, Zenon
      <3> QED BY <2>2, <3>1
    <2>5. \A k \in 1 .. A + 1 : (z \o name)[k] = z[k]
      BY <2>1, <2>2
    <2>6. ASSUME NEW m \in 1 .. L PROVE (z \o name)[A + 1 + m] = name[m]
      <3>1. A + 1 + m \in 1 .. Len(z) + Len(name) /\ ~ (A + 1 + m <= Len(z)) /\ (A + 1 + m) - Len(z) = m
        BY <2>2
      <3> QED BY <2>1, <2>2, <3>1, ConcatProperties
    <2>7. b = z \o name
      BY DEF z
    <2> HIDE DEF b
    <2>8. (\A k \in 1 .. A : k \in 1 .. A + 1) /\ A + 1 \in 1 .. A + 1
      BY <2>2
    <2> QED BY <2>2, <2>3, <2>4, <2>5, <2>6, <2>7, <2>8
  <1> HIDE DEF b, A, L
  <1>3. PICK f : /\ IsSplit(f, a) /\ f[Len(a)] = CStrings(a)
                 /\ \A k \in 0 .. Len(a) : f[k] \in Seq(Seq(Nat))
    BY CStringsRun
  <1>4. PICK g : IsSplit(g, b) /\ g[Len(b)] = CStrings(b)
    BY <1>2, CStringsRun
  <1>5. /\ f[0] = <<<<>>>> /\ g[0] = <<<<>>>>
        /\ \A k \in 1 .. A : f[k] = NextByte(f[k - 1], a[k])
        /\ \A k \in 1 .. Len(b) : g[k] = NextByte(g[k - 1], b[k])
    BY <1>3, <1>4 DEF IsSplit, A
  <1> DEFINE T == {k \in Nat : k <= A => g[k] = f[k]}
  <1>6. 0 \in T
    BY <1>5
  <1>7. ASSUME NEW k \in Nat, k \in T PROVE k + 1 \in T
    <2> SUFFICES ASSUME k + 1 <= A PROVE g[k + 1] = f[k + 1]
      OBVIOUS
    <2> DEFINE B == Len(b)
    <2>1. A \in Nat /\ L \in Nat /\ B = A + 1 + L
      BY <1>2
    <2> HIDE DEF B
    <2>2. k + 1 \in 1 .. A /\ k + 1 \in 1 .. B /\ (k + 1) - 1 = k
      BY <2>1
    <2>3. g[k] = f[k]
      BY <1>7, <2>1
    <2> QED BY <1>2, <1>5, <2>2, <2>3 DEF B
  <1>8. A \in T
    <2> HIDE DEF T
    <2> QED BY <1>2, <1>6, <1>7, SetInduction
  <1> DEFINE s == CStrings(a)
  <1>9. s \in Seq(Seq(Nat)) /\ g[A] = s
    BY <1>2, <1>3, <1>8 DEF A
  <1> HIDE DEF s
  <1>10. g[A + 1] = Append(s, <<>>)
    <2>1. A + 1 \in 1 .. Len(b) /\ (A + 1) - 1 = A
      BY <1>2
    <2>2. g[A + 1] = NextByte(g[A], 0)
      BY <1>2, <1>5, <2>1
    <2> QED BY <1>9, <2>2 DEF NextByte
  <1>11. ASSUME NEW m \in 1 .. L PROVE g[(A + 1) + m] = NextByte(g[((A + 1) + m) - 1], name[m])
    <2>1. (A + 1) + m \in 1 .. Len(b)
      BY <1>2
    <2> QED BY <1>2, <1>5, <2>1
  <1>12. A + 1 \in Nat
    BY <1>2
  <1>13. g[(A + 1) + Len(name)] = Append(s, name)
    BY <1>1, <1>9, <1>10, <1>11, <1>12, SplitName, Zenon DEF L
  <1>14. (A + 1) + Len(name) = Len(b)
    BY <1>2 DEF L
  <1> QED BY <1>4, <1>13, <1>14 DEF s, b

-----------------------------------------------------------------------------
(* What EncodingCorpus makes of the names and records of a corpus.         *)

Named(c, a, b) == [k \in 1 .. b - a |-> c.files[a + k].name]
\* The first name of block d, and where the names of the blocks before d end.
Start(c, d) == d * c.block_size
End(c, d) == IF Start(c, d) <= Len(c.files) THEN Start(c, d) ELSE Len(c.files)

LEMMA Starts ==
    ASSUME NEW c \in Corpora, NEW d \in Nat
    PROVE  /\ Start(c, 0) = 0 /\ Start(c, d) \in Nat /\ Start(c, d + 1) = Start(c, d) + c.block_size
           /\ c.block_size \in Nat \ {0}
  <1> DEFINE b == c.block_size
  <1>1. b \in Nat \ {0}
    BY FilesOfCorpus
  <1> HIDE DEF b
  <1>2. 0 * b = 0 /\ d * b \in Nat /\ (d + 1) * b = d * b + b
    BY <1>1
  <1> QED BY <1>1, <1>2 DEF Start, b

LEMMA StartsGrow ==
    ASSUME NEW c \in Corpora, NEW d \in Nat, NEW e \in Nat, d < e
    PROVE  Start(c, d) + c.block_size <= Start(c, e)
  <1> DEFINE T == {k \in Nat : Start(c, d) + c.block_size <= Start(c, (d + 1) + k)}
  <1>1. 0 \in T
    <2>1. (d + 1) + 0 = d + 1
      OBVIOUS
    <2> QED BY <2>1, Starts
  <1>2. ASSUME NEW k \in Nat, k \in T PROVE k + 1 \in T
    <2> DEFINE m == (d + 1) + k
    <2>1. m \in Nat /\ (d + 1) + (k + 1) = m + 1
      OBVIOUS
    <2>2. Start(c, d) + c.block_size <= Start(c, m)
      BY <1>2
    <2>3. /\ Start(c, m + 1) = Start(c, m) + c.block_size /\ c.block_size \in Nat /\ Start(c, m) \in Nat
          /\ Start(c, d) \in Nat
      BY <2>1, Starts
    <2> HIDE DEF m
    <2> QED BY <2>1, <2>2, <2>3
  <1>3. e - (d + 1) \in T
    <2>1. e - (d + 1) \in Nat
      OBVIOUS
    <2> HIDE DEF T
    <2> QED BY <1>1, <1>2, <2>1, SetInduction
  <1>4. (d + 1) + (e - (d + 1)) = e
    OBVIOUS
  <1> QED BY <1>3, <1>4

LEMMA NamedIs ==
    ASSUME NEW c \in Corpora, NEW a \in Nat, NEW b \in Nat, a <= b, b <= Len(c.files)
    PROVE  \E X : /\ Named(c, a, b) \in Seq(X) /\ Len(Named(c, a, b)) = b - a
                  /\ \A k \in 1 .. Len(c.files) : c.files[k].name \in X
                  /\ \A k \in 1 .. b - a : Named(c, a, b)[k] = c.files[a + k].name
  <1> DEFINE N == Len(c.files)
             X == {c.files[k].name : k \in 1 .. N}
             n == b - a
             s == [k \in 1 .. n |-> c.files[a + k].name]
  <1>1. N \in Nat /\ n \in Nat
    BY FilesOfCorpus
  <1>2. \A k \in 1 .. n : a + k \in 1 .. N
    BY <1>1
  <1>3. (\A k \in 1 .. N : c.files[k].name \in X) /\ \A k \in 1 .. n : c.files[a + k].name \in X
    BY <1>2
  <1> HIDE DEF X
  <1>4. s \in Seq(X) /\ Len(s) = n /\ \A k \in 1 .. n : s[k] = c.files[a + k].name
    <2> HIDE DEF n
    <2> QED BY <1>1, <1>3
  <1>5. Named(c, a, b) = s
    BY DEF Named
  <1> QED BY <1>3, <1>4, <1>5

LEMMA NamedMore ==
    ASSUME NEW c \in Corpora, NEW a \in Nat, NEW b \in Nat, a <= b, b < Len(c.files)
    PROVE  Append(Named(c, a, b), c.files[b + 1].name) = Named(c, a, b + 1)
  <1> DEFINE N == Len(c.files)
             s == Named(c, a, b)
             x == c.files[b + 1].name
             z == Named(c, a, b + 1)
             n == b - a
  <1>1. N \in Nat /\ n \in Nat /\ b + 1 \in 1 .. N /\ b <= N /\ (b + 1) - a = n + 1
    BY FilesOfCorpus
  <1>2. PICK X : /\ s \in Seq(X) /\ Len(s) = n /\ \A k \in 1 .. N : c.files[k].name \in X
                 /\ \A k \in 1 .. n : s[k] = c.files[a + k].name
    BY <1>1, NamedIs
  <1>3. /\ Append(s, x) \in Seq(X) /\ Len(Append(s, x)) = n + 1
        /\ \A k \in 1 .. n : Append(s, x)[k] = s[k]
        /\ Append(s, x)[n + 1] = x
    <2>1. x \in X
      BY <1>1, <1>2
    <2> HIDE DEF s, x, n
    <2> QED BY <1>2, <2>1
  <1>4. z = [k \in 1 .. n + 1 |-> c.files[a + k].name]
    BY <1>1 DEF Named
  <1> DEFINE y == Append(s, x)
  <1> HIDE DEF y, s, z, N
  <1>5. y = [k \in 1 .. n + 1 |-> y[k]]
    <2>1. y \in Seq(X) /\ Len(y) = n + 1
      BY <1>3 DEF y
    <2>2. y \in [1 .. Len(y) -> X]
      BY <2>1, LenProperties, Zenon
    <2> QED BY <2>1, <2>2
  <1>6. ASSUME NEW k \in 1 .. n + 1 PROVE y[k] = c.files[a + k].name
    <2>1. CASE k \in 1 .. n
      BY <1>2, <1>3, <2>1 DEF y
    <2>2. CASE k \notin 1 .. n
      <3>1. k = n + 1 /\ a + k = b + 1
        BY <1>1, <2>2
      <3> QED BY <1>3, <3>1 DEF y
    <2> QED BY <2>1, <2>2
  <1>7. y = z
    <2> HIDE DEF n
    <2> QED BY <1>4, <1>5, <1>6
  <1> QED BY <1>7 DEF y, z, s

LEMMA NamedLess ==
    ASSUME NEW c \in Corpora, NEW a \in Nat, NEW b \in Nat, a < b, b <= Len(c.files)
    PROVE  /\ Named(c, a, b) # <<>> /\ Head(Named(c, a, b)) = c.files[a + 1].name
           /\ Tail(Named(c, a, b)) = Named(c, a + 1, b)
  <1> DEFINE N == Len(c.files)
             s == Named(c, a, b)
             z == Named(c, a + 1, b)
             n == b - a
  <1>1. N \in Nat /\ n \in Nat \ {0} /\ b - (a + 1) = n - 1 /\ a <= b
    BY FilesOfCorpus
  <1>2. PICK X : /\ s \in Seq(X) /\ Len(s) = n /\ \A k \in 1 .. N : c.files[k].name \in X
                 /\ \A k \in 1 .. n : s[k] = c.files[a + k].name
    BY <1>1, NamedIs
  <1>3. z = [k \in 1 .. n - 1 |-> c.files[(a + 1) + k].name]
    BY <1>1 DEF Named
  <1> HIDE DEF s, z, n, N
  <1>4. s # <<>> /\ Head(s) = s[1] /\ 1 \in 1 .. n
    BY <1>1, <1>2
  <1> DEFINE y == Tail(s)
  <1>5. y \in Seq(X) /\ Len(y) = n - 1
    BY <1>1, <1>2, <1>4
  <1>6. \A k \in 1 .. n - 1 : y[k] = s[k + 1]
    BY <1>1, <1>2, <1>4
  <1> HIDE DEF y
  <1>7. y = [k \in 1 .. n - 1 |-> y[k]]
    <2>1. y \in [1 .. Len(y) -> X]
      BY <1>5, LenProperties, Zenon
    <2> QED BY <1>5, <2>1
  <1>8. ASSUME NEW k \in 1 .. n - 1 PROVE y[k] = c.files[(a + 1) + k].name
    <2>1. k + 1 \in 1 .. n /\ a + (k + 1) = (a + 1) + k
      BY <1>1
    <2> QED BY <1>2, <1>6, <2>1
  <1>9. y = z
    BY <1>3, <1>7, <1>8
  <1> QED BY <1>2, <1>4, <1>9 DEF y, z, s

LEMMA NamedNone ==
    ASSUME NEW c, NEW a \in Nat
    PROVE  Named(c, a, a) = <<>>
  <1>1. a - a = 0 /\ 1 .. 0 = {}
    OBVIOUS
  <1>2. Named(c, a, a) = [k \in {} |-> c.files[a + k].name]
    BY <1>1 DEF Named
  <1> QED BY <1>2

\* The whole blocks, the block being filled after n names, and a stream after n
\* records.
EncFields == {"current_block", "num_files_in_block", "num_blocks", "invindex", "filename_blocks",
              "dir_times", "metadata"}
BlocksOf(c, e) ==
    /\ DOMAIN e = EncFields /\ e.num_blocks \in Nat
    /\ DOMAIN e.filename_blocks = 0 .. e.num_blocks - 1
    /\ \A d \in 0 .. e.num_blocks - 1 :
           /\ e.filename_blocks[d] # <<>>
           /\ CStrings(e.filename_blocks[d]) = Named(c, Start(c, d), End(c, d + 1))
Partial(c, e, n) ==
    /\ e.num_files_in_block \in Nat /\ e.current_block \in Seq(Nat)
    /\ n = Start(c, e.num_blocks) + e.num_files_in_block
    /\ e.current_block = <<>> <=> e.num_files_in_block = 0
    /\ e.current_block # <<>> => CStrings(e.current_block) = Named(c, Start(c, e.num_blocks), n)
StreamOf(s, recs, n) ==
    /\ DOMAIN s = {"buffer", "compressed"}
    /\ s.buffer \in Seq(Parts) /\ s.compressed \in Seq(Parts)
    /\ s.compressed \o s.buffer = Whole(recs, n)

LEMMA ClosedStream ==
    ASSUME NEW recs, NEW s, NEW n, NEW size, StreamOf(s, recs, n)
    PROVE  /\ StreamOf(Compress(s, size), recs, n)
           /\ size = 0 => Compress(s, size).compressed = Whole(recs, n)
  <1> DEFINE b == s.buffer
             z == s.compressed
             new == [buffer |-> <<>>, compressed |-> z \o b]
  <1>1. b \in Seq(Parts) /\ z \in Seq(Parts) /\ z \o b = Whole(recs, n)
    BY DEF StreamOf
  <1>2. /\ Len(b) >= size => Compress(s, size) = new
        /\ ~ (Len(b) >= size) => Compress(s, size) = s
    BY DEF Compress
  <1>3. Len(b) >= 0
    BY <1>1
  <1>4. DOMAIN new = {"buffer", "compressed"} /\ new.buffer = <<>> /\ new.compressed = z \o b
    OBVIOUS
  <1> HIDE DEF b, z, new
  <1>5. z \o b \in Seq(Parts) /\ <<>> \in Seq(Parts) /\ (z \o b) \o <<>> = z \o b
    <2>1. z \o b \in Seq(Parts)
      BY <1>1, ConcatProperties, Zenon
    <2>2. <<>> \in Seq(Parts)
      OBVIOUS
    <2>3. (z \o b) \o <<>> = z \o b
      BY <2>1, ConcatEmptySeq, Zenon
    <2> QED BY <2>1, <2>2, <2>3
  <1>6. StreamOf(new, recs, n)
    BY <1>1, <1>4, <1>5 DEF StreamOf
  <1> QED BY <1>1, <1>2, <1>3, <1>4, <1>6

LEMMA StoredStream ==
    ASSUME NEW recs \in Seq(Seq(Parts)), NEW s, NEW n \in 0 .. Len(recs) - 1, StreamOf(s, recs, n)
    PROVE  StreamOf(Stored(s, recs[n + 1]), recs, n + 1)
  <1> DEFINE b == s.buffer
             z == s.compressed
             r == recs[n + 1]
             t == [s EXCEPT !.buffer = b \o r]
  <1>1. b \in Seq(Parts) /\ z \in Seq(Parts) /\ z \o b = Whole(recs, n) /\ DOMAIN s = {"buffer", "compressed"}
    BY DEF StreamOf
  <1>2. r \in Seq(Parts) /\ Whole(recs, n + 1) = Whole(recs, n) \o r
    <2>1. n + 1 \in 1 .. Len(recs) /\ (n + 1) - 1 = n
      BY Elements
    <2>2. r \in Seq(Parts)
      BY <2>1, Elements, Zenon
    <2>3. Whole(recs, n + 1) = Whole(recs, (n + 1) - 1) \o r
      BY <2>1, WholeGrows, Zenon
    <2> QED BY <2>1, <2>2, <2>3, Zenon
  <1>3. DOMAIN t = {"buffer", "compressed"} /\ t.buffer = b \o r /\ t.compressed = z
    BY <1>1
  <1>4. Stored(s, r) = Compress(t, Slop)
    BY DEF Stored
  <1> HIDE DEF b, z, r, t
  <1>5. b \o r \in Seq(Parts) /\ (z \o b) \o r = z \o (b \o r)
    <2>0. b \in Seq(Parts) /\ z \in Seq(Parts) /\ r \in Seq(Parts)
      BY <1>1, <1>2
    <2>1. b \o r \in Seq(Parts)
      BY <2>0, ConcatProperties, Zenon
    <2>2. (z \o b) \o r = z \o (b \o r)
      BY <2>0, ConcatAssociative, SMTT(30)
    <2> QED BY <2>1, <2>2
  <1>6. t.compressed \o t.buffer = Whole(recs, n + 1)
    BY <1>1, <1>2, <1>3, <1>5, Zenon
  <1>7. StreamOf(t, recs, n + 1)
    BY <1>1, <1>3, <1>5, <1>6 DEF StreamOf
  <1> QED BY <1>4, <1>7, ClosedStream DEF r

LEMMA AppendedNames ==
    ASSUME NEW c \in Corpora, c.store, NEW e, NEW n \in Nat, n < Len(c.files),
           BlocksOf(c, e), Partial(c, e, n)
    PROVE  LET f == Appended(e, c.files[n + 1].name)
           IN  /\ BlocksOf(c, f) /\ Partial(c, f, n + 1) /\ f.num_blocks = e.num_blocks
               /\ f.num_files_in_block = e.num_files_in_block + 1 /\ f.current_block # <<>>
               /\ f.dir_times = e.dir_times /\ f.metadata = e.metadata
  <1> DEFINE name == c.files[n + 1].name
             old_block == e.current_block
             block == IF old_block = <<>> THEN name ELSE old_block \o <<0>> \o name
             f == Appended(e, name)
             a == Start(c, e.num_blocks)
             R == 1 .. 255
  <1>1. /\ name # <<>> /\ name \in Seq(R) /\ Len(c.files) \in Nat
    <2>1. Len(c.files) \in Nat
      BY FilesOfCorpus
    <2>2. n + 1 \in 1 .. Len(c.files)
      BY <2>1
    <2> QED BY <2>1, <2>2, FilesOfCorpus, Zenon
  <1>2. /\ DOMAIN f = DOMAIN e /\ f.current_block = block /\ f.num_blocks = e.num_blocks
        /\ f.num_files_in_block = e.num_files_in_block + 1 /\ f.filename_blocks = e.filename_blocks
        /\ f.dir_times = e.dir_times /\ f.metadata = e.metadata
    <2> HIDE DEF block, name
    <2> QED BY DEF Appended, BlocksOf, EncFields, block
  <1>3. BlocksOf(c, f)
    <2> HIDE DEF f
    <2> QED BY <1>2 DEF BlocksOf
  <1>4. old_block \in Seq(Nat) /\ e.num_files_in_block \in Nat /\ n = a + e.num_files_in_block
    BY DEF Partial
  <1>5. a \in Nat
    BY Starts DEF BlocksOf
  <1>6. name \in Seq(Nat)
    BY <1>1, NameBytes
  <1>7. CASE old_block = <<>>
    <2>1. e.num_files_in_block = 0 /\ n = a
      BY <1>4, <1>5, <1>7 DEF Partial
    <2>2. CStrings(name) = <<name>>
      BY <1>1, OneName
    <2>3. <<name>> = Named(c, a, n + 1)
      <3>1. Append(Named(c, a, n), name) = Named(c, a, n + 1)
        BY <1>5, <2>1, NamedMore
      <3>2. Named(c, a, n) = <<>>
        BY <2>1, NamedNone
      <3>3. Append(<<>>, name) = <<name>>
        OBVIOUS
      <3> QED BY <3>1, <3>2, <3>3
    <2>4. block = name
      BY <1>7
    <2> HIDE DEF block, f, a, name
    <2> QED BY <1>1, <1>2, <1>3, <1>4, <1>5, <1>6, <2>1, <2>2, <2>3, <2>4 DEF Partial, a, f, name
  <1>8. CASE old_block # <<>>
    <2>1. CStrings(old_block) = Named(c, a, n)
      BY <1>8 DEF Partial
    <2>2. CStrings(old_block \o <<0>> \o name) = Append(Named(c, a, n), name)
      BY <1>1, <1>4, <2>1, MoreNames
    <2>3. Append(Named(c, a, n), name) = Named(c, a, n + 1)
      <3>1. a <= n
        BY <1>4, <1>5
      <3> QED BY <1>5, <3>1, NamedMore
    <2>4. block = old_block \o <<0>> \o name
      BY <1>8
    <2>5. block \in Seq(Nat) /\ block # <<>>
      <3> DEFINE z == old_block \o <<0>>
      <3>1. <<0>> \in Seq(Nat) /\ old_block \in Seq(Nat)
        BY <1>4
      <3>2. z \in Seq(Nat) /\ Len(z) = Len(old_block) + Len(<<0>>)
        BY <3>1, ConcatProperties, Zenon
      <3> HIDE DEF z
      <3>3. z \o name \in Seq(Nat) /\ Len(z \o name) = Len(z) + Len(name)
        <4>1. z \in Seq(Nat) /\ name \in Seq(Nat)
          BY <1>6, <3>2
        <4> HIDE DEF name
        <4> QED BY <4>1, ConcatProperties, Zenon
      <3> DEFINE lz == Len(z)
                 lo == Len(old_block)
                 ln == Len(name)
                 lb == Len(z \o name)
      <3>4. lz = lo + 1 /\ lo \in Nat /\ ln \in Nat /\ lb = lz + ln
        <4>1. Len(<<0>>) = 1
          OBVIOUS
        <4>2. lo \in Nat /\ ln \in Nat
          BY <1>6, <3>1, LenProperties, Zenon
        <4> QED BY <3>2, <3>3, <4>1, <4>2
      <3> HIDE DEF lz, lo, ln, lb
      <3>5. lb # 0
        BY <3>4
      <3>6. z \o name # <<>>
        BY <3>5 DEF lb
      <3> QED BY <2>4, <3>3, <3>6 DEF z
    <2>6. n + 1 = a + (e.num_files_in_block + 1) /\ e.num_files_in_block + 1 \in Nat /\ e.num_files_in_block + 1 # 0
      BY <1>4, <1>5
    <2> HIDE DEF block, f, a, name
    <2> QED BY <1>2, <1>3, <2>2, <2>3, <2>4, <2>5, <2>6, Zenon DEF Partial, a, f, name
  <1> QED BY <1>7, <1>8

LEMMA FlushedNames ==
    ASSUME NEW c, NEW e, NEW n, BlocksOf(c, e), Partial(c, e, n), e.current_block # <<>>,
           n = End(c, e.num_blocks + 1)
    PROVE  LET f == flush_block(e)
           IN  /\ BlocksOf(c, f) /\ f.num_blocks = e.num_blocks + 1 /\ f.num_files_in_block = 0
               /\ f.current_block = <<>> /\ f.dir_times = e.dir_times /\ f.metadata = e.metadata
  <1> DEFINE inv == Indexed(e.invindex, e.current_block, e.num_blocks)
             nb == e.num_blocks
             blocks == [d \in DOMAIN e.filename_blocks \cup {nb} |->
                           IF d = nb THEN e.current_block ELSE e.filename_blocks[d]]
             f == flush_block(e)
  <1>1. f = [e EXCEPT !.invindex = inv, !.filename_blocks = blocks, !.current_block = <<>>,
                      !.num_files_in_block = 0, !.num_blocks = nb + 1]
    BY DEF flush_block
  <1> HIDE DEF inv, blocks, f
  <1>2. /\ DOMAIN f = EncFields /\ f.filename_blocks = blocks /\ f.current_block = <<>>
        /\ f.num_blocks = nb + 1 /\ f.num_files_in_block = 0
        /\ f.dir_times = e.dir_times /\ f.metadata = e.metadata
    BY <1>1 DEF BlocksOf, EncFields
  <1>3. nb \in Nat /\ DOMAIN e.filename_blocks = 0 .. nb - 1 /\ 0 .. (nb + 1) - 1 = (0 .. nb - 1) \cup {nb}
    BY DEF BlocksOf
  <1>4. DOMAIN blocks = 0 .. (nb + 1) - 1
    BY <1>3 DEF blocks
  <1>5. ASSUME NEW d \in 0 .. (nb + 1) - 1
        PROVE  blocks[d] # <<>> /\ CStrings(blocks[d]) = Named(c, Start(c, d), End(c, d + 1))
    <2>1. CASE d = nb
      <3>1. blocks[d] = e.current_block
        BY <1>3, <2>1 DEF blocks
      <3> QED BY <2>1, <3>1 DEF Partial
    <2>2. CASE d # nb
      <3>1. d \in 0 .. nb - 1 /\ blocks[d] = e.filename_blocks[d]
        BY <1>3, <2>2 DEF blocks
      <3> QED BY <3>1 DEF BlocksOf
    <2> QED BY <2>1, <2>2
  <1>6. BlocksOf(c, f)
    <2>1. nb + 1 \in Nat
      BY <1>3
    <2> HIDE DEF nb
    <2> QED BY <1>2, <1>4, <1>5, <2>1 DEF BlocksOf
  <1> QED BY <1>2, <1>6 DEF f

LEMMA SameBlocks ==
    ASSUME NEW c, NEW e, NEW f, DOMAIN f = DOMAIN e, f.num_blocks = e.num_blocks,
           f.filename_blocks = e.filename_blocks, f.current_block = e.current_block,
           f.num_files_in_block = e.num_files_in_block
    PROVE  /\ BlocksOf(c, e) => BlocksOf(c, f)
           /\ \A n : Partial(c, e, n) => Partial(c, f, n)
  BY DEF BlocksOf, Partial

\* After the last name all blocks are there, and the last one holds a name.
BlocksEnd(c, e) ==
    /\ Len(c.files) <= Start(c, e.num_blocks)
    /\ e.num_blocks # 0 => Start(c, e.num_blocks - 1) < Len(c.files)

StoredAs(c, n, e, ph) ==
    c.store =>
        /\ n \in 0 .. Len(c.files) /\ BlocksOf(c, e)
        /\ StreamOf(e.dir_times, DirTimeRecords(c.files), n)
        /\ StreamOf(e.metadata, MetadataRecords(c.files), n)
        /\ ph = "names" => Partial(c, e, n) /\ e.num_files_in_block < c.block_size
        /\ ph # "names" => n = Len(c.files) /\ BlocksEnd(c, e)
        /\ ph \in {"written", "published"} =>
               /\ e.dir_times.compressed = Whole(DirTimeRecords(c.files), Len(c.files))
               /\ e.metadata.compressed = Whole(MetadataRecords(c.files), Len(c.files))
StoreInv == StoredAs(corpus, pos, enc, phase)

LEMMA AddedFile ==
    ASSUME corpus \in Corpora, StoreInv, add_file
    PROVE  StoreInv'
  <1> SUFFICES ASSUME corpus.store PROVE StoreInv'
    BY DEF add_file, StoreInv, StoredAs
  <1> DEFINE c == corpus
             N == Len(c.files)
             bs == c.block_size
             f == c.files[pos + 1]
             e == Appended(enc, f.name)
             g == IF e.num_files_in_block = bs THEN flush_block(e) ELSE e
             a == Stored(g.dir_times, DirTimeRecord(f.dt))
             b == Stored(g.metadata, encode_metadata_record(f.meta))
  <1>1. /\ phase = "names" /\ phase' = "names" /\ pos < N /\ pos' = pos + 1 /\ corpus' = c
        /\ enc' = [g EXCEPT !.dir_times = a, !.metadata = b]
    BY DEF add_file, Streamed
  <1>2. /\ pos \in 0 .. N /\ BlocksOf(c, enc) /\ Partial(c, enc, pos) /\ enc.num_files_in_block < bs
        /\ StreamOf(enc.dir_times, DirTimeRecords(c.files), pos)
        /\ StreamOf(enc.metadata, MetadataRecords(c.files), pos)
    BY <1>1 DEF StoreInv, StoredAs
  <1>3. N \in Nat /\ pos \in Nat /\ pos + 1 \in 1 .. N /\ bs \in Nat \ {0}
    BY <1>1, <1>2, FilesOfCorpus
  <1>4. /\ BlocksOf(c, e) /\ Partial(c, e, pos + 1) /\ e.num_blocks = enc.num_blocks
        /\ e.num_files_in_block = enc.num_files_in_block + 1 /\ e.current_block # <<>>
        /\ e.dir_times = enc.dir_times /\ e.metadata = enc.metadata
    BY <1>1, <1>2, <1>3, AppendedNames
  <1> HIDE DEF e
  <1>5. /\ BlocksOf(c, g) /\ Partial(c, g, pos + 1) /\ g.num_files_in_block < bs
        /\ g.dir_times = enc.dir_times /\ g.metadata = enc.metadata
    <2> DEFINE nb == e.num_blocks
    <2>1. nb \in Nat /\ e.num_files_in_block \in Nat /\ pos + 1 = Start(c, nb) + e.num_files_in_block
      BY <1>4 DEF BlocksOf, Partial
    <2>2. CASE e.num_files_in_block = bs
      <3> DEFINE h == flush_block(e)
      <3>1. Start(c, nb + 1) = Start(c, nb) + bs
        BY <2>1, Starts
      <3>2. pos + 1 = Start(c, nb + 1)
        BY <2>1, <2>2, <3>1
      <3>3. pos + 1 = End(c, nb + 1)
        BY <1>3, <3>2 DEF End
      <3>4. /\ BlocksOf(c, h) /\ h.num_blocks = nb + 1 /\ h.num_files_in_block = 0
            /\ h.current_block = <<>> /\ h.dir_times = e.dir_times /\ h.metadata = e.metadata
        BY <1>4, <3>3, FlushedNames
      <3>5. g = h
        BY <2>2
      <3> HIDE DEF h, g
      <3>6. <<>> \in Seq(Nat) /\ 0 \in Nat /\ Start(c, nb + 1) + 0 = pos + 1 /\ 0 < bs
        BY <1>3, <3>2
      <3>7. Partial(c, h, pos + 1)
        BY <3>4, <3>6 DEF Partial
      <3> QED BY <1>4, <3>4, <3>5, <3>6, <3>7
    <2>3. CASE e.num_files_in_block # bs
      <3>1. g = e
        BY <2>3
      <3>2. e.num_files_in_block < bs
        BY <1>2, <1>3, <1>4, <2>1, <2>3 DEF Partial
      <3> HIDE DEF g
      <3> QED BY <1>4, <3>1, <3>2
    <2> QED BY <2>2, <2>3
  <1> HIDE DEF g
  <1>6. StreamOf(a, DirTimeRecords(c.files), pos + 1) /\ StreamOf(b, MetadataRecords(c.files), pos + 1)
    <2> DEFINE d == DirTimeRecords(c.files)
               m == MetadataRecords(c.files)
    <2>1. d \in Seq(Seq(Parts)) /\ m \in Seq(Seq(Parts)) /\ Len(d) = N /\ Len(m) = N
      BY RecordSeqs
    <2>2. d[pos + 1] = DirTimeRecord(f.dt) /\ m[pos + 1] = encode_metadata_record(f.meta)
      BY <1>3, RecordSeqs
    <2>3. pos \in 0 .. N - 1
      BY <1>1, <1>3
    <2> HIDE DEF d, m
    <2>4. StreamOf(g.dir_times, d, pos) /\ StreamOf(g.metadata, m, pos)
      BY <1>2, <1>5 DEF d, m
    <2>5. StreamOf(Stored(g.dir_times, d[pos + 1]), d, pos + 1)
      BY <2>1, <2>3, <2>4, StoredStream
    <2>6. StreamOf(Stored(g.metadata, m[pos + 1]), m, pos + 1)
      BY <2>1, <2>3, <2>4, StoredStream
    <2> QED BY <2>2, <2>5, <2>6 DEF d, m
  <1> HIDE DEF a, b
  <1>7. /\ DOMAIN enc' = DOMAIN g /\ enc'.dir_times = a /\ enc'.metadata = b
        /\ enc'.num_blocks = g.num_blocks /\ enc'.filename_blocks = g.filename_blocks
        /\ enc'.current_block = g.current_block /\ enc'.num_files_in_block = g.num_files_in_block
    BY <1>1, <1>5 DEF BlocksOf, EncFields
  <1>8. BlocksOf(c, enc') /\ Partial(c, enc', pos + 1)
    BY <1>5, <1>7, SameBlocks
  <1>9. pos + 1 \in 0 .. N
    BY <1>3
  <1> QED BY <1>1, <1>5, <1>6, <1>7, <1>8, <1>9 DEF StoreInv, StoredAs

LEMMA FinishedLists ==
    ASSUME corpus \in Corpora, StoreInv, FinishLists
    PROVE  StoreInv'
  <1> SUFFICES ASSUME corpus.store PROVE StoreInv'
    BY DEF FinishLists, StoreInv, StoredAs
  <1> DEFINE c == corpus
             N == Len(c.files)
             bs == c.block_size
             e == flush_block(enc)
             inv == [t \in DOMAIN e.invindex |-> finish(e.invindex[t])]
             nb == enc.num_blocks
  <1>1. /\ phase = "names" /\ phase' = "table" /\ pos = N /\ pos' = pos /\ corpus' = c
        /\ enc' = [e EXCEPT !.invindex = inv]
    BY DEF FinishLists
  <1>2. /\ BlocksOf(c, enc) /\ Partial(c, enc, N) /\ enc.num_files_in_block < bs
        /\ StreamOf(enc.dir_times, DirTimeRecords(c.files), N)
        /\ StreamOf(enc.metadata, MetadataRecords(c.files), N)
    BY <1>1 DEF StoreInv, StoredAs
  <1>3. N \in Nat /\ bs \in Nat \ {0} /\ nb \in Nat
    BY <1>2, FilesOfCorpus DEF BlocksOf
  <1>4. Start(c, nb) \in Nat /\ Start(c, nb + 1) = Start(c, nb) + bs
    BY <1>3, Starts
  <1>5. enc.num_files_in_block \in Nat /\ N = Start(c, nb) + enc.num_files_in_block
    BY <1>2 DEF Partial
  <1>6. /\ BlocksOf(c, e) /\ BlocksEnd(c, e) /\ e.dir_times = enc.dir_times /\ e.metadata = enc.metadata
    <2>1. CASE enc.current_block = <<>>
      <3>1. e = enc
        BY <2>1 DEF flush_block
      <3>2. N = Start(c, nb)
        BY <1>2, <1>4, <1>5, <2>1 DEF Partial
      <3>3. nb # 0 => Start(c, nb - 1) < N
        <4> SUFFICES ASSUME nb # 0 PROVE Start(c, nb - 1) < N
          OBVIOUS
        <4>1. nb - 1 \in Nat /\ nb - 1 < nb
          BY <1>3
        <4>2. Start(c, nb - 1) + bs <= Start(c, nb) /\ Start(c, nb - 1) \in Nat
          BY <1>3, <4>1, StartsGrow, Starts
        <4> QED BY <1>3, <1>4, <3>2, <4>2
      <3> HIDE DEF e
      <3>4. N <= Start(c, nb)
        BY <1>3, <3>2
      <3> QED BY <1>2, <3>1, <3>3, <3>4 DEF BlocksEnd
    <2>2. CASE enc.current_block # <<>>
      <3>1. enc.num_files_in_block # 0
        BY <1>2, <2>2 DEF Partial
      <3>2. N < Start(c, nb + 1) /\ Start(c, nb) < N
        BY <1>2, <1>3, <1>4, <1>5, <3>1
      <3>3. N = End(c, nb + 1)
        BY <1>3, <1>4, <3>2 DEF End
      <3>4. /\ BlocksOf(c, e) /\ e.num_blocks = nb + 1 /\ e.dir_times = enc.dir_times /\ e.metadata = enc.metadata
        BY <1>2, <2>2, <3>3, FlushedNames
      <3> HIDE DEF e
      <3>5. (nb + 1) - 1 = nb /\ N <= Start(c, nb + 1)
        BY <1>3, <1>4, <3>2
      <3>6. BlocksEnd(c, e)
        BY <3>2, <3>4, <3>5 DEF BlocksEnd
      <3> QED BY <3>4, <3>6
    <2> QED BY <2>1, <2>2
  <1> HIDE DEF e, inv
  <1>7. /\ DOMAIN enc' = DOMAIN e /\ enc'.dir_times = e.dir_times /\ enc'.metadata = e.metadata
        /\ enc'.num_blocks = e.num_blocks /\ enc'.filename_blocks = e.filename_blocks
        /\ enc'.current_block = e.current_block /\ enc'.num_files_in_block = e.num_files_in_block
    BY <1>1, <1>6 DEF BlocksOf, EncFields
  <1>8. BlocksOf(c, enc') /\ BlocksEnd(c, enc')
    <2>1. BlocksOf(c, enc')
      BY <1>6, <1>7, SameBlocks
    <2>2. BlocksEnd(c, enc')
      BY <1>6, <1>7 DEF BlocksEnd
    <2> QED BY <2>1, <2>2
  <1>9. N \in 0 .. N
    BY <1>3
  <1> QED BY <1>1, <1>2, <1>6, <1>7, <1>8, <1>9 DEF StoreInv, StoredAs

LEMMA WrittenTable ==
    ASSUME corpus \in Corpora, StoreInv, WriteTable
    PROVE  StoreInv'
  <1> SUFFICES ASSUME corpus.store PROVE StoreInv'
    BY DEF WriteTable, StoreInv, StoredAs
  <1> DEFINE c == corpus
             N == Len(c.files)
             a == Compress(enc.dir_times, 0)
             b == Compress(enc.metadata, 0)
  <1>1. /\ phase = "table" /\ phase' = "written" /\ pos' = pos /\ corpus' = c
        /\ enc' = [enc EXCEPT !.dir_times = a, !.metadata = b]
    BY DEF WriteTable
  <1>2. /\ pos = N /\ N \in 0 .. N /\ BlocksOf(c, enc) /\ BlocksEnd(c, enc)
        /\ StreamOf(enc.dir_times, DirTimeRecords(c.files), N)
        /\ StreamOf(enc.metadata, MetadataRecords(c.files), N)
    BY <1>1 DEF StoreInv, StoredAs
  <1>3. /\ StreamOf(a, DirTimeRecords(c.files), N) /\ a.compressed = Whole(DirTimeRecords(c.files), N)
        /\ StreamOf(b, MetadataRecords(c.files), N) /\ b.compressed = Whole(MetadataRecords(c.files), N)
    BY <1>2, ClosedStream
  <1> HIDE DEF a, b
  <1>4. /\ DOMAIN enc' = DOMAIN enc /\ enc'.dir_times = a /\ enc'.metadata = b
        /\ enc'.num_blocks = enc.num_blocks /\ enc'.filename_blocks = enc.filename_blocks
        /\ enc'.current_block = enc.current_block /\ enc'.num_files_in_block = enc.num_files_in_block
    BY <1>1, <1>2 DEF BlocksOf, EncFields
  <1>5. BlocksOf(c, enc') /\ BlocksEnd(c, enc')
    <2>1. BlocksOf(c, enc')
      BY <1>2, <1>4, SameBlocks
    <2>2. BlocksEnd(c, enc')
      BY <1>2, <1>4 DEF BlocksEnd
    <2> QED BY <2>1, <2>2
  <1> QED BY <1>1, <1>2, <1>3, <1>4, <1>5 DEF StoreInv, StoredAs

LEMMA StoreBegins ==
    ASSUME NEW c \in Corpora
    PROVE  StoredAs(c, 0, EmptyCorpus, "names")
  <1> DEFINE e == EmptyCorpus
             N == Len(c.files)
  <1>1. N \in Nat /\ c.block_size \in Nat \ {0}
    BY FilesOfCorpus
  <1>2. /\ DOMAIN e = EncFields /\ e.current_block = <<>> /\ e.num_files_in_block = 0
        /\ e.num_blocks = 0 /\ e.filename_blocks = <<>>
        /\ e.dir_times = EmptyStream /\ e.metadata = EmptyStream
    BY DEF EmptyCorpus, EncFields
  <1> HIDE DEF e
  <1>3. DOMAIN <<>> = 0 .. 0 - 1 /\ 0 .. 0 - 1 = {}
    OBVIOUS
  <1>4. BlocksOf(c, e)
    BY <1>2, <1>3 DEF BlocksOf
  <1>5. Start(c, 0) = 0 /\ <<>> \in Seq(Nat)
    BY Starts
  <1>6. Partial(c, e, 0)
    BY <1>2, <1>5 DEF Partial
  <1>7. ASSUME NEW recs \in Seq(Seq(Parts)) PROVE StreamOf(EmptyStream, recs, 0)
    <2>1. Whole(recs, 0) = <<>>
      BY WholeGrows, Zenon
    <2>2. /\ DOMAIN EmptyStream = {"buffer", "compressed"} /\ EmptyStream.buffer = <<>>
          /\ EmptyStream.compressed = <<>>
      BY DEF EmptyStream
    <2>3. <<>> \in Seq(Parts)
      OBVIOUS
    <2>4. <<>> \o <<>> = <<>>
      BY <2>3, ConcatEmptySeq, Zenon
    <2> QED BY <2>1, <2>2, <2>3, <2>4 DEF StreamOf
  <1>8. StreamOf(EmptyStream, DirTimeRecords(c.files), 0) /\ StreamOf(EmptyStream, MetadataRecords(c.files), 0)
    BY <1>7, RecordSeqs
  <1>9. 0 \in 0 .. N /\ 0 < c.block_size
    BY <1>1
  <1> QED BY <1>2, <1>4, <1>6, <1>8, <1>9 DEF StoredAs, e

LEMMA StoreStep ==
    ASSUME DatabaseInv, StoreInv, [Next]_vars
    PROVE  StoreInv'
  <1>0. corpus \in Corpora
    BY DEF DatabaseInv, BuilderInv
  <1>1. CASE Add
    <2>1. CASE AddShortBlocks
      <3>1. corpus' = corpus /\ pos < Len(corpus.files) /\ corpus.files[pos + 1].skip > 0 /\ pos \in Nat
        BY <2>1 DEF AddShortBlocks, DatabaseInv, BuilderInv
      <3>2. CASE ~corpus.store
        BY <3>1, <3>2 DEF StoreInv, StoredAs
      <3>3. CASE corpus.store
        <4>1. Len(corpus.files) \in Nat
          BY <1>0, FilesOfCorpus
        <4>2. pos + 1 \in 1 .. Len(corpus.files)
          BY <3>1, <4>1
        <4>3. corpus.files[pos + 1].skip = 0
          BY <1>0, <3>3, <4>2, FilesOfCorpus, Zenon
        <4> QED BY <3>1, <4>3
      <3> QED BY <3>2, <3>3
    <2> QED BY <1>0, <1>1, <2>1, AddedFile, FinishedLists DEF Add, AddNames
  <1>2. CASE Fill
    <2>1. CASE TakeTrigram \/ Probe \/ Put \/ Grow
      <3>1. /\ UNCHANGED <<corpus, pos, enc>> /\ phase \in {"table", "full"} /\ phase' \in {"table", "full"}
        BY <2>1 DEF TakeTrigram, Probe, Put, Grow
      <3> QED BY <3>1 DEF StoreInv, StoredAs
    <2> QED BY <1>0, <1>2, <2>1, WrittenTable DEF Fill, FillTable
  <1>3. CASE PublishAndBuild
    <2>1. DatabaseInv'
      BY DatabaseStep
    <2>2. corpus' \in Corpora /\ pos' = 0 /\ enc' = EmptyCorpus /\ phase' = "names"
      BY <1>3, <2>1 DEF PublishAndBuild, BuildNext, DatabaseInv, BuilderInv
    <2> QED BY <2>2, StoreBegins DEF StoreInv
  <1>4. CASE PublishLast
    <2>1. UNCHANGED <<corpus, pos, enc>> /\ phase = "written" /\ phase' = "published"
      BY <1>4 DEF PublishLast
    <2> QED BY <2>1 DEF StoreInv, StoredAs
  <1>5. CASE Open \/ Scan \/ Compare \/ UNCHANGED vars
    <2>1. UNCHANGED <<corpus, pos, enc, phase>>
      BY <1>5 DEF Open, Scan, Compare, vars, builderVars
    <2> QED BY <2>1 DEF StoreInv
  <1> QED BY <1>1, <1>2, <1>3, <1>4, <1>5 DEF Next

-----------------------------------------------------------------------------
(* A database as it is read, damaged or not.                               *)

DbFields == {"blocks", "dir_times", "metadata", "stored", "prune"}
ReadableDb(db, c) ==
    /\ DOMAIN db = DbFields /\ db.prune = c.prune /\ db.stored = c.store
    /\ IsCut(db.dir_times, DirTimeRecords(c.files)) /\ IsCut(db.metadata, MetadataRecords(c.files))
    /\ \E S : db.blocks \in Seq(S)
    /\ \A d \in 1 .. Len(db.blocks) : db.blocks[d] # <<>> =>
           CStrings(db.blocks[d]) = Named(c, Start(c, d - 1), End(c, d))
    /\ Len(c.files) <= Start(c, Len(db.blocks))
    /\ Len(db.blocks) # 0 => Start(c, Len(db.blocks) - 1) < Len(c.files)

LEMMA WholeIsCut ==
    ASSUME NEW recs \in Seq(Seq(Parts))
    PROVE  IsCut(Whole(recs, Len(recs)), recs)
  <1> DEFINE N == Len(recs)
             w == Whole(recs, N)
  <1>1. N \in Nat
    BY Elements
  <1>2. N \in 0 .. N
    BY <1>1
  <1>3. w \in Seq(Parts)
    BY <1>2, WholeGrows, Zenon
  <1> HIDE DEF w
  <1>4. Len(w) <= Len(w)
    BY <1>3
  <1> QED BY <1>3, <1>4 DEF IsCut, Off, w

LEMMA ShorterIsCut ==
    ASSUME NEW recs, NEW st, IsCut(st, recs), NEW n \in 0 .. Len(st) - 1
    PROVE  IsCut(SubSeq(st, 1, n), recs)
  <1> DEFINE z == SubSeq(st, 1, n)
             o == Off(recs, Len(recs))
             P == Parts
  <1>1. st \in Seq(Parts) /\ recs \in Seq(Seq(Parts)) /\ Len(st) <= o
    BY DEF IsCut
  <1>2. \A m \in 1 .. Len(st) : st[m] = Whole(recs, Len(recs))[m]
    BY DEF IsCut
  <1>3. o \in Nat
    <2>1. Len(recs) \in Nat
      BY <1>1, Elements
    <2>2. Len(recs) \in 0 .. Len(recs) /\ Len(recs) \in Len(recs) .. Len(recs)
      BY <2>1
    <2> QED BY <1>1, <2>2, WholePrefix
  <1> HIDE DEF o
  <1>4. Len(st) \in Nat /\ n \in Nat /\ n <= Len(st) /\ n <= o
    BY <1>1, <1>3
  <1>5. st \in Seq(P) /\ \A m \in 1 .. n : st[m] \in P
    BY <1>1, <1>4
  <1> HIDE DEF P
  <1>6. z \in Seq(P) /\ Len(z) = n
    BY <1>4, <1>5
  <1>7. \A m \in 1 .. n : z[m] = st[m] /\ m \in 1 .. Len(st)
    BY <1>4
  <1> HIDE DEF z
  <1> QED BY <1>1, <1>2, <1>4, <1>6, <1>7, Zenon DEF IsCut, z, o, P

LEMMA WrittenReadable ==
    ASSUME corpus \in Corpora, corpus.store, StoreInv, phase = "written"
    PROVE  ReadableDb(Written, corpus)
  <1> DEFINE c == corpus
             N == Len(c.files)
             nb == enc.num_blocks
             w == Written
             blocks == [d \in 1 .. nb |-> enc.filename_blocks[d - 1]]
             S == {enc.filename_blocks[d] : d \in 0 .. nb - 1}
             dr == DirTimeRecords(c.files)
             mr == MetadataRecords(c.files)
  <1>1. /\ BlocksOf(c, enc) /\ BlocksEnd(c, enc)
        /\ enc.dir_times.compressed = Whole(dr, N) /\ enc.metadata.compressed = Whole(mr, N)
    BY DEF StoreInv, StoredAs
  <1>2. dr \in Seq(Seq(Parts)) /\ mr \in Seq(Seq(Parts)) /\ Len(dr) = N /\ Len(mr) = N
    BY RecordSeqs
  <1>3. nb \in Nat
    BY <1>1 DEF BlocksOf
  <1>4. /\ DOMAIN w = DbFields /\ w.prune = c.prune /\ w.stored = c.store /\ w.blocks = blocks
        /\ w.dir_times = Whole(dr, N) /\ w.metadata = Whole(mr, N)
    <2> HIDE DEF blocks, dr, mr
    <2> QED BY <1>1 DEF Written, DbFields, blocks
  <1> HIDE DEF w, dr, mr
  <1>5. IsCut(w.dir_times, dr) /\ IsCut(w.metadata, mr)
    BY <1>2, <1>4, WholeIsCut
  <1>6. \A d \in 1 .. nb : d - 1 \in 0 .. nb - 1 /\ (d - 1) + 1 = d
    BY <1>3
  <1>7. \A d \in 1 .. nb : enc.filename_blocks[d - 1] \in S
    BY <1>6
  <1> HIDE DEF S
  <1>8. blocks \in Seq(S) /\ Len(blocks) = nb /\ \A d \in 1 .. nb : blocks[d] = enc.filename_blocks[d - 1]
    <2> HIDE DEF nb
    <2> QED BY <1>3, <1>7
  <1> HIDE DEF blocks
  <1>9. ASSUME NEW d \in 1 .. nb
        PROVE  CStrings(blocks[d]) = Named(c, Start(c, d - 1), End(c, d))
    <2>1. d - 1 \in 0 .. nb - 1 /\ (d - 1) + 1 = d /\ blocks[d] = enc.filename_blocks[d - 1]
      BY <1>6, <1>8
    <2>2. CStrings(enc.filename_blocks[d - 1]) = Named(c, Start(c, d - 1), End(c, (d - 1) + 1))
      BY <1>1, <2>1, Zenon DEF BlocksOf
    <2> QED BY <2>1, <2>2
  <1>10. N <= Start(c, nb) /\ (nb # 0 => Start(c, nb - 1) < N)
    BY <1>1 DEF BlocksEnd
  <1> HIDE DEF nb
  <1> QED BY <1>4, <1>5, <1>8, <1>9, <1>10 DEF ReadableDb, w, dr, mr

LEMMA DamagedReadable ==
    ASSUME NEW c, NEW db, ReadableDb(db, c), NEW x \in Damaged(db)
    PROVE  ReadableDb(x, c)
  <1>1. CASE \E n \in 0 .. Len(db.dir_times) - 1 : x = [db EXCEPT !.dir_times = SubSeq(db.dir_times, 1, n)]
    <2>1. PICK n \in 0 .. Len(db.dir_times) - 1 : x = [db EXCEPT !.dir_times = SubSeq(db.dir_times, 1, n)]
      BY <1>1
    <2> DEFINE z == SubSeq(db.dir_times, 1, n)
    <2>2. IsCut(z, DirTimeRecords(c.files))
      BY ShorterIsCut DEF ReadableDb
    <2> HIDE DEF z
    <2>3. /\ DOMAIN x = DOMAIN db /\ x.dir_times = z /\ x.metadata = db.metadata /\ x.blocks = db.blocks
          /\ x.stored = db.stored /\ x.prune = db.prune
      BY <2>1 DEF ReadableDb, DbFields, z
    <2> QED BY <2>2, <2>3 DEF ReadableDb
  <1>2. CASE \E n \in 0 .. Len(db.metadata) - 1 : x = [db EXCEPT !.metadata = SubSeq(db.metadata, 1, n)]
    <2>1. PICK n \in 0 .. Len(db.metadata) - 1 : x = [db EXCEPT !.metadata = SubSeq(db.metadata, 1, n)]
      BY <1>2
    <2> DEFINE z == SubSeq(db.metadata, 1, n)
    <2>2. IsCut(z, MetadataRecords(c.files))
      BY ShorterIsCut DEF ReadableDb
    <2> HIDE DEF z
    <2>3. /\ DOMAIN x = DOMAIN db /\ x.metadata = z /\ x.dir_times = db.dir_times /\ x.blocks = db.blocks
          /\ x.stored = db.stored /\ x.prune = db.prune
      BY <2>1 DEF ReadableDb, DbFields, z
    <2> QED BY <2>2, <2>3 DEF ReadableDb
  <1>3. CASE \E d \in DOMAIN db.blocks : x = [db EXCEPT !.blocks[d] = <<>>]
    <2>1. PICK d \in DOMAIN db.blocks : x = [db EXCEPT !.blocks[d] = <<>>]
      BY <1>3
    <2> DEFINE b == db.blocks
               z == [b EXCEPT ![d] = <<>>]
               n == Len(b)
    <2>2. PICK S : b \in Seq(S)
      BY DEF ReadableDb
    <2>3. x = [db EXCEPT !.blocks = z]
      BY <2>1
    <2> HIDE DEF b
    <2>4. n \in Nat /\ b \in [1 .. n -> S] /\ d \in 1 .. n
      BY <2>1, <2>2 DEF b
    <2> HIDE DEF n
    <2> DEFINE R == S \cup {<<>>}
    <2>5. z \in [1 .. n -> R] /\ z[d] = <<>> /\ \A k \in 1 .. n : k # d => z[k] = b[k]
      BY <2>4
    <2> HIDE DEF R, z
    <2>6. z \in Seq(R) /\ Len(z) = n
      BY <2>4, <2>5
    <2>7. /\ DOMAIN x = DOMAIN db /\ x.metadata = db.metadata /\ x.dir_times = db.dir_times /\ x.blocks = z
          /\ x.stored = db.stored /\ x.prune = db.prune
      BY <2>3 DEF ReadableDb, DbFields
    <2>8. ASSUME NEW k \in 1 .. n, z[k] # <<>>
          PROVE  CStrings(z[k]) = Named(c, Start(c, k - 1), End(c, k))
      <3>1. z[k] = b[k] /\ k \in 1 .. Len(db.blocks) /\ db.blocks[k] # <<>>
        BY <2>5, <2>8 DEF b, n
      <3> QED BY <3>1, Zenon DEF ReadableDb, b
    <2>9. /\ Len(c.files) <= Start(c, n) /\ (n # 0 => Start(c, n - 1) < Len(c.files))
          /\ DOMAIN db = DbFields /\ db.prune = c.prune /\ db.stored = c.store
          /\ IsCut(db.dir_times, DirTimeRecords(c.files)) /\ IsCut(db.metadata, MetadataRecords(c.files))
      BY DEF ReadableDb, n, b
    <2> QED BY <2>6, <2>7, <2>8, <2>9 DEF ReadableDb
  <1> QED BY <1>1, <1>2, <1>3 DEF Damaged

-----------------------------------------------------------------------------
(* The reader between two steps.                                           *)

CursorFields == {"docid", "names", "dir_time", "dir_time_pos", "metadata", "metadata_pos",
                 "metadata_available", "record", "last_metadata", "unread", "unread_metadata", "eof", "error"}
KnownMetadata(c, db) == Surviving(MetadataRecords(c.files), db.metadata)
MetaOf(c, db, n) == IF n <= KnownMetadata(c, db) THEN c.files[n].meta ELSE NoMetadata
RecordOf(c, n) == [name |-> c.files[n].name, dt |-> c.files[n].dt]

\* n names and directory times have been taken, and n records of the metadata,
\* as long as there are any.
Names(c, db, cu, n) ==
    /\ DOMAIN cu = CursorFields /\ n \in Nat
    /\ cu.docid \in 0 .. Len(db.blocks) /\ \A d \in 1 .. cu.docid : db.blocks[d] # <<>>
    /\ n <= End(c, cu.docid) /\ cu.names = Named(c, n, End(c, cu.docid))
    /\ Buffered(cu.dir_time, n, cu.dir_time_pos, db.dir_times, DirTimeRecords(c.files))
Meta(c, db, cu, n) ==
    /\ cu.metadata_available => Buffered(cu.metadata, n, cu.metadata_pos, db.metadata, MetadataRecords(c.files))
    /\ ~cu.metadata_available => KnownMetadata(c, db) < n

\* A record has been read, as it was stored.
Holds(c, db, record, meta, n) == record = RecordOf(c, n) /\ meta = MetaOf(c, db, n)

Situation(c, db, cu, ca, n) ==
    \/ ca = "scan" /\ cu.unread = NoRecord /\ Names(c, db, cu, n) /\ Meta(c, db, cu, n)
    \/ /\ ca = "scan" /\ Names(c, db, cu, n + 1) /\ Meta(c, db, cu, n + 1) /\ ~cu.eof /\ ~cu.error
       /\ Holds(c, db, cu.unread, cu.unread_metadata, n + 1)
    \/ /\ ca = "dir time" /\ cu.unread = NoRecord /\ cu.names # <<>> /\ ~cu.eof /\ ~cu.error
       /\ Names(c, db, cu, n) /\ Meta(c, db, cu, n)
    \/ /\ ca = "metadata" /\ cu.unread = NoRecord /\ ~cu.eof /\ ~cu.error
       /\ cu.metadata_available /\ cu.record = RecordOf(c, n + 1) /\ cu.last_metadata = NoMetadata
       /\ Names(c, db, cu, n + 1) /\ Meta(c, db, cu, n)
    \/ /\ ca = "returned" /\ cu.unread = NoRecord /\ ~cu.eof /\ ~cu.error
       /\ Names(c, db, cu, n + 1) /\ Meta(c, db, cu, n + 1)
       /\ Holds(c, db, cu.record, cu.last_metadata, n + 1)
    \/ /\ ca = "returned" /\ cu.unread = NoRecord /\ cu.record = NoRecord
       /\ Names(c, db, cu, n) /\ Meta(c, db, cu, n)

Readable(c, conf, db) ==
    LET bad == {d \in DOMAIN db.blocks : db.blocks[d] = <<>>}
        named == IF bad = {} THEN Len(c.files) ELSE (Min(bad) - 1) * c.block_size
        timed == Surviving(DirTimeRecords(c.files), db.dir_times)
    IN  IF conf = c.prune THEN Min({named, timed}) ELSE 0
Ended(c, conf, db, cu, n) ==
    n = Readable(c, conf, db) /\ (cu.error <=> conf # c.prune \/ n < Len(c.files))
GotRight(c, db, g) ==
    /\ \E S : g \in Seq(S)
    /\ \A k \in 1 .. Len(g) : g[k] = [name |-> c.files[k].name, dt |-> c.files[k].dt, meta |-> MetaOf(c, db, k)]

Reader(c, conf, db, cu, ca, g) ==
    /\ ReadableDb(db, c) /\ GotRight(c, db, g) /\ Situation(c, db, cu, ca, Len(g))
    /\ cu.eof \/ cu.error => Ended(c, conf, db, cu, Len(g))
    /\ conf # c.prune => cu.error

DbsInv ==
    /\ scenario.use = "cursor" =>
           /\ Len(scenario.corpora) = 1 /\ corpus.store
           /\ phase # "published" => dbs = <<>>
           /\ phase = "published" => ReadableDb(dbs[1], corpus)
    /\ call # "closed" => scenario.use = "cursor" /\ phase = "published"
ReaderInv == IF call = "closed" THEN got = <<>>
             ELSE Reader(corpus, scenario.conf, old, cur, call, got)

LEMMA DbsInit == Init => DbsInv
  <1> SUFFICES ASSUME Init PROVE DbsInv
    OBVIOUS
  <1>1. scenario \in Scenarios /\ corpus = scenario.corpora[1] /\ dbs = <<>> /\ call = "closed" /\ phase = "names"
    BY DEF Init, BuilderInit
  <1>2. scenario.use = "cursor" => Len(scenario.corpora) = 1 /\ scenario.corpora[1].store
    BY <1>1, ScenarioAssumption
  <1> QED BY <1>1, <1>2 DEF DbsInv

LEMMA DbsStep ==
    ASSUME DatabaseInv, StoreInv, DbsInv, [Next]_vars
    PROVE  DbsInv'
  <1>1. CASE Add \/ Fill
    <2>1. UNCHANGED <<corpus, scenario, dbs, call>>
      BY <1>1 DEF Add, AddNames, add_file, AddShortBlocks, FinishLists, Fill, FillTable,
                  TakeTrigram, Probe, Put, Grow, WriteTable, cursorVars
    <2>2. phase # "published" /\ phase' # "published"
      BY <1>1 DEF Add, AddNames, add_file, AddShortBlocks, FinishLists, Fill, FillTable,
                  TakeTrigram, Probe, Put, Grow, WriteTable
    <2> QED BY <2>1, <2>2 DEF DbsInv
  <1>2. CASE PublishAndBuild
    <2>1. scenario' = scenario /\ call' = call /\ phase = "written" /\ Len(dbs) + 1 < Len(scenario.corpora)
      BY <1>2 DEF PublishAndBuild, cursorVars
    <2>3. ASSUME scenario.use = "cursor" PROVE FALSE
      <3>1. dbs = <<>> /\ Len(scenario.corpora) = 1
        BY <2>1, <2>3 DEF DbsInv
      <3>2. Len(dbs) = 0
        BY <3>1
      <3> QED BY <2>1, <3>1, <3>2
    <2> QED BY <2>1, <2>3 DEF DbsInv
  <1>3. CASE PublishLast
    <2>1. /\ UNCHANGED <<corpus, scenario, call>> /\ phase = "written" /\ phase' = "published"
      BY <1>3 DEF PublishLast, cursorVars
    <2>2. PICK db \in {Written} \cup {d \in Damaged(Written) : scenario.damage} : dbs' = Append(dbs, db)
      BY <1>3 DEF PublishLast
    <2>3. CASE scenario.use = "cursor"
      <3>1. corpus \in Corpora /\ corpus.store /\ dbs = <<>> /\ Len(scenario.corpora) = 1
        BY <2>1, <2>3 DEF DbsInv, DatabaseInv, BuilderInv
      <3>2. ReadableDb(Written, corpus)
        BY <2>1, <3>1, WrittenReadable
      <3>3. ReadableDb(db, corpus)
        BY <2>2, <3>2, DamagedReadable
      <3>4. dbs'[1] = db
        BY <2>2, <3>1
      <3> QED BY <2>1, <3>1, <3>3, <3>4 DEF DbsInv
    <2>4. CASE scenario.use # "cursor"
      BY <2>1, <2>4 DEF DbsInv
    <2> QED BY <2>3, <2>4
  <1>4. CASE Open
    <2>1. UNCHANGED <<corpus, phase, scenario, dbs>> /\ phase = "published" /\ scenario.use = "cursor"
      BY <1>4 DEF Open, builderVars
    <2> QED BY <2>1 DEF DbsInv
  <1>5. CASE Scan
    <2>1. UNCHANGED <<corpus, phase, scenario, dbs>>
      BY <1>5 DEF Scan, builderVars
    <2>2. call # "closed"
      BY <1>5 DEF Scan, ReadNext, ReadUnread, ReadNothing, ReadBlock, ReadOn, DirTimesEnd, RefillDirTimes,
                  TakeRecord, RefillMetadata, MetadataEnds, TakeMetadata, Keep, unread, AtEnd
    <2> QED BY <2>1, <2>2 DEF DbsInv
  <1>6. CASE Compare \/ UNCHANGED vars
    <2>1. UNCHANGED <<corpus, phase, scenario, dbs, call>>
      BY <1>6 DEF Compare, vars, builderVars, cursorVars
    <2> QED BY <2>1 DEF DbsInv
  <1> QED BY <1>1, <1>2, <1>3, <1>4, <1>5, <1>6 DEF Next

-----------------------------------------------------------------------------
(* Where the reader ends.                                                  *)

LEMMA MinIs ==
    ASSUME NEW S \in SUBSET Int, NEW m \in S, \A x \in S : m <= x
    PROVE  Min(S) = m
  <1> DEFINE G(y) == y \in S /\ \A x \in S : y <= x
             y0 == CHOOSE y : G(y)
  <1>1. Min(S) = y0
    BY DEF Min
  <1>2. G(m)
    OBVIOUS
  <1>3. G(y0)
    BY <1>2
  <1>4. y0 \in Int /\ m \in Int /\ y0 <= m /\ m <= y0
    BY <1>3
  <1> HIDE DEF y0
  <1> QED BY <1>1, <1>4

LEMMA BlockEnds ==
    ASSUME NEW c \in Corpora, NEW d \in Nat
    PROVE  /\ Len(c.files) \in Nat /\ End(c, d) \in Nat /\ Start(c, d) \in Nat
           /\ End(c, d) <= Len(c.files) /\ End(c, d) <= Start(c, d)
           /\ Start(c, d) < Len(c.files) => End(c, d) = Start(c, d)
           /\ Len(c.files) <= Start(c, d) => End(c, d) = Len(c.files)
  <1> DEFINE s == Start(c, d)
             N == Len(c.files)
  <1>1. s \in Nat
    BY Starts
  <1>2. N \in Nat
    BY FilesOfCorpus
  <1>3. End(c, d) = IF s <= N THEN s ELSE N
    BY DEF End
  <1> HIDE DEF s, N
  <1>4. /\ End(c, d) \in Nat /\ End(c, d) <= N /\ End(c, d) <= s
        /\ s < N => End(c, d) = s
        /\ N <= s => End(c, d) = N
    BY <1>1, <1>2, <1>3
  <1> QED BY <1>1, <1>2, <1>4 DEF s, N

Timed(c, db) == Surviving(DirTimeRecords(c.files), db.dir_times)

\* The names that can be read, when the first d blocks can.
LEMMA NamedCount ==
    ASSUME NEW c \in Corpora, NEW db, ReadableDb(db, c), NEW d \in 0 .. Len(db.blocks),
           \A k \in 1 .. d : db.blocks[k] # <<>>
    PROVE  \E w \in Nat :
               /\ Readable(c, c.prune, db) = Min({w, Timed(c, db)}) /\ End(c, d) <= w
               /\ d < Len(db.blocks) => /\ End(c, d) < Len(c.files)
                                        /\ db.blocks[d + 1] = <<>> => w = End(c, d)
               /\ d = Len(db.blocks) => w = Len(c.files) /\ End(c, d) = Len(c.files)
  <1> DEFINE N == Len(c.files)
             L == Len(db.blocks)
             bad == {k \in DOMAIN db.blocks : db.blocks[k] = <<>>}
             w == IF bad = {} THEN N ELSE (Min(bad) - 1) * c.block_size
  <1>1. /\ L \in Nat /\ DOMAIN db.blocks = 1 .. L /\ N <= Start(c, L) /\ (L # 0 => Start(c, L - 1) < N)
    BY DEF ReadableDb
  <1>2. N \in Nat /\ c.block_size \in Nat \ {0}
    BY FilesOfCorpus
  <1>3. Readable(c, c.prune, db) = Min({w, Timed(c, db)})
    BY DEF Readable, Timed
  <1>0. d \in 0 .. L
    OBVIOUS
  <1> HIDE DEF N, L
  <1>4. d \in Nat /\ d <= L
    BY <1>0, <1>1
  <1>5. d = L => End(c, d) = N
    BY <1>1, <1>4, BlockEnds DEF N
  <1>6. d < L => End(c, d) = Start(c, d) /\ Start(c, d) < N
    <2> SUFFICES ASSUME d < L PROVE End(c, d) = Start(c, d) /\ Start(c, d) < N
      OBVIOUS
    <2>0. L - 1 \in Nat /\ L # 0
      BY <1>1, <1>4
    <2>1. L - 1 \in Nat /\ Start(c, L - 1) < N /\ Start(c, L - 1) \in Nat /\ Start(c, d) \in Nat
      BY <1>1, <1>4, <2>0, Starts
    <2>2. d = L - 1 \/ d < L - 1
      BY <1>1, <1>4
    <2>3. Start(c, d) <= Start(c, L - 1)
      <3>1. CASE d = L - 1
        BY <2>1, <3>1
      <3>2. CASE d < L - 1
        BY <1>2, <1>4, <2>1, <3>2, StartsGrow
      <3> QED BY <2>2, <3>1, <3>2
    <2>4. Start(c, d) < N
      BY <1>2, <2>1, <2>3
    <2> QED BY <1>4, <2>4, BlockEnds DEF N
  <1>7. CASE bad = {}
    <2>1. w = N
      BY <1>7
    <2>2. End(c, d) <= N
      BY <1>2, <1>4, BlockEnds DEF N
    <2>3. d < L => d + 1 \in 1 .. L /\ db.blocks[d + 1] # <<>>
      BY <1>1, <1>4, <1>7
    <2> HIDE DEF w, bad
    <2> QED BY <1>2, <1>3, <1>5, <1>6, <2>1, <2>2, <2>3 DEF N, L
  <1>8. CASE bad # {}
    <2>1. bad \in SUBSET Nat
      BY <1>1
    <2>2. PICK l \in bad : \A k \in bad : l <= k
      <3> HIDE DEF bad
      <3> QED BY <1>8, <2>1, LeastElement
    <2>3. Min(bad) = l /\ l \in Nat
      <3> HIDE DEF bad
      <3> QED BY <2>1, <2>2, MinIs
    <2>4. l \in 1 .. L /\ db.blocks[l] = <<>>
      BY <1>1, <2>2
    <2>5. d + 1 <= l
      BY <1>4, <2>4
    <2>6. d < L /\ l - 1 \in Nat /\ d <= l - 1
      BY <1>1, <1>4, <2>4, <2>5
    <2>7. w = Start(c, l - 1) /\ Start(c, l - 1) \in Nat
      <3>1. w = (l - 1) * c.block_size
        BY <1>8, <2>3
      <3> QED BY <2>6, <3>1, Starts DEF Start
    <2>8. End(c, d) <= Start(c, l - 1)
      <3>1. CASE d = l - 1
        BY <1>4, <3>1, BlockEnds
      <3>2. CASE d < l - 1
        <4>1. Start(c, d) + c.block_size <= Start(c, l - 1)
          BY <1>4, <2>6, <3>2, StartsGrow
        <4>2. End(c, d) \in Nat /\ Start(c, d) \in Nat /\ End(c, d) <= Start(c, d)
          BY <1>4, BlockEnds, Zenon
        <4> HIDE DEF w, bad
        <4> QED BY <1>2, <2>7, <4>1, <4>2
      <3> QED BY <1>4, <2>6, <3>1, <3>2
    <2>9. db.blocks[d + 1] = <<>> => l = d + 1
      <3>1. ASSUME db.blocks[d + 1] = <<>> PROVE l = d + 1
        <4>1. d + 1 \in bad
          BY <1>1, <1>4, <2>6, <3>1
        <4>2. l <= d + 1
          BY <2>2, <4>1
        <4> QED BY <1>4, <2>3, <2>5, <4>2
      <3> QED BY <3>1
    <2>10. l = d + 1 => Start(c, l - 1) = Start(c, d)
      BY <1>4
    <2>11. w \in Nat /\ End(c, d) <= w /\ End(c, d) < N /\ d # L /\ (db.blocks[d + 1] = <<>> => w = End(c, d))
      <3> HIDE DEF w, bad
      <3> QED BY <1>4, <1>6, <2>6, <2>7, <2>8, <2>9, <2>10
    <2> HIDE DEF w, bad
    <2> QED BY <1>3, <2>11 DEF N, L
  <1> QED BY <1>7, <1>8

\* What is left of the names of a block.
LEMMA NamesLeft ==
    ASSUME NEW c \in Corpora, NEW db, ReadableDb(db, c), NEW cu, NEW n, Names(c, db, cu, n)
    PROVE  /\ n \in Nat /\ n <= Len(c.files) /\ Len(c.files) \in Nat /\ cu.docid \in Nat
           /\ End(c, cu.docid) \in Nat /\ n <= End(c, cu.docid) /\ End(c, cu.docid) <= Len(c.files)
           /\ cu.names = <<>> <=> n = End(c, cu.docid)
           /\ cu.names # <<>> => /\ n < End(c, cu.docid) /\ Head(cu.names) = c.files[n + 1].name
                                 /\ Tail(cu.names) = Named(c, n + 1, End(c, cu.docid))
  <1> DEFINE e == End(c, cu.docid)
  <1>1. /\ n \in Nat /\ cu.docid \in 0 .. Len(db.blocks) /\ n <= e /\ cu.names = Named(c, n, e)
    BY DEF Names
  <1>2. Len(db.blocks) \in Nat
    BY DEF ReadableDb
  <1>3. cu.docid \in Nat
    BY <1>1, <1>2
  <1>4. Len(c.files) \in Nat /\ e \in Nat /\ e <= Len(c.files)
    BY <1>3, BlockEnds, Zenon
  <1> HIDE DEF e
  <1>5. CASE n = e
    BY <1>1, <1>3, <1>4, <1>5, NamedNone DEF e
  <1>6. CASE n < e
    <2>1. Named(c, n, e) # <<>> /\ Head(Named(c, n, e)) = c.files[n + 1].name
          /\ Tail(Named(c, n, e)) = Named(c, n + 1, e)
      BY <1>1, <1>4, <1>6, NamedLess
    <2> QED BY <1>1, <1>3, <1>4, <1>6, <2>1 DEF e
  <1> QED BY <1>1, <1>4, <1>5, <1>6

LEMMA EndOfNames ==
    ASSUME NEW c \in Corpora, NEW db, ReadableDb(db, c), NEW cu, NEW n, Names(c, db, cu, n), cu.names = <<>>,
           Len(db.blocks) <= cu.docid \/ db.blocks[cu.docid + 1] = <<>>
    PROVE  n = Readable(c, c.prune, db) /\ (n < Len(c.files) <=> cu.docid < Len(db.blocks))
  <1> DEFINE t == Timed(c, db)
             d == cu.docid
             N == Len(c.files)
             L == Len(db.blocks)
             e == End(c, d)
  <1>1. n \in Nat /\ N \in Nat /\ d \in Nat /\ n = e
    BY NamesLeft
  <1>2. d \in 0 .. L /\ (\A k \in 1 .. d : db.blocks[k] # <<>>) /\ L \in Nat
    BY DEF Names, ReadableDb
  <1>3. PICK w \in Nat :
            /\ Readable(c, c.prune, db) = Min({w, t}) /\ e <= w
            /\ d < L => /\ e < N
                        /\ db.blocks[d + 1] = <<>> => w = e
            /\ d = L => w = N /\ e = N
    BY <1>2, NamedCount
  <1>4. n <= t /\ t \in Nat /\ t <= N
    <2>1. Buffered(cu.dir_time, n, cu.dir_time_pos, db.dir_times, DirTimeRecords(c.files))
          /\ IsCut(db.dir_times, DirTimeRecords(c.files))
      BY DEF Names, ReadableDb
    <2>2. n <= t /\ t \in 0 .. Len(DirTimeRecords(c.files))
      BY <2>1, Reached DEF Timed
    <2>3. Len(DirTimeRecords(c.files)) = N
      BY RecordSeqs
    <2> HIDE DEF t, N
    <2> QED BY <1>1, <2>2, <2>3
  <1>5. L <= d \/ db.blocks[d + 1] = <<>>
    OBVIOUS
  <1> HIDE DEF t, d, N, L, e
  <1>6. w = n /\ (n < N <=> d < L)
    BY <1>1, <1>2, <1>3, <1>5
  <1>7. Min({w, t}) = n
    <2>1. {w, t} \in SUBSET Int /\ n \in {w, t} /\ \A x \in {w, t} : n <= x
      BY <1>1, <1>4, <1>6
    <2> QED BY <2>1, MinIs
  <1> QED BY <1>3, <1>6, <1>7 DEF d, N, L

\* Names are left, and no time of a directory for the next one.
LEMMA EndOfTimes ==
    ASSUME NEW c \in Corpora, NEW db, ReadableDb(db, c), NEW cu, NEW n, Names(c, db, cu, n), cu.names # <<>>,
           Timed(c, db) = n
    PROVE  n = Readable(c, c.prune, db) /\ n < Len(c.files)
  <1> DEFINE d == cu.docid
             e == End(c, d)
             N == Len(c.files)
             L == Len(db.blocks)
  <1>1. n \in Nat /\ N \in Nat /\ e \in Nat /\ n < e /\ e <= N
    BY NamesLeft
  <1>2. d \in 0 .. L /\ (\A k \in 1 .. d : db.blocks[k] # <<>>)
    BY DEF Names
  <1>3. PICK w \in Nat : Readable(c, c.prune, db) = Min({w, n}) /\ e <= w
    BY <1>2, NamedCount
  <1> HIDE DEF d, e, N, L
  <1>4. Min({w, n}) = n
    <2>1. {w, n} \in SUBSET Int /\ n \in {w, n} /\ \A x \in {w, n} : n <= x
      BY <1>1, <1>3
    <2> QED BY <2>1, MinIs
  <1>5. n < N
    BY <1>1
  <1> QED BY <1>3, <1>4, <1>5 DEF N

\* The next block holds the names that follow.
LEMMA NextBlock ==
    ASSUME NEW c \in Corpora, NEW db, ReadableDb(db, c), NEW cu, NEW n, Names(c, db, cu, n), cu.names = <<>>,
           cu.docid < Len(db.blocks), db.blocks[cu.docid + 1] # <<>>
    PROVE  LET next == CStrings(db.blocks[cu.docid + 1])
           IN  /\ next = Named(c, n, End(c, cu.docid + 1)) /\ next # <<>> /\ n <= End(c, cu.docid + 1)
               /\ cu.docid + 1 \in 0 .. Len(db.blocks) /\ \A k \in 1 .. cu.docid + 1 : db.blocks[k] # <<>>
  <1> DEFINE d == cu.docid
             N == Len(c.files)
             L == Len(db.blocks)
             e == End(c, d)
             f == End(c, d + 1)
             s == Start(c, d)
             t == Start(c, d + 1)
             b == c.block_size
  <1>1. n \in Nat /\ N \in Nat /\ d \in Nat /\ n = e
    BY NamesLeft
  <1>2. d \in 0 .. L /\ (\A k \in 1 .. d : db.blocks[k] # <<>>) /\ L \in Nat
    BY DEF Names, ReadableDb
  <1>3. e < N
    BY <1>2, NamedCount
  <1>4. s \in Nat /\ b \in Nat \ {0} /\ t = s + b
    BY <1>1, Starts
  <1>5. e = s
    <2>1. N <= s => e = N
      BY <1>1, BlockEnds, Zenon
    <2>2. s < N => e = s
      BY <1>1, BlockEnds, Zenon
    <2> HIDE DEF e, s, N
    <2> QED BY <1>1, <1>3, <1>4, <2>1, <2>2
  <1>6. f \in Nat /\ f <= N /\ (t < N => f = t) /\ (N <= t => f = N)
    <2>1. d + 1 \in Nat
      BY <1>1
    <2> QED BY <2>1, BlockEnds, Zenon
  <1>7. d < L /\ db.blocks[d + 1] # <<>>
    OBVIOUS
  <1>8. d + 1 \in 1 .. L
    <2> HIDE DEF d, L
    <2> QED BY <1>1, <1>2, <1>7
  <1>9. CStrings(db.blocks[d + 1]) = Named(c, s, f)
    <2>1. CStrings(db.blocks[d + 1]) = Named(c, Start(c, (d + 1) - 1), f)
      BY <1>7, <1>8, Zenon DEF ReadableDb
    <2>2. (d + 1) - 1 = d
      BY <1>1
    <2> QED BY <2>1, <2>2
  <1>10. n < f
    <2> HIDE DEF e, f, s, t, b, N
    <2> QED BY <1>1, <1>3, <1>4, <1>5, <1>6
  <1>11. Named(c, n, f) # <<>>
    <2>1. n < f /\ f <= N
      BY <1>6, <1>10
    <2> HIDE DEF f
    <2> QED BY <1>1, <1>6, <2>1, NamedLess DEF N
  <1>12. \A k \in 1 .. d + 1 : db.blocks[k] # <<>>
    <2> SUFFICES ASSUME NEW k \in 1 .. d + 1 PROVE db.blocks[k] # <<>>
      OBVIOUS
    <2>1. k = d + 1 \/ k \in 1 .. d
      <3> HIDE DEF d
      <3> QED BY <1>1
    <2> QED BY <1>2, <1>7, <2>1
  <1>13. n <= f /\ d + 1 \in 0 .. L
    <2> HIDE DEF f, d, L
    <2> QED BY <1>1, <1>6, <1>8, <1>10
  <1> HIDE DEF e, f, s
  <1>14. CStrings(db.blocks[d + 1]) = Named(c, n, f)
    BY <1>1, <1>5, <1>9
  <1> QED BY <1>11, <1>12, <1>13, <1>14, Zenon DEF f

-----------------------------------------------------------------------------
(* The steps of the reader.                                                *)

LEMMA SameNames ==
    ASSUME NEW c, NEW db, NEW cu, NEW n, Names(c, db, cu, n), NEW cv, DOMAIN cv = DOMAIN cu,
           cv.docid = cu.docid, cv.names = cu.names, cv.dir_time = cu.dir_time,
           cv.dir_time_pos = cu.dir_time_pos
    PROVE  Names(c, db, cv, n)
  BY Zenon DEF Names

LEMMA SameMeta ==
    ASSUME NEW c, NEW db, NEW cu, NEW n, Meta(c, db, cu, n), NEW cv, cv.metadata = cu.metadata,
           cv.metadata_pos = cu.metadata_pos, cv.metadata_available = cu.metadata_available
    PROVE  Meta(c, db, cv, n)
  BY Zenon DEF Meta

LEMMA SituationStays ==
    ASSUME NEW c, NEW conf, NEW db, NEW cu, NEW ca, NEW g, Reader(c, conf, db, cu, ca, g),
           NEW cv, NEW cb, Situation(c, db, cv, cb, Len(g)),
           cv.eof \/ cv.error => Ended(c, conf, db, cv, Len(g)), conf # c.prune => cv.error
    PROVE  Reader(c, conf, db, cv, cb, g)
  BY DEF Reader

\* A record that has been read has a name.
LEMMA SomeRecord ==
    ASSUME NEW c \in Corpora, c.store, NEW db, NEW cu, NEW n, n \in Nat, ReadableDb(db, c),
           Names(c, db, cu, n + 1)
    PROVE  RecordOf(c, n + 1) # NoRecord /\ n + 1 \in 1 .. Len(c.files)
  <1>1. n + 1 <= Len(c.files) /\ Len(c.files) \in Nat
    <2> DEFINE m == n + 1
    <2>1. Names(c, db, cu, m)
      OBVIOUS
    <2> HIDE DEF m
    <2>2. m <= Len(c.files) /\ Len(c.files) \in Nat
      BY <2>1, NamesLeft
    <2> QED BY <2>2 DEF m
  <1>2. n + 1 \in 1 .. Len(c.files)
    BY <1>1
  <1>3. c.files[n + 1].name # <<>>
    BY <1>2, FilesOfCorpus
  <1> QED BY <1>2, <1>3 DEF RecordOf, NoRecord

\* What is known in every situation.
LEMMA ReaderFacts ==
    ASSUME NEW c, NEW conf, NEW db, NEW cu, NEW ca, NEW g, Reader(c, conf, db, cu, ca, g)
    PROVE  DOMAIN cu = CursorFields /\ Len(g) \in Nat /\ ReadableDb(db, c)
           /\ ca \in {"scan", "dir time", "metadata", "returned"}
  <1>1. /\ Names(c, db, cu, Len(g)) \/ Names(c, db, cu, Len(g) + 1)
        /\ ca \in {"scan", "dir time", "metadata", "returned"}
    BY DEF Reader, Situation
  <1>2. Len(g) \in Nat /\ ReadableDb(db, c)
    BY DEF Reader, GotRight
  <1> QED BY <1>1, <1>2 DEF Names

LEMMA UnreadStep ==
    ASSUME corpus \in Corpora, corpus.store, Reader(corpus, scenario.conf, old, cur, call, got), ReadUnread
    PROVE  Reader(corpus, scenario.conf, old', cur', call', got')
  <1> DEFINE n == Len(got)
             cv == [cur EXCEPT !.record = cur.unread, !.last_metadata = cur.unread_metadata,
                               !.unread = NoRecord]
  <1>1. call = "scan" /\ cur.unread # NoRecord /\ cur' = cv /\ call' = "returned" /\ old' = old /\ got' = got
    BY DEF ReadUnread, Return
  <1>2. DOMAIN cur = CursorFields
    BY ReaderFacts
  <1>3. /\ DOMAIN cv = CursorFields /\ cv.record = cur.unread /\ cv.last_metadata = cur.unread_metadata
        /\ cv.unread = NoRecord /\ cv.docid = cur.docid /\ cv.names = cur.names
        /\ cv.dir_time = cur.dir_time /\ cv.dir_time_pos = cur.dir_time_pos
        /\ cv.metadata = cur.metadata /\ cv.metadata_pos = cur.metadata_pos
        /\ cv.metadata_available = cur.metadata_available /\ cv.eof = cur.eof /\ cv.error = cur.error
    BY <1>2 DEF CursorFields
  <1> HIDE DEF cv
  <1>4. /\ Names(corpus, old, cur, n + 1) /\ Meta(corpus, old, cur, n + 1) /\ ~cur.eof /\ ~cur.error
        /\ Holds(corpus, old, cur.unread, cur.unread_metadata, n + 1)
    BY <1>1 DEF Reader, Situation
  <1>5. Names(corpus, old, cv, n + 1) /\ Meta(corpus, old, cv, n + 1)
    BY <1>2, <1>3, <1>4, SameNames, SameMeta
  <1>6. Holds(corpus, old, cv.record, cv.last_metadata, n + 1)
    BY <1>3, <1>4
  <1>7. Situation(corpus, old, cv, "returned", n)
    BY <1>3, <1>4, <1>5, <1>6 DEF Situation
  <1>8. scenario.conf # corpus.prune => cur.error
    BY DEF Reader
  <1> QED BY <1>1, <1>3, <1>4, <1>7, <1>8, SituationStays

LEMMA NothingStep ==
    ASSUME corpus \in Corpora, corpus.store, Reader(corpus, scenario.conf, old, cur, call, got), ReadNothing
    PROVE  Reader(corpus, scenario.conf, old', cur', call', got')
  <1> DEFINE n == Len(got)
             ended == cur.eof \/ ~cur.error
             cv == [cur EXCEPT !.record = NoRecord, !.eof = ended]
  <1>1. /\ call = "scan" /\ cur.unread = NoRecord /\ cur' = cv /\ call' = "returned" /\ old' = old /\ got' = got
        /\ cur.eof \/ cur.error \/ (cur.names = <<>> /\ cur.docid >= Len(old.blocks))
    BY DEF ReadNothing, Return
  <1>2. DOMAIN cur = CursorFields /\ n \in Nat /\ ReadableDb(old, corpus)
    BY ReaderFacts
  <1> HIDE DEF ended
  <1>3. /\ DOMAIN cv = CursorFields /\ cv.record = NoRecord /\ cv.last_metadata = cur.last_metadata
        /\ cv.unread = cur.unread /\ cv.docid = cur.docid /\ cv.names = cur.names
        /\ cv.dir_time = cur.dir_time /\ cv.dir_time_pos = cur.dir_time_pos
        /\ cv.metadata = cur.metadata /\ cv.metadata_pos = cur.metadata_pos
        /\ cv.metadata_available = cur.metadata_available /\ cv.error = cur.error
    BY <1>2 DEF CursorFields
  <1> HIDE DEF cv
  <1>4. Names(corpus, old, cur, n) /\ Meta(corpus, old, cur, n)
    <2>1. ~Holds(corpus, old, cur.unread, cur.unread_metadata, n + 1) \/ ~Names(corpus, old, cur, n + 1)
      BY <1>1, <1>2, SomeRecord DEF Holds
    <2> QED BY <1>1, <2>1 DEF Reader, Situation
  <1>5. Names(corpus, old, cv, n) /\ Meta(corpus, old, cv, n)
    BY <1>2, <1>3, <1>4, SameNames, SameMeta
  <1>6. Situation(corpus, old, cv, "returned", n)
    BY <1>1, <1>3, <1>5 DEF Situation
  <1>7. scenario.conf # corpus.prune => cur.error
    BY DEF Reader
  <1>8. Ended(corpus, scenario.conf, old, cv, n)
    <2>1. CASE cur.eof \/ cur.error
      <3>1. Ended(corpus, scenario.conf, old, cur, n)
        BY <2>1 DEF Reader
      <3> QED BY <1>3, <3>1 DEF Ended
    <2>2. CASE ~cur.eof /\ ~cur.error
      <3>1. cur.names = <<>> /\ Len(old.blocks) <= cur.docid /\ ~(cur.docid < Len(old.blocks))
        <4>1. Len(old.blocks) \in Nat /\ cur.docid \in 0 .. Len(old.blocks)
          BY <1>2, <1>4 DEF ReadableDb, Names
        <4> QED BY <1>1, <2>2, <4>1
      <3>2. n = Readable(corpus, corpus.prune, old) /\ ~(n < Len(corpus.files))
        BY <1>2, <1>4, <3>1, EndOfNames
      <3> QED BY <1>3, <1>7, <2>2, <3>2 DEF Ended
    <2> QED BY <2>1, <2>2
  <1> QED BY <1>1, <1>3, <1>6, <1>7, <1>8, SituationStays

LEMMA BlockStep ==
    ASSUME corpus \in Corpora, corpus.store, Reader(corpus, scenario.conf, old, cur, call, got), ReadBlock
    PROVE  Reader(corpus, scenario.conf, old', cur', call', got')
  <1> DEFINE n == Len(got)
             block == old.blocks[cur.docid + 1]
             cv == [cur EXCEPT !.record = NoRecord, !.error = TRUE]
             cw == [cur EXCEPT !.names = CStrings(block), !.docid = @ + 1]
  <1>1. /\ call = "scan" /\ cur.unread = NoRecord /\ ~cur.eof /\ ~cur.error /\ old' = old /\ got' = got
        /\ cur.names = <<>> /\ cur.docid < Len(old.blocks)
        /\ IF block = <<>> THEN cur' = cv /\ call' = "returned" ELSE cur' = cw /\ call' = "dir time"
    BY DEF ReadBlock, Return
  <1>2. DOMAIN cur = CursorFields /\ n \in Nat /\ ReadableDb(old, corpus)
    BY ReaderFacts
  <1>3. Names(corpus, old, cur, n) /\ Meta(corpus, old, cur, n)
    <2>1. ~Holds(corpus, old, cur.unread, cur.unread_metadata, n + 1) \/ ~Names(corpus, old, cur, n + 1)
      BY <1>1, <1>2, SomeRecord DEF Holds
    <2> QED BY <1>1, <2>1 DEF Reader, Situation
  <1>4. scenario.conf = corpus.prune
    BY <1>1 DEF Reader
  <1>5. CASE block = <<>>
    <2>1. /\ DOMAIN cv = CursorFields /\ cv.record = NoRecord /\ cv.error = TRUE
          /\ cv.unread = cur.unread /\ cv.docid = cur.docid /\ cv.names = cur.names
          /\ cv.dir_time = cur.dir_time /\ cv.dir_time_pos = cur.dir_time_pos
          /\ cv.metadata = cur.metadata /\ cv.metadata_pos = cur.metadata_pos
          /\ cv.metadata_available = cur.metadata_available
      BY <1>2 DEF CursorFields
    <2>2. cur' = cv /\ call' = "returned"
      BY <1>1, <1>5
    <2> HIDE DEF cv
    <2>3. Names(corpus, old, cv, n) /\ Meta(corpus, old, cv, n)
      BY <1>2, <1>3, <2>1, SameNames, SameMeta
    <2>4. Situation(corpus, old, cv, "returned", n)
      BY <1>1, <2>1, <2>3 DEF Situation
    <2>5. n = Readable(corpus, corpus.prune, old) /\ n < Len(corpus.files)
      BY <1>1, <1>2, <1>3, <1>5, EndOfNames
    <2>6. Ended(corpus, scenario.conf, old, cv, n)
      BY <1>4, <2>1, <2>5 DEF Ended
    <2> QED BY <1>1, <1>4, <2>2, <2>4, <2>6, SituationStays
  <1>6. CASE block # <<>>
    <2> DEFINE next == CStrings(block)
    <2>1. /\ DOMAIN cw = CursorFields /\ cw.names = next /\ cw.docid = cur.docid + 1
          /\ cw.unread = cur.unread /\ cw.eof = cur.eof /\ cw.error = cur.error
          /\ cw.dir_time = cur.dir_time /\ cw.dir_time_pos = cur.dir_time_pos
          /\ cw.metadata = cur.metadata /\ cw.metadata_pos = cur.metadata_pos
          /\ cw.metadata_available = cur.metadata_available
      <3> HIDE DEF next
      <3>1. cw = [cur EXCEPT !.names = next, !.docid = @ + 1]
        BY DEF next
      <3> HIDE DEF cw
      <3> QED BY <1>2, <3>1 DEF CursorFields
    <2>2. cur' = cw /\ call' = "dir time"
      BY <1>1, <1>6
    <2> HIDE DEF cw
    <2>3. /\ next = Named(corpus, n, End(corpus, cur.docid + 1)) /\ next # <<>>
          /\ n <= End(corpus, cur.docid + 1)
          /\ cur.docid + 1 \in 0 .. Len(old.blocks) /\ \A k \in 1 .. cur.docid + 1 : old.blocks[k] # <<>>
      BY <1>1, <1>2, <1>3, <1>6, NextBlock
    <2> HIDE DEF next
    <2>4. Names(corpus, old, cw, n)
      <3>1. Buffered(cur.dir_time, n, cur.dir_time_pos, old.dir_times, DirTimeRecords(corpus.files))
        BY <1>3 DEF Names
      <3> QED BY <1>2, <2>1, <2>3, <3>1 DEF Names
    <2>5. Meta(corpus, old, cw, n)
      BY <1>3, <2>1, SameMeta
    <2>6. Situation(corpus, old, cw, "dir time", n)
      BY <1>1, <2>1, <2>3, <2>4, <2>5 DEF Situation
    <2> QED BY <1>1, <1>4, <2>1, <2>2, <2>6, SituationStays
  <1> QED BY <1>5, <1>6

LEMMA OnStep ==
    ASSUME corpus \in Corpora, corpus.store, Reader(corpus, scenario.conf, old, cur, call, got), ReadOn
    PROVE  Reader(corpus, scenario.conf, old', cur', call', got')
  <1> DEFINE n == Len(got)
  <1>1. /\ call = "scan" /\ cur.unread = NoRecord /\ ~cur.eof /\ ~cur.error /\ cur.names # <<>>
        /\ call' = "dir time" /\ old' = old /\ cur' = cur /\ got' = got
    BY DEF ReadOn
  <1>2. n \in Nat /\ ReadableDb(old, corpus)
    BY ReaderFacts
  <1>3. Names(corpus, old, cur, n) /\ Meta(corpus, old, cur, n)
    <2>1. ~Holds(corpus, old, cur.unread, cur.unread_metadata, n + 1) \/ ~Names(corpus, old, cur, n + 1)
      BY <1>1, <1>2, SomeRecord DEF Holds
    <2> QED BY <1>1, <2>1 DEF Reader, Situation
  <1>4. Situation(corpus, old, cur, "dir time", n)
    BY <1>1, <1>3 DEF Situation
  <1>5. scenario.conf # corpus.prune => cur.error
    BY DEF Reader
  <1> QED BY <1>1, <1>4, <1>5, SituationStays

\* What the reader sees of the next directory time.
LEMMA NextDirTime ==
    ASSUME NEW c \in Corpora, NEW db, ReadableDb(db, c), NEW cu, NEW n, Names(c, db, cu, n),
           cu.names # <<>>
    PROVE  LET recs == DirTimeRecords(c.files)
               r == recs[n + 1]
               b == cu.dir_time
               isdir == b[1].u = "dir"
           IN  /\ n < Len(recs) /\ n + 1 \in 1 .. Len(c.files) /\ n < Len(c.files)
               /\ IsCut(db.dir_times, recs) /\ Buffered(b, n, cu.dir_time_pos, db.dir_times, recs)
               /\ (b # <<>> /\ (isdir => Len(b) >= 2)) <=> Len(r) <= Len(b)
               /\ Len(r) <= Len(b) => /\ Len(r) = IF isdir THEN 2 ELSE 1
                                      /\ c.files[n + 1].dt = IF isdir THEN b[2].val[1] ELSE not_a_dir
  <1> DEFINE recs == DirTimeRecords(c.files)
             b == cu.dir_time
             N == Len(c.files)
  <1>1. IsCut(db.dir_times, recs) /\ Buffered(b, n, cu.dir_time_pos, db.dir_times, recs)
    BY DEF ReadableDb, Names
  <1>2. n \in Nat /\ N \in Nat /\ n < N
    <2>1. n \in Nat /\ N \in Nat /\ End(c, cu.docid) \in Nat /\ n < End(c, cu.docid) /\ End(c, cu.docid) <= N
      BY NamesLeft
    <2> HIDE DEF N
    <2> QED BY <2>1
  <1>3. n + 1 \in 1 .. N
    <2> HIDE DEF N
    <2> QED BY <1>2
  <1>4. Len(recs) = N /\ recs[n + 1] = DirTimeRecord(c.files[n + 1].dt) /\ c.files[n + 1].dt \in Int
    BY <1>3, RecordSeqs, FilesOfCorpus, Zenon
  <1>5. n < Len(recs)
    BY <1>2, <1>4
  <1>6. b \in Seq(Parts) /\ \A m \in 1 .. Len(b) : m <= Len(recs[n + 1]) => b[m] = recs[n + 1][m]
    <2> DEFINE st == db.dir_times
               p == cu.dir_time_pos
    <2>1. IsCut(st, recs) /\ Buffered(b, n, p, st, recs)
      BY <1>1
    <2> HIDE DEF recs, b, st, p
    <2> QED BY <1>5, <2>1, NextRecord
  <1>7. Agrees(b, DirTimeRecord(c.files[n + 1].dt))
    BY <1>4, <1>6 DEF Agrees
  <1> HIDE DEF recs, b, N
  <1>8. LET r == DirTimeRecord(c.files[n + 1].dt)
            isdir == b[1].u = "dir"
        IN  /\ (b # <<>> /\ (isdir => Len(b) >= 2)) <=> Len(r) <= Len(b)
            /\ Len(r) <= Len(b) => /\ Len(r) = IF isdir THEN 2 ELSE 1
                                   /\ c.files[n + 1].dt = IF isdir THEN b[2].val[1] ELSE not_a_dir
    BY <1>4, <1>6, <1>7, DirTimeRead
  <1> QED BY <1>1, <1>2, <1>3, <1>4, <1>5, <1>8 DEF recs, b, N

LEMMA TimesEndStep ==
    ASSUME corpus \in Corpora, corpus.store, Reader(corpus, scenario.conf, old, cur, call, got), DirTimesEnd
    PROVE  Reader(corpus, scenario.conf, old', cur', call', got')
  <1> DEFINE n == Len(got)
             recs == DirTimeRecords(corpus.files)
             cv == [cur EXCEPT !.record = NoRecord, !.error = TRUE]
  <1>1. /\ call = "dir time" /\ ~DirTimeBuffered /\ cur.dir_time_pos = Len(old.dir_times)
        /\ cur' = cv /\ call' = "returned" /\ old' = old /\ got' = got
    BY DEF DirTimesEnd, Return
  <1>2. DOMAIN cur = CursorFields /\ n \in Nat /\ ReadableDb(old, corpus)
    BY ReaderFacts
  <1>3. /\ cur.unread = NoRecord /\ cur.names # <<>> /\ ~cur.eof /\ ~cur.error
        /\ Names(corpus, old, cur, n) /\ Meta(corpus, old, cur, n)
    BY <1>1 DEF Reader, Situation
  <1>4. scenario.conf = corpus.prune
    BY <1>3 DEF Reader
  <1>5. /\ DOMAIN cv = CursorFields /\ cv.record = NoRecord /\ cv.error = TRUE
        /\ cv.unread = cur.unread /\ cv.docid = cur.docid /\ cv.names = cur.names
        /\ cv.dir_time = cur.dir_time /\ cv.dir_time_pos = cur.dir_time_pos
        /\ cv.metadata = cur.metadata /\ cv.metadata_pos = cur.metadata_pos
        /\ cv.metadata_available = cur.metadata_available
    BY <1>2 DEF CursorFields
  <1> HIDE DEF cv
  <1>6. Names(corpus, old, cv, n) /\ Meta(corpus, old, cv, n)
    BY <1>2, <1>3, <1>5, SameNames, SameMeta
  <1>7. Situation(corpus, old, cv, "returned", n)
    BY <1>3, <1>5, <1>6 DEF Situation
  <1>8. Timed(corpus, old) = n
    <2>1. /\ n < Len(recs) /\ IsCut(old.dir_times, recs)
          /\ Buffered(cur.dir_time, n, cur.dir_time_pos, old.dir_times, recs)
      BY <1>2, <1>3, NextDirTime
    <2>2. ~(Len(recs[n + 1]) <= Len(cur.dir_time))
      BY <1>1, <1>2, <1>3, NextDirTime DEF DirTimeBuffered
    <2>3. Len(recs[n + 1]) \in Nat /\ Len(cur.dir_time) \in Nat
      <3>1. recs[n + 1] \in Seq(Parts) /\ cur.dir_time \in Seq(Parts)
        <4> HIDE DEF recs
        <4> QED BY <2>1, NextRecord, Zenon
      <3> QED BY <3>1
    <2>4. Len(cur.dir_time) < Len(recs[n + 1])
      BY <2>2, <2>3
    <2> HIDE DEF recs
    <2>5. Surviving(recs, old.dir_times) = n
      BY <1>1, <2>1, <2>4, StreamEnds, Zenon
    <2> QED BY <2>5 DEF Timed, recs
  <1>9. n = Readable(corpus, corpus.prune, old) /\ n < Len(corpus.files)
    BY <1>2, <1>3, <1>8, EndOfTimes
  <1>10. Ended(corpus, scenario.conf, old, cv, n)
    BY <1>4, <1>5, <1>9 DEF Ended
  <1> QED BY <1>1, <1>4, <1>7, <1>10, SituationStays

LEMMA RefillTimesStep ==
    ASSUME corpus \in Corpora, corpus.store, Reader(corpus, scenario.conf, old, cur, call, got), RefillDirTimes
    PROVE  Reader(corpus, scenario.conf, old', cur', call', got')
  <1> DEFINE n == Len(got)
             recs == DirTimeRecords(corpus.files)
             st == old.dir_times
             p == cur.dir_time_pos
  <1>1. /\ call = "dir time" /\ old' = old /\ call' = call /\ got' = got
    BY DEF RefillDirTimes
  <1>2. DOMAIN cur = CursorFields /\ n \in Nat /\ ReadableDb(old, corpus)
    BY ReaderFacts
  <1>3. PICK k \in 1 .. Piece :
            /\ p + k <= Len(st)
            /\ cur' = [cur EXCEPT !.dir_time = @ \o SubSeq(st, p + 1, p + k), !.dir_time_pos = @ + k]
    BY DEF RefillDirTimes
  <1>4. k \in Nat
    BY <1>3, PieceAssumption
  <1>5. /\ cur.unread = NoRecord /\ cur.names # <<>> /\ ~cur.eof /\ ~cur.error
        /\ Names(corpus, old, cur, n) /\ Meta(corpus, old, cur, n)
    BY <1>1 DEF Reader, Situation
  <1> DEFINE b == cur.dir_time \o SubSeq(st, p + 1, p + k)
             q == p + k
  <1>6. cur' = [cur EXCEPT !.dir_time = b, !.dir_time_pos = q]
    BY <1>3
  <1>7. Buffered(b, n, q, st, recs)
    <2>1. IsCut(st, recs) /\ Buffered(cur.dir_time, n, p, st, recs)
      BY <1>2, <1>5 DEF ReadableDb, Names
    <2>2. p + k <= Len(st)
      BY <1>3
    <2> HIDE DEF st, recs, p
    <2> QED BY <1>4, <2>1, <2>2, Refilled, Zenon
  <1> HIDE DEF b, q, p, st, recs
  <1>8. /\ DOMAIN cur' = CursorFields /\ cur'.dir_time = b /\ cur'.dir_time_pos = q
        /\ cur'.unread = cur.unread /\ cur'.docid = cur.docid /\ cur'.names = cur.names
        /\ cur'.eof = cur.eof /\ cur'.error = cur.error
        /\ cur'.metadata = cur.metadata /\ cur'.metadata_pos = cur.metadata_pos
        /\ cur'.metadata_available = cur.metadata_available
    BY <1>2, <1>6 DEF CursorFields
  <1> HIDE <1>6
  <1> DEFINE cv == cur'
  <1>9. Names(corpus, old, cv, n)
    <2>1. Buffered(cv.dir_time, n, cv.dir_time_pos, old.dir_times, DirTimeRecords(corpus.files))
      BY <1>7, <1>8 DEF st, recs
    <2> HIDE DEF cv
    <2> QED BY <1>5, <1>8, <2>1 DEF Names, cv
  <1>10. Meta(corpus, old, cv, n)
    BY <1>5, <1>8, SameMeta
  <1>11. Situation(corpus, old, cv, "dir time", n)
    BY <1>5, <1>8, <1>9, <1>10 DEF Situation
  <1>12. scenario.conf # corpus.prune => cur.error
    BY DEF Reader
  <1> QED BY <1>1, <1>5, <1>8, <1>11, <1>12, SituationStays

LEMMA TakeRecordStep ==
    ASSUME corpus \in Corpora, corpus.store, Reader(corpus, scenario.conf, old, cur, call, got), TakeRecord
    PROVE  Reader(corpus, scenario.conf, old', cur', call', got')
  <1> DEFINE n == Len(got)
             recs == DirTimeRecords(corpus.files)
             isdir == cur.dir_time[1].u = "dir"
             parts == IF isdir THEN 2 ELSE 1
             left_over == SubSeq(cur.dir_time, parts + 1, Len(cur.dir_time))
             record == [name |-> Head(cur.names), dt |-> IF isdir THEN cur.dir_time[2].val[1] ELSE not_a_dir]
             rest == Tail(cur.names)
             cv == [cur EXCEPT !.names = rest, !.last_metadata = NoMetadata, !.dir_time = left_over,
                               !.record = record]
  <1>1. /\ call = "dir time" /\ DirTimeBuffered /\ old' = old /\ got' = got /\ cur' = cv
        /\ call' = IF cur.metadata_available THEN "metadata" ELSE "returned"
    BY DEF TakeRecord
  <1>2. DOMAIN cur = CursorFields /\ n \in Nat /\ ReadableDb(old, corpus)
    BY ReaderFacts
  <1>3. /\ cur.unread = NoRecord /\ cur.names # <<>> /\ ~cur.eof /\ ~cur.error
        /\ Names(corpus, old, cur, n) /\ Meta(corpus, old, cur, n)
    BY <1>1 DEF Reader, Situation
  <1>4. /\ n < Len(recs) /\ n + 1 \in 1 .. Len(corpus.files)
        /\ IsCut(old.dir_times, recs) /\ Buffered(cur.dir_time, n, cur.dir_time_pos, old.dir_times, recs)
    BY <1>2, <1>3, NextDirTime
  <1>5. Len(recs[n + 1]) <= Len(cur.dir_time)
    BY <1>1, <1>2, <1>3, NextDirTime DEF DirTimeBuffered
  <1>6. Len(recs[n + 1]) = parts /\ corpus.files[n + 1].dt = record.dt
    BY <1>2, <1>3, <1>5, NextDirTime
  <1>7. /\ record.name = corpus.files[n + 1].name /\ rest = Named(corpus, n + 1, End(corpus, cur.docid))
        /\ n < End(corpus, cur.docid) /\ End(corpus, cur.docid) \in Nat
    BY <1>2, <1>3, NamesLeft
  <1>8. record = RecordOf(corpus, n + 1)
    BY <1>6, <1>7 DEF RecordOf
  <1>9. Buffered(left_over, n + 1, cur.dir_time_pos, old.dir_times, recs)
    <2>1. left_over = SubSeq(cur.dir_time, Len(recs[n + 1]) + 1, Len(cur.dir_time))
      BY <1>6
    <2> DEFINE st == old.dir_times
               p == cur.dir_time_pos
               b == cur.dir_time
    <2>2. IsCut(st, recs) /\ Buffered(b, n, p, st, recs) /\ n < Len(recs) /\ Len(recs[n + 1]) <= Len(b)
      BY <1>4, <1>5
    <2> HIDE DEF recs, st, p, b
    <2>3. Buffered(SubSeq(b, Len(recs[n + 1]) + 1, Len(b)), n + 1, p, st, recs)
      BY <2>2, TakenRecord, Zenon
    <2> QED BY <2>1, <2>3 DEF p, st, b
  <1> HIDE DEF rest, left_over, record
  <1>10. /\ DOMAIN cv = CursorFields /\ cv.names = rest /\ cv.dir_time = left_over /\ cv.record = record
         /\ cv.last_metadata = NoMetadata /\ cv.dir_time_pos = cur.dir_time_pos
         /\ cv.unread = cur.unread /\ cv.docid = cur.docid /\ cv.eof = cur.eof /\ cv.error = cur.error
         /\ cv.metadata = cur.metadata /\ cv.metadata_pos = cur.metadata_pos
         /\ cv.metadata_available = cur.metadata_available
    BY <1>2 DEF CursorFields
  <1> HIDE DEF cv
  <1>11. Names(corpus, old, cv, n + 1)
    <2>1. n + 1 \in Nat /\ n + 1 <= End(corpus, cur.docid)
      BY <1>2, <1>7
    <2>2. cur.docid \in 0 .. Len(old.blocks) /\ \A d \in 1 .. cur.docid : old.blocks[d] # <<>>
      BY <1>3 DEF Names
    <2> HIDE DEF recs
    <2> QED BY <1>7, <1>9, <1>10, <2>1, <2>2, Zenon DEF Names, recs
  <1>12. Meta(corpus, old, cv, n)
    BY <1>3, <1>10, SameMeta
  <1>13. scenario.conf # corpus.prune => cv.error
    BY <1>10 DEF Reader
  <1>14. CASE cur.metadata_available
    <2>1. Situation(corpus, old, cv, "metadata", n)
      BY <1>3, <1>8, <1>10, <1>11, <1>12, <1>14 DEF Situation
    <2> QED BY <1>1, <1>3, <1>10, <1>13, <1>14, <2>1, SituationStays
  <1>15. CASE ~cur.metadata_available
    <2>1. KnownMetadata(corpus, old) < n /\ KnownMetadata(corpus, old) \in Int
      <3>1. KnownMetadata(corpus, old) < n
        BY <1>3, <1>15 DEF Meta
      <3>2. IsCut(old.metadata, MetadataRecords(corpus.files))
        BY <1>2 DEF ReadableDb
      <3>3. KnownMetadata(corpus, old) \in 0 .. Len(MetadataRecords(corpus.files))
        <4> DEFINE ms == MetadataRecords(corpus.files)
        <4>1. 0 \in 0 .. Len(ms)
          BY RecordSeqs, FilesOfCorpus
        <4> HIDE DEF ms
        <4>2. IsCut(old.metadata, ms)
          BY <3>2 DEF ms
        <4>3. Surviving(ms, old.metadata) \in 0 .. Len(ms)
          BY <4>1, <4>2, SurvivingIs, Zenon
        <4> QED BY <4>3 DEF ms, KnownMetadata
      <3> QED BY <3>1, <3>3
    <2>2. KnownMetadata(corpus, old) < n + 1 /\ ~(n + 1 <= KnownMetadata(corpus, old))
      BY <1>2, <2>1
    <2>3. Meta(corpus, old, cv, n + 1)
      BY <1>10, <1>15, <2>2 DEF Meta
    <2>4. Holds(corpus, old, cv.record, cv.last_metadata, n + 1)
      BY <1>8, <1>10, <2>2 DEF Holds, MetaOf
    <2>5. Situation(corpus, old, cv, "returned", n)
      BY <1>3, <1>10, <1>11, <2>3, <2>4 DEF Situation
    <2> QED BY <1>1, <1>3, <1>10, <1>13, <1>15, <2>5, SituationStays
  <1> QED BY <1>14, <1>15

\* What the reader sees of the next metadata.
LEMMA NextMetadata ==
    ASSUME NEW c \in Corpora, NEW db, ReadableDb(db, c), NEW cu, NEW n, n \in Nat, n + 1 \in 1 .. Len(c.files),
           cu.metadata_available, Meta(c, db, cu, n)
    PROVE  LET recs == MetadataRecords(c.files)
               r == recs[n + 1]
               b == cu.metadata
           IN  /\ n < Len(recs) /\ IsCut(db.metadata, recs)
               /\ Buffered(b, n, cu.metadata_pos, db.metadata, recs)
               /\ Len(r) \in Nat /\ Len(b) \in Nat
               /\ Len(b) >= MetadataNeeds(b) <=> Len(r) <= Len(b)
               /\ Len(r) <= Len(b) => MetadataNeeds(b) = Len(r) /\ decode_metadata_record(b) = c.files[n + 1].meta
  <1> DEFINE recs == MetadataRecords(c.files)
             b == cu.metadata
             N == Len(c.files)
             meta == c.files[n + 1].meta
             r == encode_metadata_record(meta)
  <1>1. IsCut(db.metadata, recs) /\ Buffered(b, n, cu.metadata_pos, db.metadata, recs)
    BY DEF ReadableDb, Meta
  <1>2. Len(recs) = N /\ recs[n + 1] = r /\ meta \in Metas /\ N \in Nat
    <2>1. Len(recs) = N /\ recs[n + 1] = r
      BY RecordSeqs
    <2>2. meta \in Metas /\ N \in Nat
      BY FilesOfCorpus
    <2> QED BY <2>1, <2>2
  <1>3. n < Len(recs)
    <2>1. n \in Nat /\ n + 1 \in 1 .. N
      OBVIOUS
    <2> HIDE DEF recs, N
    <2> QED BY <1>2, <2>1
  <1>4. r \in Seq(Parts) /\ b \in Seq(Parts) /\ \A m \in 1 .. Len(b) : m <= Len(r) => b[m] = r[m]
    <2> DEFINE st == db.metadata
               p == cu.metadata_pos
    <2>1. IsCut(st, recs) /\ Buffered(b, n, p, st, recs)
      BY <1>1
    <2> HIDE DEF recs, b, st, p, r
    <2>2. /\ recs[n + 1] \in Seq(Parts) /\ b \in Seq(Parts)
          /\ \A m \in 1 .. Len(b) : m <= Len(recs[n + 1]) => b[m] = recs[n + 1][m]
      BY <1>3, <2>1, NextRecord
    <2> QED BY <1>2, <2>2
  <1>5. Agrees(b, r)
    BY <1>4 DEF Agrees
  <1>6. Len(r) \in Nat /\ Len(b) \in Nat
    <2> HIDE DEF r, b
    <2> QED BY <1>4
  <1>7. /\ MetadataNeeds(b) <= Len(b) <=> Len(r) <= Len(b)
        /\ Len(r) <= Len(b) => MetadataNeeds(b) = Len(r) /\ decode_metadata_record(b) = meta
    <2> HIDE DEF meta, b
    <2> QED BY <1>2, <1>4, <1>5, MetadataRead
  <1>8. recs[n + 1] = r
    BY <1>2
  <1> HIDE DEF recs, b, meta, r
  <1>9. Len(b) >= MetadataNeeds(b) <=> Len(r) <= Len(b)
    BY <1>7
  <1> QED BY <1>1, <1>3, <1>6, <1>7, <1>8, <1>9 DEF recs, b, meta

\* Reading the metadata of a record whose name and time are there.
LEMMA AtMetadata ==
    ASSUME NEW c \in Corpora, c.store, NEW conf, NEW db, NEW cu, NEW g, Reader(c, conf, db, cu, "metadata", g)
    PROVE  LET n == Len(g)
           IN  /\ DOMAIN cu = CursorFields /\ n \in Nat /\ ReadableDb(db, c) /\ n + 1 \in 1 .. Len(c.files)
               /\ cu.unread = NoRecord /\ ~cu.eof /\ ~cu.error /\ cu.metadata_available
               /\ cu.record = RecordOf(c, n + 1) /\ cu.last_metadata = NoMetadata
               /\ Names(c, db, cu, n + 1) /\ Meta(c, db, cu, n) /\ (conf # c.prune => cu.error)
  <1> DEFINE n == Len(g)
  <1>1. DOMAIN cu = CursorFields /\ n \in Nat /\ ReadableDb(db, c)
    BY ReaderFacts
  <1>2. /\ cu.unread = NoRecord /\ ~cu.eof /\ ~cu.error /\ cu.metadata_available
        /\ cu.record = RecordOf(c, n + 1) /\ cu.last_metadata = NoMetadata
        /\ Names(c, db, cu, n + 1) /\ Meta(c, db, cu, n) /\ (conf # c.prune => cu.error)
    BY DEF Reader, Situation
  <1>3. n + 1 \in 1 .. Len(c.files)
    BY <1>1, <1>2, SomeRecord
  <1> QED BY <1>1, <1>2, <1>3

LEMMA RefillMetadataStep ==
    ASSUME corpus \in Corpora, corpus.store, Reader(corpus, scenario.conf, old, cur, call, got), RefillMetadata
    PROVE  Reader(corpus, scenario.conf, old', cur', call', got')
  <1> DEFINE n == Len(got)
             recs == MetadataRecords(corpus.files)
             st == old.metadata
             p == cur.metadata_pos
  <1>1. /\ call = "metadata" /\ old' = old /\ call' = call /\ got' = got
    BY DEF RefillMetadata
  <1>2. /\ DOMAIN cur = CursorFields /\ n \in Nat /\ ReadableDb(old, corpus)
        /\ cur.unread = NoRecord /\ ~cur.eof /\ ~cur.error /\ cur.metadata_available
        /\ cur.record = RecordOf(corpus, n + 1) /\ cur.last_metadata = NoMetadata
        /\ Names(corpus, old, cur, n + 1) /\ Meta(corpus, old, cur, n)
        /\ (scenario.conf # corpus.prune => cur.error)
    BY <1>1, AtMetadata
  <1>3. PICK k \in 1 .. Piece :
            /\ p + k <= Len(st)
            /\ cur' = [cur EXCEPT !.metadata = @ \o SubSeq(st, p + 1, p + k), !.metadata_pos = @ + k]
    BY DEF RefillMetadata
  <1>4. k \in Nat
    BY <1>3, PieceAssumption
  <1> DEFINE b == cur.metadata \o SubSeq(st, p + 1, p + k)
             q == p + k
  <1>5. cur' = [cur EXCEPT !.metadata = b, !.metadata_pos = q]
    BY <1>3
  <1>6. Buffered(b, n, q, st, recs)
    <2>1. IsCut(st, recs) /\ Buffered(cur.metadata, n, p, st, recs)
      BY <1>2 DEF ReadableDb, Meta
    <2>2. p + k <= Len(st)
      BY <1>3
    <2> HIDE DEF st, recs, p
    <2> QED BY <1>4, <2>1, <2>2, Refilled, Zenon
  <1> HIDE DEF b, q, p, st, recs
  <1>7. /\ DOMAIN cur' = CursorFields /\ cur'.metadata = b /\ cur'.metadata_pos = q
        /\ cur'.unread = cur.unread /\ cur'.docid = cur.docid /\ cur'.names = cur.names
        /\ cur'.eof = cur.eof /\ cur'.error = cur.error /\ cur'.record = cur.record
        /\ cur'.dir_time = cur.dir_time /\ cur'.dir_time_pos = cur.dir_time_pos
        /\ cur'.metadata_available = cur.metadata_available /\ cur'.last_metadata = cur.last_metadata
    BY <1>2, <1>5 DEF CursorFields
  <1> HIDE <1>5
  <1>8. Names(corpus, old, cur', n + 1)
    BY <1>2, <1>7, SameNames
  <1>9. Meta(corpus, old, cur', n)
    <2>1. Buffered(cur'.metadata, n, cur'.metadata_pos, old.metadata, MetadataRecords(corpus.files))
      BY <1>6, <1>7 DEF st, recs
    <2> QED BY <1>2, <1>7, <2>1 DEF Meta
  <1>10. Situation(corpus, old, cur', "metadata", n)
    BY <1>2, <1>7, <1>8, <1>9 DEF Situation
  <1> QED BY <1>1, <1>2, <1>7, <1>10, SituationStays

LEMMA MetadataEndStep ==
    ASSUME corpus \in Corpora, corpus.store, Reader(corpus, scenario.conf, old, cur, call, got), MetadataEnds
    PROVE  Reader(corpus, scenario.conf, old', cur', call', got')
  <1> DEFINE n == Len(got)
             recs == MetadataRecords(corpus.files)
             cv == [cur EXCEPT !.metadata_available = FALSE]
  <1>1. /\ call = "metadata" /\ ~MetadataBuffered /\ cur.metadata_pos = Len(old.metadata)
        /\ cur' = cv /\ call' = "returned" /\ old' = old /\ got' = got
    BY DEF MetadataEnds, Return
  <1>2. /\ DOMAIN cur = CursorFields /\ n \in Nat /\ ReadableDb(old, corpus) /\ n + 1 \in 1 .. Len(corpus.files)
        /\ cur.unread = NoRecord /\ ~cur.eof /\ ~cur.error /\ cur.metadata_available
        /\ cur.record = RecordOf(corpus, n + 1) /\ cur.last_metadata = NoMetadata
        /\ Names(corpus, old, cur, n + 1) /\ Meta(corpus, old, cur, n)
        /\ (scenario.conf # corpus.prune => cur.error)
    BY <1>1, AtMetadata
  <1>3. KnownMetadata(corpus, old) = n
    <2>1. /\ n < Len(recs) /\ IsCut(old.metadata, recs)
          /\ Buffered(cur.metadata, n, cur.metadata_pos, old.metadata, recs)
          /\ Len(recs[n + 1]) \in Nat /\ Len(cur.metadata) \in Nat
          /\ ~(Len(recs[n + 1]) <= Len(cur.metadata))
      BY <1>1, <1>2, NextMetadata DEF MetadataBuffered
    <2>2. Len(cur.metadata) < Len(recs[n + 1])
      BY <2>1
    <2> HIDE DEF recs
    <2>3. Surviving(recs, old.metadata) = n
      BY <1>1, <2>1, <2>2, StreamEnds, Zenon
    <2> QED BY <2>3 DEF KnownMetadata, recs
  <1>4. /\ DOMAIN cv = CursorFields /\ ~cv.metadata_available
        /\ cv.unread = cur.unread /\ cv.docid = cur.docid /\ cv.names = cur.names
        /\ cv.eof = cur.eof /\ cv.error = cur.error /\ cv.record = cur.record
        /\ cv.dir_time = cur.dir_time /\ cv.dir_time_pos = cur.dir_time_pos
        /\ cv.last_metadata = cur.last_metadata
    BY <1>2 DEF CursorFields
  <1> HIDE DEF cv
  <1>5. Names(corpus, old, cv, n + 1)
    BY <1>2, <1>4, SameNames
  <1>6. KnownMetadata(corpus, old) < n + 1 /\ ~(n + 1 <= KnownMetadata(corpus, old))
    BY <1>2, <1>3
  <1>7. Meta(corpus, old, cv, n + 1)
    BY <1>4, <1>6 DEF Meta
  <1>8. Holds(corpus, old, cv.record, cv.last_metadata, n + 1)
    BY <1>2, <1>4, <1>6 DEF Holds, MetaOf
  <1>9. Situation(corpus, old, cv, "returned", n)
    BY <1>2, <1>4, <1>5, <1>7, <1>8 DEF Situation
  <1> QED BY <1>1, <1>2, <1>4, <1>9, SituationStays

LEMMA TakeMetadataStep ==
    ASSUME corpus \in Corpora, corpus.store, Reader(corpus, scenario.conf, old, cur, call, got), TakeMetadata
    PROVE  Reader(corpus, scenario.conf, old', cur', call', got')
  <1> DEFINE n == Len(got)
             recs == MetadataRecords(corpus.files)
             b == cur.metadata
             rest == SubSeq(b, MetadataNeeds(b) + 1, Len(b))
             meta == decode_metadata_record(b)
             cv == [cur EXCEPT !.last_metadata = meta, !.metadata = rest]
  <1>1. /\ call = "metadata" /\ MetadataBuffered /\ cur' = cv /\ call' = "returned" /\ old' = old /\ got' = got
    BY DEF TakeMetadata, Return
  <1>2. /\ DOMAIN cur = CursorFields /\ n \in Nat /\ ReadableDb(old, corpus) /\ n + 1 \in 1 .. Len(corpus.files)
        /\ cur.unread = NoRecord /\ ~cur.eof /\ ~cur.error /\ cur.metadata_available
        /\ cur.record = RecordOf(corpus, n + 1)
        /\ Names(corpus, old, cur, n + 1) /\ Meta(corpus, old, cur, n)
        /\ (scenario.conf # corpus.prune => cur.error)
    BY <1>1, AtMetadata
  <1>3. /\ n < Len(recs) /\ IsCut(old.metadata, recs) /\ Buffered(b, n, cur.metadata_pos, old.metadata, recs)
        /\ Len(recs[n + 1]) <= Len(b)
        /\ MetadataNeeds(b) = Len(recs[n + 1]) /\ meta = corpus.files[n + 1].meta
    BY <1>1, <1>2, NextMetadata DEF MetadataBuffered
  <1>4. Buffered(rest, n + 1, cur.metadata_pos, old.metadata, recs)
    <2> DEFINE st == old.metadata
               p == cur.metadata_pos
    <2>1. rest = SubSeq(b, Len(recs[n + 1]) + 1, Len(b))
      BY <1>3
    <2>2. IsCut(st, recs) /\ Buffered(b, n, p, st, recs) /\ n < Len(recs) /\ Len(recs[n + 1]) <= Len(b)
      BY <1>3
    <2> HIDE DEF recs, st, p, b
    <2>3. Buffered(SubSeq(b, Len(recs[n + 1]) + 1, Len(b)), n + 1, p, st, recs)
      BY <2>2, TakenRecord, Zenon
    <2> QED BY <2>1, <2>3 DEF p, st, b
  <1>5. n + 1 <= KnownMetadata(corpus, old)
    <2> DEFINE st == old.metadata
               p == cur.metadata_pos
               m == n + 1
    <2>1. IsCut(st, recs) /\ Buffered(rest, m, p, st, recs)
      BY <1>3, <1>4
    <2> HIDE DEF recs, st, p, rest, m
    <2>2. m <= Surviving(recs, st)
      BY <2>1, Reached, Zenon
    <2> QED BY <2>2 DEF KnownMetadata, recs, st, m
  <1> HIDE DEF rest, meta
  <1>6. /\ DOMAIN cv = CursorFields /\ cv.metadata_available = cur.metadata_available
        /\ cv.unread = cur.unread /\ cv.docid = cur.docid /\ cv.names = cur.names
        /\ cv.eof = cur.eof /\ cv.error = cur.error /\ cv.record = cur.record
        /\ cv.dir_time = cur.dir_time /\ cv.dir_time_pos = cur.dir_time_pos
        /\ cv.last_metadata = meta /\ cv.metadata = rest /\ cv.metadata_pos = cur.metadata_pos
    BY <1>2 DEF CursorFields
  <1> HIDE DEF cv
  <1>7. Names(corpus, old, cv, n + 1)
    BY <1>2, <1>6, SameNames
  <1>8. Meta(corpus, old, cv, n + 1)
    <2>1. Buffered(cv.metadata, n + 1, cv.metadata_pos, old.metadata, MetadataRecords(corpus.files))
      BY <1>4, <1>6
    <2> QED BY <1>2, <1>6, <2>1 DEF Meta
  <1>9. Holds(corpus, old, cv.record, cv.last_metadata, n + 1)
    BY <1>2, <1>3, <1>5, <1>6 DEF Holds, MetaOf
  <1>10. Situation(corpus, old, cv, "returned", n)
    BY <1>2, <1>6, <1>7, <1>8, <1>9 DEF Situation
  <1> QED BY <1>1, <1>2, <1>6, <1>10, SituationStays

\* A record has been returned, and not an empty one.
LEMMA AtRecord ==
    ASSUME NEW c, NEW conf, NEW db, NEW cu, NEW g, Reader(c, conf, db, cu, "returned", g), cu.record # NoRecord
    PROVE  LET n == Len(g)
           IN  /\ DOMAIN cu = CursorFields /\ n \in Nat
               /\ cu.unread = NoRecord /\ ~cu.eof /\ ~cu.error /\ (conf # c.prune => cu.error)
               /\ Names(c, db, cu, n + 1) /\ Meta(c, db, cu, n + 1)
               /\ Holds(c, db, cu.record, cu.last_metadata, n + 1)
  <1>1. DOMAIN cu = CursorFields /\ Len(g) \in Nat
    BY ReaderFacts
  <1> QED BY <1>1 DEF Reader, Situation

LEMMA KeepStep ==
    ASSUME corpus \in Corpora, corpus.store, Reader(corpus, scenario.conf, old, cur, call, got), Keep
    PROVE  Reader(corpus, scenario.conf, old', cur', call', got')
  <1> DEFINE n == Len(got)
             kept == [name |-> cur.record.name, dt |-> cur.record.dt, meta |-> cur.last_metadata]
  <1>1. /\ call = "returned" /\ cur.record # NoRecord /\ got' = Append(got, kept) /\ call' = "scan"
        /\ old' = old /\ cur' = cur
    BY DEF Keep
  <1>2. /\ n \in Nat /\ cur.unread = NoRecord /\ ~cur.eof /\ ~cur.error
        /\ (scenario.conf # corpus.prune => cur.error)
        /\ Names(corpus, old, cur, n + 1) /\ Meta(corpus, old, cur, n + 1)
        /\ Holds(corpus, old, cur.record, cur.last_metadata, n + 1)
    BY <1>1, AtRecord
  <1>3. kept = [name |-> corpus.files[n + 1].name, dt |-> corpus.files[n + 1].dt,
                meta |-> MetaOf(corpus, old, n + 1)]
    BY <1>2 DEF Holds, RecordOf
  <1>4. PICK S : got \in Seq(S)
    BY DEF Reader, GotRight
  <1> HIDE DEF kept
  <1>5. /\ got' \in Seq(S \cup {kept}) /\ Len(got') = n + 1 /\ got'[n + 1] = kept
        /\ \A k \in 1 .. n : got'[k] = got[k]
    <2>1. got \in Seq(S \cup {kept})
      BY <1>4, SeqMonotonic
    <2> HIDE <1>4
    <2> QED BY <1>1, <2>1
  <1>6. GotRight(corpus, old, got')
    <2>1. ASSUME NEW k \in 1 .. n + 1
          PROVE  got'[k] = [name |-> corpus.files[k].name, dt |-> corpus.files[k].dt,
                            meta |-> MetaOf(corpus, old, k)]
      <3>1. k = n + 1 \/ k \in 1 .. n
        BY <1>2
      <3>2. CASE k = n + 1
        BY <1>3, <1>5, <3>2
      <3>3. CASE k \in 1 .. n
        <4>1. got'[k] = got[k]
          BY <1>5, <3>3
        <4> QED BY <3>3, <4>1 DEF Reader, GotRight
      <3> QED BY <3>1, <3>2, <3>3
    <2> QED BY <1>5, <2>1 DEF GotRight
  <1>7. Situation(corpus, old, cur, "scan", Len(got'))
    BY <1>2, <1>5 DEF Situation
  <1>8. ReadableDb(old, corpus)
    BY ReaderFacts
  <1> QED BY <1>1, <1>2, <1>6, <1>7, <1>8 DEF Reader

LEMMA GiveBackStep ==
    ASSUME corpus \in Corpora, corpus.store, Reader(corpus, scenario.conf, old, cur, call, got), unread
    PROVE  Reader(corpus, scenario.conf, old', cur', call', got')
  <1> DEFINE n == Len(got)
             cv == [cur EXCEPT !.unread = cur.record, !.unread_metadata = cur.last_metadata]
  <1>1. /\ call = "returned" /\ cur.record # NoRecord /\ cur' = cv /\ call' = "scan"
        /\ old' = old /\ got' = got
    BY DEF unread
  <1>2. /\ DOMAIN cur = CursorFields /\ n \in Nat /\ ~cur.eof /\ ~cur.error
        /\ (scenario.conf # corpus.prune => cur.error)
        /\ Names(corpus, old, cur, n + 1) /\ Meta(corpus, old, cur, n + 1)
        /\ Holds(corpus, old, cur.record, cur.last_metadata, n + 1)
    BY <1>1, AtRecord
  <1>3. /\ DOMAIN cv = CursorFields /\ cv.unread = cur.record /\ cv.unread_metadata = cur.last_metadata
        /\ cv.docid = cur.docid /\ cv.names = cur.names /\ cv.eof = cur.eof /\ cv.error = cur.error
        /\ cv.dir_time = cur.dir_time /\ cv.dir_time_pos = cur.dir_time_pos
        /\ cv.metadata = cur.metadata /\ cv.metadata_pos = cur.metadata_pos
        /\ cv.metadata_available = cur.metadata_available
    BY <1>2 DEF CursorFields
  <1> HIDE DEF cv
  <1>4. Names(corpus, old, cv, n + 1) /\ Meta(corpus, old, cv, n + 1)
    BY <1>2, <1>3, SameNames, SameMeta
  <1>5. Holds(corpus, old, cv.unread, cv.unread_metadata, n + 1)
    BY <1>2, <1>3
  <1>6. Situation(corpus, old, cv, "scan", n)
    BY <1>2, <1>3, <1>4, <1>5 DEF Situation
  <1> QED BY <1>1, <1>2, <1>3, <1>6, SituationStays

LEMMA AtEndStep ==
    ASSUME corpus \in Corpora, corpus.store, Reader(corpus, scenario.conf, old, cur, call, got), AtEnd
    PROVE  Reader(corpus, scenario.conf, old', cur', call', got')
  <1> DEFINE n == Len(got)
  <1>1. /\ call = "returned" /\ cur.record = NoRecord /\ call' = "scan"
        /\ old' = old /\ cur' = cur /\ got' = got
    BY DEF AtEnd
  <1>2. n \in Nat /\ ReadableDb(old, corpus)
    BY ReaderFacts
  <1>3. cur.unread = NoRecord /\ Names(corpus, old, cur, n) /\ Meta(corpus, old, cur, n)
    <2>1. ~Holds(corpus, old, cur.record, cur.last_metadata, n + 1) \/ ~Names(corpus, old, cur, n + 1)
      BY <1>1, <1>2, SomeRecord DEF Holds
    <2> QED BY <1>1, <2>1 DEF Reader, Situation
  <1>4. Situation(corpus, old, cur, "scan", n)
    BY <1>3 DEF Situation
  <1>5. /\ scenario.conf # corpus.prune => cur.error
        /\ cur.eof \/ cur.error => Ended(corpus, scenario.conf, old, cur, n)
    BY DEF Reader
  <1> QED BY <1>1, <1>4, <1>5, SituationStays

\* The reader is at the first record of all three streams.
LEMMA ReaderBegins ==
    ASSUME NEW c \in Corpora, c.store, NEW db, ReadableDb(db, c), NEW conf
    PROVE  LET cv == [NoCursor EXCEPT !.error = db.prune # conf, !.metadata_available = db.stored]
           IN  Reader(c, conf, db, cv, "scan", <<>>)
  <1> DEFINE wrong == db.prune # conf
             stored == db.stored
             cv == [NoCursor EXCEPT !.error = wrong, !.metadata_available = stored]
  <1>1. db.prune = c.prune /\ stored = c.store
    BY DEF ReadableDb
  <1>2. wrong <=> conf # c.prune
    BY <1>1
  <1> HIDE DEF wrong, stored
  <1>3. /\ DOMAIN cv = CursorFields /\ cv.docid = 0 /\ cv.names = <<>> /\ cv.dir_time = <<>>
        /\ cv.dir_time_pos = 0 /\ cv.metadata = <<>> /\ cv.metadata_pos = 0
        /\ cv.metadata_available = stored /\ cv.unread = NoRecord /\ cv.eof = FALSE /\ cv.error = wrong
    BY DEF NoCursor, CursorFields
  <1> HIDE DEF cv
  <1>4. ASSUME NEW recs, NEW st, IsCut(st, recs) PROVE Buffered(<<>>, 0, 0, st, recs)
    <2>1. recs \in Seq(Seq(Parts)) /\ st \in Seq(Parts)
      BY <1>4 DEF IsCut
    <2>2. Whole(recs, 0) = <<>> /\ Len(recs) \in Nat
      BY <2>1, WholeGrows, Elements, Zenon
    <2>3. Off(recs, 0) = 0
      BY <2>2 DEF Off
    <2>4. Len(st) \in Nat
      BY <2>1
    <2>5. 0 \in 0 .. Len(recs) /\ 0 \in 0 .. Len(st) /\ <<>> \in Seq(Parts) /\ Len(<<>>) = 0
      <3> HIDE <1>4, <2>1
      <3> QED BY <2>2, <2>4
    <2>6. \A m \in 1 .. Len(<<>>) : <<>>[m] = st[Off(recs, 0) + m]
      BY <2>5
    <2>7. Off(recs, 0) + Len(<<>>) = 0
      BY <2>3, <2>5
    <2> QED BY <2>5, <2>6, <2>7, Zenon DEF Buffered
  <1>5. End(c, 0) = 0 /\ Named(c, 0, 0) = <<>>
    <2>1. Start(c, 0) = 0
      BY Starts
    <2>2. End(c, 0) = 0
      BY <2>1, FilesOfCorpus DEF End
    <2> QED BY <2>2, NamedNone
  <1>6. Len(db.blocks) \in Nat
    BY DEF ReadableDb
  <1>7. Names(c, db, cv, 0)
    <2>1. Buffered(<<>>, 0, 0, db.dir_times, DirTimeRecords(c.files))
      BY <1>4 DEF ReadableDb
    <2>2. 0 \in 0 .. Len(db.blocks) /\ 1 .. 0 = {}
      BY <1>6
    <2> QED BY <1>3, <1>5, <2>1, <2>2 DEF Names
  <1>8. Meta(c, db, cv, 0)
    <2>1. Buffered(<<>>, 0, 0, db.metadata, MetadataRecords(c.files))
      BY <1>4 DEF ReadableDb
    <2> QED BY <1>1, <1>3, <2>1 DEF Meta
  <1>9. Situation(c, db, cv, "scan", 0)
    BY <1>3, <1>7, <1>8 DEF Situation
  <1>10. Len(<<>>) = 0 /\ GotRight(c, db, <<>>)
    <2>1. <<>> \in Seq({}) /\ Len(<<>>) = 0
      OBVIOUS
    <2> QED BY <2>1 DEF GotRight
  <1>11. cv.eof \/ cv.error => Ended(c, conf, db, cv, 0)
    <2> SUFFICES ASSUME cv.eof \/ cv.error PROVE Ended(c, conf, db, cv, 0)
      OBVIOUS
    <2>1. conf # c.prune /\ cv.error
      BY <1>2, <1>3
    <2>2. Readable(c, conf, db) = 0
      BY <2>1 DEF Readable
    <2> QED BY <2>1, <2>2 DEF Ended
  <1>12. Reader(c, conf, db, cv, "scan", <<>>)
    BY <1>2, <1>3, <1>9, <1>10, <1>11 DEF Reader
  <1> QED BY <1>12 DEF cv, wrong, stored

LEMMA ReaderStep ==
    ASSUME DatabaseInv, DbsInv, ReaderInv, [Next]_vars
    PROVE  ReaderInv'
  <1>0. corpus \in Corpora
    BY DEF DatabaseInv, BuilderInv
  <1>1. CASE Add \/ Fill \/ PublishAndBuild \/ PublishLast
    <2>1. call' = call /\ got' = got
      BY <1>1 DEF Add, Fill, PublishAndBuild, PublishLast, cursorVars
    <2>2. phase # "published"
      BY <1>1 DEF Add, AddNames, add_file, AddShortBlocks, FinishLists, Fill, FillTable,
                  TakeTrigram, Probe, Put, Grow, WriteTable, PublishAndBuild, PublishLast
    <2> QED BY <2>1, <2>2 DEF DbsInv, ReaderInv
  <1>2. CASE Open
    <2>1. /\ phase = "published" /\ scenario.use = "cursor" /\ OpenOld(dbs[1], scenario.conf)
          /\ corpus' = corpus /\ scenario' = scenario
      BY <1>2 DEF Open, builderVars
    <2>2. corpus.store /\ ReadableDb(dbs[1], corpus)
      BY <2>1 DEF DbsInv
    <2> DEFINE db == dbs[1]
               conf == scenario.conf
               cv == [NoCursor EXCEPT !.error = db.prune # conf, !.metadata_available = db.stored]
    <2>3. Reader(corpus, conf, db, cv, "scan", <<>>)
      BY <1>0, <2>2, ReaderBegins
    <2>4. old' = db /\ cur' = cv /\ call' = "scan" /\ got' = <<>>
      BY <2>1 DEF OpenOld, ReaderInv
    <2> HIDE DEF cv, db
    <2> QED BY <2>1, <2>3, <2>4 DEF ReaderInv
  <1>3. CASE Scan
    <2>1. ReadNext /\ corpus' = corpus /\ scenario' = scenario
      BY <1>3 DEF Scan, builderVars
    <2>2. call # "closed" /\ call' # "closed"
      BY <2>1 DEF ReadNext, ReadUnread, ReadNothing, ReadBlock, ReadOn, DirTimesEnd, RefillDirTimes,
                  TakeRecord, RefillMetadata, MetadataEnds, TakeMetadata, Keep, unread, AtEnd, Return
    <2>3. corpus.store /\ Reader(corpus, scenario.conf, old, cur, call, got)
      BY <2>2 DEF DbsInv, ReaderInv
    <2>4. Reader(corpus, scenario.conf, old', cur', call', got')
      BY <1>0, <2>1, <2>3, UnreadStep, NothingStep, BlockStep, OnStep, TimesEndStep, RefillTimesStep,
         TakeRecordStep, RefillMetadataStep, MetadataEndStep, TakeMetadataStep, KeepStep, GiveBackStep, AtEndStep
         DEF ReadNext
    <2> QED BY <2>1, <2>2, <2>4 DEF ReaderInv
  <1>4. CASE Compare \/ UNCHANGED vars
    <2>1. UNCHANGED <<corpus, scenario, old, cur, call, got>>
      BY <1>4 DEF Compare, vars, builderVars, cursorVars
    <2> QED BY <2>1 DEF ReaderInv
  <1> QED BY <1>1, <1>2, <1>3, <1>4 DEF Next

LEMMA CursorInvariant ==
    /\ Init => DatabaseInv /\ StoreInv /\ DbsInv /\ ReaderInv
    /\ DatabaseInv /\ StoreInv /\ DbsInv /\ ReaderInv /\ [Next]_vars
           => (DatabaseInv /\ StoreInv /\ DbsInv /\ ReaderInv)'
  <1>1. ASSUME Init PROVE DatabaseInv /\ StoreInv /\ DbsInv /\ ReaderInv
    <2>1. DatabaseInv
      BY <1>1, DatabaseInit
    <2>2. corpus \in Corpora /\ pos = 0 /\ enc = EmptyCorpus /\ phase = "names" /\ call = "closed" /\ got = <<>>
      BY <1>1 DEF Init, BuilderInit
    <2>3. StoreInv
      BY <2>2, StoreBegins DEF StoreInv
    <2> QED BY <1>1, <2>1, <2>2, <2>3, DbsInit DEF ReaderInv
  <1>2. ASSUME DatabaseInv, StoreInv, DbsInv, ReaderInv, [Next]_vars
        PROVE  (DatabaseInv /\ StoreInv /\ DbsInv /\ ReaderInv)'
    BY <1>2, DatabaseStep, StoreStep, DbsStep, ReaderStep
  <1> QED BY <1>1, <1>2

\* For every corpus and block size, wherever the streams are cut, whichever block
\* cannot be read and however read_next() is given its pieces and its records back:
\* what scan() keeps is what was stored, record by record, and the end of the
\* metadata takes only the metadata.
THEOREM CursorStaysInStep == Spec => []CursorInStep
  <1>1. ASSUME DatabaseInv, DbsInv, ReaderInv PROVE CursorInStep
    <2> SUFFICES ASSUME call # "closed" PROVE CursorInStep
      BY DEF CursorInStep
    <2> DEFINE n == Len(got)
    <2>1. Reader(corpus, scenario.conf, old, cur, call, got) /\ corpus.store /\ corpus \in Corpora
      BY <1>1 DEF ReaderInv, DbsInv, DatabaseInv, BuilderInv
    <2>2. n \in Nat /\ ReadableDb(old, corpus) /\ DOMAIN got = 1 .. n
      <3>1. n \in Nat /\ ReadableDb(old, corpus)
        BY <2>1, ReaderFacts
      <3>2. PICK S : got \in Seq(S)
        BY <2>1 DEF Reader, GotRight
      <3> QED BY <3>1, <3>2
    <2>3. Names(corpus, old, cur, n) \/ Names(corpus, old, cur, n + 1)
      BY <2>1 DEF Reader, Situation
    <2>4. n <= Len(corpus.files)
      <3>1. CASE Names(corpus, old, cur, n)
        BY <2>1, <2>2, <3>1, NamesLeft
      <3>2. CASE Names(corpus, old, cur, n + 1)
        <4>1. n + 1 \in 1 .. Len(corpus.files)
          BY <2>1, <2>2, <3>2, SomeRecord
        <4> QED BY <2>2, <4>1
      <3> QED BY <2>3, <3>1, <3>2
    <2>5. \A k \in 1 .. n :
              got[k] = [name |-> corpus.files[k].name, dt |-> corpus.files[k].dt,
                        meta |-> IF k <= KnownMetadata(corpus, old) THEN corpus.files[k].meta ELSE NoMetadata]
      BY <2>1 DEF Reader, GotRight, MetaOf
    <2> QED BY <2>2, <2>4, <2>5 DEF CursorInStep, KnownMetadata
  <1> QED BY <1>1, CursorInvariant, PTL DEF Spec

\* For every corpus and every damage to it: the reader of the old database ends
\* where a block or the directory times end and nowhere before, it ends with an
\* error exactly if there was more, and a database of another configuration is
\* not read at all.
THEOREM CursorReadsAll == Spec => []CursorComplete
  <1>1. ASSUME DatabaseInv, DbsInv, ReaderInv PROVE CursorComplete
    <2> SUFFICES ASSUME call # "closed", cur.eof \/ cur.error PROVE CursorComplete
      BY DEF CursorComplete
    <2>1. Ended(corpus, scenario.conf, old, cur, Len(got))
      BY <1>1 DEF ReaderInv, Reader
    <2> QED BY <2>1 DEF CursorComplete, Ended, Readable
  <1> QED BY <1>1, CursorInvariant, PTL DEF Spec
=============================================================================
