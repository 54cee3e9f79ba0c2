------------------------- MODULE IndexSearchProofs -------------------------
(***************************************************************************)
(* Proofs about IndexSearch for every pattern, database, queue depth and   *)
(* order of completions.                                                   *)
(*                                                                         *)
(* Everything rests on one fact: no callback is under way twice.  It is    *)
(* what makes the engine's count right, since it counts requests, and      *)
(* what makes the search's counters right, since each completion takes one *)
(* trigram off them.  So the invariants of the engine (EngOK), of the      *)
(* lookups (LookupOK), of the posting lists (PostOK) and of the scan       *)
(* (ScanOK) all speak about the callbacks that are live.                   *)
(***************************************************************************)
EXTENDS IndexSearch, Induction, SequenceTheorems

Trgm == UNION UNION Queries
Callback ==
    [k : {"dict"}] \cup [k : {"lookup", "postings"}, t : Trgm]
        \cup [k : {"index", "block"}, i : Nat] \cup [k : {"access", "exists"}, i : Nat, j : Nat]
Request == [op : {"read", "stat"}, cb : Callback, left : Nat]

-----------------------------------------------------------------------------
(* The engine.                                                             *)

EngType(e) ==
    e \in [sq : SUBSET Request, kernel : SUBSET Request,
           queued_stats : Seq(Request), queued_reads : Seq(Request),
           pending_reads : Nat, old_pending_reads : Int,
           anything_to_submit : BOOLEAN, sync : Seq(Request)]

InQueue(q) == {q[i] : i \in DOMAIN q}
Injective(q) == \A i, j \in DOMAIN q : q[i] = q[j] => i = j
Ring(e) == e.sq \cup e.kernel
Waiting(e) == InQueue(e.queued_stats) \cup InQueue(e.queued_reads)
Requests(e) == Ring(e) \cup Waiting(e) \cup InQueue(e.sync)
Live(e) == {r.cb : r \in Requests(e)}

\* No callback is under way twice.
Distinct(e) ==
    /\ \A r, s \in Requests(e) : r.cb = s.cb => r = s
    /\ e.sq \cap e.kernel = {} /\ Ring(e) \cap Waiting(e) = {}
    /\ Injective(e.queued_stats) /\ Injective(e.queued_reads)
    /\ InQueue(e.queued_stats) \cap InQueue(e.queued_reads) = {}

Mode == IF using_uring THEN "uring" ELSE "sync"

\* The count is right; with io_uring nothing is synchronous, without it everything.
EngOK(e, mode) ==
    /\ EngType(e) /\ Distinct(e)
    /\ IsFiniteSet(Ring(e)) /\ e.pending_reads = Cardinality(Ring(e))
    /\ e.pending_reads <= QueueDepth
    /\ IF mode = "uring" THEN e.sync = <<>>
       ELSE Ring(e) = {} /\ e.queued_stats = <<>> /\ e.queued_reads = <<>> /\ Len(e.sync) <= 1

\* What finish() relies on between its steps.
AtOK(e, a, mode) ==
    /\ a \in {"out", "loop", "first", "next", "callback"}
    /\ mode = "sync" => a \in {"out", "callback"}
    /\ mode = "uring" /\ a \in {"out", "loop"} /\ Waiting(e) # {} => e.pending_reads = QueueDepth
    /\ a \in {"loop", "first", "next"} /\ e.sq # {} => e.anything_to_submit
    /\ a = "callback" /\ mode = "uring" =>
           /\ e.old_pending_reads <= e.pending_reads
           /\ e.sq # {} => e.anything_to_submit \/ e.pending_reads # e.old_pending_reads
    /\ a = "first" => e.kernel # {}

-----------------------------------------------------------------------------
(* The search.                                                             *)

GroupType == [remaining : Int, max_num_docids : Int, read_trigrams : SUBSET Trgm,
              docids : SUBSET Docs]
LocType(Q) ==
    [lookups : SUBSET Trgm, td : [Q -> GroupType], order : Seq(Q), groups : Seq(Q),
     reads : SUBSET Trgm, trgm : Trgm \cup {""}, submitted : SUBSET Trgm,
     cur_candidates : SUBSET Docs, should_early_exit : BOOLEAN, done : BOOLEAN,
     docids : Seq(Docs), next : Nat, matched : Nat]

Known(g, d) == {t \in g : d.post[t] # {}}
Of(kind, L) == {t \in Trgm : [k |-> kind, t |-> t] \in L}
Matches(d) == {doc \in Docs : d.hits[doc] # <<>>}
Promise(d, Q) == \A doc \in Docs : d.hits[doc] # <<>> =>
                     \A g \in Q : \E t \in g : doc \in d.post[t]

\* How many of g's trigrams are in out, and how many of its lists are not in D.
Left(g, out) == Cardinality(g \cap out)
Missing(g, d, D) == Cardinality(Known(g, d) \ D)

\* During the lookups: the counters count what is outstanding.
LookupOK(s, L, d, Q) ==
    LET out == s.lookups \cup Of("lookup", L)
    IN  /\ s.lookups \cap Of("lookup", L) = {}
        /\ \A g \in Q : /\ s.td[g].remaining = Left(g, out)
                        /\ s.td[g].read_trigrams = Known(g \ out, d)
                        /\ s.td[g].docids = {}
        /\ s.should_early_exit => \E g \in Q : Known(g, d) = {}
        /\ s.reads = {} /\ s.submitted = {} /\ s.cur_candidates = {} /\ ~s.done
        /\ s.docids = <<>> /\ s.next = 1 /\ s.matched = 0

\* The lists of Done have been read: unfinished groups count the others, and once a
\* group is complete every match is a candidate.
Intersected(s, Done, d, Q) ==
    ~s.done =>
        /\ \A g \in Q : /\ s.td[g].remaining = Missing(g, d, Done[g])
                        /\ \A t \in g \cap Done[g] : d.post[t] \subseteq s.td[g].docids
                        /\ Known(g, d) # {} /\ Known(g, d) \subseteq Done[g] =>
                               Matches(d) \subseteq s.cur_candidates
        /\ s.cur_candidates # {} => Matches(d) \subseteq s.cur_candidates

\* The lists that were submitted and have arrived, for every group.
Arrived(s, L, p, Q) ==
    [g \in Q |-> s.submitted \ (Of("postings", L) \cup (IF p = "caught_up" THEN {s.trgm} ELSE {}))]

\* The groups: all of them, and the first is read whatever happens.
GroupsOK(s, d, Q, p) ==
    /\ Injective(s.groups) /\ InQueue(s.groups) = Q /\ Len(s.groups) >= 1
    /\ \A g \in Q : s.td[g].read_trigrams = Known(g, d)
    /\ \A t \in s.submitted \cup s.reads : d.post[t] # {}
    /\ Len(s.order) <= Len(s.groups)
    /\ Len(s.order) = Len(s.groups) => /\ s.order = s.groups /\ p = "groups"
                                       /\ s.submitted = {} /\ s.cur_candidates = {} /\ ~s.done
    /\ ~s.done => /\ p \in {"groups", "intersected"} => s.reads = {}
                  /\ Len(s.order) < Len(s.groups) =>
                         Known(s.groups[1], d) \subseteq s.submitted \cup s.reads
    /\ p = "intersected" => s.order = <<>>
    /\ s.docids = <<>> /\ s.next = 1 /\ s.matched = 0

PostOK(s, L, d, Q, p) ==
    /\ GroupsOK(s, d, Q, p)
    /\ Of("postings", L) \subseteq s.submitted
    /\ p = "caught_up" => s.trgm \in s.submitted /\ s.trgm \notin Of("postings", L)
    /\ s.done => Matches(d) = {}
    /\ Intersected(s, Arrived(s, L, p, Q), d, Q)

-----------------------------------------------------------------------------
(* The scan: a name is still to be read, about to be checked, waiting for  *)
(* another's stat, waiting for its own, or done; never two of these.       *)

HitsOf(s, d, i) == d.hits[s.docids[i]]
Call == [do : {"check", "check_now", "print"}, i : Nat, j : Nat, ok : BOOLEAN]

Unread(s, L) ==
    {i \in Nat : i >= s.next \/ [k |-> "index", i |-> i] \in L \/ [k |-> "block", i |-> i] \in L}
PlacesIn(q) == {<<q[m].i, q[m].j>> : m \in DOMAIN q}
PlacesWaiting(ps) == UNION {PlacesIn(ps[n]) : n \in DOMAIN ps}
Statted(kind, L) ==
    {<<c.i, c.j>> : c \in {b \in L : b.k = kind}}
OncePerPlace(q) ==
    \A m, n \in DOMAIN q : q[m].i = q[n].i /\ q[m].j = q[n].j => m = n

CacheType == [granted : SUBSET Dir, denied : SUBSET Dir,
              pending_stats : UNION {[N -> Seq(Call)] : N \in SUBSET Name}]

\* The places that exist, and those that are names.
Place(s, d, c) ==
    /\ c[1] \in 1 .. Len(s.docids)
    /\ c[2] \in DOMAIN HitsOf(s, d, c[1]) \/ (HitsOf(s, d, c[1]) = <<>> /\ c[2] = 1)
NamePlace(s, d, c) == c[1] \in 1 .. Len(s.docids) /\ c[2] \in DOMAIN HitsOf(s, d, c[1])

ScanOK(s, L, d, calls, a) ==
    LET ps == a.pending_stats
    IN  /\ calls \in Seq(Call) /\ a \in CacheType
        /\ s.next \in 1 .. Len(s.docids) + 1
        /\ \A b \in L : /\ b.k \in {"index", "block"} => b.i \in 1 .. s.next - 1
                        /\ b.k = "block" => [k |-> "index", i |-> b.i] \notin L
        /\ \A c \in PlacesIn(calls) : Place(s, d, c) /\ c[1] \notin Unread(s, L)
        /\ \A m \in DOMAIN calls : calls[m].do # "print" =>
               NamePlace(s, d, <<calls[m].i, calls[m].j>>) /\ calls[m].ok
        /\ \A c \in PlacesWaiting(ps) \cup Statted("access", L) \cup Statted("exists", L) :
               NamePlace(s, d, c) /\ c[1] \notin Unread(s, L)
        /\ \A n \in DOMAIN ps : \A m \in DOMAIN ps[n] : ps[n][m].do = "check" /\ ps[n][m].ok
        /\ OncePerPlace(calls) /\ \A n \in DOMAIN ps : OncePerPlace(ps[n])
        /\ \A n1, n2 \in DOMAIN ps : n1 # n2 => PlacesIn(ps[n1]) \cap PlacesIn(ps[n2]) = {}
        /\ PlacesIn(calls) \cap PlacesWaiting(ps) = {}
        /\ PlacesIn(calls) \cap Statted("access", L) = {}
        /\ PlacesIn(calls) \cap Statted("exists", L) = {}
        /\ PlacesWaiting(ps) \cap Statted("access", L) = {}
        /\ PlacesWaiting(ps) \cap Statted("exists", L) = {}
        /\ Statted("access", L) \cap Statted("exists", L) = {}

\* Every pending statx() has its request, and only one.
StatsOK(s, L, d, a) ==
    LET ps == a.pending_stats
    IN  /\ DOMAIN ps = {HitsOf(s, d, c[1])[c[2]] : c \in Statted("access", L)}
        /\ \A b, c \in Statted("access", L) :
               HitsOf(s, d, b[1])[b[2]] = HitsOf(s, d, c[1])[c[2]] => b = c

-----------------------------------------------------------------------------
(* All together.                                                           *)

Looking == {"lookup", "looked_up"}
Intersecting == {"groups", "group", "caught_up", "intersected"}
Scanning == {"scan", "scanned"}

\* What can be under way, and when.
Belongs(b, p) ==
    /\ b.k \in {"dict", "lookup"} => p \in Looking
    /\ b.k = "postings" => p \in Intersecting
    /\ b.k \in {"index", "block"} => p \in Scanning
    /\ b.k \in {"access", "exists"} => p = "scanned"
Finishing == {"looked_up", "caught_up", "intersected", "scanned"}

Fixed ==
    /\ set \in Settings /\ using_uring = set.using_uring /\ supports_stat = set.supports_stat
    /\ readable = set.readable
    /\ loc \in LocType(set.query)
    /\ db \in Databases \cup {NoDatabase}

PcOK ==
    /\ pc \in {"main", "nothing", "end"} \cup Looking \cup Intersecting \cup Scanning
    /\ pc # "end" =>
           /\ how = "running" /\ \A b \in Live(eng) : Belongs(b, pc)
           /\ at # "callback" => todo = <<>>
           /\ pc \in {"main", "nothing"} => at = "out"
           /\ using_uring /\ at # "out" => pc \in Finishing
           /\ at = "out" /\ eng.sync = <<>> /\ pc \in Finishing => Live(eng) = {}
           /\ pc \notin Scanning =>
                  todo = <<>> /\ DOMAIN acc.pending_stats = {}
           /\ pc \notin {"main", "nothing"} => db \in Databases /\ Promise(db, set.query)

SearchOK ==
    /\ pc \in Looking => LookupOK(loc, Live(eng), db, set.query)
    /\ pc = "looked_up" => loc.lookups = {}
    /\ pc \in Intersecting => PostOK(loc, Live(eng), db, set.query, pc)
    /\ how = "no_match" => Matches(db) = {}

ScanInv ==
    /\ acc \in CacheType /\ acc.granted \subseteq readable /\ acc.denied \cap readable = {}
    /\ pc \in Scanning =>
           ScanOK(loc, Live(eng), db, todo, acc) /\ StatsOK(loc, Live(eng), db, acc)
    /\ pc = "scanned" => loc.next > Len(loc.docids)
    /\ ~supports_stat /\ pc # "end" =>
           DOMAIN acc.pending_stats = {} /\ \A b \in Live(eng) : b.k \notin {"access", "exists"}

SInv ==
    /\ EngOK(eng, Mode) /\ AtOK(eng, at, Mode)
    /\ Fixed /\ PcOK /\ SearchOK /\ ScanInv
-----------------------------------------------------------------------------
(* Facts about sequences.                                                  *)

LEMMA AppendFacts ==
    ASSUME NEW S, NEW q \in Seq(S), NEW x \in S
    PROVE  /\ Append(q, x) \in Seq(S)
           /\ InQueue(Append(q, x)) = InQueue(q) \cup {x}
           /\ Injective(q) /\ x \notin InQueue(q) => Injective(Append(q, x))
<1>1. /\ Append(q, x) \in Seq(S) /\ Len(Append(q, x)) = Len(q) + 1
      /\ Append(q, x)[Len(q) + 1] = x /\ \A i \in 1 .. Len(q) : Append(q, x)[i] = q[i]
      /\ DOMAIN q = 1 .. Len(q) /\ DOMAIN Append(q, x) = 1 .. Len(q) + 1 /\ Len(q) \in Nat
  OBVIOUS
<1>2. InQueue(Append(q, x)) = InQueue(q) \cup {x}
  BY <1>1 DEF InQueue
<1>3. ASSUME Injective(q), x \notin InQueue(q) PROVE Injective(Append(q, x))
  BY <1>1, <1>3 DEF Injective, InQueue
<1> QED BY <1>1, <1>2, <1>3

LEMMA TailFacts ==
    ASSUME NEW S, NEW q \in Seq(S), q # <<>>
    PROVE  /\ Tail(q) \in Seq(S) /\ Head(q) \in S
           /\ InQueue(q) = InQueue(Tail(q)) \cup {Head(q)}
           /\ Injective(q) => Injective(Tail(q)) /\ Head(q) \notin InQueue(Tail(q))
<1>1. /\ Tail(q) \in Seq(S) /\ Head(q) = q[1] /\ Len(Tail(q)) = Len(q) - 1 /\ Len(q) >= 1
      /\ \A i \in 1 .. Len(q) - 1 : Tail(q)[i] = q[i + 1]
      /\ DOMAIN q = 1 .. Len(q) /\ DOMAIN Tail(q) = 1 .. Len(q) - 1 /\ Len(q) \in Nat
  OBVIOUS
<1>2. ASSUME NEW i \in 1 .. Len(q), i # 1 PROVE q[i] = Tail(q)[i - 1] /\ i - 1 \in 1 .. Len(q) - 1
  BY <1>1, <1>2
<1>3. InQueue(q) = InQueue(Tail(q)) \cup {Head(q)}
  <2>1. ASSUME NEW i \in 1 .. Len(q) PROVE q[i] \in InQueue(Tail(q)) \cup {Head(q)}
    BY <1>1, <1>2 DEF InQueue
  <2>2. ASSUME NEW i \in 1 .. Len(q) - 1 PROVE Tail(q)[i] \in InQueue(q)
    BY <1>1 DEF InQueue
  <2>3. Head(q) \in InQueue(q)
    BY <1>1 DEF InQueue
  <2> QED BY <1>1, <2>1, <2>2, <2>3, ZenonT(40) DEF InQueue
<1>4. ASSUME Injective(q) PROVE Injective(Tail(q)) /\ Head(q) \notin InQueue(Tail(q))
  BY <1>1, <1>4 DEF Injective, InQueue
<1> QED BY <1>1, <1>3, <1>4

\* A sequence cut in two.
Begin(q, n) == {q[i] : i \in 1 .. n}
Remainder(q, n) == SubSeq(q, n + 1, Len(q))
LEMMA CutFacts ==
    ASSUME NEW S, NEW q \in Seq(S), NEW n \in 0 .. Len(q), Injective(q)
    PROVE  LET front == Begin(q, n)
               rest == Remainder(q, n)
           IN  /\ rest \in Seq(S) /\ Injective(rest) /\ Len(rest) = Len(q) - n
               /\ InQueue(q) = front \cup InQueue(rest) /\ front \cap InQueue(rest) = {}
               /\ IsFiniteSet(front) /\ Cardinality(front) = n
<1> DEFINE front == {q[i] : i \in 1 .. n}
           rest == SubSeq(q, n + 1, Len(q))
<1>1. /\ rest \in Seq(S) /\ Len(rest) = Len(q) - n
      /\ \A i \in 1 .. Len(q) - n : rest[i] = q[n + i]
      /\ DOMAIN q = 1 .. Len(q) /\ DOMAIN rest = 1 .. Len(q) - n /\ Len(q) \in Nat
  OBVIOUS
<1> HIDE DEF rest
<1>2. ASSUME NEW i \in 1 .. Len(q), i > n PROVE q[i] = rest[i - n] /\ i - n \in 1 .. Len(q) - n
  BY <1>1, <1>2
<1>3. Injective(rest)
  BY <1>1 DEF Injective
<1>4. InQueue(q) = front \cup InQueue(rest)
  <2>1. ASSUME NEW i \in 1 .. Len(q) PROVE q[i] \in front \cup InQueue(rest)
    <3>1. CASE i > n
      BY <1>1, <1>2, <3>1 DEF InQueue
    <3>2. CASE i <= n
      BY <3>2
    <3> QED BY <3>1, <3>2
  <2>2. ASSUME NEW i \in 1 .. Len(q) - n PROVE rest[i] \in InQueue(q)
    BY <1>1 DEF InQueue
  <2>3. front \subseteq InQueue(q)
    BY <1>1 DEF InQueue
  <2> QED BY <1>1, <2>1, <2>2, <2>3 DEF InQueue
<1>5. front \cap InQueue(rest) = {}
  <2>1. ASSUME NEW i \in 1 .. n, NEW j \in 1 .. Len(q) - n, q[i] = rest[j] PROVE FALSE
    <3>1. i \in 1 .. Len(q) /\ n + j \in 1 .. Len(q) /\ i # n + j
      BY <1>1
    <3> QED BY <1>1, <2>1, <3>1 DEF Injective
  <2> QED BY <1>1, <2>1 DEF InQueue
<1>6. IsFiniteSet(front) /\ Cardinality(front) = n
  <2>0. 1 .. n \subseteq DOMAIN q
    BY <1>1
  <2>1. Different(q, n)
    BY <2>0, Zenon DEF Injective, Different
  <2>2. n \in Nat
    BY <1>1
  <2>3. IsFiniteSet(Listed(q, n)) /\ Cardinality(Listed(q, n)) = n
    BY <2>1, <2>2, CountRange
  <2> QED BY <2>3, Zenon DEF Listed
<1> QED BY <1>1, <1>3, <1>4, <1>5, <1>6, Zenon DEF rest, Begin, Remainder

LEMMA CountDisjoint ==
    ASSUME NEW A, NEW B, IsFiniteSet(A), IsFiniteSet(B), A \cap B = {}
    PROVE  IsFiniteSet(A \cup B) /\ Cardinality(A \cup B) = Cardinality(A) + Cardinality(B)
<1>0. Cardinality(A \cap B) = 0
  BY FS_EmptySet, Zenon
<1>1. /\ IsFiniteSet(A \cup B)
      /\ Cardinality(A \cup B) = Cardinality(A) + Cardinality(B) - Cardinality(A \cap B)
  BY FS_Union
<1>2. Cardinality(A) \in Nat /\ Cardinality(B) \in Nat
  BY FS_CardinalityType
<1> QED BY <1>0, <1>1, <1>2

-----------------------------------------------------------------------------
(* The engine's operations.                                                *)

LEMMA EmptyEngineOK ==
    /\ EngOK(EmptyEngine, Mode) /\ Live(EmptyEngine) = {}
    /\ AtOK(EmptyEngine, "out", Mode)
<1> USE EngineAssumption
<1>1. /\ InQueue(<<>>) = {} /\ Injective(<<>>)
  BY DEF InQueue, Injective
<1>2. /\ Ring(EmptyEngine) = {} /\ Waiting(EmptyEngine) = {} /\ Requests(EmptyEngine) = {}
      /\ Live(EmptyEngine) = {}
  BY <1>1 DEF Ring, Waiting, Requests, Live, EmptyEngine
<1>3. EngType(EmptyEngine)
  BY DEF EngType, EmptyEngine
<1>4. Distinct(EmptyEngine)
  BY <1>1, <1>2 DEF Distinct, EmptyEngine
<1>5. IsFiniteSet(Ring(EmptyEngine)) /\ Cardinality(Ring(EmptyEngine)) = 0
  BY <1>2, FS_EmptySet
<1> QED BY <1>2, <1>3, <1>4, <1>5 DEF EngOK, AtOK, EmptyEngine

\* submit_read_internal() and submit_stat_internal()
LEMMA PrepareOK ==
    ASSUME NEW e, EngOK(e, "uring"), NEW r \in Request, r.cb \notin Live(e),
           e.pending_reads < QueueDepth
    PROVE  /\ EngOK(Prepare(e, r), "uring") /\ Live(Prepare(e, r)) = Live(e) \cup {r.cb}
           /\ Waiting(Prepare(e, r)) = Waiting(e)
           /\ Prepare(e, r).pending_reads = e.pending_reads + 1
           /\ Prepare(e, r).kernel = e.kernel /\ Prepare(e, r).sync = <<>>
           /\ Prepare(e, r).old_pending_reads = e.old_pending_reads
<1> DEFINE f == Prepare(e, r)
<1>1. EngType(e) /\ Distinct(e) /\ e.sync = <<>>
  BY DEF EngOK
<1>2. /\ f.sq = e.sq \cup {r} /\ f.kernel = e.kernel /\ f.queued_stats = e.queued_stats
      /\ f.queued_reads = e.queued_reads /\ f.pending_reads = e.pending_reads + 1
      /\ f.sync = <<>> /\ f.old_pending_reads = e.old_pending_reads
  BY <1>1 DEF EngType, Prepare
<1>3. EngType(f)
  <2>1. e.sq \cup {r} \in SUBSET Request /\ e.pending_reads + 1 \in Nat
    BY <1>1 DEF EngType
  <2> QED BY <1>1, <2>1 DEF EngType, Prepare
<1> HIDE DEF f
<1>4. Ring(f) = Ring(e) \cup {r} /\ Waiting(f) = Waiting(e) /\ Requests(f) = Requests(e) \cup {r}
  BY <1>1, <1>2 DEF Ring, Waiting, Requests
<1>5. r \notin Requests(e) /\ \A s \in Requests(e) : s.cb # r.cb
  BY DEF Live
<1>6. r \notin Ring(e) /\ r \notin Waiting(e) /\ r \notin e.kernel
  BY <1>5 DEF Requests, Ring
<1>7. Distinct(f)
  BY <1>1, <1>2, <1>4, <1>5, <1>6 DEF Distinct
<1>8. IsFiniteSet(Ring(f)) /\ Cardinality(Ring(f)) = f.pending_reads
  BY <1>2, <1>4, <1>6, FS_AddElement DEF EngOK
<1>9. Live(f) = Live(e) \cup {r.cb}
  BY <1>4 DEF Live
<1>10. f.pending_reads <= QueueDepth
  BY <1>1, <1>2, EngineAssumption DEF EngType
<1> QED BY <1>2, <1>3, <1>4, <1>7, <1>8, <1>9, <1>10 DEF EngOK, f

LEMMA EnqueueStatOK ==
    ASSUME NEW e, EngOK(e, "uring"), NEW r \in Request, r.cb \notin Live(e)
    PROVE  LET f == [e EXCEPT !.queued_stats = Append(@, r)]
           IN  /\ EngOK(f, "uring") /\ Live(f) = Live(e) \cup {r.cb}
               /\ f.pending_reads = e.pending_reads /\ f.sq = e.sq /\ f.kernel = e.kernel
               /\ f.anything_to_submit = e.anything_to_submit
               /\ f.old_pending_reads = e.old_pending_reads /\ f.sync = <<>>
<1> DEFINE f == [e EXCEPT !.queued_stats = Append(@, r)]
<1>1. EngType(e) /\ Distinct(e) /\ e.sync = <<>>
  BY DEF EngOK
<1>2. /\ f.sq = e.sq /\ f.kernel = e.kernel /\ f.queued_stats = Append(e.queued_stats, r)
      /\ f.queued_reads = e.queued_reads /\ f.pending_reads = e.pending_reads
      /\ f.anything_to_submit = e.anything_to_submit
      /\ f.sync = <<>> /\ f.old_pending_reads = e.old_pending_reads
  BY <1>1 DEF EngType
<1>a. e.queued_stats \in Seq(Request)
  BY <1>1 DEF EngType
<1>b. /\ Append(e.queued_stats, r) \in Seq(Request)
      /\ InQueue(f.queued_stats) = InQueue(e.queued_stats) \cup {r}
      /\ Injective(e.queued_stats) /\ r \notin InQueue(e.queued_stats)
             => Injective(f.queued_stats)
  BY <1>2, <1>a, AppendFacts
<1>3. EngType(f)
  BY <1>1, <1>b DEF EngType
<1> HIDE DEF f
<1>4. Ring(f) = Ring(e) /\ Waiting(f) = Waiting(e) \cup {r} /\ Requests(f) = Requests(e) \cup {r}
  BY <1>1, <1>2, <1>b DEF Ring, Waiting, Requests
<1>5. r \notin Requests(e) /\ \A s \in Requests(e) : s.cb # r.cb
  BY DEF Live
<1>6. /\ r \notin Ring(e) /\ r \notin InQueue(e.queued_stats)
      /\ r \notin InQueue(e.queued_reads)
  BY <1>5 DEF Requests, Waiting
<1>7. Distinct(f)
  BY <1>1, <1>2, <1>4, <1>5, <1>6, <1>b DEF Distinct
<1>8. Live(f) = Live(e) \cup {r.cb}
  BY <1>4 DEF Live
<1> QED BY <1>2, <1>3, <1>4, <1>7, <1>8 DEF EngOK, f

LEMMA EnqueueReadOK ==
    ASSUME NEW e, EngOK(e, "uring"), NEW r \in Request, r.cb \notin Live(e)
    PROVE  LET f == [e EXCEPT !.queued_reads = Append(@, r)]
           IN  /\ EngOK(f, "uring") /\ Live(f) = Live(e) \cup {r.cb}
               /\ f.pending_reads = e.pending_reads /\ f.sq = e.sq /\ f.kernel = e.kernel
               /\ f.anything_to_submit = e.anything_to_submit
               /\ f.old_pending_reads = e.old_pending_reads /\ f.sync = <<>>
<1> DEFINE f == [e EXCEPT !.queued_reads = Append(@, r)]
<1>1. EngType(e) /\ Distinct(e) /\ e.sync = <<>>
  BY DEF EngOK
<1>2. /\ f.sq = e.sq /\ f.kernel = e.kernel /\ f.queued_reads = Append(e.queued_reads, r)
      /\ f.queued_stats = e.queued_stats /\ f.pending_reads = e.pending_reads
      /\ f.anything_to_submit = e.anything_to_submit
      /\ f.sync = <<>> /\ f.old_pending_reads = e.old_pending_reads
  BY <1>1 DEF EngType
<1>a. e.queued_reads \in Seq(Request)
  BY <1>1 DEF EngType
<1>b. /\ Append(e.queued_reads, r) \in Seq(Request)
      /\ InQueue(f.queued_reads) = InQueue(e.queued_reads) \cup {r}
      /\ Injective(e.queued_reads) /\ r \notin InQueue(e.queued_reads)
             => Injective(f.queued_reads)
  BY <1>2, <1>a, AppendFacts
<1>3. EngType(f)
  BY <1>1, <1>b DEF EngType
<1> HIDE DEF f
<1>4. Ring(f) = Ring(e) /\ Waiting(f) = Waiting(e) \cup {r} /\ Requests(f) = Requests(e) \cup {r}
  BY <1>1, <1>2, <1>b DEF Ring, Waiting, Requests
<1>5. r \notin Requests(e) /\ \A s \in Requests(e) : s.cb # r.cb
  BY DEF Live
<1>6. /\ r \notin Ring(e) /\ r \notin InQueue(e.queued_stats)
      /\ r \notin InQueue(e.queued_reads)
  BY <1>5 DEF Requests, Waiting
<1>7. Distinct(f)
  BY <1>1, <1>2, <1>4, <1>5, <1>6, <1>b DEF Distinct
<1>8. Live(f) = Live(e) \cup {r.cb}
  BY <1>4 DEF Live
<1> QED BY <1>2, <1>3, <1>4, <1>7, <1>8 DEF EngOK, f

\* Without io_uring: the read is made next.
LEMMA SyncReadOK ==
    ASSUME NEW e, EngOK(e, "sync"), NEW r \in Request, e.sync = <<>>
    PROVE  LET f == [e EXCEPT !.sync = <<r>>]
           IN  EngOK(f, "sync") /\ Live(f) = {r.cb} /\ Live(e) = {}
<1> DEFINE f == [e EXCEPT !.sync = <<r>>]
<1>1. EngType(e) /\ Distinct(e) /\ Ring(e) = {} /\ e.queued_stats = <<>> /\ e.queued_reads = <<>>
  BY DEF EngOK
<1>2. /\ f.sq = e.sq /\ f.kernel = e.kernel /\ f.queued_reads = <<>>
      /\ f.queued_stats = <<>> /\ f.pending_reads = e.pending_reads
      /\ f.sync = <<r>>
  BY <1>1 DEF EngType
<1>0. <<r>> \in Seq(Request) /\ Len(<<r>>) = 1
  OBVIOUS
<1>3. EngType(f)
  BY <1>0, <1>1 DEF EngType
<1> HIDE DEF f
<1>4. InQueue(<<>>) = {} /\ Injective(<<>>) /\ InQueue(<<r>>) = {r}
  BY DEF InQueue, Injective
<1>5. /\ Ring(f) = {} /\ Waiting(f) = {} /\ Requests(f) = {r} /\ Requests(e) = {}
      /\ f.sq = {} /\ f.kernel = {} /\ Ring(f) = Ring(e)
  BY <1>1, <1>2, <1>4 DEF Ring, Waiting, Requests
<1>6. Distinct(f)
  BY <1>1, <1>2, <1>4, <1>5 DEF Distinct
<1>7. Live(f) = {r.cb} /\ Live(e) = {}
  BY <1>5 DEF Live
<1>9. Len(f.sync) <= 1
  BY <1>0, <1>2
<1>a. IsFiniteSet(Ring(f)) /\ f.pending_reads = Cardinality(Ring(f)) /\ f.pending_reads <= QueueDepth
  BY <1>2, <1>5 DEF EngOK
<1>8. EngOK(f, "sync")
  BY <1>2, <1>3, <1>5, <1>6, <1>9, <1>a DEF EngOK
<1> QED BY <1>7, <1>8 DEF f

\* A prepared request, in front of finish() or in a callback.
LEMMA PrepareAt ==
    ASSUME NEW e, EngOK(e, "uring"), NEW r \in Request, r.cb \notin Live(e),
           e.pending_reads < QueueDepth, NEW a \in {"out", "callback"}, AtOK(e, a, "uring")
    PROVE  AtOK(Prepare(e, r), a, "uring")
<1> DEFINE f == Prepare(e, r)
<1>1. /\ Waiting(f) = Waiting(e) /\ f.pending_reads = e.pending_reads + 1
      /\ f.old_pending_reads = e.old_pending_reads
  BY PrepareOK
<1>2. e.pending_reads \in Nat /\ e.old_pending_reads \in Int /\ QueueDepth \in Nat
  BY EngineAssumption DEF EngOK, EngType
<1> SUFFICES AtOK(f, a, "uring")
  OBVIOUS
<1> HIDE DEF f
<1>3. CASE a = "out"
  BY <1>1, <1>2, <1>3 DEF AtOK
<1>4. CASE a = "callback"
  BY <1>1, <1>2, <1>4 DEF AtOK
<1> QED BY <1>3, <1>4

\* A queued one.
LEMMA EnqueueAt ==
    ASSUME NEW e, NEW f, NEW a \in {"out", "callback"}, AtOK(e, a, "uring"),
           f.pending_reads = e.pending_reads, f.sq = e.sq, f.kernel = e.kernel,
           f.anything_to_submit = e.anything_to_submit,
           f.old_pending_reads = e.old_pending_reads, e.pending_reads = QueueDepth
    PROVE  AtOK(f, a, "uring")
BY DEF AtOK

LEMMA SubmitReadOK ==
    ASSUME NEW e, using_uring \in BOOLEAN, EngOK(e, Mode), e.sync = <<>>,
           NEW cb \in Callback, cb \notin Live(e),
           NEW a \in {"out", "callback"}, AtOK(e, a, Mode)
    PROVE  LET f == submit_read(e, cb)
           IN  /\ EngOK(f, Mode) /\ Live(f) = Live(e) \cup {cb}
               /\ AtOK(f, a, Mode)
<1> DEFINE r == ReadOf(cb)
<1>1. r \in Request /\ r.cb = cb
  BY EngineAssumption DEF ReadOf, Request
<1>2. e.pending_reads \in Nat /\ e.pending_reads <= QueueDepth /\ QueueDepth \in Nat
  BY EngineAssumption DEF EngOK, EngType
<1> HIDE DEF r
<1>3. CASE ~using_uring
  <2> DEFINE f == [e EXCEPT !.sync = <<r>>]
  <2>1. submit_read(e, cb) = f
    BY <1>3 DEF submit_read, r
  <2>2. EngOK(e, "sync") /\ Mode = "sync"
    BY <1>3 DEF Mode
  <2>3. EngOK(f, "sync") /\ Live(f) = {cb} /\ Live(e) = {}
    BY <1>1, <2>2, SyncReadOK
  <2>4. AtOK(f, a, "sync")
    BY DEF AtOK
  <2> QED BY <2>1, <2>2, <2>3, <2>4
<1>4. CASE using_uring /\ e.pending_reads < QueueDepth
  <2>1. submit_read(e, cb) = Prepare(e, r)
    BY <1>4 DEF submit_read, r
  <2>2. EngOK(e, "uring") /\ AtOK(e, a, "uring") /\ Mode = "uring"
    BY <1>4 DEF Mode
  <2> QED BY <1>1, <1>4, <2>1, <2>2, PrepareOK, PrepareAt
<1>5. CASE using_uring /\ ~(e.pending_reads < QueueDepth)
  <2> DEFINE f == [e EXCEPT !.queued_reads = Append(@, r)]
  <2>1. submit_read(e, cb) = f
    BY <1>5 DEF submit_read, r
  <2>2. EngOK(e, "uring") /\ AtOK(e, a, "uring") /\ Mode = "uring" /\ e.pending_reads = QueueDepth
    BY <1>2, <1>5 DEF Mode
  <2>3. /\ EngOK(f, "uring") /\ Live(f) = Live(e) \cup {cb}
        /\ f.pending_reads = e.pending_reads /\ f.sq = e.sq /\ f.kernel = e.kernel
        /\ f.anything_to_submit = e.anything_to_submit
        /\ f.old_pending_reads = e.old_pending_reads
    BY <1>1, <2>2, EnqueueReadOK
  <2> HIDE DEF f
  <2>4. AtOK(f, a, "uring")
    BY <2>2, <2>3, EnqueueAt
  <2> QED BY <2>1, <2>2, <2>3, <2>4
<1> QED BY <1>3, <1>4, <1>5

LEMMA SubmitStatOK ==
    ASSUME NEW e, EngOK(e, "uring"), NEW cb \in Callback, cb \notin Live(e),
           NEW a \in {"out", "callback"}, AtOK(e, a, "uring")
    PROVE  LET f == submit_stat(e, cb)
           IN  /\ EngOK(f, "uring") /\ Live(f) = Live(e) \cup {cb} /\ AtOK(f, a, "uring")
<1> DEFINE r == StatOf(cb)
<1>1. r \in Request /\ r.cb = cb
  BY DEF StatOf, Request
<1>2. e.pending_reads \in Nat /\ e.pending_reads <= QueueDepth /\ QueueDepth \in Nat
  BY EngineAssumption DEF EngOK, EngType
<1> HIDE DEF r
<1>4. CASE e.pending_reads < QueueDepth
  <2>1. submit_stat(e, cb) = Prepare(e, r)
    BY <1>4 DEF submit_stat, r
  <2> QED BY <1>1, <1>4, <2>1, PrepareOK, PrepareAt
<1>5. CASE ~(e.pending_reads < QueueDepth)
  <2> DEFINE f == [e EXCEPT !.queued_stats = Append(@, r)]
  <2>1. submit_stat(e, cb) = f
    BY <1>5 DEF submit_stat, r
  <2>2. e.pending_reads = QueueDepth
    BY <1>2, <1>5
  <2>3. /\ EngOK(f, "uring") /\ Live(f) = Live(e) \cup {cb}
        /\ f.pending_reads = e.pending_reads /\ f.sq = e.sq /\ f.kernel = e.kernel
        /\ f.anything_to_submit = e.anything_to_submit
        /\ f.old_pending_reads = e.old_pending_reads
    BY <1>1, EnqueueStatOK
  <2> HIDE DEF f
  <2>4. AtOK(f, a, "uring")
    BY <2>2, <2>3, EnqueueAt
  <2> QED BY <2>1, <2>3, <2>4
<1> QED BY <1>4, <1>5

\* Facts that only depend on what is in the rings and the queues.
LEMMA SameRequests ==
    ASSUME NEW e, NEW f, NEW mode \in {"uring", "sync"}, EngOK(e, mode), EngType(f),
           f.sq = e.sq, f.kernel = e.kernel, f.queued_stats = e.queued_stats,
           f.queued_reads = e.queued_reads, f.pending_reads = e.pending_reads, f.sync = e.sync
    PROVE  EngOK(f, mode) /\ Live(f) = Live(e) /\ Waiting(f) = Waiting(e)
<1>1. Ring(f) = Ring(e) /\ Waiting(f) = Waiting(e) /\ Requests(f) = Requests(e)
  BY DEF Ring, Waiting, Requests
<1>2. Distinct(f)
  BY <1>1 DEF Distinct, EngOK
<1> QED BY <1>1, <1>2 DEF EngOK, Live

LEMMA SeenOK ==
    ASSUME EngOK(eng, "uring"), at \in {"first", "next"}, AtOK(eng, at, "uring"),
           NEW r \in eng.kernel
    PROVE  /\ EngOK(Seen(r), "uring") /\ AtOK(Seen(r), "callback", "uring")
           /\ r.cb \in Live(eng) /\ Live(Seen(r)) = Live(eng) \ {r.cb}
           /\ Seen(r).sync = <<>>
<1> DEFINE f == Seen(r)
<1>1. EngType(eng) /\ Distinct(eng) /\ eng.sync = <<>> /\ eng.pending_reads = Cardinality(Ring(eng))
      /\ IsFiniteSet(Ring(eng)) /\ eng.pending_reads <= QueueDepth
  BY DEF EngOK
<1>2. r \in Ring(eng) /\ r \in Requests(eng) /\ r.cb \in Live(eng)
  BY DEF Ring, Requests, Live
<1>3. IsFiniteSet(Ring(eng) \ {r}) /\ Cardinality(Ring(eng) \ {r}) = eng.pending_reads - 1
  BY <1>1, <1>2, FS_RemoveElement
<1>4. Cardinality(Ring(eng) \ {r}) \in Nat
  BY <1>3, FS_CardinalityType
<1>5. /\ f.sq = eng.sq /\ f.kernel = eng.kernel \ {r} /\ f.queued_stats = eng.queued_stats
      /\ f.queued_reads = eng.queued_reads /\ f.pending_reads = eng.pending_reads - 1
      /\ f.sync = <<>> /\ f.old_pending_reads = eng.pending_reads - 1
      /\ f.anything_to_submit = eng.anything_to_submit
  BY <1>1 DEF EngType, Seen
<1>6. EngType(f)
  <2> DEFINE g == [eng EXCEPT !.kernel = eng.kernel \ {r}]
             h == [g EXCEPT !.pending_reads = eng.pending_reads - 1]
  <2>1. /\ eng.kernel \ {r} \in SUBSET Request
        /\ eng.pending_reads - 1 \in Nat /\ eng.pending_reads - 1 \in Int
    BY <1>1, <1>3, <1>4 DEF EngType
  <2>2. EngType(g)
    BY <1>1, <2>1 DEF EngType
  <2>3. f = [h EXCEPT !.old_pending_reads = eng.pending_reads - 1]
    BY DEF Seen
  <2> HIDE DEF g
  <2>4. EngType(h)
    BY <2>1, <2>2 DEF EngType
  <2> HIDE DEF h, f
  <2> QED BY <2>1, <2>3, <2>4 DEF EngType
<1> SUFFICES /\ EngOK(f, "uring") /\ AtOK(f, "callback", "uring")
             /\ Live(f) = Live(eng) \ {r.cb} /\ f.sync = <<>>
  BY <1>2
<1> HIDE DEF f
<1>7. r \notin eng.sq /\ r \notin Waiting(eng) /\ InQueue(eng.sync) = {} /\ InQueue(f.sync) = {}
  BY <1>1, <1>2, <1>5 DEF Distinct, InQueue
<1>8. Ring(f) = Ring(eng) \ {r} /\ Waiting(f) = Waiting(eng) /\ Requests(f) = Requests(eng) \ {r}
  BY <1>5, <1>7 DEF Ring, Waiting, Requests
<1>9. Distinct(f)
  BY <1>1, <1>5, <1>8 DEF Distinct
<1>10. Live(f) = Live(eng) \ {r.cb}
  BY <1>1, <1>2, <1>8 DEF Live, Distinct
<1>11. f.pending_reads <= QueueDepth
  BY <1>1, <1>5, EngineAssumption DEF EngType
<1>13. EngOK(f, "uring")
  BY <1>3, <1>5, <1>6, <1>8, <1>9, <1>11 DEF EngOK
<1>12. AtOK(f, "callback", "uring")
  BY <1>1, <1>5 DEF AtOK, EngType
<1> QED BY <1>5, <1>10, <1>12, <1>13

LEMMA SeenSyncOK ==
    ASSUME EngOK(eng, "sync"), NEW i \in DOMAIN eng.sync
    PROVE  /\ EngOK(SeenSync, "sync") /\ AtOK(SeenSync, "callback", "sync")
           /\ Live(SeenSync) = {} /\ Live(eng) = {eng.sync[i].cb} /\ SeenSync.sync = <<>>
<1> DEFINE f == SeenSync
<1>1. EngType(eng) /\ Ring(eng) = {} /\ eng.queued_stats = <<>> /\ eng.queued_reads = <<>>
      /\ Len(eng.sync) <= 1 /\ eng.pending_reads = Cardinality(Ring(eng))
      /\ IsFiniteSet(Ring(eng)) /\ eng.pending_reads <= QueueDepth
  BY DEF EngOK
<1>2. eng.sync \in Seq(Request)
  BY <1>1 DEF EngType
<1>3. DOMAIN eng.sync = {1} /\ i = 1
  BY <1>1, <1>2
<1>4. /\ f.sq = eng.sq /\ f.kernel = eng.kernel /\ f.queued_stats = <<>>
      /\ f.queued_reads = <<>> /\ f.pending_reads = eng.pending_reads /\ f.sync = <<>>
  BY <1>1 DEF EngType, SeenSync
<1>5. EngType(f)
  BY <1>1 DEF EngType, SeenSync
<1> SUFFICES /\ EngOK(f, "sync") /\ AtOK(f, "callback", "sync")
             /\ Live(f) = {} /\ Live(eng) = {eng.sync[i].cb} /\ f.sync = <<>>
  OBVIOUS
<1> HIDE DEF f
<1>6. InQueue(<<>>) = {} /\ Injective(<<>>) /\ InQueue(eng.sync) = {eng.sync[i]} /\ Len(<<>>) = 0
  BY <1>3 DEF InQueue, Injective
<1>7. Ring(f) = Ring(eng) /\ Requests(f) = {} /\ Requests(eng) = {eng.sync[i]}
      /\ Waiting(f) = {} /\ f.sq = {} /\ f.kernel = {}
  BY <1>1, <1>4, <1>6 DEF Ring, Waiting, Requests
<1>8. Distinct(f)
  BY <1>1, <1>4, <1>6, <1>7 DEF Distinct
<1>9. EngOK(f, "sync")
  BY <1>1, <1>4, <1>5, <1>6, <1>7, <1>8 DEF EngOK
<1>10. AtOK(f, "callback", "sync")
  BY DEF AtOK
<1>11. Live(f) = {} /\ Live(eng) = {eng.sync[i].cb}
  BY <1>7 DEF Live
<1> QED BY <1>4, <1>9, <1>10, <1>11

LEMMA CallFinishOK ==
    ASSUME using_uring \in BOOLEAN, EngOK(eng, Mode), AtOK(eng, at, Mode), CallFinish
    PROVE  /\ EngOK(eng', Mode) /\ AtOK(eng', at', Mode) /\ Live(eng') = Live(eng)
           /\ at' \in {"loop", "out"} /\ eng'.sync = <<>> /\ (using_uring => at' = "loop")
           /\ ~using_uring => at' = "out" /\ Live(eng') = {}
<1>1. EngType(eng) /\ Mode \in {"uring", "sync"} /\ eng.sync = <<>> /\ at = "out"
  BY DEF EngOK, Mode, CallFinish, Idle
<1>2. /\ EngType(eng') /\ eng'.sq = eng.sq /\ eng'.kernel = eng.kernel
      /\ eng'.queued_stats = eng.queued_stats /\ eng'.queued_reads = eng.queued_reads
      /\ eng'.pending_reads = eng.pending_reads /\ eng'.sync = eng.sync
      /\ eng'.anything_to_submit = using_uring
  BY <1>1 DEF EngType, CallFinish
<1>3. EngOK(eng', Mode) /\ Live(eng') = Live(eng) /\ Waiting(eng') = Waiting(eng)
  BY <1>1, <1>2, SameRequests
<1>4. CASE using_uring
  <2>1. Mode = "uring" /\ at' = "loop"
    BY <1>4 DEF Mode, CallFinish
  <2>2. AtOK(eng', "loop", "uring")
    BY <1>1, <1>2, <1>3, <1>4, <2>1 DEF AtOK
  <2> QED BY <1>1, <1>2, <1>3, <1>4, <2>1, <2>2
<1>5. CASE ~using_uring
  <2>1. Mode = "sync" /\ at' = "out"
    BY <1>5 DEF Mode, CallFinish
  <2>2. AtOK(eng', "out", "sync")
    BY DEF AtOK
  <2>3. Ring(eng) = {} /\ eng.queued_stats = <<>> /\ eng.queued_reads = <<>>
    BY <2>1 DEF EngOK
  <2>4. Live(eng) = {}
    BY <1>1, <2>3 DEF Live, Requests, Waiting, InQueue
  <2> QED BY <1>1, <1>2, <1>3, <1>5, <2>1, <2>2, <2>4
<1> QED BY <1>4, <1>5

LEMMA CallbackReturnsOK ==
    ASSUME using_uring \in BOOLEAN, EngOK(eng, Mode), AtOK(eng, at, Mode), CallbackReturns
    PROVE  /\ EngOK(eng', Mode) /\ AtOK(eng', at', Mode) /\ Live(eng') = Live(eng)
           /\ at = "callback" /\ at' = (IF using_uring THEN "next" ELSE "out")
           /\ eng'.sync = eng.sync
<1>1. EngType(eng) /\ Mode \in {"uring", "sync"} /\ at = "callback"
      /\ at' = IF using_uring THEN "next" ELSE "out"
  BY DEF EngOK, Mode, CallbackReturns
<1>2. /\ eng'.sq = eng.sq /\ eng'.kernel = eng.kernel
      /\ eng'.queued_stats = eng.queued_stats /\ eng'.queued_reads = eng.queued_reads
      /\ eng'.pending_reads = eng.pending_reads /\ eng'.sync = eng.sync
      /\ eng'.anything_to_submit =
             (eng.anything_to_submit \/ eng.pending_reads # eng.old_pending_reads)
  BY <1>1 DEF EngType, CallbackReturns
<1>a. EngType(eng')
  <2>1. (eng.anything_to_submit \/ eng.pending_reads # eng.old_pending_reads) \in BOOLEAN
    OBVIOUS
  <2> QED BY <1>1, <2>1 DEF EngType, CallbackReturns
<1>3. EngOK(eng', Mode) /\ Live(eng') = Live(eng) /\ Waiting(eng') = Waiting(eng)
  BY <1>1, <1>2, <1>a, SameRequests
<1>4. CASE using_uring
  <2>1. Mode = "uring" /\ at' = "next"
    BY <1>1, <1>4 DEF Mode
  <2>2. AtOK(eng', "next", "uring")
    BY <1>1, <1>2, <1>3, <1>4, <2>1 DEF AtOK
  <2> QED BY <1>1, <1>2, <1>3, <1>4, <2>1, <2>2
<1>5. CASE ~using_uring
  <2>1. Mode = "sync" /\ at' = "out"
    BY <1>1, <1>5 DEF Mode
  <2>2. AtOK(eng', "out", "sync")
    BY DEF AtOK
  <2> QED BY <1>1, <1>2, <1>3, <1>5, <2>1, <2>2
<1> QED BY <1>4, <1>5

LEMMA WaitOK ==
    ASSUME EngOK(eng, "uring"), AtOK(eng, at, "uring"), Wait
    PROVE  EngOK(eng', "uring") /\ AtOK(eng', at', "uring") /\ Live(eng') = Live(eng)
<1>1. /\ EngType(eng) /\ at = "loop" /\ at' = "first" /\ eng.pending_reads > 0
      /\ eng.pending_reads = Cardinality(Ring(eng)) /\ IsFiniteSet(Ring(eng))
  BY DEF EngOK, Wait
<1>2. Ring(eng) # {}
  BY <1>1, FS_EmptySet
<1>3. CASE eng.anything_to_submit
  <2>1. /\ eng'.sq = {} /\ eng'.kernel = eng.kernel \cup eng.sq
        /\ eng'.queued_stats = eng.queued_stats /\ eng'.queued_reads = eng.queued_reads
        /\ eng'.pending_reads = eng.pending_reads /\ eng'.sync = eng.sync
    BY <1>1, <1>3 DEF EngType, Wait
  <2>2. EngType(eng')
    <3>1. eng.kernel \cup eng.sq \in SUBSET Request /\ {} \in SUBSET Request
      BY <1>1 DEF EngType
    <3> QED BY <1>1, <1>3, <3>1 DEF EngType, Wait
  <2>3. /\ Ring(eng') = Ring(eng) /\ Waiting(eng') = Waiting(eng)
        /\ Requests(eng') = Requests(eng)
    BY <2>1 DEF Ring, Waiting, Requests
  <2>4. Distinct(eng')
    BY <2>1, <2>3 DEF Distinct, EngOK
  <2>5. EngOK(eng', "uring") /\ Live(eng') = Live(eng)
    BY <2>1, <2>2, <2>3, <2>4 DEF EngOK, Live
  <2>6. AtOK(eng', "first", "uring")
    BY <1>2, <2>1, <2>3 DEF AtOK, Ring
  <2> QED BY <1>1, <2>5, <2>6
<1>4. CASE ~eng.anything_to_submit
  <2>1. eng' = eng
    BY <1>4 DEF Wait
  <2>2. eng.sq = {} /\ eng.kernel # {}
    BY <1>1, <1>2, <1>4 DEF AtOK, Ring
  <2>3. AtOK(eng, "first", "uring")
    BY <2>2 DEF AtOK
  <2> QED BY <1>1, <2>1, <2>3
<1> QED BY <1>3, <1>4

LEMMA ShortReadOK ==
    ASSUME EngOK(eng, "uring"), AtOK(eng, at, "uring"), NEW r \in eng.kernel, ShortRead(r)
    PROVE  EngOK(eng', "uring") /\ AtOK(eng', at', "uring") /\ Live(eng') = Live(eng)
<1>1. /\ EngType(eng) /\ Distinct(eng) /\ eng.sync = <<>> /\ eng.pending_reads <= QueueDepth
      /\ eng.pending_reads = Cardinality(Ring(eng)) /\ IsFiniteSet(Ring(eng))
  BY DEF EngOK
<1>2. PICK res \in 1 .. r.left - 1 :
          eng' = [eng EXCEPT !.kernel = @ \ {r}, !.sq = @ \cup {[r EXCEPT !.left = @ - res]},
                             !.anything_to_submit = TRUE]
  BY DEF ShortRead
<1>3. at' = "next" /\ at \in {"first", "next"}
  BY DEF ShortRead, AtCompletion
<1> DEFINE s == [r EXCEPT !.left = @ - res]
<1>4. r \in Request
  BY <1>1 DEF EngType
<1>5. s \in Request /\ s.cb = r.cb /\ s # r
  <2>1. r.left \in Nat /\ r.left - res \in Nat /\ r.left - res # r.left
    BY <1>4, <1>2 DEF Request
  <2> QED BY <1>4, <2>1 DEF Request
<1>6. /\ eng'.sq = eng.sq \cup {s} /\ eng'.kernel = eng.kernel \ {r}
      /\ eng'.queued_stats = eng.queued_stats /\ eng'.queued_reads = eng.queued_reads
      /\ eng'.pending_reads = eng.pending_reads /\ eng'.sync = <<>>
      /\ eng'.anything_to_submit = TRUE
  BY <1>1, <1>2 DEF EngType
<1>7. EngType(eng')
  <2> HIDE DEF s
  <2>1. eng.kernel \ {r} \in SUBSET Request /\ eng.sq \cup {s} \in SUBSET Request
    BY <1>1, <1>5 DEF EngType
  <2> DEFINE g == [eng EXCEPT !.kernel = @ \ {r}]
             h == [g EXCEPT !.sq = eng.sq \cup {s}]
  <2>2. EngType(g) /\ g.sq = eng.sq
    BY <1>1, <2>1 DEF EngType
  <2>3. eng' = [h EXCEPT !.anything_to_submit = TRUE]
    BY <1>2, <2>2 DEF s
  <2> HIDE DEF g
  <2>4. EngType(h)
    BY <2>1, <2>2 DEF EngType
  <2> HIDE DEF h
  <2> QED BY <2>3, <2>4 DEF EngType
<1> HIDE DEF s
<1>8. r \in Requests(eng) /\ r \in Ring(eng) /\ r \notin Waiting(eng) /\ r \notin eng.sq
  BY <1>1 DEF Requests, Ring, Distinct
<1>9. s \notin Requests(eng)
  BY <1>1, <1>5, <1>8 DEF Distinct
<1>10. InQueue(<<>>) = {} /\ s \notin Ring(eng) /\ s \notin Waiting(eng) /\ s \notin eng.kernel
  BY <1>9 DEF InQueue, Requests, Ring
<1>11. /\ Ring(eng') = (Ring(eng) \ {r}) \cup {s} /\ Waiting(eng') = Waiting(eng)
       /\ Requests(eng') = (Requests(eng) \ {r}) \cup {s}
  BY <1>1, <1>6, <1>8, <1>10 DEF Ring, Waiting, Requests
<1>12. Distinct(eng')
  <2>1. \A a, b \in Requests(eng') : a.cb = b.cb => a = b
    BY <1>1, <1>5, <1>8, <1>11 DEF Distinct
  <2>2. eng'.sq \cap eng'.kernel = {} /\ Ring(eng') \cap Waiting(eng') = {}
    BY <1>1, <1>6, <1>10, <1>11 DEF Distinct
  <2> QED BY <1>1, <1>6, <2>1, <2>2 DEF Distinct
<1>13. IsFiniteSet(Ring(eng')) /\ Cardinality(Ring(eng')) = eng.pending_reads
  <2>1. IsFiniteSet(Ring(eng) \ {r}) /\ Cardinality(Ring(eng) \ {r}) = eng.pending_reads - 1
    BY <1>1, <1>8, FS_RemoveElement
  <2>2. s \notin Ring(eng) \ {r} /\ eng.pending_reads \in Nat
    BY <1>1, <1>10 DEF EngType
  <2> DEFINE R == Ring(eng) \ {r}
  <2> HIDE DEF R
  <2>3. IsFiniteSet(R \cup {s}) /\ Cardinality(R \cup {s}) = Cardinality(R) + 1
    BY <2>1, <2>2, FS_AddElement DEF R
  <2> QED BY <1>11, <2>1, <2>2, <2>3 DEF R
<1>14. EngOK(eng', "uring")
  BY <1>1, <1>6, <1>7, <1>12, <1>13 DEF EngOK
<1>15. Live(eng') = Live(eng)
  BY <1>5, <1>8, <1>11 DEF Live
<1>16. AtOK(eng', "next", "uring")
  BY <1>6 DEF AtOK
<1> QED BY <1>3, <1>14, <1>15, <1>16

\* The ring takes what it has room for.
IsShare(a, b, p, d, s, n) ==
    /\ s \in 0 .. a /\ n \in 0 .. b /\ p + s + n <= d
    /\ p + s + n = d \/ (s = a /\ n = b)

LEMMA Sharing ==
    ASSUME NEW a \in Nat, NEW b \in Nat, NEW p \in Nat, NEW d \in Nat, p <= d
    PROVE  LET s == IF a < d - p THEN a ELSE d - p
               n == IF b < d - p - s THEN b ELSE d - p - s
           IN  IsShare(a, b, p, d, s, n)
<1>1. CASE a < d - p
  BY <1>1 DEF IsShare
<1>2. CASE ~(a < d - p)
  BY <1>2 DEF IsShare
<1> QED BY <1>1, <1>2

\* Queued requests move to the ring, the stats first.
LEMMA SubmitQueuedOK ==
    ASSUME EngOK(eng, "uring"), AtOK(eng, at, "uring"), SubmitQueued
    PROVE  EngOK(eng', "uring") /\ AtOK(eng', at', "uring") /\ Live(eng') = Live(eng)
<1> DEFINE Least(m, k) == IF m < k THEN m ELSE k
           qs == eng.queued_stats
           qr == eng.queued_reads
           p == eng.pending_reads
           room == QueueDepth - p
           s == Least(Len(qs), room)
           n == Least(Len(qr), room - s)
           S == Begin(qs, s)
           R == Begin(qr, n)
           restS == Remainder(qs, s)
           restR == Remainder(qr, n)
<1>1. /\ EngType(eng) /\ Distinct(eng) /\ eng.sync = <<>> /\ p <= QueueDepth
      /\ p = Cardinality(Ring(eng)) /\ IsFiniteSet(Ring(eng))
  BY DEF EngOK
<1>2. qs \in Seq(Request) /\ qr \in Seq(Request) /\ p \in Nat /\ QueueDepth \in Nat
      /\ eng.sq \subseteq Request
  BY <1>1, EngineAssumption DEF EngType
<1>3. at = "next" /\ at' = "loop"
  BY DEF SubmitQueued
<1>4. eng' = [eng EXCEPT
                !.sq = @ \cup S \cup R, !.queued_stats = SubSeq(@, s + 1, Len(@)),
                !.queued_reads = SubSeq(@, n + 1, Len(@)),
                !.pending_reads = @ + s + n, !.anything_to_submit = @ \/ s + n > 0]
  BY DEF SubmitQueued, Begin
<1>5. /\ eng'.sq = eng.sq \cup S \cup R /\ eng'.kernel = eng.kernel
      /\ eng'.queued_stats = restS /\ eng'.queued_reads = restR
      /\ eng'.pending_reads = p + s + n /\ eng'.sync = <<>>
      /\ eng'.anything_to_submit = (eng.anything_to_submit \/ s + n > 0)
  BY <1>1, <1>4 DEF EngType, Remainder
<1>a. Len(qs) \in Nat /\ Len(qr) \in Nat
  BY <1>2
<1>share. p <= QueueDepth /\ p \in Nat /\ QueueDepth \in Nat
  BY <1>1, <1>2
<1> HIDE DEF qs, qr, p
<1>split. IsShare(Len(qs), Len(qr), p, QueueDepth, s, n)
  BY <1>a, <1>share, Sharing, Zenon
<1>b. s \in 0 .. Len(qs) /\ n \in 0 .. Len(qr) /\ p + s + n <= QueueDepth
  <2> HIDE DEF s, n
  <2> QED BY <1>split DEF IsShare
<1>c. (p + s + n = QueueDepth) \/ (s = Len(qs) /\ n = Len(qr))
  <2> HIDE DEF s, n
  <2> QED BY <1>split DEF IsShare
<1> HIDE DEF s, n
<1>d. Injective(qs) /\ Injective(qr) /\ InQueue(qs) \cap InQueue(qr) = {}
      /\ Waiting(eng) = InQueue(qs) \cup InQueue(qr)
  BY <1>1 DEF Distinct, qs, qr, Waiting
<1>6. /\ restS \in Seq(Request) /\ Injective(restS) /\ Len(restS) = Len(qs) - s
      /\ InQueue(qs) = S \cup InQueue(restS) /\ S \cap InQueue(restS) = {}
      /\ IsFiniteSet(S) /\ Cardinality(S) = s
  BY <1>2, <1>b, <1>d, CutFacts
<1>7. /\ restR \in Seq(Request) /\ Injective(restR) /\ Len(restR) = Len(qr) - n
      /\ InQueue(qr) = R \cup InQueue(restR) /\ R \cap InQueue(restR) = {}
      /\ IsFiniteSet(R) /\ Cardinality(R) = n
  BY <1>2, <1>b, <1>d, CutFacts
<1>8. S \subseteq Request /\ R \subseteq Request
  <2>1. InQueue(qs) \subseteq Request /\ InQueue(qr) \subseteq Request
    BY <1>2 DEF InQueue
  <2> QED BY <1>6, <1>7, <2>1
<1> HIDE DEF S, R, restS, restR
<1>9. EngType(eng')
  <2>1. /\ eng.sq \cup S \cup R \in SUBSET Request /\ p + s + n \in Nat
        /\ (eng.anything_to_submit \/ s + n > 0) \in BOOLEAN
    BY <1>2, <1>8, <1>b
  <2> DEFINE e1 == [eng EXCEPT !.sq = eng.sq \cup S \cup R]
             e2 == [e1 EXCEPT !.queued_stats = restS]
             e3 == [e2 EXCEPT !.queued_reads = restR]
             e4 == [e3 EXCEPT !.pending_reads = p + s + n]
  <2>2. EngType(e1) /\ e1.queued_stats = qs /\ e1.queued_reads = qr /\ e1.pending_reads = p
        /\ e1.anything_to_submit = eng.anything_to_submit
    BY <1>1, <2>1 DEF EngType, qs, qr, p
  <2> HIDE DEF e1
  <2>3. EngType(e2) /\ e2.queued_reads = qr /\ e2.pending_reads = p
        /\ e2.anything_to_submit = eng.anything_to_submit
    BY <1>6, <2>2 DEF EngType
  <2> HIDE DEF e2
  <2>4. EngType(e3) /\ e3.pending_reads = p /\ e3.anything_to_submit = eng.anything_to_submit
    BY <1>7, <2>3 DEF EngType
  <2> HIDE DEF e3
  <2>5. EngType(e4) /\ e4.anything_to_submit = eng.anything_to_submit
    BY <2>1, <2>4 DEF EngType
  <2>6. eng' = [e4 EXCEPT !.anything_to_submit = (eng.anything_to_submit \/ s + n > 0)]
    BY <1>1, <1>4 DEF EngType, Remainder, e1, e2, e3, restS, restR, qs, qr, p
  <2> HIDE DEF e4
  <2> QED BY <2>1, <2>5, <2>6 DEF EngType
<1>e. InQueue(<<>>) = {} /\ InQueue(eng.sync) = {} /\ InQueue(eng'.sync) = {}
  BY <1>1, <1>5 DEF InQueue
<1>10. /\ Ring(eng') = Ring(eng) \cup S \cup R
       /\ Waiting(eng') = InQueue(restS) \cup InQueue(restR)
  BY <1>5 DEF Ring, Waiting
<1>11. Requests(eng') = Requests(eng)
  BY <1>6, <1>7, <1>10, <1>d, <1>e DEF Requests
<1>12. S \subseteq Waiting(eng) /\ R \subseteq Waiting(eng) /\ S \cap R = {}
       /\ Ring(eng) \cap Waiting(eng) = {} /\ eng.sq \cap eng.kernel = {}
  BY <1>1, <1>6, <1>7, <1>d DEF Distinct
<1>13. Distinct(eng')
  <2>1. eng.kernel \cap (S \cup R) = {}
    BY <1>12 DEF Ring
  <2>2. eng'.sq \cap eng'.kernel = {}
    BY <1>5, <1>12, <2>1
  <2>3. Ring(eng') \cap Waiting(eng') = {}
    BY <1>6, <1>7, <1>10, <1>12, <1>d
  <2>4. InQueue(restS) \cap InQueue(restR) = {}
    BY <1>6, <1>7, <1>d
  <2>5. \A a, b \in Requests(eng') : a.cb = b.cb => a = b
    BY <1>1, <1>11 DEF Distinct
  <2> QED BY <1>5, <1>6, <1>7, <2>2, <2>3, <2>4, <2>5 DEF Distinct
<1>14. IsFiniteSet(Ring(eng')) /\ Cardinality(Ring(eng')) = p + s + n
  <2>1. Ring(eng) \cap S = {} /\ (Ring(eng) \cup S) \cap R = {}
    BY <1>12
  <2>2. IsFiniteSet(Ring(eng) \cup S) /\ Cardinality(Ring(eng) \cup S) = p + s
    BY <1>1, <1>6, <2>1, CountDisjoint
  <2>3. IsFiniteSet((Ring(eng) \cup S) \cup R) /\ Cardinality((Ring(eng) \cup S) \cup R) = p + s + n
    BY <1>7, <2>1, <2>2, CountDisjoint
  <2> QED BY <1>10, <2>3
<1>15. EngOK(eng', "uring")
  BY <1>5, <1>9, <1>13, <1>14, <1>b DEF EngOK
<1>16. Live(eng') = Live(eng)
  BY <1>11 DEF Live
<1>17. AtOK(eng', "loop", "uring")
  <2>1. ASSUME Waiting(eng') # {} PROVE eng'.pending_reads = QueueDepth
    <3>1. ASSUME s = Len(qs), n = Len(qr) PROVE FALSE
      <4>1. Len(restS) = 0 /\ Len(restR) = 0
        BY <1>6, <1>7, <1>a, <3>1
      <4>2. restS = <<>> /\ restR = <<>>
        BY <1>6, <1>7, <4>1
      <4> QED BY <1>10, <1>e, <2>1, <4>2
    <3> QED BY <1>5, <1>c, <3>1
  <2>2. ASSUME eng'.sq # {} PROVE eng'.anything_to_submit
    <3>1. CASE eng.sq # {}
      BY <1>3, <1>5, <3>1 DEF AtOK
    <3>2. CASE S \cup R # {}
      <4>1. ~(s = 0 /\ n = 0)
        BY <1>6, <1>7, <3>2, FS_EmptySet
      <4>2. s + n > 0
        BY <1>b, <1>a, <4>1
      <4> QED BY <1>5, <4>2
    <3> QED BY <1>5, <2>2, <3>1, <3>2
  <2> QED BY <2>1, <2>2 DEF AtOK
<1> QED BY <1>3, <1>15, <1>16, <1>17

\* A step of finish().
LEMMA FinishOK ==
    ASSUME using_uring \in BOOLEAN, EngOK(eng, Mode), AtOK(eng, at, Mode),
           \/ FinishReturns \/ Peek \/ Wait \/ SubmitQueued \/ \E r \in eng.kernel : ShortRead(r)
    PROVE  /\ EngOK(eng', Mode) /\ AtOK(eng', at', Mode) /\ Live(eng') = Live(eng)
           /\ using_uring /\ at \notin {"out", "callback"} /\ at' # "callback"
           /\ at' = "out" => Live(eng') = {}
<1>1. at \in {"loop", "first", "next"}
  BY DEF FinishReturns, Peek, Wait, SubmitQueued, ShortRead, AtCompletion
<1>2. Mode = "uring" /\ using_uring
  BY <1>1 DEF AtOK, Mode
<1>3. EngOK(eng, "uring") /\ AtOK(eng, at, "uring")
  BY <1>2
<1> SUFFICES /\ EngOK(eng', "uring") /\ AtOK(eng', at', "uring") /\ Live(eng') = Live(eng)
             /\ at' # "callback"
             /\ at' = "out" => Live(eng') = {}
  BY <1>1, <1>2
<1>4. CASE FinishReturns
  <2>1. eng' = eng /\ at = "loop" /\ at' = "out" /\ eng.pending_reads = 0
    BY <1>4 DEF FinishReturns
  <2>2. Ring(eng) = {} /\ eng.sync = <<>>
    BY <1>3, <2>1, FS_EmptySet DEF EngOK
  <2>3. Waiting(eng) = {}
    BY <1>3, <2>1, EngineAssumption DEF AtOK
  <2>4. Live(eng) = {}
    BY <2>2, <2>3 DEF Live, Requests, InQueue
  <2>5. AtOK(eng, "out", "uring")
    BY <2>3 DEF AtOK
  <2> QED BY <1>3, <2>1, <2>4, <2>5
<1>5. CASE Peek
  <2>1. eng' = eng /\ at = "loop" /\ at' = "first" /\ eng.kernel # {}
    BY <1>5 DEF Peek
  <2>2. AtOK(eng, "first", "uring")
    BY <1>3, <2>1 DEF AtOK
  <2> QED BY <1>3, <2>1, <2>2
<1>6. CASE Wait
  BY <1>3, <1>6, WaitOK DEF Wait
<1>7. CASE SubmitQueued
  BY <1>3, <1>7, SubmitQueuedOK DEF SubmitQueued
<1>8. CASE \E r \in eng.kernel : ShortRead(r)
  BY <1>3, <1>8, ShortReadOK DEF ShortRead
<1> QED BY <1>4, <1>5, <1>6, <1>7, <1>8

-----------------------------------------------------------------------------
(* The search, in front of the scan.                                       *)

LEMMA OrderOf ==
    ASSUME NEW S, IsFiniteSet(S), NEW o \in SetToSeqs(S)
    PROVE  o \in Seq(S) /\ Injective(o) /\ InQueue(o) = S /\ Len(o) = Cardinality(S)
<1> DEFINE n == Cardinality(S)
<1>1. n \in Nat
  BY FS_CardinalityType
<1>2. o \in [1 .. n -> S] /\ \A i, j \in 1 .. n : i # j => o[i] # o[j]
  BY DEF SetToSeqs
<1> HIDE DEF n
<1>3. o \in Seq(S) /\ Len(o) = n /\ DOMAIN o = 1 .. n
  BY <1>1, <1>2
<1>4. Injective(o)
  BY <1>2, <1>3 DEF Injective
<1>5. IsFiniteSet({o[i] : i \in 1 .. n}) /\ Cardinality({o[i] : i \in 1 .. n}) = n
  <2>1. Different(o, n)
    BY <1>2 DEF Different
  <2>2. IsFiniteSet(Listed(o, n)) /\ Cardinality(Listed(o, n)) = n
    BY <1>1, <2>1, CountRange
  <2> QED BY <2>2, Zenon DEF Listed
<1>6. {o[i] : i \in 1 .. n} \subseteq S
  BY <1>2
<1>7. {o[i] : i \in 1 .. n} = S
  <2> DEFINE T == {o[i] : i \in 1 .. n}
  <2> HIDE DEF T
  <2>1. IsFiniteSet(T) /\ Cardinality(T) = Cardinality(S) /\ T \subseteq S
    BY <1>5, <1>6 DEF T, n
  <2>2. T = S
    BY <2>1, FS_Subset
  <2> QED BY <2>2 DEF T
<1> QED BY <1>3, <1>4, <1>7 DEF InQueue, n

\* A callback is one of these.
LEMMA CallbackForms ==
    ASSUME NEW cb \in Callback
    PROVE  /\ cb.k \in {"dict", "lookup", "postings", "index", "block", "access", "exists"}
           /\ cb.k \in {"lookup", "postings"} => cb.t \in Trgm /\ cb = [k |-> cb.k, t |-> cb.t]
           /\ cb.k \in {"index", "block"} => cb.i \in Nat /\ cb = [k |-> cb.k, i |-> cb.i]
           /\ cb.k \in {"access", "exists"} =>
                  cb.i \in Nat /\ cb.j \in Nat /\ cb = [k |-> cb.k, i |-> cb.i, j |-> cb.j]
<1>1. CASE cb \in [k : {"dict"}]
  BY <1>1
<1>2. CASE cb \in [k : {"lookup", "postings"}, t : Trgm]
  BY <1>2
<1>3. CASE cb \in [k : {"index", "block"}, i : Nat]
  BY <1>3
<1>4. CASE cb \in [k : {"access", "exists"}, i : Nat, j : Nat]
  BY <1>4
<1> QED BY <1>1, <1>2, <1>3, <1>4 DEF Callback

LEMMA LiveCallbacks ==
    ASSUME NEW e, NEW mode \in {"uring", "sync"}, EngOK(e, mode)
    PROVE  Live(e) \subseteq Callback
<1>1. EngType(e)
  BY DEF EngOK
<1>2. Requests(e) \subseteq Request
  <2>1. Ring(e) \subseteq Request
    BY <1>1 DEF EngType, Ring
  <2>2. e.queued_stats \in Seq(Request) /\ e.queued_reads \in Seq(Request) /\ e.sync \in Seq(Request)
    BY <1>1 DEF EngType
  <2>3. \A q \in Seq(Request) : InQueue(q) \subseteq Request
    BY DEF InQueue
  <2> QED BY <2>1, <2>2, <2>3 DEF Requests, Waiting
<1> QED BY <1>2 DEF Live, Request

\* The trigrams that are under way.
LEMMA OfFacts ==
    ASSUME NEW L, NEW kind \in {"lookup", "postings"}, NEW t \in Trgm
    PROVE  /\ Of(kind, L \cup {[k |-> kind, t |-> t]}) = Of(kind, L) \cup {t}
           /\ Of(kind, L \ {[k |-> kind, t |-> t]}) = Of(kind, L) \ {t}
           /\ t \in Of(kind, L) <=> [k |-> kind, t |-> t] \in L
<1>1. ASSUME NEW u \in Trgm PROVE [k |-> kind, t |-> t] = [k |-> kind, t |-> u] <=> t = u
  OBVIOUS
<1> QED BY <1>1 DEF Of

LEMMA OfOthers ==
    ASSUME NEW L, NEW kind \in {"lookup", "postings"}, NEW cb, cb.k # kind
    PROVE  Of(kind, L \cup {cb}) = Of(kind, L) /\ Of(kind, L \ {cb}) = Of(kind, L)
<1>1. ASSUME NEW u \in Trgm PROVE cb # [k |-> kind, t |-> u]
  OBVIOUS
<1> QED BY <1>1 DEF Of

LEMMA OfNone == ASSUME NEW kind PROVE Of(kind, {}) = {}
BY DEF Of

\* A pattern, and a trigram of it.
LEMMA QueryFacts ==
    ASSUME NEW Q \in Queries
    PROVE  /\ Q # {} /\ IsFiniteSet(Q) /\ UNION Q \subseteq Trgm
           /\ \A g \in Q : g \subseteq Trgm /\ IsFiniteSet(g)
           /\ \A d \in Databases : \A g \in Q : \A t \in g : d.post[t] \subseteq Docs
<1>1. UNION Q \subseteq Trgm
  BY DEF Trgm
<1> QED BY <1>1, SearchAssumption

LEMMA SettingsFacts ==
    ASSUME NEW s \in Settings
    PROVE  /\ s.query \in Queries /\ s.using_uring \in BOOLEAN /\ s.supports_stat \in BOOLEAN
           /\ s.supports_stat => s.using_uring
           /\ s.check_visibility \in BOOLEAN /\ s.check_existence \in BOOLEAN
           /\ s.ignore_case \in BOOLEAN /\ s.dbpaths \in Nat
BY SearchAssumption

\* A match needs a known trigram of every group.
LEMMA Hopeless ==
    ASSUME NEW d, NEW Q, Promise(d, Q), NEW g \in Q, Known(g, d) = {}
    PROVE  Matches(d) = {}
BY DEF Promise, Known, Matches

LEMMA NewSearchOK ==
    ASSUME set \in Settings, NEW d, NEW L, Of("lookup", L) = {}
    PROVE  NewSearch \in LocType(set.query) /\ LookupOK(NewSearch, L, d, set.query)
<1> DEFINE Q == set.query
<1>1. Q \in Queries
  BY SettingsFacts
<1> HIDE DEF Q
<1>2. UNION Q \subseteq Trgm /\ \A g \in Q : g \subseteq Trgm /\ IsFiniteSet(g)
  BY <1>1, QueryFacts
<1>3. ASSUME NEW g \in Q
      PROVE  NewGroup(g) \in GroupType /\ Cardinality(g) \in Nat
  <2>1. Cardinality(g) \in Nat
    BY <1>2, FS_CardinalityType
  <2> QED BY <2>1 DEF NewGroup, GroupType
<1>4. NewSearch = [lookups |-> UNION Q, td |-> [g \in Q |-> NewGroup(g)],
                   order |-> <<>>, groups |-> <<>>, reads |-> {}, trgm |-> "", submitted |-> {},
                   cur_candidates |-> {}, should_early_exit |-> FALSE, done |-> FALSE,
                   docids |-> <<>>, next |-> 1, matched |-> 0]
  BY DEF NewSearch, Q
<1>5. NewSearch \in LocType(Q)
  <2> DEFINE td == [g \in Q |-> NewGroup(g)]
             all == UNION Q
  <2>1. td \in [Q -> GroupType] /\ all \in SUBSET Trgm
    BY <1>2, <1>3
  <2>2. <<>> \in Seq(Q) /\ <<>> \in Seq(Docs) /\ {} \in SUBSET Trgm /\ {} \in SUBSET Docs
        /\ "" \in Trgm \cup {""} /\ 0 \in Nat /\ 1 \in Nat /\ FALSE \in BOOLEAN
    OBVIOUS
  <2> HIDE DEF td, all
  <2>3. NewSearch = [lookups |-> all, td |-> td,
                     order |-> <<>>, groups |-> <<>>, reads |-> {}, trgm |-> "", submitted |-> {},
                     cur_candidates |-> {}, should_early_exit |-> FALSE, done |-> FALSE,
                     docids |-> <<>>, next |-> 1, matched |-> 0]
    BY <1>4 DEF td, all
  <2> QED BY <2>1, <2>2, <2>3 DEF LocType
<1>6. ASSUME NEW g \in Q
      PROVE  /\ NewSearch.td[g].remaining = Left(g, UNION Q)
             /\ NewSearch.td[g].read_trigrams = Known(g \ UNION Q, d)
             /\ NewSearch.td[g].docids = {}
  <2>1. g \cap UNION Q = g /\ g \ UNION Q = {}
    OBVIOUS
  <2>2. Known({}, d) = {}
    BY DEF Known
  <2> QED BY <1>4, <2>1, <2>2 DEF NewGroup, Left
<1>7. LookupOK(NewSearch, L, d, Q)
  <2>1. NewSearch.lookups = UNION Q
    BY <1>4
  <2>2. NewSearch.lookups \cup Of("lookup", L) = UNION Q
    BY <2>1
  <2> QED BY <1>4, <1>6, <2>2 DEF LookupOK
<1> QED BY <1>5, <1>7 DEF Q

LEMMA LookupSubmitted ==
    ASSUME NEW Q \in Queries, NEW s \in LocType(Q), NEW L, NEW d, LookupOK(s, L, d, Q),
           NEW t \in s.lookups
    PROVE  LET u == [s EXCEPT !.lookups = @ \ {t}]
               cb == [k |-> "lookup", t |-> t]
           IN  /\ u \in LocType(Q) /\ LookupOK(u, L \cup {cb}, d, Q)
               /\ cb \notin L /\ cb \in Callback
<1> DEFINE u == [s EXCEPT !.lookups = @ \ {t}]
           cb == [k |-> "lookup", t |-> t]
<1>1. t \in Trgm
  BY DEF LocType
<1>2. Of("lookup", L \cup {cb}) = Of("lookup", L) \cup {t} /\ (t \in Of("lookup", L) <=> cb \in L)
  BY <1>1, OfFacts
<1>3. cb \notin L /\ cb \in Callback
  BY <1>1, <1>2 DEF LookupOK, Callback
<1>4. u \in LocType(Q) /\ u.lookups = s.lookups \ {t} /\ u.td = s.td
      /\ u.should_early_exit = s.should_early_exit /\ u.reads = s.reads
      /\ u.submitted = s.submitted /\ u.cur_candidates = s.cur_candidates
      /\ u.done = s.done /\ u.docids = s.docids /\ u.next = s.next /\ u.matched = s.matched
  <2>1. s.lookups \ {t} \in SUBSET Trgm
    BY DEF LocType
  <2> QED BY <2>1 DEF LocType
<1> HIDE DEF u, cb
<1>5. u.lookups \cup Of("lookup", L \cup {cb}) = s.lookups \cup Of("lookup", L)
      /\ u.lookups \cap Of("lookup", L \cup {cb}) = {}
  BY <1>2, <1>4 DEF LookupOK
<1>6. LookupOK(u, L \cup {cb}, d, Q)
  BY <1>4, <1>5 DEF LookupOK
<1> QED BY <1>3, <1>4, <1>6 DEF u, cb

\* A trigram less is outstanding.
LEMMA OneLess ==
    ASSUME NEW g, IsFiniteSet(g), NEW out, NEW t \in out
    PROVE  /\ t \in g => Left(g, out \ {t}) = Left(g, out) - 1
           /\ t \notin g => Left(g, out \ {t}) = Left(g, out)
           /\ Left(g, out) \in Nat
           /\ Left(g, out) = 0 => g \cap out = {}
<1> USE DEF Left
<1>1. IsFiniteSet(g \cap out) /\ Cardinality(g \cap out) \in Nat
  BY FS_Intersection, FS_CardinalityType
<1>2. CASE t \in g
  <2>1. g \cap (out \ {t}) = (g \cap out) \ {t} /\ t \in g \cap out
    BY <1>2
  <2> QED BY <1>1, <1>2, <2>1, FS_RemoveElement, FS_EmptySet
<1>3. CASE t \notin g
  <2>1. g \cap (out \ {t}) = g \cap out
    BY <1>3
  <2>2. Cardinality(g \cap (out \ {t})) = Cardinality(g \cap out)
    BY <2>1, Zenon
  <2> QED BY <1>1, <1>3, <2>2, FS_EmptySet
<1> QED BY <1>2, <1>3

\* The answer to a lookup, known or not.
LEMMA LookupArrived ==
    ASSUME set \in Settings, loc \in LocType(set.query), NEW L,
           LookupOK(loc, L, db, set.query), NEW t \in Trgm, [k |-> "lookup", t |-> t] \in L,
           db \in Databases
    PROVE  LET s == IF db.post[t] = {} THEN NotFound(t) ELSE FoundTrigram(t)
           IN  /\ s \in LocType(set.query) /\ s.lookups = loc.lookups
               /\ LookupOK(s, L \ {[k |-> "lookup", t |-> t]}, db, set.query)
<1> DEFINE Q == set.query
           M == L \ {[k |-> "lookup", t |-> t]}
           out == loc.lookups \cup Of("lookup", L)
           known == db.post[t] # {}
           less(g) == loc.td[g].remaining - 1
           new(g) == IF t \in g
                     THEN IF known
                          THEN [loc.td[g] EXCEPT !.remaining = @ - 1,
                                    !.read_trigrams = @ \cup {t},
                                    !.max_num_docids = @ + Cardinality(db.post[t])]
                          ELSE [loc.td[g] EXCEPT !.remaining = @ - 1]
                     ELSE loc.td[g]
           td == [g \in Q |-> new(g)]
           ended == \/ loc.should_early_exit
                    \/ ~known /\ \E g \in Q : t \in g /\ td[g].remaining = 0
                                              /\ td[g].read_trigrams = {}
           s == IF db.post[t] = {} THEN NotFound(t) ELSE FoundTrigram(t)
<1>1. Q \in Queries
  BY SettingsFacts
<1>2. /\ \A g \in Q : g \subseteq Trgm /\ IsFiniteSet(g)
      /\ \A g \in Q : t \in g => db.post[t] \subseteq Docs
  BY <1>1, QueryFacts
<1>3. t \in out /\ t \notin loc.lookups /\ Of("lookup", M) = Of("lookup", L) \ {t}
  BY OfFacts DEF LookupOK
<1>4. loc.td \in [Q -> GroupType]
  BY DEF LocType
<1>5. ASSUME NEW g \in Q
      PROVE  /\ new(g) \in GroupType
             /\ new(g).remaining = Left(g, out \ {t})
             /\ new(g).read_trigrams = Known(g \ (out \ {t}), db)
             /\ new(g).docids = {}
  <2> DEFINE o == loc.td[g]
  <2>1. /\ o \in GroupType /\ o.remaining = Left(g, out)
        /\ o.read_trigrams = Known(g \ out, db) /\ o.docids = {}
    BY <1>4 DEF LookupOK
  <2>2. Left(g, out \ {t}) = o.remaining - (IF t \in g THEN 1 ELSE 0)
    <3>1. IsFiniteSet(g) /\ t \in out
      BY <1>2, <1>3
    <3> HIDE DEF out
    <3>2. /\ t \in g => Left(g, out \ {t}) = Left(g, out) - 1
          /\ t \notin g => Left(g, out \ {t}) = Left(g, out)
          /\ Left(g, out) \in Nat
      BY <3>1, OneLess, SMTT(40)
    <3> QED BY <2>1, <3>2
  <2>3. t \in g /\ known => Known(g \ (out \ {t}), db) = o.read_trigrams \cup {t}
    BY <1>3, <2>1 DEF Known
  <2>4. ~(t \in g /\ known) => Known(g \ (out \ {t}), db) = o.read_trigrams
    BY <1>3, <2>1 DEF Known
  <2> HIDE DEF o
  <2>5. CASE t \notin g
    <3>1. new(g) = o
      BY <2>5 DEF o
    <3> QED BY <2>1, <2>2, <2>4, <2>5, <3>1 DEF GroupType
  <2>6. CASE t \in g /\ ~known
    <3>1. new(g) = [o EXCEPT !.remaining = @ - 1]
      BY <2>6 DEF o
    <3> HIDE DEF new, out
    <3>2. o.remaining - 1 \in Int
      BY <2>1 DEF GroupType
    <3>3. new(g) \in GroupType
      BY <2>1, <3>1, <3>2 DEF GroupType
    <3>4. new(g).remaining = o.remaining - 1 /\ new(g).read_trigrams = o.read_trigrams
          /\ new(g).docids = o.docids
      BY <2>1, <3>1 DEF GroupType
    <3> QED BY <2>1, <2>2, <2>4, <2>6, <3>3, <3>4
  <2>7. CASE t \in g /\ known
    <3>1. new(g) = [o EXCEPT !.remaining = @ - 1, !.read_trigrams = @ \cup {t},
                             !.max_num_docids = @ + Cardinality(db.post[t])]
      BY <2>7 DEF o
    <3>2. db.post[t] \subseteq Docs /\ IsFiniteSet(Docs)
      BY <1>2, <2>7, FS_Interval, SearchAssumption DEF Docs
    <3>3. Cardinality(db.post[t]) \in Nat
      BY <3>2, FS_Subset, FS_CardinalityType
    <3>4. o.max_num_docids + Cardinality(db.post[t]) \in Int /\ o.remaining - 1 \in Int
          /\ o.read_trigrams \cup {t} \in SUBSET Trgm
      BY <2>1, <3>3 DEF GroupType
    <3>5. new(g) \in GroupType
      BY <2>1, <3>1, <3>4, ZenonT(40) DEF GroupType
    <3>6. new(g).remaining = o.remaining - 1 /\ new(g).read_trigrams = o.read_trigrams \cup {t}
          /\ new(g).docids = o.docids
      BY <2>1, <3>1 DEF GroupType
    <3> QED BY <2>1, <2>2, <2>3, <2>7, <3>5, <3>6
  <2> QED BY <2>5, <2>6, <2>7
<1> HIDE DEF new
<1>6. td \in [Q -> GroupType] /\ \A g \in Q : td[g] = new(g)
  BY <1>5
<1>7. s = [loc EXCEPT !.td = td, !.should_early_exit = ended]
  <2>1. CASE known
    <3>1. s = [loc EXCEPT !.td = td]
      BY <2>1 DEF FoundTrigram, new
    <3>2. ended = loc.should_early_exit /\ loc.should_early_exit \in BOOLEAN
      BY <2>1 DEF LocType
    <3> QED BY <3>1, <3>2 DEF LocType
  <2>2. CASE ~known
    <3> DEFINE u == [loc EXCEPT !.td = [g \in set.query |->
                  IF t \in g THEN [loc.td[g] EXCEPT !.remaining = @ - 1] ELSE loc.td[g]]]
    <3>1. u = [loc EXCEPT !.td = td]
      BY <2>2 DEF new
    <3>2. s = [u EXCEPT !.should_early_exit =
             @ \/ \E g \in set.query : /\ t \in g
                                       /\ u.td[g].remaining = 0 /\ u.td[g].read_trigrams = {}]
      BY <2>2 DEF NotFound
    <3> HIDE DEF u, td, s
    <3>3. u.td = td /\ u.should_early_exit = loc.should_early_exit
      BY <3>1 DEF LocType
    <3> QED BY <2>2, <3>1, <3>2, <3>3
  <2> QED BY <2>1, <2>2
<1>8. ended \in BOOLEAN /\ (ended => \E g \in Q : Known(g, db) = {})
  <2>1. ASSUME NEW g \in Q, td[g].remaining = 0, td[g].read_trigrams = {}
        PROVE  Known(g, db) = {}
    <3>1. IsFiniteSet(g \cap (out \ {t}))
      BY <1>2, FS_Intersection
    <3>2. g \cap (out \ {t}) = {}
      BY <1>5, <1>6, <2>1, <3>1, FS_EmptySet DEF Left
    <3>3. g \ (out \ {t}) = g
      BY <3>2
    <3> QED BY <1>5, <1>6, <2>1, <3>3
  <2>2. loc.should_early_exit \in BOOLEAN
    BY DEF LocType
  <2> QED BY <2>1, <2>2 DEF LookupOK
<1> HIDE DEF td, ended, s
<1>9. /\ s \in LocType(Q) /\ s.td = td /\ s.should_early_exit = ended /\ s.lookups = loc.lookups
      /\ s.reads = loc.reads /\ s.submitted = loc.submitted
      /\ s.cur_candidates = loc.cur_candidates /\ s.done = loc.done /\ s.docids = loc.docids
      /\ s.next = loc.next /\ s.matched = loc.matched
  BY <1>6, <1>7, <1>8 DEF LocType
<1>10. loc.lookups \cup Of("lookup", M) = out \ {t}
  BY <1>3
<1> HIDE DEF M, out
<1>11. LookupOK(s, M, db, Q)
  <2>1. loc.lookups \cap Of("lookup", M) = {}
    BY <1>3 DEF LookupOK
  <2>2. \A g \in Q : /\ s.td[g].remaining = Left(g, out \ {t})
                     /\ s.td[g].read_trigrams = Known(g \ (out \ {t}), db)
                     /\ s.td[g].docids = {}
    BY <1>5, <1>6, <1>9
  <2>3. loc.reads = {} /\ loc.submitted = {} /\ loc.cur_candidates = {} /\ ~loc.done
        /\ loc.docids = <<>> /\ loc.next = 1 /\ loc.matched = 0
    BY DEF LookupOK
  <2> QED BY <1>8, <1>9, <1>10, <2>1, <2>2, <2>3 DEF LookupOK
<1> QED BY <1>9, <1>11 DEF s, M

\* Sorting starts the intersection: no list has been read.
LEMMA GroupsSorted ==
    ASSUME set \in Settings, loc \in LocType(set.query), LookupOK(loc, {}, db, set.query),
           loc.lookups = {}, NEW o \in SetToSeqs(set.query)
    PROVE  LET s == [loc EXCEPT !.order = o, !.groups = o,
                       !.td = [g \in set.query |->
                          [@[g] EXCEPT !.remaining = Cardinality(loc.td[g].read_trigrams)]]]
           IN  s \in LocType(set.query) /\ PostOK(s, {}, db, set.query, "groups")
<1> DEFINE Q == set.query
           td == [g \in Q |-> [loc.td[g] EXCEPT
                                  !.remaining = Cardinality(loc.td[g].read_trigrams)]]
           s == [loc EXCEPT !.order = o, !.groups = o, !.td = td]
<1>1. Q \in Queries
  BY SettingsFacts
<1>2. Q # {} /\ IsFiniteSet(Q) /\ \A g \in Q : g \subseteq Trgm /\ IsFiniteSet(g)
  BY <1>1, QueryFacts
<1>3. o \in Seq(Q) /\ Injective(o) /\ InQueue(o) = Q /\ Len(o) = Cardinality(Q)
  BY <1>2, OrderOf
<1>4. Cardinality(Q) \in Nat /\ Cardinality(Q) # 0
  BY <1>2, FS_CardinalityType, FS_EmptySet
<1>5. loc.td \in [Q -> GroupType]
  BY DEF LocType
<1>6. Of("lookup", {}) = {} /\ Of("postings", {}) = {}
  BY OfNone
<1>7. ASSUME NEW g \in Q
      PROVE  /\ td[g] \in GroupType /\ td[g].read_trigrams = Known(g, db)
             /\ td[g].docids = {} /\ td[g].remaining = Missing(g, db, {})
  <2>1. /\ loc.td[g] \in GroupType /\ loc.td[g].docids = {}
        /\ loc.td[g].read_trigrams = Known(g \ (loc.lookups \cup Of("lookup", {})), db)
    BY <1>5 DEF LookupOK
  <2>2. g \ (loc.lookups \cup Of("lookup", {})) = g /\ Known(g, db) \ {} = Known(g, db)
    BY <1>6
  <2>3. IsFiniteSet(Known(g, db))
    <3>1. Known(g, db) \subseteq g
      BY DEF Known
    <3> QED BY <1>2, <3>1, FS_Subset
  <2>4. loc.td[g].read_trigrams = Known(g, db)
    BY <2>1, <2>2
  <2>5. Cardinality(Known(g, db)) \in Nat /\ Cardinality(Known(g, db)) = Missing(g, db, {})
    BY <2>2, <2>3, FS_CardinalityType DEF Missing
  <2> DEFINE c == Cardinality(Known(g, db))
  <2>6. td[g] = [loc.td[g] EXCEPT !.remaining = c]
    BY <2>4
  <2> HIDE DEF c, td
  <2>7. c \in Int
    BY <2>5 DEF c
  <2> QED BY <2>1, <2>4, <2>5, <2>6, <2>7 DEF GroupType, c
<1>8. td \in [Q -> GroupType]
  BY <1>7
<1> HIDE DEF td
<1>9. /\ s \in LocType(Q) /\ s.td = td /\ s.order = o /\ s.groups = o
      /\ s.reads = loc.reads /\ s.submitted = loc.submitted /\ s.trgm = loc.trgm
      /\ s.cur_candidates = loc.cur_candidates /\ s.done = loc.done /\ s.docids = loc.docids
      /\ s.next = loc.next /\ s.matched = loc.matched
  BY <1>3, <1>8 DEF LocType
<1>10. /\ loc.reads = {} /\ loc.submitted = {} /\ loc.cur_candidates = {} /\ ~loc.done
       /\ loc.docids = <<>> /\ loc.next = 1 /\ loc.matched = 0
  BY DEF LookupOK
<1>11. s = [loc EXCEPT !.order = o, !.groups = o,
                       !.td = [g \in set.query |->
                          [@[g] EXCEPT !.remaining = Cardinality(loc.td[g].read_trigrams)]]]
  BY DEF LocType, td
<1> HIDE DEF s
<1>12. GroupsOK(s, db, Q, "groups")
  BY <1>3, <1>4, <1>7, <1>9, <1>10 DEF GroupsOK
<1>13. Intersected(s, Arrived(s, {}, "groups", Q), db, Q)
  <2>1. \A g \in Q : Arrived(s, {}, "groups", Q)[g] = {}
    BY <1>6, <1>9, <1>10 DEF Arrived
  <2> QED BY <1>7, <1>9, <1>10, <2>1 DEF Intersected
<1>14. PostOK(s, {}, db, Q, "groups")
  BY <1>6, <1>9, <1>10, <1>12, <1>13 DEF PostOK
<1> QED BY <1>9, <1>11, <1>14 DEF Q

\* What the arrival of a posting list leaves alone.
SameButIntersection(u, s, Q) ==
    /\ u.lookups = s.lookups /\ u.order = s.order /\ u.groups = s.groups /\ u.reads = s.reads
    /\ u.trgm = s.trgm /\ u.submitted = s.submitted /\ u.docids = s.docids
    /\ u.should_early_exit = s.should_early_exit /\ u.next = s.next /\ u.matched = s.matched
    /\ \A g \in Q : u.td[g].read_trigrams = s.td[g].read_trigrams

LEMMA MissingFacts ==
    ASSUME NEW g, IsFiniteSet(g), NEW d, NEW D, NEW t
    PROVE  /\ Missing(g, d, D) \in Nat
           /\ Missing(g, d, D) = 0 <=> Known(g, d) \subseteq D
           /\ t \in Known(g, d) /\ t \notin D => Missing(g, d, D \cup {t}) = Missing(g, d, D) - 1
           /\ t \notin g => Missing(g, d, D \cup {t}) = Missing(g, d, D)
<1> DEFINE K == Known(g, d)
<1>1. IsFiniteSet(K) /\ K \subseteq g
  BY FS_Subset DEF Known
<1> HIDE DEF K
<1>2. IsFiniteSet(K \ D) /\ Cardinality(K \ D) \in Nat
  BY <1>1, FS_Subset, FS_CardinalityType
<1>3. Cardinality(K \ D) = 0 <=> K \subseteq D
  BY <1>2, FS_EmptySet
<1>4. ASSUME t \in K, t \notin D PROVE Cardinality(K \ (D \cup {t})) = Cardinality(K \ D) - 1
  <2>1. K \ (D \cup {t}) = (K \ D) \ {t} /\ t \in K \ D
    BY <1>4
  <2>2. Cardinality((K \ D) \ {t}) = Cardinality(K \ D) - 1
    BY <1>2, <2>1, FS_RemoveElement
  <2> QED BY <2>1, <2>2
<1>5. ASSUME t \notin g PROVE Cardinality(K \ (D \cup {t})) = Cardinality(K \ D)
  <2>1. K \ (D \cup {t}) = K \ D
    BY <1>1, <1>5
  <2> QED BY <2>1
<1> QED BY <1>2, <1>3, <1>4, <1>5 DEF Missing, K

With(Done, g, t) == [Done EXCEPT ![g] = @ \cup {t}]

\* One list for one of its groups.
LEMMA PostingListRead ==
    ASSUME set \in Settings, NEW d, NEW s \in LocType(set.query), NEW g \in set.query,
           NEW t \in g, d.post[t] # {}, d.post[t] \subseteq Docs, Promise(d, set.query),
           NEW Done \in [set.query -> SUBSET Trgm], t \notin Done[g],
           Intersected(s, Done, d, set.query), s.done => Matches(d) = {}
    PROVE  LET u == new_posting_list_read(s, g, d.post[t])
           IN  /\ u \in LocType(set.query) /\ SameButIntersection(u, s, set.query)
               /\ Intersected(u, With(Done, g, t), d, set.query)
               /\ u.done => Matches(d) = {}
<1> DEFINE Q == set.query
           D == With(Done, g, t)
           docids == s.td[g].docids \cup d.post[t]
           left == s.td[g].remaining - 1
           both == IF s.cur_candidates = {} THEN docids ELSE s.cur_candidates \cap docids
           r == [s EXCEPT !.td[g].docids = docids, !.td[g].remaining = left]
           over == set.ignore_case /\ s.cur_candidates # {} /\ both = {}
           u == new_posting_list_read(s, g, d.post[t])
<1>1. Q \in Queries
  BY SettingsFacts
<1>2. \A h \in Q : h \subseteq Trgm /\ IsFiniteSet(h)
  BY <1>1, QueryFacts
<1>3. s.td \in [Q -> GroupType] /\ s.done \in BOOLEAN /\ s.cur_candidates \subseteq Docs
  BY DEF LocType
<1>4. s.td[g] \in GroupType
  BY <1>3
<1>5. u = IF s.done THEN s ELSE IF left > 0 THEN r
          ELSE [r EXCEPT !.cur_candidates = both, !.done = over]
  BY DEF new_posting_list_read
<1>6. CASE s.done
  <2>1. u = s
    BY <1>5, <1>6
  <2>2. SameButIntersection(s, s, Q)
    BY DEF SameButIntersection
  <2>3. Intersected(s, D, d, Q)
    BY <1>6 DEF Intersected
  <2> QED BY <1>6, <2>1, <2>2, <2>3
<1>7. CASE ~s.done
  <2>1. /\ s.td[g].remaining = Missing(g, d, Done[g])
        /\ \A x \in g \cap Done[g] : d.post[x] \subseteq s.td[g].docids
    BY <1>7 DEF Intersected
  <2>2. D[g] = Done[g] \cup {t} /\ \A h \in Q : h # g => D[h] = Done[h]
    BY DEF With
  <2> HIDE DEF D
  <2>3. t \in Known(g, d)
    BY DEF Known
  <2>4. left = Missing(g, d, D[g]) /\ left \in Nat /\ (left = 0 <=> Known(g, d) \subseteq D[g])
    <3>1. Missing(g, d, Done[g] \cup {t}) = Missing(g, d, Done[g]) - 1
      BY <1>2, <2>3, MissingFacts
    <3>2. Missing(g, d, D[g]) \in Nat /\ (Missing(g, d, D[g]) = 0 <=> Known(g, d) \subseteq D[g])
      BY <1>2, MissingFacts
    <3>3. Missing(g, d, D[g]) = Missing(g, d, Done[g] \cup {t})
      BY <2>2
    <3> QED BY <2>1, <3>1, <3>2, <3>3
  <2>5. docids \subseteq Docs /\ both \subseteq Docs
    BY <1>3, <1>4 DEF GroupType
  <2>6. \A x \in g \cap D[g] : d.post[x] \subseteq docids
    BY <2>1, <2>2
  <2> HIDE DEF docids, left
  <2>7. /\ r \in LocType(Q) /\ SameButIntersection(r, s, Q)
        /\ r.td[g].docids = docids /\ r.td[g].remaining = left
        /\ \A h \in Q : h # g => r.td[h] = s.td[h]
        /\ r.cur_candidates = s.cur_candidates /\ r.done = s.done
    <3> DEFINE new == [s.td[g] EXCEPT !.docids = docids, !.remaining = left]
               td == [s.td EXCEPT ![g] = new]
    <3>1. r = [s EXCEPT !.td = td]
      BY <1>3, <1>4 DEF LocType, GroupType
    <3>2. /\ new \in GroupType /\ new.docids = docids /\ new.remaining = left
          /\ new.read_trigrams = s.td[g].read_trigrams
      <4>1. docids \in SUBSET Docs /\ left \in Int
        BY <2>4, <2>5
      <4> DEFINE o == s.td[g]
      <4> HIDE DEF o
      <4>2. o \in GroupType /\ new = [o EXCEPT !.docids = docids, !.remaining = left]
        BY <1>4 DEF o
      <4> HIDE DEF new
      <4> QED BY <4>1, <4>2 DEF GroupType, o
    <3> HIDE DEF new, r
    <3>3. td \in [Q -> GroupType] /\ td[g] = new /\ \A h \in Q : h # g => td[h] = s.td[h]
      BY <1>3, <3>2
    <3> HIDE DEF td
    <3>4. /\ r \in LocType(Q) /\ r.td = td /\ r.lookups = s.lookups /\ r.order = s.order
          /\ r.groups = s.groups /\ r.reads = s.reads /\ r.trgm = s.trgm
          /\ r.submitted = s.submitted /\ r.docids = s.docids
          /\ r.should_early_exit = s.should_early_exit /\ r.next = s.next
          /\ r.matched = s.matched /\ r.cur_candidates = s.cur_candidates /\ r.done = s.done
      BY <3>1, <3>3 DEF LocType
    <3>5. SameButIntersection(r, s, Q)
      BY <3>2, <3>3, <3>4 DEF SameButIntersection
    <3> QED BY <3>2, <3>3, <3>4, <3>5
  <2> HIDE DEF r
  <2>8. ASSUME NEW h \in Q
        PROVE  /\ r.td[h].remaining = Missing(h, d, D[h])
               /\ \A x \in h \cap D[h] : d.post[x] \subseteq r.td[h].docids
    BY <1>7, <2>2, <2>4, <2>6, <2>7, <2>8 DEF Intersected
  <2>9. \A h \in Q : h # g /\ Known(h, d) # {} /\ Known(h, d) \subseteq D[h] =>
            Matches(d) \subseteq s.cur_candidates
    BY <1>7, <2>2 DEF Intersected
  <2>a. s.cur_candidates # {} => Matches(d) \subseteq s.cur_candidates
    BY <1>7 DEF Intersected
  <2>10. CASE left > 0
    <3>1. u = r
      BY <1>5, <1>7, <2>10
    <3>2. ~(Known(g, d) \subseteq D[g])
      BY <2>4, <2>10
    <3>3. Intersected(r, D, d, Q)
      BY <2>7, <2>8, <2>9, <2>a, <3>2 DEF Intersected
    <3> QED BY <1>7, <2>7, <3>1, <3>3 DEF D
  <2>11. CASE ~(left > 0)
    <3>1. u = [r EXCEPT !.cur_candidates = both, !.done = over]
      BY <1>5, <1>7, <2>11
    <3>2. Known(g, d) \subseteq D[g]
      BY <2>4, <2>11
    <3>3. Matches(d) \subseteq docids
      <4> SUFFICES ASSUME NEW doc \in Matches(d) PROVE doc \in docids
        OBVIOUS
      <4>1. PICK x \in g : doc \in d.post[x]
        BY DEF Promise, Matches
      <4>2. x \in Known(g, d)
        BY <4>1 DEF Known
      <4> QED BY <2>6, <3>2, <4>1, <4>2
    <3>4. Matches(d) \subseteq both
      BY <2>a, <3>3
    <3>5. over \in BOOLEAN /\ (over => both = {})
      BY SettingsFacts
    <3> HIDE DEF both, over
    <3>6. /\ u \in LocType(Q) /\ u.td = r.td /\ u.lookups = r.lookups /\ u.order = r.order
          /\ u.groups = r.groups /\ u.reads = r.reads /\ u.trgm = r.trgm
          /\ u.submitted = r.submitted /\ u.docids = r.docids
          /\ u.should_early_exit = r.should_early_exit /\ u.next = r.next
          /\ u.matched = r.matched /\ u.cur_candidates = both /\ u.done = over
      BY <2>5, <2>7, <3>1, <3>5 DEF LocType
    <3> HIDE DEF u
    <3>7. SameButIntersection(u, s, Q)
      BY <2>7, <3>6 DEF SameButIntersection
    <3>8. Intersected(u, D, d, Q)
      BY <2>8, <3>4, <3>6 DEF Intersected
    <3>9. u.done => Matches(d) = {}
      BY <3>4, <3>5, <3>6
    <3> QED BY <3>6, <3>7, <3>8, <3>9 DEF D, u
  <2> QED BY <2>10, <2>11
<1> QED BY <1>3, <1>6, <1>7


LEMMA PostingListType ==
    ASSUME set \in Settings, NEW s \in LocType(set.query), NEW g \in set.query,
           NEW ids \in SUBSET Docs
    PROVE  /\ new_posting_list_read(s, g, ids) \in LocType(set.query)
           /\ s.done => new_posting_list_read(s, g, ids) = s
<1> DEFINE Q == set.query
           docids == s.td[g].docids \cup ids
           left == s.td[g].remaining - 1
           both == IF s.cur_candidates = {} THEN docids ELSE s.cur_candidates \cap docids
           new == [s.td[g] EXCEPT !.docids = docids, !.remaining = left]
           td == [s.td EXCEPT ![g] = new]
           r == [s EXCEPT !.td[g].docids = docids, !.td[g].remaining = left]
           over == set.ignore_case /\ s.cur_candidates # {} /\ both = {}
<1>1. new_posting_list_read(s, g, ids) =
          IF s.done THEN s ELSE IF left > 0 THEN r
          ELSE [r EXCEPT !.cur_candidates = both, !.done = over]
  BY DEF new_posting_list_read
<1>2. s.td \in [Q -> GroupType] /\ s.cur_candidates \subseteq Docs
  BY DEF LocType
<1>3. s.td[g] \in GroupType
  BY <1>2
<1>4. docids \in SUBSET Docs /\ both \in SUBSET Docs /\ left \in Int
  BY <1>2, <1>3 DEF GroupType
<1>5. over \in BOOLEAN
  BY SettingsFacts
<1>6. r = [s EXCEPT !.td = td]
  BY <1>2, <1>3 DEF LocType, GroupType
<1> HIDE DEF docids, left, both, over, r
<1>7. new \in GroupType
  <2> DEFINE o == s.td[g]
  <2> HIDE DEF o
  <2>1. o \in GroupType /\ new = [o EXCEPT !.docids = docids, !.remaining = left]
    BY <1>3 DEF o
  <2> HIDE DEF new
  <2> QED BY <1>4, <2>1 DEF GroupType
<1> HIDE DEF new
<1>8. td \in [Q -> GroupType]
  BY <1>2, <1>7
<1> HIDE DEF td
<1>9. r \in LocType(Q)
  BY <1>6, <1>8 DEF LocType
<1>10. [r EXCEPT !.cur_candidates = both, !.done = over] \in LocType(Q)
  BY <1>4, <1>5, <1>9 DEF LocType
<1> QED BY <1>1, <1>9, <1>10

\* A list for all of its groups.
LEMMA PostingsArrived ==
    ASSUME set \in Settings, db \in Databases, loc \in LocType(set.query), NEW L,
           NEW p,
           PostOK(loc, L, db, set.query, p), Promise(db, set.query),
           NEW t \in Trgm, [k |-> "postings", t |-> t] \in L, OnPostings(t)
    PROVE  /\ loc' \in LocType(set.query)
           /\ PostOK(loc', L \ {[k |-> "postings", t |-> t]}, db, set.query, p)
<1> DEFINE Q == set.query
           N == Len(loc.groups)
           step(s, n) == IF t \in loc.groups[n]
                         THEN new_posting_list_read(s, loc.groups[n], db.post[t]) ELSE s
           Eq(f) == f = [n \in 0 .. N |-> IF n = 0 THEN loc ELSE step(f[n - 1], n)]
<1>1. Q \in Queries
  BY SettingsFacts
<1>2. /\ \A g \in Q : g \subseteq Trgm /\ IsFiniteSet(g)
      /\ \A g \in Q : t \in g => db.post[t] \subseteq Docs
  BY <1>1, QueryFacts
<1>3. N \in Nat /\ \A n \in 1 .. N : loc.groups[n] \in Q
  <2>1. loc.groups \in Seq(Q)
    BY DEF LocType
  <2> QED BY <2>1
<1>a. DOMAIN loc.groups = 1 .. N
  <2>1. loc.groups \in Seq(Q)
    BY DEF LocType
  <2> QED BY <2>1
<1> HIDE DEF N
<1>4. ASSUME NEW n \in 1 .. N, NEW s \in LocType(Q)
      PROVE  step(s, n) \in LocType(Q) /\ (s.done => step(s, n) = s)
  <2>1. loc.groups[n] \in Q
    BY <1>3
  <2>2. CASE t \in loc.groups[n]
    BY <1>2, <2>1, <2>2, PostingListType
  <2>3. CASE t \notin loc.groups[n]
    BY <2>3
  <2> QED BY <2>2, <2>3
<1> HIDE DEF step
<1>5. \E f : Eq(f)
  <2> DEFINE S == LocType(Q)
             h == [n \in Nat |-> [s \in S |-> IF n \in 1 .. N THEN step(s, n) ELSE s]]
  <2>1. h \in [Nat -> [S -> S]]
    BY <1>4
  <2>2. loc \in S
    OBVIOUS
  <2> HIDE DEF S, h
  <2>a. PICK f : IsRun(f, S, loc, h, N)
    BY <1>3, <2>1, <2>2, Iteration
  <2>3. f \in [0 .. N -> S] /\ f[0] = loc /\ \A n \in 1 .. N : f[n] = h[n][f[n - 1]]
    BY <2>a DEF IsRun
  <2>4. ASSUME NEW n \in 1 .. N PROVE f[n] = step(f[n - 1], n)
    <3>1. n - 1 \in 0 .. N /\ n \in Nat
      BY <1>3
    <3>2. f[n - 1] \in S
      BY <2>3, <3>1
    <3> QED BY <2>3, <3>1, <3>2 DEF h
  <2>5. Eq(f)
    BY <1>3, <2>3, <2>4
  <2> QED BY <2>5
<1> DEFINE read == CHOOSE f : Eq(f)
<1>6. Eq(read)
  BY <1>5
<1>7. loc' = read[N]
  BY DEF OnPostings, step, N
<1> HIDE DEF read
<1>8. read[0] = loc /\ \A n \in 1 .. N : read[n] = step(read[n - 1], n)
  BY <1>3, <1>6
<1> HIDE DEF Eq
<1> DEFINE X == IF p = "caught_up" THEN {loc.trgm} ELSE {}
           Arr == loc.submitted \ (Of("postings", L) \cup X)
           M == L \ {[k |-> "postings", t |-> t]}
           D(n) == [g \in Q |-> Arr \cup (IF \E i \in 1 .. n : loc.groups[i] = g THEN {t} ELSE {})]
<1>9. t \in Of("postings", L) /\ Of("postings", M) = Of("postings", L) \ {t}
  BY OfFacts
<1>10. t \in loc.submitted /\ t \notin X /\ t \notin Arr /\ db.post[t] # {}
  BY <1>9 DEF PostOK, GroupsOK
<1>11. GroupsOK(loc, db, Q, p) /\ Injective(loc.groups) /\ InQueue(loc.groups) = Q
       /\ DOMAIN loc.groups = 1 .. N
  <2>1. GroupsOK(loc, db, Q, p)
    BY DEF PostOK
  <2> QED BY <1>a, <2>1 DEF GroupsOK
<1>12. loc.submitted \subseteq Trgm
  BY DEF LocType
<1> DEFINE Good(n) == /\ read[n] \in LocType(Q) /\ SameButIntersection(read[n], loc, Q)
                      /\ Intersected(read[n], D(n), db, Q)
                      /\ read[n].done => Matches(db) = {}
                      /\ loc.done => read[n].done
<1>13. Good(0)
  <2>1. \A g \in Q : Arrived(loc, L, p, Q)[g] = Arr
    BY DEF Arrived
  <2> HIDE DEF Arr
  <2>3. \A g \in Q : D(0)[g] = Arr
    OBVIOUS
  <2> HIDE DEF D
  <2>2. Intersected(loc, D(0), db, Q)
    <3>1. Intersected(loc, Arrived(loc, L, p, Q), db, Q)
      BY DEF PostOK
    <3> QED BY <2>1, <2>3, <3>1 DEF Intersected
  <2> QED BY <1>8, <2>2 DEF SameButIntersection, PostOK
<1>14. ASSUME NEW n \in Nat, n + 1 <= N, Good(n) PROVE Good(n + 1)
  <2> DEFINE g == loc.groups[n + 1]
             s == read[n]
             u == read[n + 1]
  <2> HIDE DEF Good
  <2>1. n + 1 \in 1 .. N /\ (n + 1) - 1 = n
    BY <1>3, <1>14
  <2> USE DEF Good
  <2>2. u = step(s, n + 1) /\ g \in Q
    BY <1>3, <1>8, <2>1
  <2>3. ~ \E i \in 1 .. n : loc.groups[i] = g
    BY <1>3, <1>11, <2>1 DEF Injective
  <2>4. /\ D(n) \in [Q -> SUBSET Trgm] /\ t \notin D(n)[g]
        /\ D(n + 1)[g] = D(n)[g] \cup {t}
        /\ \A h \in Q : h # g => D(n + 1)[h] = D(n)[h]
    <3>1. D(n)[g] = Arr
      BY <2>2, <2>3
    <3>2. \E i \in 1 .. n + 1 : loc.groups[i] = g
      BY <2>1
    <3>3. D(n + 1)[g] = Arr \cup {t}
      BY <2>2, <3>2
    <3>4. ASSUME NEW h \in Q, h # g PROVE D(n + 1)[h] = D(n)[h]
      <4>1. (\E i \in 1 .. n + 1 : loc.groups[i] = h) <=> (\E i \in 1 .. n : loc.groups[i] = h)
        BY <3>4
      <4> QED BY <4>1
    <3>5. Arr \cup {t} \in SUBSET Trgm
      BY <1>12
    <3>6. D(n) \in [Q -> SUBSET Trgm]
      BY <3>5
    <3> QED BY <1>10, <3>1, <3>3, <3>4, <3>6
  <2>5. s \in LocType(Q) /\ SameButIntersection(s, loc, Q) /\ (loc.done => s.done)
        /\ Intersected(s, D(n), db, Q) /\ (s.done => Matches(db) = {})
    BY <1>14
  <2>6. u \in LocType(Q) /\ (s.done => u = s)
    BY <1>4, <2>1, <2>2, <2>5
  <2>a. D(n + 1) = With(D(n), g, t)
    <3>1. D(n + 1) = [h \in Q |-> D(n + 1)[h]] /\ D(n) = [h \in Q |-> D(n)[h]]
      OBVIOUS
    <3> HIDE DEF D
    <3> QED BY <2>2, <2>4, <3>1 DEF With
  <2> HIDE DEF D, s, u, g
  <2>7. CASE t \in g
    <3>1. u = new_posting_list_read(s, g, db.post[t])
      BY <2>2, <2>7 DEF step, g
    <3>2. db.post[t] \subseteq Docs
      BY <1>2, <2>2, <2>7
    <3>3. /\ SameButIntersection(u, s, Q)
          /\ Intersected(u, With(D(n), g, t), db, Q)
          /\ u.done => Matches(db) = {}
      <4> DEFINE Dn == D(n)
      <4>1. Dn \in [Q -> SUBSET Trgm] /\ t \notin Dn[g] /\ Intersected(s, Dn, db, Q)
        BY <2>4, <2>5
      <4>2. s \in LocType(Q) /\ g \in Q /\ db.post[t] # {} /\ (s.done => Matches(db) = {})
        BY <1>10, <2>2, <2>5
      <4> HIDE DEF Dn
      <4>3. /\ SameButIntersection(u, s, Q) /\ Intersected(u, With(Dn, g, t), db, Q)
            /\ u.done => Matches(db) = {}
        BY <2>7, <3>1, <3>2, <4>1, <4>2, PostingListRead
      <4> QED BY <4>3 DEF Dn
    <3>4. SameButIntersection(u, loc, Q)
      BY <2>5, <3>3 DEF SameButIntersection
    <3> QED BY <2>5, <2>6, <2>a, <3>3, <3>4 DEF s, u
  <2>8. CASE t \notin g
    <3>1. u = s
      BY <2>2, <2>8 DEF step, g
    <3>2. ASSUME NEW h \in Q
          PROVE  /\ Missing(h, db, D(n + 1)[h]) = Missing(h, db, D(n)[h])
                 /\ h \cap D(n + 1)[h] = h \cap D(n)[h]
                 /\ Known(h, db) \subseteq D(n + 1)[h] => Known(h, db) \subseteq D(n)[h]
      <4>1. CASE h # g
        BY <2>4, <4>1
      <4>2. CASE h = g
        <5>1. D(n + 1)[h] = D(n)[h] \cup {t} /\ t \notin h
          BY <2>4, <2>8, <4>2
        <5>2. Known(h, db) \subseteq h
          BY DEF Known
        <5>3. Missing(h, db, D(n)[h] \cup {t}) = Missing(h, db, D(n)[h])
          BY <1>2, <5>1, MissingFacts
        <5> QED BY <5>1, <5>2, <5>3
      <4> QED BY <4>1, <4>2
    <3>3. Intersected(s, D(n + 1), db, Q)
      BY <2>5, <3>2 DEF Intersected
    <3> QED BY <2>5, <3>1, <3>3 DEF s, u
  <2> QED BY <2>7, <2>8
<1>15. Good(N)
  <2> DEFINE T == {n \in Nat : n <= N => Good(n)}
  <2> HIDE DEF Good
  <2>1. 0 \in T
    BY <1>13
  <2>2. ASSUME NEW n \in Nat, n \in T PROVE n + 1 \in T
    BY <1>3, <1>14, <2>2
  <2> HIDE DEF T
  <2>3. N \in T
    BY <1>3, <2>1, <2>2, SetInduction
  <2> QED BY <1>3, <2>3 DEF T
<1>16. /\ loc' \in LocType(Q) /\ SameButIntersection(loc', loc, Q)
       /\ Intersected(loc', D(N), db, Q) /\ (loc'.done => Matches(db) = {})
       /\ (loc.done => loc'.done)
  BY <1>7, <1>15
<1>17. ASSUME NEW g \in Q PROVE D(N)[g] = Arrived(loc', M, p, Q)[g]
  <2>1. \E i \in 1 .. N : loc.groups[i] = g
    BY <1>11 DEF InQueue
  <2>2. D(N)[g] = Arr \cup {t}
    BY <2>1
  <2>3. loc'.submitted = loc.submitted /\ loc'.trgm = loc.trgm
    BY <1>16 DEF SameButIntersection
  <2>4. Arrived(loc', M, p, Q)[g] = loc.submitted \ (Of("postings", M) \cup X)
    BY <2>3 DEF Arrived
  <2> HIDE DEF X
  <2>5. loc.submitted \ (Of("postings", M) \cup X) = Arr \cup {t}
    BY <1>9, <1>10
  <2> QED BY <2>2, <2>4, <2>5
<1> HIDE DEF D
<1>18. Intersected(loc', Arrived(loc', M, p, Q), db, Q)
  BY <1>16, <1>17 DEF Intersected
<1> HIDE DEF Good, Arr
<1>19. GroupsOK(loc', db, Q, p)
  BY <1>10, <1>11, <1>16 DEF GroupsOK, SameButIntersection
<1>20. /\ Of("postings", M) \subseteq loc'.submitted
       /\ p = "caught_up" => loc'.trgm \in loc'.submitted /\ loc'.trgm \notin Of("postings", M)
  BY <1>9, <1>16 DEF PostOK, SameButIntersection
<1> QED BY <1>16, <1>18, <1>19, <1>20 DEF PostOK

-----------------------------------------------------------------------------
(* The steps of the search, in front of the scan.                          *)

LEMMA Basics ==
    ASSUME SInv
    PROVE  /\ set \in Settings /\ set.query \in Queries /\ loc \in LocType(set.query)
           /\ using_uring \in BOOLEAN /\ supports_stat \in BOOLEAN
           /\ supports_stat => using_uring
           /\ EngOK(eng, Mode) /\ AtOK(eng, at, Mode) /\ Mode \in {"uring", "sync"}
           /\ using_uring => Mode = "uring" /\ eng.sync = <<>>
           /\ ~using_uring => Mode = "sync" /\ at \in {"out", "callback"}
           /\ Live(eng) \subseteq Callback
<1>1. EngOK(eng, Mode) /\ AtOK(eng, at, Mode) /\ Fixed
  BY DEF SInv
<1>2. Mode \in {"uring", "sync"} /\ (using_uring => Mode = "uring") /\ (~using_uring => Mode = "sync")
  BY DEF Mode
<1>3. Live(eng) \subseteq Callback
  BY <1>1, <1>2, LiveCallbacks
<1>4. set \in Settings /\ set.query \in Queries /\ using_uring \in BOOLEAN
      /\ supports_stat \in BOOLEAN /\ (supports_stat => using_uring) /\ loc \in LocType(set.query)
  BY <1>1, SettingsFacts DEF Fixed
<1>5. using_uring => eng.sync = <<>>
  BY <1>1, <1>2 DEF EngOK
<1>6. ~using_uring => at \in {"out", "callback"}
  BY <1>1, <1>2 DEF AtOK
<1> QED BY <1>1, <1>2, <1>3, <1>4, <1>5, <1>6

\* What a step of the search has to keep.
LEMMA SearchStep ==
    ASSUME SInv, pc \in Looking \cup Intersecting, pc' \in Looking \cup Intersecting,
           UNCHANGED <<set, db, how, todo, using_uring, supports_stat, readable, acc>>,
           EngOK(eng', Mode), AtOK(eng', at', Mode), loc' \in LocType(set.query),
           \A b \in Live(eng') : Belongs(b, pc'),
           using_uring /\ at' # "out" => pc' \in Finishing,
           at' = "out" /\ eng'.sync = <<>> /\ pc' \in Finishing => Live(eng') = {},
           pc' \in Looking => LookupOK(loc', Live(eng'), db, set.query),
           pc' = "looked_up" => loc'.lookups = {},
           pc' \in Intersecting => PostOK(loc', Live(eng'), db, set.query, pc')
    PROVE  SInv'
<1> USE DEF Looking, Intersecting, Scanning
<1>1. EngOK(eng', Mode') /\ AtOK(eng', at', Mode')
  BY DEF Mode
<1>2. Fixed'
  BY DEF SInv, Fixed
<1>3. pc \notin Scanning /\ pc \notin {"main", "nothing", "end"}
      /\ pc' \notin Scanning /\ pc' \notin {"main", "nothing", "end"}
  OBVIOUS
<1>4. /\ how = "running" /\ todo = <<>> /\ DOMAIN acc.pending_stats = {}
      /\ db \in Databases /\ Promise(db, set.query)
  BY <1>3 DEF SInv, PcOK
<1>5. PcOK'
  BY <1>3, <1>4 DEF PcOK
<1>6. SearchOK'
  BY <1>4 DEF SearchOK
<1>7. ScanInv'
  <2>1. \A b \in Live(eng') : b.k \notin {"access", "exists"}
    BY <1>3 DEF Belongs
  <2> QED BY <1>3, <1>4, <2>1 DEF SInv, ScanInv
<1> QED BY <1>1, <1>2, <1>5, <1>6, <1>7 DEF SInv

LEMMA StepLookup == ASSUME SInv, Lookup PROVE SInv'
<1>1. PICK t \in loc.lookups : /\ Search("lookup", [loc EXCEPT !.lookups = @ \ {t}])
                               /\ Submit([k |-> "lookup", t |-> t])
  BY DEF Lookup
<1> DEFINE cb == [k |-> "lookup", t |-> t]
           s == [loc EXCEPT !.lookups = @ \ {t}]
<1>2. /\ pc = "lookup" /\ pc' = "lookup" /\ at = "out" /\ at' = "out" /\ eng.sync = <<>>
      /\ loc' = s /\ eng' = submit_read(eng, cb)
      /\ UNCHANGED <<set, db, how, todo, using_uring, supports_stat, readable, acc>>
  BY <1>1 DEF Lookup, Idle, Search, Submit, mainVars, fixedEngine, accessVars
<1>3. LookupOK(loc, Live(eng), db, set.query)
  BY <1>2 DEF SInv, SearchOK, Looking
<1>4. /\ s \in LocType(set.query) /\ LookupOK(s, Live(eng) \cup {cb}, db, set.query)
      /\ cb \notin Live(eng) /\ cb \in Callback
  BY <1>3, Basics, LookupSubmitted
<1>5. cb.k = "lookup"
  OBVIOUS
<1> HIDE DEF cb, s
<1>6. EngOK(eng', Mode) /\ Live(eng') = Live(eng) \cup {cb} /\ AtOK(eng', "out", Mode)
  BY <1>2, <1>4, Basics, SubmitReadOK
<1>7. \A b \in Live(eng') : Belongs(b, pc')
  BY <1>2, <1>5, <1>6 DEF SInv, PcOK, Belongs, Looking
<1> QED BY <1>2, <1>4, <1>6, <1>7, SearchStep DEF Looking, Finishing, Intersecting

LEMMA StepAwaitLookups == ASSUME SInv, AwaitLookups PROVE SInv'
<1>1. /\ pc = "lookup" /\ pc' = "looked_up" /\ CallFinish /\ loc' = loc /\ loc.lookups = {}
      /\ UNCHANGED <<set, db, how, todo, using_uring, supports_stat, readable, acc>>
  BY DEF AwaitLookups, Search, mainVars, fixedEngine, accessVars
<1>2. LookupOK(loc, Live(eng), db, set.query)
  BY <1>1 DEF SInv, SearchOK, Looking
<1>3. /\ EngOK(eng', Mode) /\ AtOK(eng', at', Mode) /\ Live(eng') = Live(eng)
      /\ (using_uring => at' = "loop") /\ (~using_uring => Live(eng') = {})
  BY <1>1, Basics, CallFinishOK
<1>4. \A b \in Live(eng') : Belongs(b, pc')
  BY <1>1, <1>3 DEF SInv, PcOK, Belongs, Looking, Intersecting, Scanning
<1> QED BY <1>1, <1>2, <1>3, <1>4, Basics, SearchStep DEF Looking, Finishing, Intersecting

LEMMA EmptyCacheType == EmptyCache \in CacheType
<1>1. {} \in SUBSET Name /\ [n \in {} |-> <<>>] \in [{} -> Seq(Call)]
  OBVIOUS
<1>2. [n \in {} |-> <<>>] \in UNION {[N -> Seq(Call)] : N \in SUBSET Name}
  BY <1>1
<1> QED BY <1>2 DEF EmptyCache, CacheType

-----------------------------------------------------------------------------
(* main() and the ends of do_search_file().                                *)

LEMMA StepEnd == ASSUME SInv, NEW h, h # "no_match", End(h) PROVE SInv'
<1>1. /\ pc' = "end" /\ how' = h
      /\ UNCHANGED <<set, db, loc, using_uring, supports_stat, eng, at, readable, acc>>
  BY DEF End, engineVars, accessVars
<1>2. EngOK(eng', Mode') /\ AtOK(eng', at', Mode') /\ Fixed'
  BY <1>1 DEF SInv, Mode, Fixed
<1>3. PcOK' /\ SearchOK'
  BY <1>1 DEF PcOK, SearchOK, Looking, Intersecting
<1>4. ScanInv'
  BY <1>1 DEF SInv, ScanInv, Scanning
<1> QED BY <1>2, <1>3, <1>4 DEF SInv

\* Nothing is left behind for the next database.
LEMMA StepReturn ==
    ASSUME SInv, NEW n, Return(n), pc # "end", at = "out", Live(eng) = {},
           DOMAIN acc.pending_stats = {}
    PROVE  SInv'
<1>1. /\ pc' = "main"
      /\ UNCHANGED <<set, db, how, loc, todo, using_uring, supports_stat, eng, at, readable, acc>>
  BY DEF Return, engineVars, accessVars
<1>2. EngOK(eng', Mode') /\ AtOK(eng', at', Mode') /\ Fixed'
  BY <1>1 DEF SInv, Mode, Fixed
<1>3. how = "running" /\ todo = <<>>
  BY DEF SInv, PcOK
<1>4. PcOK'
  BY <1>1, <1>3 DEF PcOK, Finishing, Scanning
<1>5. SearchOK'
  BY <1>1, <1>3 DEF SearchOK, Looking, Intersecting
<1>6. ScanInv'
  BY <1>1 DEF SInv, ScanInv, Scanning
<1> QED BY <1>2, <1>4, <1>5, <1>6 DEF SInv

\* Only a search has requests under way.
LEMMA NoneAtMain == ASSUME SInv, pc \in {"main", "nothing"} PROVE Live(eng) = {}
<1>1. ASSUME NEW b \in Live(eng) PROVE FALSE
  <2>1. b \in Callback /\ Belongs(b, pc)
    BY Basics DEF SInv, PcOK
  <2>2. b.k \in {"dict", "lookup", "postings", "index", "block", "access", "exists"}
    BY <2>1, CallbackForms
  <2> QED BY <2>1, <2>2 DEF Belongs, Looking, Intersecting, Scanning
<1> QED BY <1>1

LEMMA StepReturns ==
    ASSUME SInv, NothingReadable \/ EarlyExit \/ NoCandidates \/ Scanned
    PROVE  SInv'
<1>1. CASE NothingReadable
  <2>1. pc = "nothing" /\ Return(0)
    BY <1>1 DEF NothingReadable
  <2>2. at = "out" /\ DOMAIN acc.pending_stats = {}
    BY <2>1 DEF SInv, PcOK, Scanning
  <2> QED BY <2>1, <2>2, NoneAtMain, StepReturn
<1>2. CASE EarlyExit \/ NoCandidates
  <2>1. pc \in {"looked_up", "intersected"} /\ Idle /\ Return(0)
    BY <1>2 DEF EarlyExit, NoCandidates
  <2>2. at = "out" /\ Live(eng) = {} /\ DOMAIN acc.pending_stats = {}
    BY <2>1 DEF SInv, PcOK, Scanning, Finishing, Idle
  <2> QED BY <2>1, <2>2, StepReturn
<1>3. CASE Scanned
  <2>1. pc = "scanned" /\ Idle /\ Return(loc.matched)
    BY <1>3 DEF Scanned
  <2>2. at = "out" /\ Live(eng) = {}
    BY <2>1 DEF SInv, PcOK, Finishing, Idle
  <2>3. DOMAIN acc.pending_stats = {HitsOf(loc, db, c[1])[c[2]] : c \in Statted("access", Live(eng))}
    BY <2>1 DEF SInv, ScanInv, Scanning, StatsOK
  <2>4. Statted("access", Live(eng)) = {}
    BY <2>2 DEF Statted
  <2>5. DOMAIN acc.pending_stats = {}
    BY <2>3, <2>4
  <2> QED BY <2>1, <2>2, <2>5, StepReturn
<1> QED BY <1>1, <1>2, <1>3

LEMMA StepEnds ==
    ASSUME SInv, OpenFails \/ MainReturns \/ LimitReached \/ ReadFails
    PROVE  SInv'
<1>1. \E h \in {"error", "returned", "short_read", "limit"} : End(h)
  BY DEF OpenFails, MainReturns, LimitReached, ReadFails
<1>2. PICK h \in {"error", "returned", "short_read", "limit"} : End(h)
  BY <1>1
<1> QED BY <1>2, StepEnd

LEMMA InitOK == Init => SInv
<1> SUFFICES ASSUME Init PROVE SInv
  OBVIOUS
<1>1. /\ set \in Settings /\ readable = set.readable /\ using_uring = set.using_uring
      /\ supports_stat = set.supports_stat /\ eng = EmptyEngine /\ at = "out"
      /\ acc = EmptyCache /\ pc = "main" /\ db = NoDatabase /\ loc = NewSearch
      /\ todo = <<>> /\ how = "running"
  BY DEF Init
<1>2. EngOK(eng, Mode) /\ Live(eng) = {} /\ AtOK(eng, at, Mode)
  BY <1>1, EmptyEngineOK
<1>3. NewSearch \in LocType(set.query)
  <2>1. Of("lookup", {}) = {}
    BY OfNone
  <2> QED BY <1>1, <2>1, NewSearchOK
<1>4. Fixed
  BY <1>1, <1>3 DEF Fixed
<1>5. DOMAIN acc.pending_stats = {} /\ acc.granted = {} /\ acc.denied = {}
  BY <1>1 DEF EmptyCache
<1>6. PcOK /\ SearchOK
  BY <1>1, <1>2, <1>5 DEF PcOK, SearchOK, Finishing, Scanning, Looking, Intersecting
<1>7. EmptyCache \in CacheType
  BY EmptyCacheType
<1>8. ScanInv
  BY <1>1, <1>2, <1>5, <1>7 DEF ScanInv, Scanning
<1> QED BY <1>2, <1>4, <1>6, <1>8 DEF SInv

LEMMA StepOpenDatabase == ASSUME SInv, OpenDatabase PROVE SInv'
<1> DEFINE cb == [k |-> "dict"]
<1>1. PICK d \in Databases :
        /\ Indexed(d) /\ db' = d
        /\ eng' = IF d.dict /\ "/" \in readable THEN submit_read(EmptyEngine, cb) ELSE EmptyEngine
  BY DEF OpenDatabase
<1>2. /\ pc = "main" /\ pc' = (IF "/" \in readable THEN "lookup" ELSE "nothing")
      /\ loc' = NewSearch
      /\ UNCHANGED <<set, todo, how, using_uring, supports_stat, at, readable, acc>>
  BY DEF OpenDatabase, fixedEngine, accessVars
<1>3. cb \in Callback /\ cb.k = "dict" /\ cb.k # "lookup"
  BY DEF Callback
<1> HIDE DEF cb
<1>4. /\ at = "out" /\ how = "running" /\ todo = <<>> /\ DOMAIN acc.pending_stats = {}
  BY <1>2 DEF SInv, PcOK, Scanning
<1>5. EngOK(EmptyEngine, Mode) /\ Live(EmptyEngine) = {} /\ AtOK(EmptyEngine, "out", Mode)
      /\ EmptyEngine.sync = <<>>
  BY EmptyEngineOK DEF EmptyEngine
<1>6. /\ EngOK(eng', Mode) /\ AtOK(eng', "out", Mode) /\ Live(eng') \subseteq {cb}
      /\ pc' = "nothing" => Live(eng') = {}
  <2>1. CASE d.dict /\ "/" \in readable
    <3>1. /\ EngOK(submit_read(EmptyEngine, cb), Mode)
          /\ Live(submit_read(EmptyEngine, cb)) = Live(EmptyEngine) \cup {cb}
          /\ AtOK(submit_read(EmptyEngine, cb), "out", Mode)
      BY <1>3, <1>5, Basics, SubmitReadOK
    <3> QED BY <1>1, <1>2, <1>5, <2>1, <3>1
  <2>2. CASE ~(d.dict /\ "/" \in readable)
    BY <1>1, <1>5, <2>2
  <2> QED BY <2>1, <2>2
<1>7. Of("lookup", Live(eng')) = {}
  BY <1>3, <1>6 DEF Of
<1>8. NewSearch \in LocType(set.query) /\ LookupOK(NewSearch, Live(eng'), d, set.query)
  BY <1>7, Basics, NewSearchOK
<1>9. EngOK(eng', Mode') /\ AtOK(eng', at', Mode')
  BY <1>2, <1>4, <1>6 DEF Mode
<1>10. Fixed'
  BY <1>1, <1>2, <1>8 DEF SInv, Fixed
<1>11. Promise(d, set.query)
  BY <1>1 DEF Indexed, Promise
<1>12. \A b \in Live(eng') : Belongs(b, pc') /\ b.k = "dict"
  BY <1>2, <1>3, <1>6 DEF Belongs, Looking
<1>13. PcOK'
  BY <1>1, <1>2, <1>4, <1>11, <1>12 DEF PcOK, Finishing, Scanning, Looking, Intersecting
<1>14. SearchOK'
  BY <1>1, <1>2, <1>4, <1>8 DEF SearchOK, Looking, Intersecting
<1>15. ScanInv'
  BY <1>2, <1>4, <1>12 DEF SInv, ScanInv, Scanning
<1> QED BY <1>9, <1>10, <1>13, <1>14, <1>15 DEF SInv

-----------------------------------------------------------------------------
(* The loop over the groups.                                               *)

\* A step that reads no list keeps what the lists have shown.
LEMMA SameLists ==
    ASSUME NEW s, NEW L, NEW d, NEW Q, NEW p, PostOK(s, L, d, Q, p),
           NEW u, NEW M, NEW q, u.td = s.td, u.done = s.done, u.cur_candidates = s.cur_candidates,
           s.done \/ Arrived(u, M, q, Q) = Arrived(s, L, p, Q)
    PROVE  Intersected(u, Arrived(u, M, q, Q), d, Q) /\ (u.done => Matches(d) = {})
<1>1. Intersected(s, Arrived(s, L, p, Q), d, Q) /\ (s.done => Matches(d) = {})
  BY DEF PostOK
<1>2. CASE s.done
  BY <1>1, <1>2 DEF Intersected
<1>3. CASE ~s.done
  <2> DEFINE D == Arrived(s, L, p, Q)
  <2>1. Arrived(u, M, q, Q) = D
    BY <1>3
  <2>2. Intersected(s, D, d, Q)
    BY <1>1
  <2> HIDE DEF D
  <2>3. Intersected(u, D, d, Q)
    BY <2>2 DEF Intersected
  <2> QED BY <1>1, <2>1, <2>3
<1> QED BY <1>2, <1>3

LEMMA StepSortGroups == ASSUME SInv, SortGroups PROVE SInv'
<1>1. PICK o \in SetToSeqs(set.query) :
         Search("groups",
                  [loc EXCEPT !.order = o, !.groups = o,
                     !.td = [g \in set.query |->
                        [@[g] EXCEPT !.remaining = Cardinality(loc.td[g].read_trigrams)]]])
  BY DEF SortGroups
<1> DEFINE s == [loc EXCEPT !.order = o, !.groups = o,
                     !.td = [g \in set.query |->
                        [@[g] EXCEPT !.remaining = Cardinality(loc.td[g].read_trigrams)]]]
<1>2. /\ pc = "looked_up" /\ pc' = "groups" /\ at = "out" /\ eng.sync = <<>> /\ loc' = s
      /\ UNCHANGED <<set, db, how, todo, using_uring, supports_stat, readable, acc, eng, at>>
  BY <1>1 DEF SortGroups, Idle, Search, mainVars, fixedEngine, accessVars
<1>3. Live(eng) = {} /\ LookupOK(loc, Live(eng), db, set.query) /\ loc.lookups = {}
  BY <1>2 DEF SInv, PcOK, SearchOK, Looking, Finishing
<1>4. s \in LocType(set.query) /\ PostOK(s, {}, db, set.query, "groups")
  BY <1>3, Basics, GroupsSorted
<1> HIDE DEF s
<1> QED BY <1>2, <1>3, <1>4, Basics, SearchStep DEF Looking, Finishing, Intersecting

\* The first group is read in any case: there are no candidates yet.
LEMMA GroupTaken ==
    ASSUME NEW Q \in Queries, NEW s \in LocType(Q), NEW L, NEW d, PostOK(s, L, d, Q, "groups"),
           s.order # <<>>
    PROVE  LET u == [s EXCEPT !.order = Tail(@), !.reads = s.td[Head(s.order)].read_trigrams]
           IN  u \in LocType(Q) /\ PostOK(u, L, d, Q, "group")
<1> DEFINE g == Head(s.order)
           u == [s EXCEPT !.order = Tail(@), !.reads = s.td[g].read_trigrams]
<1> SUFFICES u \in LocType(Q) /\ PostOK(u, L, d, Q, "group")
  OBVIOUS
<1>1. s.order \in Seq(Q) /\ s.td \in [Q -> GroupType] /\ s.groups \in Seq(Q)
  BY DEF LocType
<1>2. g \in Q /\ Tail(s.order) \in Seq(Q) /\ g = s.order[1] /\ Len(s.order) \in Nat
      /\ Len(Tail(s.order)) = Len(s.order) - 1 /\ Len(s.groups) \in Nat
  BY <1>1
<1>3. s.td[g].read_trigrams \in SUBSET Trgm
  BY <1>1, <1>2 DEF GroupType
<1>4. /\ u \in LocType(Q) /\ u.order = Tail(s.order) /\ u.reads = s.td[g].read_trigrams
      /\ u.td = s.td /\ u.done = s.done /\ u.cur_candidates = s.cur_candidates
      /\ u.groups = s.groups /\ u.submitted = s.submitted /\ u.docids = s.docids
      /\ u.next = s.next /\ u.matched = s.matched /\ u.trgm = s.trgm
  BY <1>2, <1>3 DEF LocType
<1> HIDE DEF u, g
<1>5. GroupsOK(s, d, Q, "groups") /\ Of("postings", L) \subseteq s.submitted
  BY DEF PostOK
<1>6. u.reads = Known(g, d)
  BY <1>2, <1>4, <1>5 DEF GroupsOK
<1>7. Len(u.order) < Len(u.groups)
  BY <1>2, <1>4, <1>5 DEF GroupsOK
<1>8. \A t \in u.submitted \cup u.reads : d.post[t] # {}
  BY <1>4, <1>5, <1>6 DEF GroupsOK, Known
<1>9. ~u.done => Known(u.groups[1], d) \subseteq u.submitted \cup u.reads
  <2>1. CASE Len(s.order) = Len(s.groups)
    BY <1>2, <1>4, <1>5, <1>6, <2>1 DEF GroupsOK
  <2>2. CASE Len(s.order) # Len(s.groups)
    BY <1>2, <1>4, <1>5, <2>2 DEF GroupsOK
  <2> QED BY <2>1, <2>2
<1>10. GroupsOK(u, d, Q, "group")
  BY <1>4, <1>5, <1>7, <1>8, <1>9, <1>1, <1>2 DEF GroupsOK
<1>11. Arrived(u, L, "group", Q) = Arrived(s, L, "groups", Q)
  BY <1>4 DEF Arrived
<1>12. Intersected(u, Arrived(u, L, "group", Q), d, Q) /\ (u.done => Matches(d) = {})
  BY <1>4, <1>11, SameLists
<1> QED BY <1>4, <1>5, <1>10, <1>12 DEF PostOK

LEMMA GroupsLeft ==
    ASSUME NEW Q \in Queries, NEW s \in LocType(Q), NEW L, NEW d, PostOK(s, L, d, Q, "groups"),
           s.cur_candidates # {}
    PROVE  LET u == [s EXCEPT !.order = <<>>]
           IN  u \in LocType(Q) /\ PostOK(u, L, d, Q, "groups")
<1> DEFINE u == [s EXCEPT !.order = <<>>]
<1> SUFFICES u \in LocType(Q) /\ PostOK(u, L, d, Q, "groups")
  OBVIOUS
<1>1. s.order \in Seq(Q) /\ s.groups \in Seq(Q) /\ Len(s.order) \in Nat /\ Len(s.groups) \in Nat
  <2>1. s.order \in Seq(Q) /\ s.groups \in Seq(Q)
    BY DEF LocType
  <2> QED BY <2>1
<1>2. /\ u \in LocType(Q) /\ u.order = <<>> /\ u.reads = s.reads
      /\ u.td = s.td /\ u.done = s.done /\ u.cur_candidates = s.cur_candidates
      /\ u.groups = s.groups /\ u.submitted = s.submitted /\ u.docids = s.docids
      /\ u.next = s.next /\ u.matched = s.matched /\ u.trgm = s.trgm
  <2>1. <<>> \in Seq(Q)
    OBVIOUS
  <2> QED BY <2>1 DEF LocType
<1> HIDE DEF u
<1>3. GroupsOK(s, d, Q, "groups") /\ Of("postings", L) \subseteq s.submitted
  BY DEF PostOK
<1>4. Len(s.order) < Len(s.groups) /\ Len(u.order) = 0 /\ Len(u.groups) >= 1
  BY <1>1, <1>2, <1>3 DEF GroupsOK
<1>5. GroupsOK(u, d, Q, "groups")
  BY <1>1, <1>2, <1>3, <1>4 DEF GroupsOK
<1>6. Arrived(u, L, "groups", Q) = Arrived(s, L, "groups", Q)
  BY <1>2 DEF Arrived
<1>7. Intersected(u, Arrived(u, L, "groups", Q), d, Q) /\ (u.done => Matches(d) = {})
  BY <1>2, <1>6, SameLists
<1> QED BY <1>2, <1>3, <1>5, <1>7 DEF PostOK

\* A step outside the engine, with the same requests under way.
LEMMA StillIntersecting ==
    ASSUME SInv, pc \in {"groups", "group"}, pc' \in {"groups", "group"}, at = "out",
           UNCHANGED <<set, db, how, todo, using_uring, supports_stat, readable, acc, eng, at>>,
           loc' \in LocType(set.query), PostOK(loc', Live(eng), db, set.query, pc')
    PROVE  SInv'
<1>1. \A b \in Live(eng') : Belongs(b, pc')
  BY DEF SInv, PcOK, Belongs, Looking, Intersecting, Scanning
<1>2. pc' \notin Finishing /\ pc' \notin Looking /\ pc' # "looked_up"
  BY DEF Finishing, Looking
<1> QED BY <1>1, <1>2, Basics, SearchStep DEF Intersecting

LEMMA StepNextGroup == ASSUME SInv, NextGroup PROVE SInv'
<1>1. /\ pc = "groups" /\ at = "out" /\ eng.sync = <<>> /\ loc.order # <<>>
      /\ UNCHANGED <<set, db, how, todo, using_uring, supports_stat, readable, acc, eng, at>>
      /\ \/ /\ loc.cur_candidates # {} /\ pc' = "groups"
            /\ loc' = [loc EXCEPT !.order = <<>>]
         \/ /\ pc' = "group"
            /\ loc' = [loc EXCEPT !.order = Tail(@), !.reads = loc.td[Head(loc.order)].read_trigrams]
  BY DEF NextGroup, Idle, Search, mainVars, fixedEngine, accessVars
<1>2. PostOK(loc, Live(eng), db, set.query, "groups")
  BY <1>1 DEF SInv, SearchOK, Intersecting
<1>3. pc' \in {"groups", "group"}
  BY <1>1
<1>4. loc' \in LocType(set.query) /\ PostOK(loc', Live(eng), db, set.query, pc')
  <2>1. CASE /\ loc.cur_candidates # {} /\ pc' = "groups"
             /\ loc' = [loc EXCEPT !.order = <<>>]
    <3>1. /\ [loc EXCEPT !.order = <<>>] \in LocType(set.query)
          /\ PostOK([loc EXCEPT !.order = <<>>], Live(eng), db, set.query, "groups")
      BY <1>2, <2>1, Basics, GroupsLeft
    <3> QED BY <2>1, <3>1
  <2>2. CASE /\ pc' = "group"
             /\ loc' = [loc EXCEPT !.order = Tail(@), !.reads = loc.td[Head(loc.order)].read_trigrams]
    <3> DEFINE u == [loc EXCEPT !.order = Tail(@), !.reads = loc.td[Head(loc.order)].read_trigrams]
    <3>1. u \in LocType(set.query) /\ PostOK(u, Live(eng), db, set.query, "group")
      BY <1>1, <1>2, Basics, GroupTaken
    <3>2. loc' = u
      BY <2>2
    <3> HIDE DEF u
    <3> QED BY <2>2, <3>1, <3>2
  <2> QED BY <1>1, <2>1, <2>2
<1> QED BY <1>1, <1>3, <1>4, StillIntersecting

\* The next step of the loop, with the same local variables.
LEMMA SameLocals ==
    ASSUME NEW Q, NEW s \in LocType(Q), NEW L, NEW d, NEW p, NEW q,
           PostOK(s, L, d, Q, p), p # "groups" \/ s.order = <<>>,
           q \in {"groups", "intersected"} => s.reads = {} \/ s.done,
           q = "intersected" => s.order = <<>>, q # "caught_up",
           s.done \/ Arrived(s, L, q, Q) = Arrived(s, L, p, Q)
    PROVE  PostOK(s, L, d, Q, q)
<1>1. GroupsOK(s, d, Q, p) /\ Of("postings", L) \subseteq s.submitted
  BY DEF PostOK
<1>2. s.order \in Seq(Q) /\ s.groups \in Seq(Q)
  BY DEF LocType
<1>3. Len(s.order) < Len(s.groups) /\ Len(s.order) \in Nat /\ Len(s.groups) \in Nat
  BY <1>1, <1>2 DEF GroupsOK
<1>4. GroupsOK(s, d, Q, q)
  BY <1>1, <1>3 DEF GroupsOK
<1>5. Intersected(s, Arrived(s, L, q, Q), d, Q) /\ (s.done => Matches(d) = {})
  BY SameLists
<1> QED BY <1>1, <1>4, <1>5 DEF PostOK

LEMMA StepGroupDone == ASSUME SInv, GroupDone PROVE SInv'
<1>1. /\ pc = "group" /\ pc' = "groups" /\ at = "out" /\ loc.reads = {} /\ loc' = loc
      /\ UNCHANGED <<set, db, how, todo, using_uring, supports_stat, readable, acc, eng, at>>
  BY DEF GroupDone, Idle, Search, mainVars, fixedEngine, accessVars
<1>2. PostOK(loc, Live(eng), db, set.query, "group")
  BY <1>1 DEF SInv, SearchOK, Intersecting
<1>3. Arrived(loc, Live(eng), "groups", set.query) = Arrived(loc, Live(eng), "group", set.query)
  BY DEF Arrived
<1>4. PostOK(loc, Live(eng), db, set.query, "groups")
  BY <1>1, <1>2, <1>3, Basics, SameLocals
<1> QED BY <1>1, <1>4, Basics, StillIntersecting

LEMMA StepAwaitPostings == ASSUME SInv, AwaitPostings PROVE SInv'
<1>1. /\ pc = "groups" /\ pc' = "intersected" /\ loc.order = <<>> /\ loc' = loc /\ CallFinish
      /\ UNCHANGED <<set, db, how, todo, using_uring, supports_stat, readable, acc>>
  BY DEF AwaitPostings, Search, mainVars, fixedEngine, accessVars
<1>2. PostOK(loc, Live(eng), db, set.query, "groups")
  BY <1>1 DEF SInv, SearchOK, Intersecting
<1>3. Arrived(loc, Live(eng), "groups", set.query) = Arrived(loc, Live(eng), "intersected", set.query)
  BY DEF Arrived
<1>4. loc.reads = {} \/ loc.done
  BY <1>2 DEF PostOK, GroupsOK
<1>5. PostOK(loc, Live(eng), db, set.query, "intersected")
  BY <1>1, <1>2, <1>3, <1>4, Basics, SameLocals
<1>6. /\ EngOK(eng', Mode) /\ AtOK(eng', at', Mode) /\ Live(eng') = Live(eng)
      /\ (using_uring => at' = "loop") /\ (~using_uring => Live(eng') = {})
  BY <1>1, Basics, CallFinishOK
<1>7. \A b \in Live(eng') : Belongs(b, pc')
  BY <1>1, <1>6 DEF SInv, PcOK, Belongs, Looking, Intersecting, Scanning
<1> QED BY <1>1, <1>5, <1>6, <1>7, Basics, SearchStep DEF Looking, Finishing, Intersecting

\* A trigram is visited: q is where the loop goes on, M what is under way then.
LEMMA Visited ==
    ASSUME NEW Q \in Queries, NEW s \in LocType(Q), NEW L, NEW d, PostOK(s, L, d, Q, "group"),
           NEW t \in s.reads, NEW M, NEW q \in {"group", "caught_up"},
           \/ t \in s.submitted /\ q = "group" /\ Of("postings", M) = Of("postings", L)
           \/ t \notin s.submitted /\ q = "group" /\ Of("postings", M) = Of("postings", L) \cup {t}
           \/ t \notin s.submitted /\ q = "caught_up" /\ Of("postings", M) = Of("postings", L)
    PROVE  LET u == [s EXCEPT !.reads = @ \ {t}, !.submitted = @ \cup {t}, !.trgm = t]
           IN  u \in LocType(Q) /\ PostOK(u, M, d, Q, q) /\ t \in Trgm
<1> DEFINE u == [s EXCEPT !.reads = @ \ {t}, !.submitted = @ \cup {t}, !.trgm = t]
<1> SUFFICES u \in LocType(Q) /\ PostOK(u, M, d, Q, q) /\ t \in Trgm
  OBVIOUS
<1>1. /\ s.reads \in SUBSET Trgm /\ s.submitted \in SUBSET Trgm /\ s.order \in Seq(Q)
      /\ s.groups \in Seq(Q)
  BY DEF LocType
<1>2. s.reads \ {t} \in SUBSET Trgm /\ s.submitted \cup {t} \in SUBSET Trgm /\ t \in Trgm
      /\ t \in Trgm \cup {""}
  BY <1>1
<1>3. /\ u \in LocType(Q) /\ u.reads = s.reads \ {t} /\ u.submitted = s.submitted \cup {t}
      /\ u.trgm = t /\ u.order = s.order /\ u.td = s.td /\ u.done = s.done
      /\ u.cur_candidates = s.cur_candidates /\ u.groups = s.groups /\ u.docids = s.docids
      /\ u.next = s.next /\ u.matched = s.matched
  BY <1>2 DEF LocType
<1> HIDE DEF u
<1>4. GroupsOK(s, d, Q, "group") /\ Of("postings", L) \subseteq s.submitted
  BY DEF PostOK
<1>5. Len(s.order) # Len(s.groups) /\ Len(s.order) \in Nat /\ Len(s.groups) \in Nat
  BY <1>1, <1>4 DEF GroupsOK
<1>6. GroupsOK(u, d, Q, q)
  BY <1>3, <1>4, <1>5 DEF GroupsOK
<1>7. Of("postings", M) \subseteq u.submitted /\ (q = "caught_up" => u.trgm \notin Of("postings", M))
  BY <1>3, <1>4
<1>8. u.submitted \ (Of("postings", M) \cup (IF q = "caught_up" THEN {u.trgm} ELSE {}))
        = s.submitted \ Of("postings", L)
  BY <1>3, <1>4
<1>9. Arrived(u, M, q, Q) = Arrived(s, L, "group", Q)
  BY <1>8 DEF Arrived
<1>10. Intersected(u, Arrived(u, M, q, Q), d, Q) /\ (u.done => Matches(d) = {})
  BY <1>3, <1>9, SameLists
<1> QED BY <1>2, <1>3, <1>6, <1>7, <1>10 DEF PostOK

\* A posting list is submitted; it was not under way.
LEMMA PostingsSubmitted ==
    ASSUME SInv, pc \in Intersecting, at = "out", eng.sync = <<>>, pc' = "group",
           UNCHANGED <<set, db, how, todo, using_uring, supports_stat, readable, acc, at>>,
           NEW t \in Trgm, t \notin Of("postings", Live(eng)),
           eng' = submit_read(eng, [k |-> "postings", t |-> t]), loc' \in LocType(set.query),
           PostOK(loc', Live(eng) \cup {[k |-> "postings", t |-> t]}, db, set.query, "group")
    PROVE  SInv'
<1> DEFINE cb == [k |-> "postings", t |-> t]
<1>1. cb \in Callback /\ cb.k = "postings"
  BY DEF Callback
<1>2. cb \notin Live(eng)
  BY DEF Of
<1>3. PostOK(loc', Live(eng) \cup {cb}, db, set.query, "group") /\ eng' = submit_read(eng, cb)
  OBVIOUS
<1> HIDE DEF cb
<1>4. EngOK(eng', Mode) /\ Live(eng') = Live(eng) \cup {cb} /\ AtOK(eng', "out", Mode)
  <2>1. using_uring \in BOOLEAN /\ EngOK(eng, Mode) /\ AtOK(eng, "out", Mode)
    BY Basics
  <2>2. /\ EngOK(submit_read(eng, cb), Mode) /\ Live(submit_read(eng, cb)) = Live(eng) \cup {cb}
        /\ AtOK(submit_read(eng, cb), "out", Mode)
    BY <1>1, <1>2, <2>1, SubmitReadOK
  <2> QED BY <1>3, <2>2
<1>5. \A b \in Live(eng') : Belongs(b, pc')
  BY <1>1, <1>4 DEF SInv, PcOK, Belongs, Looking, Intersecting, Scanning
<1>6. pc' \notin Finishing /\ pc' \notin Looking /\ pc' # "looked_up" /\ pc' \in Intersecting
  BY DEF Finishing, Looking, Intersecting
<1> QED BY <1>3, <1>4, <1>5, <1>6, SearchStep

LEMMA StepReadPostings == ASSUME SInv, ReadPostings PROVE SInv'
<1>1. PICK t \in loc.reads :
           \/ t \in loc.submitted /\ Search("group", Visit(t)) /\ UNCHANGED <<eng, at>>
           \/ t \notin loc.submitted /\ CallFinish /\ Search("caught_up", Visit(t))
           \/ /\ t \notin loc.submitted
              /\ Search("group", Visit(t)) /\ Submit([k |-> "postings", t |-> t])
  BY DEF ReadPostings
<1> DEFINE L == Live(eng)
           cb == [k |-> "postings", t |-> t]
           u == [loc EXCEPT !.reads = @ \ {t}, !.submitted = @ \cup {t}, !.trgm = t]
<1>2. /\ pc = "group" /\ at = "out" /\ eng.sync = <<>> /\ loc' = u
      /\ UNCHANGED <<set, db, how, todo, using_uring, supports_stat, readable, acc>>
  BY <1>1 DEF ReadPostings, Idle, Search, Visit, mainVars, fixedEngine, accessVars
<1>3. PostOK(loc, L, db, set.query, "group") /\ Of("postings", L) \subseteq loc.submitted
  BY <1>2 DEF SInv, SearchOK, Intersecting, PostOK
<1>4. t \in Trgm
  BY Basics DEF LocType
<1>5. CASE t \in loc.submitted /\ Search("group", Visit(t)) /\ UNCHANGED <<eng, at>>
  <2>1. pc' = "group" /\ UNCHANGED <<eng, at>>
    BY <1>5 DEF Search
  <2>2. u \in LocType(set.query) /\ PostOK(u, L, db, set.query, "group")
    BY <1>3, <1>5, Basics, Visited
  <2> HIDE DEF u
  <2> QED BY <1>2, <2>1, <2>2, StillIntersecting
<1>6. CASE t \notin loc.submitted /\ CallFinish /\ Search("caught_up", Visit(t))
  <2>1. pc' = "caught_up" /\ CallFinish
    BY <1>6 DEF Search
  <2>2. u \in LocType(set.query) /\ PostOK(u, L, db, set.query, "caught_up")
    BY <1>3, <1>6, Basics, Visited
  <2> HIDE DEF u
  <2>3. /\ EngOK(eng', Mode) /\ AtOK(eng', at', Mode) /\ Live(eng') = Live(eng)
        /\ (using_uring => at' = "loop") /\ (~using_uring => Live(eng') = {})
    BY <2>1, Basics, CallFinishOK
  <2>4. \A b \in Live(eng') : Belongs(b, pc')
    BY <1>2, <2>1, <2>3 DEF SInv, PcOK, Belongs, Looking, Intersecting, Scanning
  <2> QED BY <1>2, <2>1, <2>2, <2>3, <2>4, Basics, SearchStep DEF Looking, Finishing, Intersecting
<1>7. CASE /\ t \notin loc.submitted
           /\ Search("group", Visit(t)) /\ Submit([k |-> "postings", t |-> t])
  <2>1. pc' = "group" /\ UNCHANGED at /\ eng' = submit_read(eng, cb)
    BY <1>7 DEF Search, Submit
  <2>2. Of("postings", L \cup {cb}) = Of("postings", L) \cup {t}
    BY <1>4, OfFacts
  <2>3. u \in LocType(set.query) /\ PostOK(u, L \cup {cb}, db, set.query, "group")
    <3> DEFINE M == L \cup {cb}
    <3>1. Of("postings", M) = Of("postings", L) \cup {t}
      BY <2>2
    <3> SUFFICES u \in LocType(set.query) /\ PostOK(u, M, db, set.query, "group")
      OBVIOUS
    <3> HIDE DEF M
    <3> QED BY <1>3, <1>7, <3>1, Basics, Visited
  <2>4. t \notin Of("postings", Live(eng))
    BY <1>3, <1>7
  <2> HIDE DEF u
  <2> QED BY <1>2, <1>4, <2>1, <2>3, <2>4, PostingsSubmitted DEF Intersecting
<1> QED BY <1>1, <1>5, <1>6, <1>7

LEMMA StepCaughtUp == ASSUME SInv, CaughtUp PROVE SInv'
<1> DEFINE L == Live(eng)
           t == loc.trgm
           cb == [k |-> "postings", t |-> loc.trgm]
<1>1. /\ pc = "caught_up" /\ at = "out" /\ eng.sync = <<>> /\ loc' = loc
      /\ UNCHANGED <<set, db, how, todo, using_uring, supports_stat, readable, acc, at>>
      /\ IF loc.done THEN pc' = "groups" /\ UNCHANGED eng
         ELSE pc' = "group" /\ eng' = submit_read(eng, cb)
  BY DEF CaughtUp, Submit, Idle, Search, mainVars, fixedEngine, accessVars
<1>2. PostOK(loc, L, db, set.query, "caught_up") /\ L = {}
  BY <1>1 DEF SInv, SearchOK, PcOK, Intersecting, Finishing
<1>3. CASE loc.done
  <2>1. PostOK(loc, L, db, set.query, "groups")
    BY <1>2, <1>3, Basics, SameLocals
  <2>2. \A b \in Live(eng') : Belongs(b, pc')
    BY <1>1, <1>2, <1>3
  <2> QED BY <1>1, <1>3, <2>1, <2>2, Basics, SearchStep DEF Looking, Finishing, Intersecting
<1>4. CASE ~loc.done
  <2>1. /\ loc.trgm \in loc.submitted /\ loc.trgm \notin Of("postings", L)
        /\ GroupsOK(loc, db, set.query, "caught_up")
        /\ Of("postings", L) \subseteq loc.submitted
    BY <1>2 DEF PostOK
  <2>2. loc.trgm \in Trgm /\ loc.order \in Seq(set.query) /\ loc.groups \in Seq(set.query)
    BY <2>1, Basics DEF LocType
  <2>3. Of("postings", L \cup {cb}) = Of("postings", L) \cup {loc.trgm}
    BY <2>2, OfFacts
  <2>4. Len(loc.order) # Len(loc.groups)
    BY <2>1 DEF GroupsOK
  <2>5. GroupsOK(loc, db, set.query, "group")
    BY <2>1, <2>4 DEF GroupsOK
  <2>6. Arrived(loc, L \cup {cb}, "group", set.query) = Arrived(loc, L, "caught_up", set.query)
    BY <2>3 DEF Arrived
  <2>7. /\ Intersected(loc, Arrived(loc, L \cup {cb}, "group", set.query), db, set.query)
        /\ (loc.done => Matches(db) = {})
    BY <1>2, <2>6, SameLists
  <2>8. PostOK(loc, L \cup {cb}, db, set.query, "group")
    BY <2>1, <2>3, <2>5, <2>7 DEF PostOK
  <2> QED BY <1>1, <1>4, <2>1, <2>2, <2>8, Basics, PostingsSubmitted DEF Intersecting
<1> QED BY <1>3, <1>4

-----------------------------------------------------------------------------
(* The scan: queues of calls and their places.                             *)

LEMMA PlacesTail ==
    ASSUME NEW q \in Seq(Call), q # <<>>
    PROVE  /\ Tail(q) \in Seq(Call) /\ Head(q) \in Call /\ Head(q) \in InQueue(q)
           /\ InQueue(Tail(q)) \subseteq InQueue(q)
           /\ PlacesIn(q) = PlacesIn(Tail(q)) \cup {<<Head(q).i, Head(q).j>>}
           /\ OncePerPlace(q) => /\ OncePerPlace(Tail(q))
                                 /\ <<Head(q).i, Head(q).j>> \notin PlacesIn(Tail(q))
<1>1. /\ Tail(q) \in Seq(Call) /\ Head(q) = q[1] /\ Len(Tail(q)) = Len(q) - 1 /\ Len(q) >= 1
      /\ \A i \in 1 .. Len(q) - 1 : Tail(q)[i] = q[i + 1] /\ i + 1 \in 1 .. Len(q)
      /\ DOMAIN q = 1 .. Len(q) /\ DOMAIN Tail(q) = 1 .. Len(q) - 1 /\ Len(q) \in Nat
      /\ 1 \in 1 .. Len(q) /\ Head(q) \in Call
  OBVIOUS
<1>2. ASSUME NEW i \in 1 .. Len(q), i # 1 PROVE q[i] = Tail(q)[i - 1] /\ i - 1 \in 1 .. Len(q) - 1
  BY <1>1, <1>2
<1>3. InQueue(Tail(q)) \subseteq InQueue(q) /\ Head(q) \in InQueue(q)
  BY <1>1 DEF InQueue
<1>4. PlacesIn(q) \subseteq PlacesIn(Tail(q)) \cup {<<Head(q).i, Head(q).j>>}
  <2> SUFFICES ASSUME NEW m \in DOMAIN q
               PROVE  <<q[m].i, q[m].j>> \in PlacesIn(Tail(q)) \cup {<<Head(q).i, Head(q).j>>}
    BY DEF PlacesIn
  <2>1. CASE m = 1
    BY <1>1, <2>1
  <2>2. CASE m # 1
    <3>1. q[m] = Tail(q)[m - 1] /\ m - 1 \in DOMAIN Tail(q)
      BY <1>1, <1>2, <2>2
    <3> QED BY <3>1 DEF PlacesIn
  <2> QED BY <2>1, <2>2
<1>5. PlacesIn(Tail(q)) \cup {<<Head(q).i, Head(q).j>>} \subseteq PlacesIn(q)
  <2>1. ASSUME NEW m \in DOMAIN Tail(q)
        PROVE  <<Tail(q)[m].i, Tail(q)[m].j>> \in PlacesIn(q)
    <3>1. Tail(q)[m] = q[m + 1] /\ m + 1 \in DOMAIN q
      BY <1>1
    <3> QED BY <3>1 DEF PlacesIn
  <2>2. <<Head(q).i, Head(q).j>> \in PlacesIn(q)
    BY <1>1 DEF PlacesIn
  <2> QED BY <2>1, <2>2 DEF PlacesIn
<1>6. ASSUME OncePerPlace(q)
      PROVE  OncePerPlace(Tail(q)) /\ <<Head(q).i, Head(q).j>> \notin PlacesIn(Tail(q))
  <2>1. ASSUME NEW m \in DOMAIN Tail(q), NEW n \in DOMAIN Tail(q),
               Tail(q)[m].i = Tail(q)[n].i, Tail(q)[m].j = Tail(q)[n].j
        PROVE  m = n
    <3>1. /\ Tail(q)[m] = q[m + 1] /\ m + 1 \in DOMAIN q /\ m \in Nat
          /\ Tail(q)[n] = q[n + 1] /\ n + 1 \in DOMAIN q /\ n \in Nat
      BY <1>1
    <3>2. m + 1 = n + 1
      BY <1>6, <2>1, <3>1 DEF OncePerPlace
    <3> QED BY <3>1, <3>2
  <2>2. ASSUME NEW m \in DOMAIN Tail(q), Tail(q)[m].i = Head(q).i, Tail(q)[m].j = Head(q).j
        PROVE  FALSE
    <3>1. Tail(q)[m] = q[m + 1] /\ m + 1 \in DOMAIN q /\ m >= 1 /\ m \in Nat
      BY <1>1
    <3>2. m + 1 = 1
      BY <1>1, <1>6, <2>2, <3>1 DEF OncePerPlace
    <3> QED BY <3>1, <3>2
  <2> QED BY <2>1, <2>2 DEF OncePerPlace, PlacesIn
<1> QED BY <1>1, <1>3, <1>4, <1>5, <1>6

LEMMA PlacesCons ==
    ASSUME NEW q \in Seq(Call), NEW c \in Call
    PROVE  /\ <<c>> \o q \in Seq(Call) /\ InQueue(<<c>> \o q) = InQueue(q) \cup {c}
           /\ PlacesIn(<<c>> \o q) = PlacesIn(q) \cup {<<c.i, c.j>>}
           /\ OncePerPlace(q) /\ <<c.i, c.j>> \notin PlacesIn(q) => OncePerPlace(<<c>> \o q)
<1> DEFINE u == <<c>> \o q
<1> SUFFICES /\ u \in Seq(Call) /\ InQueue(u) = InQueue(q) \cup {c}
             /\ PlacesIn(u) = PlacesIn(q) \cup {<<c.i, c.j>>}
             /\ OncePerPlace(q) /\ <<c.i, c.j>> \notin PlacesIn(q) => OncePerPlace(u)
  OBVIOUS
<1>1. /\ u \in Seq(Call) /\ u[1] = c /\ Len(u) = Len(q) + 1 /\ Len(q) \in Nat
      /\ \A i \in 1 .. Len(q) : u[i + 1] = q[i] /\ i + 1 \in 1 .. Len(q) + 1
      /\ DOMAIN q = 1 .. Len(q) /\ DOMAIN u = 1 .. Len(q) + 1 /\ 1 \in 1 .. Len(q) + 1
  OBVIOUS
<1> HIDE DEF u
<1>2. ASSUME NEW i \in DOMAIN u, i # 1 PROVE u[i] = q[i - 1] /\ i - 1 \in DOMAIN q
  BY <1>1, <1>2
<1>3. ASSUME NEW i \in DOMAIN q PROVE u[i + 1] = q[i] /\ i + 1 \in DOMAIN u
  BY <1>1
<1>4. InQueue(u) = InQueue(q) \cup {c}
  <2>1. ASSUME NEW i \in DOMAIN u PROVE u[i] \in InQueue(q) \cup {c}
    BY <1>1, <1>2 DEF InQueue
  <2>2. ASSUME NEW i \in DOMAIN q PROVE q[i] \in InQueue(u)
    BY <1>3 DEF InQueue
  <2>3. c \in InQueue(u)
    BY <1>1 DEF InQueue
  <2> QED BY <2>1, <2>2, <2>3 DEF InQueue
<1>5. PlacesIn(u) = PlacesIn(q) \cup {<<c.i, c.j>>}
  <2>1. ASSUME NEW i \in DOMAIN u PROVE <<u[i].i, u[i].j>> \in PlacesIn(q) \cup {<<c.i, c.j>>}
    BY <1>1, <1>2 DEF PlacesIn
  <2>2. ASSUME NEW i \in DOMAIN q PROVE <<q[i].i, q[i].j>> \in PlacesIn(u)
    BY <1>3 DEF PlacesIn
  <2>3. <<c.i, c.j>> \in PlacesIn(u)
    BY <1>1 DEF PlacesIn
  <2> QED BY <2>1, <2>2, <2>3 DEF PlacesIn
<1>6. ASSUME OncePerPlace(q), <<c.i, c.j>> \notin PlacesIn(q) PROVE OncePerPlace(u)
  <2> SUFFICES ASSUME NEW m \in DOMAIN u, NEW n \in DOMAIN u, u[m].i = u[n].i, u[m].j = u[n].j
               PROVE  m = n
    BY DEF OncePerPlace
  <2>1. \A i \in DOMAIN q : q[i].i # c.i \/ q[i].j # c.j
    BY <1>6 DEF PlacesIn
  <2>2. m \in Nat /\ n \in Nat
    BY <1>1
  <2>3. CASE m # 1 /\ n # 1
    <3>1. u[m] = q[m - 1] /\ m - 1 \in DOMAIN q /\ u[n] = q[n - 1] /\ n - 1 \in DOMAIN q
      BY <1>2, <2>3
    <3>2. m - 1 = n - 1
      BY <1>6, <3>1 DEF OncePerPlace
    <3> QED BY <2>2, <3>2
  <2>4. CASE m = 1 /\ n # 1
    <3>1. u[n] = q[n - 1] /\ n - 1 \in DOMAIN q /\ u[m] = c
      BY <1>1, <1>2, <2>4
    <3> QED BY <2>1, <3>1
  <2>5. CASE m # 1 /\ n = 1
    <3>1. u[m] = q[m - 1] /\ m - 1 \in DOMAIN q /\ u[n] = c
      BY <1>1, <1>2, <2>5
    <3> QED BY <2>1, <3>1
  <2> QED BY <2>3, <2>4, <2>5
<1> QED BY <1>1, <1>4, <1>5, <1>6

LEMMA PlacesAppend ==
    ASSUME NEW q \in Seq(Call), NEW c \in Call
    PROVE  /\ Append(q, c) \in Seq(Call) /\ InQueue(Append(q, c)) = InQueue(q) \cup {c}
           /\ PlacesIn(Append(q, c)) = PlacesIn(q) \cup {<<c.i, c.j>>}
           /\ OncePerPlace(q) /\ <<c.i, c.j>> \notin PlacesIn(q) => OncePerPlace(Append(q, c))
<1>1. /\ Append(q, c) \in Seq(Call) /\ Len(Append(q, c)) = Len(q) + 1
      /\ Append(q, c)[Len(q) + 1] = c /\ \A i \in 1 .. Len(q) : Append(q, c)[i] = q[i]
      /\ DOMAIN q = 1 .. Len(q) /\ DOMAIN Append(q, c) = 1 .. Len(q) + 1 /\ Len(q) \in Nat
  OBVIOUS
<1>2. InQueue(Append(q, c)) = InQueue(q) \cup {c}
  BY AppendFacts
<1>3. PlacesIn(Append(q, c)) = PlacesIn(q) \cup {<<c.i, c.j>>}
  <2>1. ASSUME NEW i \in DOMAIN Append(q, c)
        PROVE  <<Append(q, c)[i].i, Append(q, c)[i].j>> \in PlacesIn(q) \cup {<<c.i, c.j>>}
    BY <1>1 DEF PlacesIn
  <2>2. ASSUME NEW i \in DOMAIN q PROVE <<q[i].i, q[i].j>> \in PlacesIn(Append(q, c))
    <3>1. i \in DOMAIN Append(q, c) /\ Append(q, c)[i] = q[i]
      BY <1>1
    <3> QED BY <3>1 DEF PlacesIn
  <2>3. <<c.i, c.j>> \in PlacesIn(Append(q, c))
    <3>1. Len(q) + 1 \in DOMAIN Append(q, c)
      BY <1>1
    <3> QED BY <1>1, <3>1 DEF PlacesIn
  <2> QED BY <2>1, <2>2, <2>3 DEF PlacesIn
<1>4. ASSUME OncePerPlace(q), <<c.i, c.j>> \notin PlacesIn(q) PROVE OncePerPlace(Append(q, c))
  <2>1. \A i \in DOMAIN q : q[i].i # c.i \/ q[i].j # c.j
    BY <1>4 DEF PlacesIn
  <2> QED BY <1>1, <1>4, <2>1 DEF OncePerPlace
<1> QED BY <1>1, <1>2, <1>3, <1>4

-----------------------------------------------------------------------------
(* The scan: what is under way.                                            *)

IsStat(cb, kind, i, j) == cb = [k |-> kind, i |-> i, j |-> j]
StatMoves(L, kind, i, j, cb) ==
    /\ Statted(kind, L \cup {cb}) = Statted(kind, L) \cup {<<i, j>>}
    /\ Statted(kind, L \ {cb}) = Statted(kind, L) \ {<<i, j>>}
    /\ cb \in L <=> <<i, j>> \in Statted(kind, L)
    /\ cb \in Callback /\ cb.k = kind
LEMMA StattedFacts ==
    ASSUME NEW L \in SUBSET Callback, NEW kind \in {"access", "exists"},
           NEW i \in Nat, NEW j \in Nat, NEW cb, IsStat(cb, kind, i, j)
    PROVE  StatMoves(L, kind, i, j, cb)
<1>0. cb = [k |-> kind, i |-> i, j |-> j]
  BY DEF IsStat
<1>1. cb \in Callback /\ cb.k = kind /\ cb.i = i /\ cb.j = j
  BY <1>0 DEF Callback
<1>2. \A b \in L : b.k = kind => b = [k |-> kind, i |-> b.i, j |-> b.j]
  BY CallbackForms
<1>3. \A b \in L : b.k = kind /\ b.i = i /\ b.j = j => b = cb
  BY <1>0, <1>2
<1>4. Statted(kind, L \cup {cb}) = Statted(kind, L) \cup {<<i, j>>}
  BY <1>1 DEF Statted
<1>5. cb \in L <=> <<i, j>> \in Statted(kind, L)
  BY <1>1, <1>3 DEF Statted
<1>6. Statted(kind, L \ {cb}) = Statted(kind, L) \ {<<i, j>>}
  BY <1>1, <1>3 DEF Statted
<1> QED BY <1>1, <1>4, <1>5, <1>6 DEF StatMoves

LEMMA StattedOthers ==
    ASSUME NEW L, NEW kind, NEW cb, cb.k # kind
    PROVE  Statted(kind, L \cup {cb}) = Statted(kind, L) /\ Statted(kind, L \ {cb}) = Statted(kind, L)
BY DEF Statted

LEMMA UnreadOthers ==
    ASSUME NEW s, NEW L, NEW cb, cb.k \notin {"index", "block"}
    PROVE  Unread(s, L \cup {cb}) = Unread(s, L) /\ Unread(s, L \ {cb}) = Unread(s, L)
<1>1. \A i \in Nat : cb # [k |-> "index", i |-> i] /\ cb # [k |-> "block", i |-> i]
  OBVIOUS
<1> QED BY <1>1 DEF Unread

\* What a step of the scan has to keep.
LEMMA ScanStep ==
    ASSUME SInv, pc \in Scanning, pc' \in Scanning,
           UNCHANGED <<set, db, how, using_uring, supports_stat, readable>>,
           EngOK(eng', Mode), AtOK(eng', at', Mode), loc' \in LocType(set.query),
           \A b \in Live(eng') : Belongs(b, pc'), at' # "callback" => todo' = <<>>,
           using_uring /\ at' # "out" => pc' = "scanned",
           at' = "out" /\ eng'.sync = <<>> /\ pc' = "scanned" => Live(eng') = {},
           acc' \in CacheType, acc'.granted \subseteq readable, acc'.denied \cap readable = {},
           ScanOK(loc', Live(eng'), db, todo', acc'), StatsOK(loc', Live(eng'), db, acc'),
           pc' = "scanned" => loc'.next > Len(loc'.docids),
           ~supports_stat => /\ DOMAIN acc'.pending_stats = {}
                             /\ \A b \in Live(eng') : b.k \notin {"access", "exists"}
    PROVE  SInv'
<1> USE DEF Scanning
<1>1. EngOK(eng', Mode') /\ AtOK(eng', at', Mode')
  BY DEF Mode
<1>2. Fixed'
  BY DEF SInv, Fixed
<1>3. how = "running" /\ db \in Databases /\ Promise(db, set.query)
  BY DEF SInv, PcOK
<1>4. PcOK'
  BY <1>3 DEF PcOK, Finishing
<1>5. SearchOK'
  BY <1>3 DEF SearchOK, Looking, Intersecting
<1>6. ScanInv'
  BY DEF ScanInv
<1> QED BY <1>1, <1>2, <1>4, <1>5, <1>6 DEF SInv

LEMMA ScanFacts ==
    ASSUME SInv, pc \in Scanning
    PROVE  /\ ScanOK(loc, Live(eng), db, todo, acc) /\ StatsOK(loc, Live(eng), db, acc)
           /\ acc \in CacheType /\ acc.granted \subseteq readable /\ acc.denied \cap readable = {}
           /\ pc = "scanned" => loc.next > Len(loc.docids)
           /\ ~supports_stat => /\ DOMAIN acc.pending_stats = {}
                                /\ \A b \in Live(eng) : b.k \notin {"access", "exists"}
           /\ at # "callback" => todo = <<>>
           /\ using_uring /\ at # "out" => pc = "scanned"
           /\ at = "out" /\ eng.sync = <<>> /\ pc = "scanned" => Live(eng) = {}
           /\ \A b \in Live(eng) : Belongs(b, pc)
           /\ db \in Databases
<1> USE DEF Scanning
<1>1. PcOK /\ ScanInv
  BY DEF SInv
<1> QED BY <1>1 DEF PcOK, ScanInv, Finishing

\* scan_docids() starts with nothing under way.
LEMMA ScanStarts ==
    ASSUME NEW s, NEW d, s.next = 1, Len(s.docids) \in Nat
    PROVE  ScanOK(s, {}, d, <<>>, EmptyCache) /\ StatsOK(s, {}, d, EmptyCache)
<1>1. EmptyCache.pending_stats = [n \in {} |-> <<>>] /\ DOMAIN EmptyCache.pending_stats = {}
  BY DEF EmptyCache
<1>2. <<>> \in Seq(Call) /\ EmptyCache \in CacheType /\ DOMAIN (<<>>) = {}
  BY EmptyCacheType
<1>3. PlacesIn(<<>>) = {} /\ OncePerPlace(<<>>)
  BY <1>2 DEF PlacesIn, OncePerPlace
<1>4. PlacesWaiting(EmptyCache.pending_stats) = {}
  BY <1>1 DEF PlacesWaiting
<1>5. Statted("access", {}) = {} /\ Statted("exists", {}) = {}
  BY DEF Statted
<1>6. ScanOK(s, {}, d, <<>>, EmptyCache)
  BY <1>1, <1>2, <1>3, <1>4, <1>5 DEF ScanOK
<1>7. StatsOK(s, {}, d, EmptyCache)
  BY <1>1, <1>5 DEF StatsOK
<1> QED BY <1>6, <1>7

LEMMA StepStartScan == ASSUME SInv, StartScan PROVE SInv'
<1>1. PICK o \in SetToSeqs(loc.cur_candidates) : loc' = [loc EXCEPT !.docids = o]
  BY DEF StartScan
<1>2. /\ pc = "intersected" /\ pc' = "scan" /\ at = "out" /\ eng.sync = <<>>
      /\ acc' = EmptyCache
      /\ UNCHANGED <<set, db, how, todo, using_uring, supports_stat, eng, at, readable>>
  BY DEF StartScan, Idle, mainVars, engineVars
<1>3. /\ Live(eng) = {} /\ how = "running" /\ todo = <<>>
      /\ db \in Databases /\ Promise(db, set.query)
  BY <1>2 DEF SInv, PcOK, Finishing, Scanning
<1>4. loc.next = 1
  BY <1>2 DEF SInv, SearchOK, Intersecting, PostOK, GroupsOK
<1>5. loc.cur_candidates \subseteq Docs
  BY Basics DEF LocType
<1>6. IsFiniteSet(loc.cur_candidates)
  <2>1. IsFiniteSet(Docs)
    <3>1. NumDocs - 1 \in Int
      BY SearchAssumption
    <3> QED BY <3>1, FS_Interval DEF Docs
  <2> QED BY <1>5, <2>1, FS_Subset
<1>7. o \in Seq(Docs) /\ Len(o) \in Nat
  <2>1. o \in Seq(loc.cur_candidates)
    BY <1>6, OrderOf
  <2> QED BY <1>5, <2>1
<1>8. loc' \in LocType(set.query) /\ loc'.next = 1 /\ loc'.docids = o
  BY <1>1, <1>4, <1>7, Basics DEF LocType
<1>9. ScanOK(loc', {}, db, <<>>, EmptyCache) /\ StatsOK(loc', {}, db, EmptyCache)
  BY <1>7, <1>8, ScanStarts
<1>10. EngOK(eng', Mode') /\ AtOK(eng', at', Mode')
  BY <1>2, Basics DEF Mode
<1>11. Fixed'
  BY <1>2, <1>8 DEF SInv, Fixed
<1>12. PcOK'
  BY <1>2, <1>3 DEF PcOK, Scanning, Finishing
<1>13. SearchOK'
  BY <1>2, <1>3 DEF SearchOK, Looking, Intersecting
<1>14. EmptyCache.granted = {} /\ EmptyCache.denied = {} /\ DOMAIN EmptyCache.pending_stats = {}
  BY DEF EmptyCache
<1>15. ScanInv'
  BY <1>2, <1>3, <1>9, <1>14, EmptyCacheType DEF ScanInv
<1> QED BY <1>10, <1>11, <1>12, <1>13, <1>15 DEF SInv

\* A step that moves no name: only the blocks under way change.
LEMMA NamesStay ==
    ASSUME NEW s, NEW L, NEW d, NEW calls, NEW a, ScanOK(s, L, d, calls, a), StatsOK(s, L, d, a),
           NEW u, NEW M, u.docids = s.docids, u.next \in 1 .. Len(u.docids) + 1,
           Unread(u, M) \subseteq Unread(s, L),
           Statted("access", M) = Statted("access", L), Statted("exists", M) = Statted("exists", L),
           \A b \in M : /\ b.k \in {"index", "block"} => b.i \in 1 .. u.next - 1
                        /\ b.k = "block" => [k |-> "index", i |-> b.i] \notin M
    PROVE  ScanOK(u, M, d, calls, a) /\ StatsOK(u, M, d, a)
<1>1. \A i : HitsOf(u, d, i) = HitsOf(s, d, i)
  BY DEF HitsOf
<1>2. \A c : Place(u, d, c) <=> Place(s, d, c)
  BY <1>1 DEF Place
<1>3. \A c : NamePlace(u, d, c) <=> NamePlace(s, d, c)
  BY <1>1 DEF NamePlace
<1>4. \A c \in PlacesIn(calls) : Place(u, d, c) /\ c[1] \notin Unread(u, M)
  BY <1>2 DEF ScanOK
<1>5. \A c \in PlacesWaiting(a.pending_stats) \cup Statted("access", M) \cup Statted("exists", M) :
        NamePlace(u, d, c) /\ c[1] \notin Unread(u, M)
  BY <1>3 DEF ScanOK
<1>6. \A m \in DOMAIN calls : calls[m].do # "print" =>
               NamePlace(u, d, <<calls[m].i, calls[m].j>>) /\ calls[m].ok
  BY <1>3 DEF ScanOK
<1>7. ScanOK(u, M, d, calls, a)
  BY <1>4, <1>5, <1>6 DEF ScanOK
<1>8. StatsOK(u, M, d, a)
  BY <1>1 DEF StatsOK
<1> QED BY <1>7, <1>8

LEMMA StepGetBlock == ASSUME SInv, get_compressed_filename_block PROVE SInv'
<1> DEFINE i == loc.next
           cb == [k |-> "index", i |-> i]
           L == Live(eng)
           u == [loc EXCEPT !.next = @ + 1]
           M == L \cup {cb}
<1>1. /\ pc = "scan" /\ pc' = "scan" /\ at = "out" /\ eng.sync = <<>> /\ loc.next <= Len(loc.docids)
      /\ loc' = u /\ eng' = submit_read(eng, cb)
      /\ UNCHANGED <<set, db, how, todo, using_uring, supports_stat, readable, acc, at>>
  BY DEF get_compressed_filename_block, Idle, Search, Submit, mainVars, fixedEngine, accessVars
<1>2. pc \in Scanning
  BY <1>1 DEF Scanning
<1>3. ScanOK(loc, L, db, todo, acc) /\ StatsOK(loc, L, db, acc)
  BY <1>2, ScanFacts
<1>4. i \in Nat /\ loc.docids \in Seq(Docs)
  BY Basics DEF LocType
<1>5. Len(loc.docids) \in Nat /\ i \in 1 .. Len(loc.docids)
  <2>1. i \in 1 .. Len(loc.docids) + 1
    BY <1>3 DEF ScanOK
  <2>2. Len(loc.docids) \in Nat
    BY <1>4
  <2> QED BY <1>1, <2>1, <2>2
<1>6. u \in LocType(set.query) /\ u.next = i + 1 /\ u.docids = loc.docids
  <2>1. i + 1 \in Nat
    BY <1>4
  <2> QED BY <2>1, Basics DEF LocType
<1>7. cb \in Callback /\ cb.k = "index" /\ cb.i = i
  BY <1>4 DEF Callback
<1>8. \A b \in L : b.k \in {"index", "block"} => b.i \in 1 .. i - 1
  BY <1>3 DEF ScanOK
<1>9. cb \notin L
  BY <1>4, <1>7, <1>8
<1> HIDE DEF cb, u
<1>10. Statted("access", M) = Statted("access", L) /\ Statted("exists", M) = Statted("exists", L)
  BY <1>7, StattedOthers
<1>11. Unread(u, M) \subseteq Unread(loc, L)
  BY <1>4, <1>6 DEF Unread, cb
<1>12. \A b \in M : /\ b.k \in {"index", "block"} => b.i \in 1 .. u.next - 1
                    /\ b.k = "block" => [k |-> "index", i |-> b.i] \notin M
  <2> SUFFICES ASSUME NEW b \in M, b.k \in {"index", "block"}
               PROVE  /\ b.i \in 1 .. u.next - 1
                      /\ b.k = "block" => [k |-> "index", i |-> b.i] \notin M
    OBVIOUS
  <2>1. CASE b = cb
    BY <1>4, <1>5, <1>6, <1>7, <2>1
  <2>2. CASE b \in L
    <3>1. b.i \in 1 .. i - 1 /\ (b.k = "block" => [k |-> "index", i |-> b.i] \notin L)
      BY <1>3, <1>8, <2>2 DEF ScanOK
    <3>2. [k |-> "index", i |-> b.i] # cb
      BY <1>4, <3>1 DEF cb
    <3> QED BY <1>4, <1>6, <3>1, <3>2
  <2> QED BY <2>1, <2>2
<1>13. u.next \in 1 .. Len(u.docids) + 1
  BY <1>5, <1>6
<1>14. ScanOK(u, M, db, todo, acc) /\ StatsOK(u, M, db, acc)
  <2> HIDE DEF M, L
  <2> QED BY <1>3, <1>6, <1>10, <1>11, <1>12, <1>13, NamesStay
<1>15. EngOK(eng', Mode) /\ Live(eng') = M /\ AtOK(eng', "out", Mode)
  <2>1. using_uring \in BOOLEAN /\ EngOK(eng, Mode) /\ AtOK(eng, "out", Mode)
    BY <1>1, Basics
  <2>2. /\ EngOK(submit_read(eng, cb), Mode) /\ Live(submit_read(eng, cb)) = Live(eng) \cup {cb}
        /\ AtOK(submit_read(eng, cb), "out", Mode)
    BY <1>1, <1>7, <1>9, <2>1, SubmitReadOK
  <2> QED BY <1>1, <2>2
<1>16. \A b \in M : Belongs(b, pc') /\ (~supports_stat => b.k \notin {"access", "exists"})
  BY <1>1, <1>2, <1>7, ScanFacts DEF Belongs, Scanning
<1> HIDE DEF M, L
<1>17. pc' \in Scanning /\ pc' # "scanned"
  BY <1>1 DEF Scanning
<1>18. /\ acc \in CacheType /\ acc.granted \subseteq readable /\ acc.denied \cap readable = {}
       /\ (~supports_stat => DOMAIN acc.pending_stats = {}) /\ (at # "callback" => todo = <<>>)
  BY <1>2, ScanFacts
<1> QED BY <1>1, <1>2, <1>6, <1>14, <1>15, <1>16, <1>17, <1>18, ScanStep

LEMMA StepAwaitBlocks == ASSUME SInv, AwaitBlocks PROVE SInv'
<1>1. /\ pc = "scan" /\ pc' = "scanned" /\ loc.next > Len(loc.docids) /\ CallFinish /\ loc' = loc
      /\ UNCHANGED <<set, db, how, todo, using_uring, supports_stat, readable, acc>>
  BY DEF AwaitBlocks, Search, mainVars, fixedEngine, accessVars
<1>2. pc \in Scanning /\ pc' \in Scanning
  BY <1>1 DEF Scanning
<1>3. /\ EngOK(eng', Mode) /\ AtOK(eng', at', Mode) /\ Live(eng') = Live(eng)
      /\ (using_uring => at' = "loop") /\ (~using_uring => Live(eng') = {})
      /\ at' \in {"loop", "out"}
  BY <1>1, Basics, CallFinishOK
<1>4. at = "out"
  BY <1>1 DEF CallFinish, Idle
<1>5. \A b \in Live(eng') : Belongs(b, pc')
  BY <1>1, <1>2, <1>3, ScanFacts DEF Belongs, Scanning, Looking, Intersecting
<1>6. /\ ScanOK(loc, Live(eng), db, todo, acc) /\ StatsOK(loc, Live(eng), db, acc)
      /\ acc \in CacheType /\ acc.granted \subseteq readable /\ acc.denied \cap readable = {}
      /\ todo = <<>>
      /\ ~supports_stat => /\ DOMAIN acc.pending_stats = {}
                           /\ \A b \in Live(eng) : b.k \notin {"access", "exists"}
  BY <1>2, <1>4, ScanFacts
<1> QED BY <1>1, <1>2, <1>3, <1>5, <1>6, Basics, ScanStep

-----------------------------------------------------------------------------
(* The callbacks.                                                          *)

\* The callback cb begins to run, with engine e.
Completing(cb, e) ==
    /\ pc # "end" /\ at # "callback" /\ at' = "callback" /\ (using_uring => pc \in Finishing)
    /\ cb \in Live(eng) /\ EngOK(e, Mode) /\ AtOK(e, "callback", Mode)
    /\ Live(e) = Live(eng) \ {cb} /\ e.sync = <<>>
    /\ UNCHANGED <<set, db, using_uring, supports_stat, readable>>

LEMMA Completion ==
    ASSUME SInv, pc # "end", OnCompletion
    PROVE  \E cb, e : Completing(cb, e) /\ (ReadCallback(cb, e) \/ StatCallback(cb, e))
<1>0. at' = "callback" /\ UNCHANGED <<set, db, using_uring, supports_stat, readable>>
  BY DEF OnCompletion, fixedEngine
<1>1. ASSUME NEW r \in eng.kernel, AtCompletion(r),
             ReadCallback(r.cb, Seen(r)) \/ StatCallback(r.cb, Seen(r))
      PROVE  Completing(r.cb, Seen(r))
  <2>1. at \in {"first", "next"}
    BY <1>1 DEF AtCompletion
  <2>2. using_uring /\ Mode = "uring"
    BY <2>1, Basics
  <2>3. /\ EngOK(Seen(r), "uring") /\ AtOK(Seen(r), "callback", "uring")
        /\ r.cb \in Live(eng) /\ Live(Seen(r)) = Live(eng) \ {r.cb} /\ Seen(r).sync = <<>>
    BY <2>1, <2>2, Basics, SeenOK
  <2>4. pc \in Finishing
    BY <2>1, <2>2 DEF SInv, PcOK
  <2> QED BY <1>0, <2>1, <2>2, <2>3, <2>4 DEF Completing
<1>2. ASSUME NEW i \in DOMAIN eng.sync, AtSync(eng.sync[i]), ReadCallback(eng.sync[i].cb, SeenSync)
      PROVE  Completing(eng.sync[i].cb, SeenSync)
  <2>1. at = "out" /\ eng.sync # <<>>
    BY <1>2 DEF AtSync
  <2>2. ~using_uring /\ Mode = "sync"
    BY <2>1, Basics
  <2>3. /\ EngOK(SeenSync, "sync") /\ AtOK(SeenSync, "callback", "sync")
        /\ Live(SeenSync) = {} /\ Live(eng) = {eng.sync[i].cb} /\ SeenSync.sync = <<>>
    BY <2>2, Basics, SeenSyncOK
  <2> QED BY <1>0, <2>1, <2>2, <2>3 DEF Completing
<1> QED BY <1>1, <1>2 DEF OnCompletion

\* A callback of the search ends it there, or leaves it where it is.
LEMMA SearchCallback ==
    ASSUME SInv, NEW cb, NEW e, Completing(cb, e), pc \in Looking \cup Intersecting,
           UNCHANGED <<pc, how, todo, acc>>, eng' = e, loc' \in LocType(set.query),
           pc \in Looking => LookupOK(loc', Live(eng) \ {cb}, db, set.query),
           loc'.lookups = loc.lookups,
           pc \in Intersecting => PostOK(loc', Live(eng) \ {cb}, db, set.query, pc)
    PROVE  SInv'
<1>1. /\ EngOK(eng', Mode) /\ AtOK(eng', at', Mode) /\ Live(eng') = Live(eng) \ {cb}
      /\ at' = "callback" /\ (using_uring => pc \in Finishing)
      /\ UNCHANGED <<set, db, using_uring, supports_stat, readable>>
  BY DEF Completing
<1>2. \A b \in Live(eng') : Belongs(b, pc')
  BY <1>1 DEF SInv, PcOK, Looking, Intersecting
<1>3. pc' = "looked_up" => loc'.lookups = {}
  BY DEF SInv, SearchOK
<1> QED BY <1>1, <1>2, <1>3, SearchStep

LEMMA LiveBelongs ==
    ASSUME SInv, NEW cb, NEW e, Completing(cb, e)
    PROVE  cb \in Callback /\ Belongs(cb, pc)
<1>1. cb \in Live(eng) /\ pc # "end"
  BY DEF Completing
<1> QED BY <1>1, Basics DEF SInv, PcOK

LEMMA StepDict ==
    ASSUME SInv, NEW cb, NEW e, Completing(cb, e), cb.k = "dict",
           UNCHANGED <<pc, how, loc, todo, acc>>, eng' = e
    PROVE  SInv'
<1>1. pc \in Looking
  BY LiveBelongs DEF Belongs
<1>2. LookupOK(loc, Live(eng), db, set.query)
  BY <1>1 DEF SInv, SearchOK
<1>3. Of("lookup", Live(eng) \ {cb}) = Of("lookup", Live(eng))
  BY OfOthers
<1>4. LookupOK(loc, Live(eng) \ {cb}, db, set.query)
  BY <1>2, <1>3 DEF LookupOK
<1>5. pc \notin Intersecting
  BY <1>1 DEF Looking, Intersecting
<1> QED BY <1>1, <1>4, <1>5, Basics, SearchCallback

LEMMA StepOnLookup ==
    ASSUME SInv, NEW cb, NEW e, Completing(cb, e), cb.k = "lookup", OnLookup(cb.t), eng' = e
    PROVE  SInv'
<1> DEFINE t == cb.t
           s == IF db.post[t] = {} THEN NotFound(t) ELSE FoundTrigram(t)
<1>1. /\ loc' = s /\ UNCHANGED <<todo, acc>>
      /\ \/ s.should_early_exit /\ pc' = "end" /\ how' = "no_match"
         \/ UNCHANGED <<pc, how>>
  BY DEF OnLookup
<1>2. pc \in Looking
  BY LiveBelongs DEF Belongs
<1>3. LookupOK(loc, Live(eng), db, set.query)
  BY <1>2 DEF SInv, SearchOK
<1>4. t \in Trgm /\ cb = [k |-> "lookup", t |-> t] /\ cb \in Live(eng)
  BY LiveBelongs, CallbackForms DEF Completing
<1>5. db \in Databases /\ Promise(db, set.query) /\ DOMAIN acc.pending_stats = {}
      /\ \A b \in Live(eng) : Belongs(b, pc)
  BY <1>2 DEF SInv, PcOK, Looking, Scanning
<1>6. /\ s \in LocType(set.query) /\ s.lookups = loc.lookups
      /\ LookupOK(s, Live(eng) \ {[k |-> "lookup", t |-> t]}, db, set.query)
  BY <1>3, <1>4, <1>5, Basics, LookupArrived
<1> HIDE DEF s, t
<1>7. LookupOK(s, Live(eng) \ {cb}, db, set.query)
  BY <1>4, <1>6
<1>8. CASE UNCHANGED <<pc, how>>
  <2>1. pc \notin Intersecting
    BY <1>2 DEF Looking, Intersecting
  <2> QED BY <1>1, <1>2, <1>6, <1>7, <1>8, <2>1, SearchCallback
<1>9. CASE s.should_early_exit /\ pc' = "end" /\ how' = "no_match"
  <2>1. Matches(db) = {}
    <3>1. PICK g \in set.query : Known(g, db) = {}
      BY <1>7, <1>9 DEF LookupOK
    <3> QED BY <1>5, <3>1, Hopeless
  <2>2. EngOK(eng', Mode') /\ AtOK(eng', at', Mode')
    BY DEF Completing, Mode
  <2>3. Fixed'
    BY <1>1, <1>6 DEF SInv, Fixed, Completing
  <2>4. PcOK'
    BY <1>9 DEF PcOK
  <2>5. SearchOK'
    BY <1>9, <2>1 DEF SearchOK, Completing, Looking, Intersecting
  <2>6. ScanInv'
    BY <1>1, <1>9 DEF SInv, ScanInv, Scanning, Completing
  <2> QED BY <2>2, <2>3, <2>4, <2>5, <2>6 DEF SInv
<1> QED BY <1>1, <1>8, <1>9

LEMMA StepOnPostings ==
    ASSUME SInv, NEW cb, NEW e, Completing(cb, e), cb.k = "postings", OnPostings(cb.t), eng' = e
    PROVE  SInv'
<1> DEFINE t == cb.t
<1>1. UNCHANGED <<pc, how, todo, acc>>
  BY DEF OnPostings
<1>2. pc \in Intersecting
  BY LiveBelongs DEF Belongs
<1>3. PostOK(loc, Live(eng), db, set.query, pc)
  BY <1>2 DEF SInv, SearchOK
<1>4. t \in Trgm /\ cb = [k |-> "postings", t |-> t] /\ cb \in Live(eng)
  BY LiveBelongs, CallbackForms DEF Completing
<1>5. db \in Databases /\ Promise(db, set.query)
  BY <1>2 DEF SInv, PcOK, Intersecting
<1>6. /\ loc' \in LocType(set.query)
      /\ PostOK(loc', Live(eng) \ {[k |-> "postings", t |-> t]}, db, set.query, pc)
  BY <1>3, <1>4, <1>5, Basics, PostingsArrived
<1>7. PostOK(loc', Live(eng) \ {cb}, db, set.query, pc)
  BY <1>4, <1>6
<1>8. pc \notin Looking
  BY <1>2 DEF Looking, Intersecting
<1>9. /\ EngOK(eng', Mode) /\ AtOK(eng', at', Mode) /\ Live(eng') = Live(eng) \ {cb}
      /\ at' = "callback" /\ (using_uring => pc \in Finishing)
      /\ UNCHANGED <<set, db, using_uring, supports_stat, readable>>
  BY DEF Completing
<1>10. \A b \in Live(eng') : Belongs(b, pc')
  BY <1>1, <1>2, <1>9 DEF SInv, PcOK, Intersecting
<1>11. pc' = "looked_up" => loc'.lookups = {}
  BY <1>1, <1>8 DEF Looking
<1> QED BY <1>1, <1>2, <1>6, <1>7, <1>8, <1>9, <1>10, <1>11, SearchStep

\* What a callback of the scan has to keep.
LEMMA ScanCallback ==
    ASSUME SInv, NEW cb, NEW e, Completing(cb, e), pc \in Scanning,
           UNCHANGED <<pc, how, loc>>, EngOK(eng', Mode), AtOK(eng', "callback", Mode),
           \A b \in Live(eng') \ Live(eng) : b.k \in {"index", "block"},
           acc' \in CacheType, acc'.granted \subseteq readable, acc'.denied \cap readable = {},
           ScanOK(loc, Live(eng'), db, todo', acc'), StatsOK(loc, Live(eng'), db, acc'),
           DOMAIN acc'.pending_stats \subseteq DOMAIN acc.pending_stats
    PROVE  SInv'
<1>1. /\ at' = "callback" /\ (using_uring => pc \in Finishing)
      /\ UNCHANGED <<set, db, using_uring, supports_stat, readable>>
  BY DEF Completing
<1>2. using_uring => pc' = "scanned"
  BY <1>1 DEF Finishing, Scanning
<1>3. /\ \A b \in Live(eng) : Belongs(b, pc)
      /\ pc = "scanned" => loc.next > Len(loc.docids)
      /\ ~supports_stat => /\ DOMAIN acc.pending_stats = {}
                           /\ \A b \in Live(eng) : b.k \notin {"access", "exists"}
  BY ScanFacts
<1>4. \A b \in Live(eng') : Belongs(b, pc') /\ (~supports_stat => b.k \notin {"access", "exists"})
  BY <1>3 DEF Belongs
<1> QED BY <1>1, <1>2, <1>3, <1>4, Basics, ScanStep

LEMMA StepIndex ==
    ASSUME SInv, NEW cb, NEW e, Completing(cb, e), cb.k = "index",
           UNCHANGED <<pc, how, loc, todo, acc>>,
           eng' = submit_read(e, [k |-> "block", i |-> cb.i])
    PROVE  SInv'
<1> DEFINE i == cb.i
           blk == [k |-> "block", i |-> i]
           L == Live(eng)
           M == (L \ {cb}) \cup {blk}
<1>1. pc \in Scanning
  BY LiveBelongs DEF Belongs
<1>2. i \in Nat /\ cb = [k |-> "index", i |-> i] /\ cb \in L
  BY LiveBelongs, CallbackForms DEF Completing
<1>3. /\ ScanOK(loc, L, db, todo, acc) /\ StatsOK(loc, L, db, acc)
      /\ acc \in CacheType /\ acc.granted \subseteq readable /\ acc.denied \cap readable = {}
  BY <1>1, ScanFacts
<1>4. i \in 1 .. loc.next - 1 /\ \A b \in L :
          /\ b.k \in {"index", "block"} => b.i \in 1 .. loc.next - 1
          /\ b.k = "block" => [k |-> "index", i |-> b.i] \notin L
  BY <1>2, <1>3 DEF ScanOK
<1>5. blk \in Callback /\ blk.k = "block" /\ blk.i = i
  BY <1>2 DEF Callback
<1>6. blk \notin L
  BY <1>2, <1>4, <1>5
<1>7. EngOK(eng', Mode) /\ AtOK(eng', "callback", Mode) /\ Live(eng') = M
  <2>1. /\ EngOK(e, Mode) /\ AtOK(e, "callback", Mode) /\ Live(e) = L \ {cb} /\ e.sync = <<>>
        /\ using_uring \in BOOLEAN /\ eng' = submit_read(e, blk)
    BY Basics DEF Completing
  <2> HIDE DEF blk, L
  <2>2. /\ EngOK(submit_read(e, blk), Mode) /\ Live(submit_read(e, blk)) = Live(e) \cup {blk}
        /\ AtOK(submit_read(e, blk), "callback", Mode)
    BY <1>5, <1>6, <2>1, SubmitReadOK
  <2> QED BY <2>1, <2>2
<1> HIDE DEF L
<1>8. Unread(loc, M) \subseteq Unread(loc, L)
  BY <1>2 DEF Unread
<1> HIDE DEF blk
<1>9. Statted("access", M) = Statted("access", L) /\ Statted("exists", M) = Statted("exists", L)
  <2>1. \A kind \in {"access", "exists"} : Statted(kind, L \ {cb}) = Statted(kind, L)
    BY StattedOthers
  <2>2. \A kind \in {"access", "exists"} : Statted(kind, (L \ {cb}) \cup {blk}) = Statted(kind, L \ {cb})
    BY <1>5, StattedOthers
  <2> QED BY <2>1, <2>2
<1>10. \A b \in M : /\ b.k \in {"index", "block"} => b.i \in 1 .. loc.next - 1
                    /\ b.k = "block" => [k |-> "index", i |-> b.i] \notin M
  <2> SUFFICES ASSUME NEW b \in M, b.k \in {"index", "block"}
               PROVE  /\ b.i \in 1 .. loc.next - 1
                      /\ b.k = "block" => [k |-> "index", i |-> b.i] \notin M
    OBVIOUS
  <2>1. b.i \in 1 .. loc.next - 1
    BY <1>4, <1>5
  <2>2. [k |-> "index", i |-> b.i] # blk
    BY <1>5
  <2>3. b.k = "block" => [k |-> "index", i |-> b.i] \notin L \ {cb}
    BY <1>2, <1>4, <1>5
  <2> QED BY <2>1, <2>2, <2>3
<1>11. loc.next \in 1 .. Len(loc.docids) + 1
  BY <1>3 DEF ScanOK
<1>12. ScanOK(loc, M, db, todo, acc) /\ StatsOK(loc, M, db, acc)
  <2> HIDE DEF M
  <2> QED BY <1>3, <1>8, <1>9, <1>10, <1>11, NamesStay
<1>13. \A b \in Live(eng') \ Live(eng) : b.k \in {"index", "block"}
  BY <1>5, <1>7 DEF L
<1> HIDE DEF M
<1> QED BY <1>1, <1>3, <1>7, <1>12, <1>13, ScanCallback

\* A block has been read: its names, all new, are about to be checked.
LEMMA BlockRead ==
    ASSUME NEW s, NEW L \in SUBSET Callback, NEW d, NEW a, ScanOK(s, L, d, <<>>, a),
           StatsOK(s, L, d, a), NEW i \in Nat, NEW cb, cb = [k |-> "block", i |-> i], cb \in L,
           NEW q \in Seq(Call), OncePerPlace(q), s.next \in Nat,
           \A m \in DOMAIN q : /\ q[m].i = i /\ Place(s, d, <<i, q[m].j>>)
                               /\ q[m].do # "print" => NamePlace(s, d, <<i, q[m].j>>) /\ q[m].ok
    PROVE  ScanOK(s, L \ {cb}, d, q, a) /\ StatsOK(s, L \ {cb}, d, a)
<1> DEFINE M == L \ {cb}
           ps == a.pending_stats
<1>1. cb.k = "block" /\ cb.i = i
  OBVIOUS
<1>2. /\ i \in 1 .. s.next - 1 /\ [k |-> "index", i |-> i] \notin L
      /\ \A b \in L : /\ b.k \in {"index", "block"} => b.i \in 1 .. s.next - 1
                      /\ b.k = "block" => [k |-> "index", i |-> b.i] \notin L
  BY <1>1 DEF ScanOK
<1>3. i \in Unread(s, L) /\ i \notin Unread(s, M) /\ Unread(s, M) \subseteq Unread(s, L)
  BY <1>1, <1>2 DEF Unread
<1>4. Statted("access", M) = Statted("access", L) /\ Statted("exists", M) = Statted("exists", L)
  BY <1>1, StattedOthers
<1>5. \A c \in PlacesIn(q) : c[1] = i /\ Place(s, d, c)
  <2> SUFFICES ASSUME NEW m \in DOMAIN q
               PROVE  <<q[m].i, q[m].j>>[1] = i /\ Place(s, d, <<q[m].i, q[m].j>>)
    BY DEF PlacesIn
  <2>1. q[m].i = i /\ Place(s, d, <<i, q[m].j>>)
    OBVIOUS
  <2> QED BY <2>1
<1>6. \A c \in PlacesWaiting(ps) \cup Statted("access", L) \cup Statted("exists", L) :
          NamePlace(s, d, c) /\ c[1] \notin Unread(s, L) /\ c[1] # i
  BY <1>3 DEF ScanOK
<1>7. \A m \in DOMAIN q : q[m].do # "print" =>
               NamePlace(s, d, <<q[m].i, q[m].j>>) /\ q[m].ok
  OBVIOUS
<1>8. /\ PlacesIn(q) \cap PlacesWaiting(ps) = {} /\ PlacesIn(q) \cap Statted("access", M) = {}
      /\ PlacesIn(q) \cap Statted("exists", M) = {}
  BY <1>4, <1>5, <1>6
<1>9. \A b \in M : /\ b.k \in {"index", "block"} => b.i \in 1 .. s.next - 1
                   /\ b.k = "block" => [k |-> "index", i |-> b.i] \notin M
  BY <1>2
<1> HIDE DEF M
<1>10. \A c \in PlacesIn(q) : Place(s, d, c) /\ c[1] \notin Unread(s, M)
  BY <1>3, <1>5
<1>11. \A c \in PlacesWaiting(ps) \cup Statted("access", M) \cup Statted("exists", M) :
               NamePlace(s, d, c) /\ c[1] \notin Unread(s, M)
  BY <1>3, <1>4, <1>6
<1>12. ScanOK(s, M, d, q, a)
  BY <1>4, <1>7, <1>8, <1>9, <1>10, <1>11 DEF ScanOK
<1>13. StatsOK(s, M, d, a)
  BY <1>4 DEF StatsOK
<1> QED BY <1>12, <1>13 DEF M

LEMMA StepBlock ==
    ASSUME SInv, NEW cb, NEW e, Completing(cb, e), cb.k = "block", OnBlock(cb.i), eng' = e
    PROVE  SInv'
<1> DEFINE i == cb.i
           h == Hits(i)
           L == Live(eng)
<1>1. pc \in Scanning
  BY LiveBelongs DEF Belongs
<1>2. i \in Nat /\ cb = [k |-> "block", i |-> i] /\ cb \in L /\ L \in SUBSET Callback
  BY LiveBelongs, CallbackForms, Basics DEF Completing
<1>3. /\ ScanOK(loc, L, db, todo, acc) /\ StatsOK(loc, L, db, acc) /\ todo = <<>>
      /\ acc \in CacheType /\ acc.granted \subseteq readable /\ acc.denied \cap readable = {}
      /\ db \in Databases
  BY <1>1, ScanFacts DEF Completing
<1>4. /\ UNCHANGED <<pc, how, loc, acc>>
      /\ todo' = IF h = <<>> THEN <<[do |-> "print", i |-> i, j |-> 1, ok |-> FALSE]>>
                 ELSE [j \in DOMAIN h |-> [do |-> "check", i |-> i, j |-> j, ok |-> TRUE]]
  BY DEF OnBlock
<1>5. loc.next \in Nat /\ loc.docids \in Seq(Docs)
  BY Basics DEF LocType
<1>6. Len(loc.docids) \in Nat /\ i \in 1 .. Len(loc.docids)
  <2>1. Len(loc.docids) \in Nat
    BY <1>5
  <2>2. loc.next \in 1 .. Len(loc.docids) + 1 /\ i \in 1 .. loc.next - 1
    BY <1>2, <1>3 DEF ScanOK
  <2> QED BY <1>5, <2>1, <2>2
<1>7. h \in Seq(Name) /\ h = HitsOf(loc, db, i)
  <2>1. loc.docids[i] \in Docs
    BY <1>5, <1>6
  <2>2. db.hits \in [Docs -> Seq(Name)]
    BY <1>3, SearchAssumption
  <2> QED BY <2>1, <2>2 DEF Hits, HitsOf
<1>8. /\ todo' \in Seq(Call) /\ OncePerPlace(todo')
      /\ \A m \in DOMAIN todo' :
             /\ todo'[m].i = i /\ Place(loc, db, <<i, todo'[m].j>>)
             /\ todo'[m].do # "print" => NamePlace(loc, db, <<i, todo'[m].j>>) /\ todo'[m].ok
  <2>1. CASE h = <<>>
    <3> DEFINE c == [do |-> "print", i |-> i, j |-> 1, ok |-> FALSE]
    <3>1. c \in Call /\ todo' = <<c>> /\ c.i = i /\ c.j = 1 /\ c.do = "print"
      BY <1>2, <1>4, <2>1 DEF Call
    <3> HIDE DEF c
    <3>2. /\ todo' \in Seq(Call) /\ DOMAIN todo' = {1} /\ todo'[1] = c
      BY <3>1
    <3>3. Place(loc, db, <<i, 1>>)
      BY <1>6, <1>7, <2>1 DEF Place
    <3> QED BY <3>1, <3>2, <3>3 DEF OncePerPlace
  <2>2. CASE h # <<>>
    <3> DEFINE c(j) == [do |-> "check", i |-> i, j |-> j, ok |-> TRUE]
    <3>1. Len(h) \in Nat /\ DOMAIN h = 1 .. Len(h)
      BY <1>7
    <3>2. \A j \in DOMAIN h : c(j) \in Call /\ c(j).i = i /\ c(j).j = j /\ c(j).ok = TRUE
      BY <1>2, <3>1 DEF Call
    <3>3. todo' = [j \in 1 .. Len(h) |-> c(j)]
      BY <1>4, <2>2, <3>1
    <3> HIDE DEF c
    <3>4. todo' \in Seq(Call) /\ DOMAIN todo' = DOMAIN h /\ \A j \in DOMAIN h : todo'[j] = c(j)
      BY <3>1, <3>2, <3>3
    <3>5. \A j \in DOMAIN h : Place(loc, db, <<i, j>>) /\ NamePlace(loc, db, <<i, j>>)
      BY <1>6, <1>7 DEF Place, NamePlace
    <3>6. OncePerPlace(todo')
      BY <3>2, <3>4 DEF OncePerPlace
    <3> QED BY <3>2, <3>4, <3>5, <3>6
  <2> QED BY <2>1, <2>2
<1>9. ScanOK(loc, L \ {cb}, db, todo', acc) /\ StatsOK(loc, L \ {cb}, db, acc)
  <2> HIDE DEF i, L
  <2> QED BY <1>2, <1>3, <1>5, <1>8, BlockRead
<1>10. EngOK(eng', Mode) /\ AtOK(eng', "callback", Mode) /\ Live(eng') = L \ {cb}
  BY DEF Completing
<1>11. \A b \in Live(eng') \ Live(eng) : b.k \in {"index", "block"}
  BY <1>10
<1> QED BY <1>1, <1>3, <1>4, <1>9, <1>10, <1>11, ScanCallback

\* The pending statx() of a name, and what is left without it.
Without(a, n) ==
    [a EXCEPT !.pending_stats = [k \in DOMAIN a.pending_stats \ {n} |-> a.pending_stats[k]]]

LEMMA CacheFacts ==
    ASSUME NEW a \in CacheType
    PROVE  /\ DOMAIN a.pending_stats \in SUBSET Name
           /\ \A n \in DOMAIN a.pending_stats : a.pending_stats[n] \in Seq(Call)
           /\ a.pending_stats = [n \in DOMAIN a.pending_stats |-> a.pending_stats[n]]
           /\ a.granted \in SUBSET Dir /\ a.denied \in SUBSET Dir
<1>1. a.pending_stats \in UNION {[N -> Seq(Call)] : N \in SUBSET Name}
  BY DEF CacheType
<1>2. PICK N \in SUBSET Name : a.pending_stats \in [N -> Seq(Call)]
  BY <1>1
<1>3. a.granted \in SUBSET Dir /\ a.denied \in SUBSET Dir
  BY DEF CacheType
<1> QED BY <1>2, <1>3

LEMMA CacheWith ==
    ASSUME NEW a \in CacheType, NEW N \in SUBSET Name, NEW ps \in [N -> Seq(Call)]
    PROVE  LET c == [a EXCEPT !.pending_stats = ps]
           IN  /\ c \in CacheType /\ c.pending_stats = ps
               /\ c.granted = a.granted /\ c.denied = a.denied
<1>1. ps \in UNION {[K -> Seq(Call)] : K \in SUBSET Name}
  OBVIOUS
<1> QED BY <1>1 DEF CacheType

IsWithout(b, a, n) ==
    /\ b \in CacheType /\ b.granted = a.granted /\ b.denied = a.denied
    /\ DOMAIN b.pending_stats = DOMAIN a.pending_stats \ {n}
    /\ \A k \in DOMAIN a.pending_stats \ {n} : b.pending_stats[k] = a.pending_stats[k]
    /\ PlacesWaiting(b.pending_stats) \subseteq PlacesWaiting(a.pending_stats)
LEMMA WithoutFacts ==
    ASSUME NEW a \in CacheType, NEW n
    PROVE  IsWithout(Without(a, n), a, n)
<1> DEFINE N == DOMAIN a.pending_stats \ {n}
           ps == [k \in N |-> a.pending_stats[k]]
           b == Without(a, n)
<1>1. /\ DOMAIN a.pending_stats \in SUBSET Name
      /\ \A k \in DOMAIN a.pending_stats : a.pending_stats[k] \in Seq(Call)
  BY CacheFacts
<1>2. N \in SUBSET Name /\ ps \in [N -> Seq(Call)]
  BY <1>1
<1>3. b = [a EXCEPT !.pending_stats = ps]
  BY DEF Without
<1>4. DOMAIN ps = N /\ \A k \in N : ps[k] = a.pending_stats[k]
  OBVIOUS
<1> HIDE DEF ps, b
<1>5. b \in CacheType /\ b.pending_stats = ps /\ b.granted = a.granted /\ b.denied = a.denied
  BY <1>2, <1>3, CacheWith
<1>6. PlacesWaiting(b.pending_stats) \subseteq PlacesWaiting(a.pending_stats)
  BY <1>4, <1>5 DEF PlacesWaiting
<1> QED BY <1>4, <1>5, <1>6 DEF b, IsWithout

\* The statx() of a name has come back: it and those that waited are checked now.
LEMMA AccessSeen ==
    ASSUME NEW s, NEW L \in SUBSET Callback, NEW d, NEW a \in CacheType, ScanOK(s, L, d, <<>>, a),
           StatsOK(s, L, d, a), NEW i \in Nat, NEW j \in Nat, NEW cb,
           IsStat(cb, "access", i, j), cb \in L,
           NEW n, n = HitsOf(s, d, i)[j], NEW c \in Call, c.i = i, c.j = j, c.do = "check_now", c.ok
    PROVE  /\ ScanOK(s, L \ {cb}, d, <<c>> \o a.pending_stats[n], Without(a, n))
           /\ StatsOK(s, L \ {cb}, d, Without(a, n))
<1> DEFINE M == L \ {cb}
           ps == a.pending_stats
           q == <<c>> \o ps[n]
           b == Without(a, n)
<1> SUFFICES ScanOK(s, M, d, q, b) /\ StatsOK(s, M, d, b)
  OBVIOUS
<1>1. cb.k = "access" /\ cb.i = i /\ cb.j = j /\ <<i, j>>[1] = i /\ <<i, j>>[2] = j
  BY DEF IsStat
<1>2. /\ Statted("access", M) = Statted("access", L) \ {<<i, j>>}
      /\ Statted("exists", M) = Statted("exists", L) /\ <<i, j>> \in Statted("access", L)
      /\ Unread(s, M) = Unread(s, L)
  <2>1. /\ Statted("access", L \ {cb}) = Statted("access", L) \ {<<i, j>>}
        /\ <<i, j>> \in Statted("access", L)
    <3>1. StatMoves(L, "access", i, j, cb)
      BY StattedFacts
    <3> QED BY <3>1 DEF StatMoves
  <2>2. Statted("exists", L \ {cb}) = Statted("exists", L)
    BY <1>1, StattedOthers
  <2>3. Unread(s, L \ {cb}) = Unread(s, L)
    BY <1>1, UnreadOthers
  <2> QED BY <2>1, <2>2, <2>3
<1>3. n \in DOMAIN ps
  BY <1>1, <1>2 DEF StatsOK
<1>4. ps[n] \in Seq(Call) /\ DOMAIN ps \in SUBSET Name
  BY <1>3, CacheFacts
<1>5. PlacesIn(ps[n]) \subseteq PlacesWaiting(ps)
  BY <1>3 DEF PlacesWaiting
<1>6. <<i, j>> \notin PlacesIn(ps[n])
  BY <1>2, <1>5 DEF ScanOK
<1>7. /\ q \in Seq(Call) /\ InQueue(q) = InQueue(ps[n]) \cup {c}
      /\ PlacesIn(q) = PlacesIn(ps[n]) \cup {<<i, j>>} /\ OncePerPlace(q)
  <2>1. OncePerPlace(ps[n])
    BY <1>3 DEF ScanOK
  <2> QED BY <1>4, <1>6, <2>1, PlacesCons
<1>8. /\ b \in CacheType /\ DOMAIN b.pending_stats = DOMAIN ps \ {n}
      /\ \A k \in DOMAIN ps \ {n} : b.pending_stats[k] = ps[k]
      /\ PlacesWaiting(b.pending_stats) \subseteq PlacesWaiting(ps)
  <2>1. IsWithout(b, a, n)
    BY WithoutFacts
  <2> QED BY <2>1 DEF IsWithout
<1> HIDE DEF b, M, q
<1>9. PlacesIn(q) \cap PlacesWaiting(b.pending_stats) = {}
  <2>1. ASSUME NEW k \in DOMAIN ps \ {n} PROVE PlacesIn(ps[k]) \cap PlacesIn(q) = {}
    <3>1. PlacesIn(ps[k]) \cap PlacesIn(ps[n]) = {}
      BY <1>3 DEF ScanOK
    <3>2. <<i, j>> \notin PlacesIn(ps[k])
      BY <1>2 DEF ScanOK, PlacesWaiting
    <3> QED BY <1>7, <3>1, <3>2
  <2> QED BY <1>8, <2>1 DEF PlacesWaiting
<1>10. \A x \in PlacesIn(q) : NamePlace(s, d, x) /\ Place(s, d, x) /\ x[1] \notin Unread(s, M)
  <2>1. \A x \in PlacesIn(q) : NamePlace(s, d, x) /\ x[1] \notin Unread(s, L)
    BY <1>2, <1>5, <1>7 DEF ScanOK
  <2> QED BY <1>2, <2>1 DEF NamePlace, Place
<1>11. \A m \in DOMAIN q : q[m].do # "print" => NamePlace(s, d, <<q[m].i, q[m].j>>) /\ q[m].ok
  <2> SUFFICES ASSUME NEW m \in DOMAIN q PROVE NamePlace(s, d, <<q[m].i, q[m].j>>) /\ q[m].ok
    OBVIOUS
  <2>1. <<q[m].i, q[m].j>> \in PlacesIn(q)
    BY DEF PlacesIn
  <2>2. q[m] \in InQueue(ps[n]) \cup {c}
    BY <1>7 DEF InQueue
  <2>3. q[m].ok
    BY <1>3, <2>2 DEF InQueue, ScanOK
  <2> QED BY <1>10, <2>1, <2>3
<1>12. \A x \in M : /\ x.k \in {"index", "block"} => x.i \in 1 .. s.next - 1
                    /\ x.k = "block" => [k |-> "index", i |-> x.i] \notin M
  BY DEF ScanOK, M
<1>13. \A x \in PlacesWaiting(b.pending_stats) \cup Statted("access", M) \cup Statted("exists", M) :
               NamePlace(s, d, x) /\ x[1] \notin Unread(s, M)
  BY <1>2, <1>8 DEF ScanOK
<1>14. \A k \in DOMAIN b.pending_stats :
          /\ OncePerPlace(b.pending_stats[k])
          /\ \A m \in DOMAIN b.pending_stats[k] :
                b.pending_stats[k][m].do = "check" /\ b.pending_stats[k][m].ok
  BY <1>8 DEF ScanOK
<1>15. \A n1, n2 \in DOMAIN b.pending_stats : n1 # n2 =>
            PlacesIn(b.pending_stats[n1]) \cap PlacesIn(b.pending_stats[n2]) = {}
  BY <1>8 DEF ScanOK
<1>16. /\ PlacesIn(q) \cap Statted("access", M) = {}
       /\ PlacesIn(q) \cap Statted("exists", M) = {}
  BY <1>2, <1>5, <1>7 DEF ScanOK
<1>17. /\ PlacesWaiting(b.pending_stats) \cap Statted("access", M) = {}
       /\ PlacesWaiting(b.pending_stats) \cap Statted("exists", M) = {}
       /\ Statted("access", M) \cap Statted("exists", M) = {}
  BY <1>2, <1>8 DEF ScanOK
<1>18. s.next \in 1 .. Len(s.docids) + 1
  BY DEF ScanOK
<1>19. ScanOK(s, M, d, q, b)
  BY <1>7, <1>8, <1>9, <1>10, <1>11, <1>12, <1>13, <1>14, <1>15, <1>16, <1>17, <1>18 DEF ScanOK
<1>20. StatsOK(s, M, d, b)
  <2> DEFINE nm(x) == HitsOf(s, d, x[1])[x[2]]
  <2>1. /\ DOMAIN ps = {nm(x) : x \in Statted("access", L)}
        /\ \A x, y \in Statted("access", L) : nm(x) = nm(y) => x = y
    BY DEF StatsOK
  <2>2. nm(<<i, j>>) = n
    BY <1>1
  <2> HIDE DEF nm
  <2>3. DOMAIN ps \ {n} = {nm(x) : x \in Statted("access", L) \ {<<i, j>>}}
    BY <1>2, <2>1, <2>2
  <2>4. /\ DOMAIN b.pending_stats = {nm(x) : x \in Statted("access", M)}
        /\ \A x, y \in Statted("access", M) : nm(x) = nm(y) => x = y
    BY <1>2, <1>8, <2>1, <2>3
  <2> QED BY <2>4 DEF StatsOK, nm
<1> QED BY <1>19, <1>20

LEMMA StepAccess ==
    ASSUME SInv, NEW cb, NEW e, Completing(cb, e), cb.k = "access", OnAccessStat(cb.i, cb.j),
           eng' = e
    PROVE  SInv'
<1> DEFINE i == cb.i
           j == cb.j
           n == Hits(i)[j]
           L == Live(eng)
           c == [do |-> "check_now", i |-> i, j |-> j, ok |-> TRUE]
<1>1. pc \in Scanning
  BY LiveBelongs DEF Belongs, Scanning
<1>2. i \in Nat /\ j \in Nat /\ IsStat(cb, "access", i, j) /\ cb \in L /\ L \in SUBSET Callback
  BY LiveBelongs, CallbackForms, Basics DEF Completing, IsStat
<1>3. /\ ScanOK(loc, L, db, todo, acc) /\ StatsOK(loc, L, db, acc) /\ todo = <<>>
      /\ acc \in CacheType /\ acc.granted \subseteq readable /\ acc.denied \cap readable = {}
  BY <1>1, ScanFacts, SMTT(40) DEF Completing
<1>4. /\ UNCHANGED <<pc, how, loc>> /\ todo' = <<c>> \o acc.pending_stats[n]
      /\ acc' = Without(acc, n) /\ n = HitsOf(loc, db, i)[j]
  BY Zenon DEF OnAccessStat, Erased, Without, Hits, HitsOf
<1>5. c \in Call /\ c.i = i /\ c.j = j /\ c.do = "check_now" /\ c.ok
  BY <1>2 DEF Call
<1>6. EngOK(eng', Mode) /\ AtOK(eng', "callback", Mode) /\ Live(eng') = L \ {cb}
  BY DEF Completing
<1> HIDE DEF i, j, n, L, c
<1>7. /\ ScanOK(loc, L \ {cb}, db, <<c>> \o acc.pending_stats[n], Without(acc, n))
      /\ StatsOK(loc, L \ {cb}, db, Without(acc, n))
  BY <1>2, <1>3, <1>4, <1>5, AccessSeen
<1>8. IsWithout(Without(acc, n), acc, n)
  BY <1>3, WithoutFacts
<1>9. /\ acc' \in CacheType /\ acc'.granted \subseteq readable /\ acc'.denied \cap readable = {}
      /\ DOMAIN acc'.pending_stats \subseteq DOMAIN acc.pending_stats
  BY <1>3, <1>4, <1>8 DEF IsWithout
<1>10. \A b \in Live(eng') \ Live(eng) : b.k \in {"index", "block"}
  BY <1>6 DEF L
<1> QED BY <1>1, <1>4, <1>6, <1>7, <1>9, <1>10, ScanCallback

\* The statx() for the existence of a name has come back.
LEMMA ExistsSeen ==
    ASSUME NEW s, NEW L \in SUBSET Callback, NEW d, NEW a, ScanOK(s, L, d, <<>>, a),
           StatsOK(s, L, d, a), NEW i \in Nat, NEW j \in Nat, NEW cb,
           IsStat(cb, "exists", i, j), cb \in L,
           NEW c \in Call, c.i = i, c.j = j, c.do = "print"
    PROVE  ScanOK(s, L \ {cb}, d, <<c>>, a) /\ StatsOK(s, L \ {cb}, d, a)
<1> DEFINE M == L \ {cb}
           ps == a.pending_stats
           q == <<c>>
<1>1. cb.k = "exists" /\ <<i, j>>[1] = i /\ <<i, j>>[2] = j
  BY DEF IsStat
<1>2. /\ Statted("exists", M) = Statted("exists", L) \ {<<i, j>>}
      /\ Statted("access", M) = Statted("access", L) /\ <<i, j>> \in Statted("exists", L)
      /\ Unread(s, M) = Unread(s, L)
  <2>1. StatMoves(L, "exists", i, j, cb)
    BY StattedFacts
  <2>2. Statted("access", L \ {cb}) = Statted("access", L)
    BY <1>1, StattedOthers
  <2>3. Unread(s, L \ {cb}) = Unread(s, L)
    BY <1>1, UnreadOthers
  <2> QED BY <2>1, <2>2, <2>3 DEF StatMoves
<1>3. q \in Seq(Call) /\ DOMAIN q = {1} /\ q[1] = c
  OBVIOUS
<1> HIDE DEF M, q
<1>4. PlacesIn(q) = {<<i, j>>} /\ OncePerPlace(q)
  BY <1>3 DEF PlacesIn, OncePerPlace
<1>5. NamePlace(s, d, <<i, j>>) /\ i \notin Unread(s, L)
  BY <1>1, <1>2 DEF ScanOK
<1>6. \A x \in PlacesIn(q) : Place(s, d, x) /\ x[1] \notin Unread(s, M)
  BY <1>1, <1>2, <1>4, <1>5 DEF NamePlace, Place
<1>7. \A x \in M : /\ x.k \in {"index", "block"} => x.i \in 1 .. s.next - 1
                   /\ x.k = "block" => [k |-> "index", i |-> x.i] \notin M
  BY DEF ScanOK, M
<1>8. \A x \in PlacesWaiting(ps) \cup Statted("access", M) \cup Statted("exists", M) :
               NamePlace(s, d, x) /\ x[1] \notin Unread(s, M)
  BY <1>2 DEF ScanOK
<1>9. /\ PlacesIn(q) \cap PlacesWaiting(ps) = {} /\ PlacesIn(q) \cap Statted("access", M) = {}
      /\ PlacesIn(q) \cap Statted("exists", M) = {}
  BY <1>2, <1>4 DEF ScanOK
<1>10. /\ PlacesWaiting(ps) \cap Statted("access", M) = {}
       /\ PlacesWaiting(ps) \cap Statted("exists", M) = {}
       /\ Statted("access", M) \cap Statted("exists", M) = {}
  BY <1>2 DEF ScanOK
<1>11. \A m \in DOMAIN q : q[m].do = "print"
  BY <1>3
<1>12. ScanOK(s, M, d, q, a)
  BY <1>3, <1>4, <1>6, <1>7, <1>8, <1>9, <1>10, <1>11 DEF ScanOK
<1>13. StatsOK(s, M, d, a)
  BY <1>2 DEF StatsOK
<1> QED BY <1>12, <1>13 DEF M, q

LEMMA StepExists ==
    ASSUME SInv, NEW cb, NEW e, Completing(cb, e), cb.k = "exists", OnExistsStat(cb.i, cb.j),
           eng' = e
    PROVE  SInv'
<1> DEFINE i == cb.i
           j == cb.j
           L == Live(eng)
           c == [do |-> "print", i |-> i, j |-> j, ok |-> Hits(i)[j] \in set.existing]
<1>1. pc \in Scanning
  BY LiveBelongs DEF Belongs, Scanning
<1>2. i \in Nat /\ j \in Nat /\ IsStat(cb, "exists", i, j) /\ cb \in L /\ L \in SUBSET Callback
  BY LiveBelongs, CallbackForms, Basics DEF Completing, IsStat
<1>3. /\ ScanOK(loc, L, db, todo, acc) /\ StatsOK(loc, L, db, acc) /\ todo = <<>>
      /\ acc \in CacheType /\ acc.granted \subseteq readable /\ acc.denied \cap readable = {}
  BY <1>1, ScanFacts DEF Completing
<1>4. /\ UNCHANGED <<pc, how, loc, acc>> /\ todo' = <<c>>
  BY DEF OnExistsStat
<1>5. c \in Call /\ c.i = i /\ c.j = j /\ c.do = "print"
  BY <1>2 DEF Call
<1>6. EngOK(eng', Mode) /\ AtOK(eng', "callback", Mode) /\ Live(eng') = L \ {cb}
  BY DEF Completing
<1> HIDE DEF i, j, L, c
<1>7. ScanOK(loc, L \ {cb}, db, <<c>>, acc) /\ StatsOK(loc, L \ {cb}, db, acc)
  BY <1>2, <1>3, <1>5, ExistsSeen
<1>8. \A b \in Live(eng') \ Live(eng) : b.k \in {"index", "block"}
  BY <1>6 DEF L
<1> QED BY <1>1, <1>3, <1>4, <1>6, <1>7, <1>8, ScanCallback

LEMMA StepOnCompletion == ASSUME SInv, pc # "end", OnCompletion PROVE SInv'
<1>1. PICK cb, e : Completing(cb, e) /\ (ReadCallback(cb, e) \/ StatCallback(cb, e))
  BY Completion
<1>2. CASE ReadCallback(cb, e)
  <2>1. CASE cb.k = "dict" /\ UNCHANGED <<pc, how, loc, todo, acc>> /\ eng' = e
    BY <1>1, <2>1, StepDict
  <2>2. CASE cb.k = "lookup" /\ OnLookup(cb.t) /\ eng' = e
    BY <1>1, <2>2, StepOnLookup
  <2>3. CASE cb.k = "postings" /\ OnPostings(cb.t) /\ eng' = e
    BY <1>1, <2>3, StepOnPostings
  <2>4. CASE /\ cb.k = "index" /\ UNCHANGED <<pc, how, loc, todo, acc>>
             /\ eng' = submit_read(e, [k |-> "block", i |-> cb.i])
    BY <1>1, <2>4, StepIndex
  <2>5. CASE cb.k = "block" /\ OnBlock(cb.i) /\ eng' = e
    BY <1>1, <2>5, StepBlock
  <2> QED BY <1>2, <2>1, <2>2, <2>3, <2>4, <2>5 DEF ReadCallback
<1>3. CASE StatCallback(cb, e)
  BY <1>1, <1>3, StepAccess, StepExists DEF StatCallback
<1> QED BY <1>1, <1>2, <1>3

-----------------------------------------------------------------------------
(* The access cache.                                                       *)

LEMMA DirsAbove ==
    ASSUME NEW n \in Name
    PROVE  /\ Ancestors[n] \in Seq(STRING) /\ Len(Ancestors[n]) \in Nat
           /\ DOMAIN Ancestors[n] = 1 .. Len(Ancestors[n])
           /\ \A i \in 1 .. Len(Ancestors[n]) : Ancestors[n][i] \in Dir
<1>1. Ancestors[n] \in Seq(STRING)
  BY NameAssumption
<1>2. Len(Ancestors[n]) \in Nat /\ DOMAIN Ancestors[n] = 1 .. Len(Ancestors[n])
  BY <1>1
<1> QED BY <1>1, <1>2 DEF Dir

LEMMA FirstAboveFacts ==
    ASSUME NEW n \in Name, NEW test
    PROVE  LET stop == FirstAbove(n, test)
           IN  \/ stop = 0 /\ \A i \in DOMAIN Ancestors[n] : Ancestors[n][i] \notin test
               \/ /\ stop \in DOMAIN Ancestors[n] /\ Ancestors[n][stop] \in test
                  /\ \A i \in 1 .. stop - 1 : Ancestors[n][i] \notin test
<1> DEFINE D == {i \in DOMAIN Ancestors[n] : Ancestors[n][i] \in test}
           P(i) == /\ Ancestors[n][i] \in test
                   /\ \A j \in 1 .. i - 1 : Ancestors[n][j] \notin test
<1>1. DOMAIN Ancestors[n] = 1 .. Len(Ancestors[n]) /\ Len(Ancestors[n]) \in Nat
  BY DirsAbove
<1>2. CASE D = {}
  BY <1>2 DEF FirstAbove
<1>3. CASE D # {}
  <2>1. D \in SUBSET Nat
    BY <1>1
  <2>2. PICK l \in D : \A m \in D : l <= m
    BY <1>3, <2>1, LeastElement
  <2>3. l \in DOMAIN Ancestors[n] /\ P(l)
    <3>1. ASSUME NEW j \in 1 .. l - 1 PROVE Ancestors[n][j] \notin test
      <4>1. l \in 1 .. Len(Ancestors[n])
        BY <1>1, <2>2
      <4>2. j \in DOMAIN Ancestors[n] /\ ~(l <= j)
        BY <1>1, <4>1
      <4> QED BY <2>2, <4>2
    <3> QED BY <2>2, <3>1
  <2>4. FirstAbove(n, test) = CHOOSE i \in DOMAIN Ancestors[n] : P(i)
    BY <1>3 DEF FirstAbove
  <2> HIDE DEF P
  <2>5. FirstAbove(n, test) \in DOMAIN Ancestors[n] /\ P(FirstAbove(n, test))
    BY <2>3, <2>4
  <2> QED BY <2>5 DEF P
<1> QED BY <1>2, <1>3

LEMMA CheckNowFacts ==
    ASSUME acc \in CacheType, acc.granted \subseteq readable, acc.denied \cap readable = {},
           NEW n \in Name
    PROVE  LET c == CheckNow(n).cache
           IN  /\ c \in CacheType /\ c.granted \subseteq readable /\ c.denied \cap readable = {}
               /\ c.pending_stats = acc.pending_stats /\ CheckNow(n).ok \in BOOLEAN
<1> DEFINE stop == FirstAbove(n, acc.denied \cup ((Dir \ readable) \ acc.granted))
           seen == {Ancestors[n][i] : i \in 1 .. IF stop = 0 THEN Len(Ancestors[n]) ELSE stop}
                    \ (acc.granted \cup acc.denied)
           c == [acc EXCEPT !.granted = @ \cup (seen \cap readable),
                            !.denied = @ \cup (seen \ readable)]
<1>1. CheckNow(n) = [ok |-> stop = 0, cache |-> c]
  BY DEF CheckNow
<1>2. stop = 0 \/ stop \in 1 .. Len(Ancestors[n])
  BY FirstAboveFacts, DirsAbove
<1> HIDE DEF stop
<1>3. \A i \in 1 .. (IF stop = 0 THEN Len(Ancestors[n]) ELSE stop) : Ancestors[n][i] \in Dir
  BY <1>2, DirsAbove
<1>4. seen \in SUBSET Dir
  BY <1>3
<1>5. acc.granted \in SUBSET Dir /\ acc.denied \in SUBSET Dir
  BY CacheFacts
<1> HIDE DEF seen
<1>6. /\ acc.granted \cup (seen \cap readable) \in SUBSET Dir
      /\ acc.denied \cup (seen \ readable) \in SUBSET Dir
  BY <1>4, <1>5
<1>7. /\ c \in CacheType /\ c.granted = acc.granted \cup (seen \cap readable)
      /\ c.denied = acc.denied \cup (seen \ readable) /\ c.pending_stats = acc.pending_stats
  BY <1>6 DEF CacheType
<1> HIDE DEF c
<1>8. c.granted \subseteq readable /\ c.denied \cap readable = {}
  BY <1>7
<1>9. CheckNow(n).cache = c /\ CheckNow(n).ok = (stop = 0)
  BY <1>1
<1> QED BY <1>7, <1>8, <1>9

LEMMA LowerBound ==
    ASSUME acc \in CacheType, NEW n \in Name, Joinable(n) # {}
    PROVE  lower_bound(n) \in DOMAIN acc.pending_stats
<1> DEFINE J == Joinable(n)
           R == {Rank[k] : k \in J}
           P(k) == \A l \in J : Rank[k] <= Rank[l]
<1>1. J \in SUBSET Name /\ J \subseteq DOMAIN acc.pending_stats
  BY CacheFacts DEF Joinable
<1>2. R \in SUBSET Nat /\ R # {}
  BY <1>1, NameAssumption
<1>3. PICK r \in R : \A m \in R : r <= m
  BY <1>2, LeastElement
<1>4. \E k \in J : P(k)
  BY <1>3
<1>5. lower_bound(n) = CHOOSE k \in J : P(k)
  BY DEF lower_bound
<1> HIDE DEF P, J
<1>6. lower_bound(n) \in J
  BY <1>4, <1>5
<1> QED BY <1>1, <1>6

\* A name that waits for no other has no statx() of its own yet.
LEMMA NotYetStarted ==
    ASSUME acc \in CacheType, NEW n \in Name, ~Settled(n), Joinable(n) = {}
    PROVE  n \notin DOMAIN acc.pending_stats
<1> DEFINE u == Unsettled(n)
<1>1. u # 0
  BY DEF Settled
<1>2. u \in DOMAIN Ancestors[n]
  BY <1>1, FirstAboveFacts DEF Unsettled
<1>3. <<n, Ancestors[n][u]>> \in StartsWith
  BY <1>2, NameAssumption
<1> HIDE DEF u
<1> QED BY <1>3 DEF Joinable, u

-----------------------------------------------------------------------------
(* The calls a callback makes: each takes one name on.                     *)

\* The name at p is nowhere else.
Free(s, L, d, q, a, p) ==
    /\ ScanOK(s, L, d, q, a) /\ p[1] \notin Unread(s, L) /\ Place(s, d, p)
    /\ p \notin PlacesIn(q) /\ p \notin PlacesWaiting(a.pending_stats)
    /\ p \notin Statted("access", L) /\ p \notin Statted("exists", L)

LEMMA CallTaken ==
    ASSUME NEW s, NEW L, NEW d, NEW q, NEW a, ScanOK(s, L, d, q, a), q # <<>>
    PROVE  /\ q \in Seq(Call) /\ Head(q) \in Call
           /\ Free(s, L, d, Tail(q), a, <<Head(q).i, Head(q).j>>)
           /\ Head(q).do # "print" =>
                  NamePlace(s, d, <<Head(q).i, Head(q).j>>) /\ Head(q).ok
<1> DEFINE c == Head(q)
           t == Tail(q)
           p == <<c.i, c.j>>
<1>1. q \in Seq(Call)
  BY DEF ScanOK
<1>2. /\ t \in Seq(Call) /\ c \in Call /\ c \in InQueue(q) /\ InQueue(t) \subseteq InQueue(q)
      /\ PlacesIn(q) = PlacesIn(t) \cup {p} /\ OncePerPlace(t) /\ p \notin PlacesIn(t)
  <2>1. OncePerPlace(q)
    BY DEF ScanOK
  <2> QED BY <1>1, <2>1, PlacesTail
<1>3. \A x \in InQueue(q) : x.do # "print" => NamePlace(s, d, <<x.i, x.j>>) /\ x.ok
  BY DEF ScanOK, InQueue
<1> HIDE DEF t, c, p
<1>4. \A m \in DOMAIN t : t[m].do # "print" => NamePlace(s, d, <<t[m].i, t[m].j>>) /\ t[m].ok
  BY <1>2, <1>3 DEF InQueue
<1>5. /\ \A x \in PlacesIn(t) : Place(s, d, x) /\ x[1] \notin Unread(s, L)
      /\ PlacesIn(t) \cap PlacesWaiting(a.pending_stats) = {}
      /\ PlacesIn(t) \cap Statted("access", L) = {} /\ PlacesIn(t) \cap Statted("exists", L) = {}
      /\ Place(s, d, p) /\ p[1] \notin Unread(s, L) /\ p \notin PlacesWaiting(a.pending_stats)
      /\ p \notin Statted("access", L) /\ p \notin Statted("exists", L)
  BY <1>2 DEF ScanOK
<1>6. ScanOK(s, L, d, t, a)
  BY <1>2, <1>4, <1>5 DEF ScanOK
<1>7. Free(s, L, d, t, a, p)
  BY <1>2, <1>5, <1>6 DEF Free
<1> QED BY <1>1, <1>2, <1>3, <1>7 DEF t, c, p

LEMMA FreeToPrint ==
    ASSUME NEW s, NEW L, NEW d, NEW q, NEW a, NEW c \in Call, Free(s, L, d, q, a, <<c.i, c.j>>),
           c.do = "print"
    PROVE  ScanOK(s, L, d, <<c>> \o q, a)
<1> DEFINE p == <<c.i, c.j>>
           r == <<c>> \o q
<1>1. ScanOK(s, L, d, q, a) /\ Place(s, d, p) /\ p[1] \notin Unread(s, L) /\ p \notin PlacesIn(q)
      /\ p \notin PlacesWaiting(a.pending_stats) /\ p \notin Statted("access", L)
      /\ p \notin Statted("exists", L)
  BY DEF Free
<1>2. q \in Seq(Call) /\ OncePerPlace(q)
  BY <1>1 DEF ScanOK
<1>3. /\ r \in Seq(Call) /\ InQueue(r) = InQueue(q) \cup {c} /\ PlacesIn(r) = PlacesIn(q) \cup {p}
      /\ OncePerPlace(r)
  BY <1>1, <1>2, PlacesCons
<1> HIDE DEF p, r
<1>4. \A x \in InQueue(q) : x.do # "print" => NamePlace(s, d, <<x.i, x.j>>) /\ x.ok
  BY <1>1 DEF ScanOK, InQueue
<1>5. \A m \in DOMAIN r : r[m].do # "print" => NamePlace(s, d, <<r[m].i, r[m].j>>) /\ r[m].ok
  BY <1>3, <1>4 DEF InQueue
<1>6. ScanOK(s, L, d, r, a)
  BY <1>1, <1>3, <1>5 DEF ScanOK
<1> QED BY <1>6 DEF r

\* A statx() cb is submitted for the name.
StatAdded(s, L, d, q, a, cb, kind) ==
    /\ ScanOK(s, L \cup {cb}, d, q, a) /\ StatsOK(s, L \cup {cb}, d, a)
    /\ cb \notin L /\ cb \in Callback /\ cb.k = kind

LEMMA FreeToExists ==
    ASSUME NEW s, NEW L \in SUBSET Callback, NEW d, NEW q, NEW a, NEW c \in Call,
           Free(s, L, d, q, a, <<c.i, c.j>>), StatsOK(s, L, d, a), NamePlace(s, d, <<c.i, c.j>>),
           NEW cb, IsStat(cb, "exists", c.i, c.j)
    PROVE  StatAdded(s, L, d, q, a, cb, "exists")
<1> DEFINE i == c.i
           j == c.j
           p == <<i, j>>
           M == L \cup {cb}
<1>0. i \in Nat /\ j \in Nat
  BY DEF Call
<1>1. ScanOK(s, L, d, q, a) /\ p[1] \notin Unread(s, L) /\ p \notin PlacesIn(q)
      /\ p \notin PlacesWaiting(a.pending_stats) /\ p \notin Statted("access", L)
      /\ p \notin Statted("exists", L) /\ NamePlace(s, d, p)
  BY DEF Free
<1>2. /\ Statted("exists", M) = Statted("exists", L) \cup {p} /\ cb \notin L /\ cb \in Callback
      /\ cb.k = "exists"
  <2>1. StatMoves(L, "exists", i, j, cb)
    BY <1>0, StattedFacts
  <2> QED BY <1>1, <2>1 DEF StatMoves
<1>3. Statted("access", M) = Statted("access", L)
  BY <1>2, StattedOthers
<1>4. Unread(s, M) = Unread(s, L)
  BY <1>2, UnreadOthers
<1>5. \A x \in M : /\ x.k \in {"index", "block"} => x.i \in 1 .. s.next - 1
                   /\ x.k = "block" => [k |-> "index", i |-> x.i] \notin M
  <2>1. \A x \in L : /\ x.k \in {"index", "block"} => x.i \in 1 .. s.next - 1
                     /\ x.k = "block" => [k |-> "index", i |-> x.i] \notin L
    BY <1>1 DEF ScanOK
  <2>2. \A x : [k |-> "index", i |-> x] # cb
    BY <1>2
  <2> QED BY <1>2, <2>1, <2>2
<1> HIDE DEF p, M
<1>6. /\ PlacesIn(q) \cap Statted("access", M) = {} /\ PlacesIn(q) \cap Statted("exists", M) = {}
      /\ PlacesWaiting(a.pending_stats) \cap Statted("access", M) = {}
      /\ PlacesWaiting(a.pending_stats) \cap Statted("exists", M) = {}
      /\ Statted("access", M) \cap Statted("exists", M) = {}
  BY <1>1, <1>2, <1>3 DEF ScanOK
<1>7. \A x \in PlacesWaiting(a.pending_stats) \cup Statted("access", M) \cup Statted("exists", M) :
               NamePlace(s, d, x) /\ x[1] \notin Unread(s, M)
  BY <1>1, <1>2, <1>3, <1>4 DEF ScanOK
<1>8. ScanOK(s, M, d, q, a)
  BY <1>1, <1>4, <1>5, <1>6, <1>7 DEF ScanOK
<1>9. StatsOK(s, M, d, a)
  BY <1>3 DEF StatsOK
<1> QED BY <1>2, <1>8, <1>9 DEF M, StatAdded

\* A statx() of its own: b is the cache with a new pending entry for n.
IsStarted(b, a, n) ==
    /\ b \in CacheType /\ b.granted = a.granted /\ b.denied = a.denied
    /\ DOMAIN b.pending_stats = DOMAIN a.pending_stats \cup {n}
    /\ b.pending_stats[n] = <<>>
    /\ \A k \in DOMAIN a.pending_stats : b.pending_stats[k] = a.pending_stats[k]
LEMMA StartedFacts ==
    ASSUME acc \in CacheType, NEW n \in Name, n \notin DOMAIN acc.pending_stats
    PROVE  IsStarted(Started(n), acc, n)
<1> DEFINE N == DOMAIN acc.pending_stats \cup {n}
           ps == [k \in N |-> IF k = n THEN <<>> ELSE acc.pending_stats[k]]
           b == Started(n)
<1>1. /\ DOMAIN acc.pending_stats \in SUBSET Name
      /\ \A k \in DOMAIN acc.pending_stats : acc.pending_stats[k] \in Seq(Call)
  BY CacheFacts
<1>2. N \in SUBSET Name /\ ps \in [N -> Seq(Call)]
  <2>1. \A k \in N : (IF k = n THEN <<>> ELSE acc.pending_stats[k]) \in Seq(Call)
    BY <1>1
  <2> QED BY <1>1, <2>1
<1>3. b = [acc EXCEPT !.pending_stats = ps]
  BY DEF Started
<1>4. DOMAIN ps = N /\ ps[n] = <<>> /\ \A k \in DOMAIN acc.pending_stats : ps[k] = acc.pending_stats[k]
  OBVIOUS
<1> HIDE DEF ps, b
<1>5. b \in CacheType /\ b.pending_stats = ps /\ b.granted = acc.granted /\ b.denied = acc.denied
  BY <1>2, <1>3, CacheWith
<1> QED BY <1>4, <1>5 DEF b, IsStarted

LEMMA FreeToAccess ==
    ASSUME NEW s, NEW L \in SUBSET Callback, NEW d, NEW q, NEW a, NEW c \in Call,
           Free(s, L, d, q, a, <<c.i, c.j>>), StatsOK(s, L, d, a), NamePlace(s, d, <<c.i, c.j>>),
           NEW n, n = HitsOf(s, d, c.i)[c.j], n \notin DOMAIN a.pending_stats,
           NEW b, IsStarted(b, a, n), NEW cb, IsStat(cb, "access", c.i, c.j)
    PROVE  StatAdded(s, L, d, q, b, cb, "access")
<1> DEFINE i == c.i
           j == c.j
           p == <<i, j>>
           M == L \cup {cb}
           ps == a.pending_stats
           pt == b.pending_stats
<1>0. i \in Nat /\ j \in Nat
  BY DEF Call
<1>1. ScanOK(s, L, d, q, a) /\ p[1] \notin Unread(s, L) /\ p \notin PlacesIn(q)
      /\ p \notin PlacesWaiting(ps) /\ p \notin Statted("access", L)
      /\ p \notin Statted("exists", L) /\ NamePlace(s, d, p)
  BY DEF Free
<1>2. /\ Statted("access", M) = Statted("access", L) \cup {p} /\ cb \notin L /\ cb \in Callback
      /\ cb.k = "access"
  <2>1. StatMoves(L, "access", i, j, cb)
    BY <1>0, StattedFacts
  <2> QED BY <1>1, <2>1 DEF StatMoves
<1>3. Statted("exists", M) = Statted("exists", L)
  BY <1>2, StattedOthers
<1>4. Unread(s, M) = Unread(s, L)
  BY <1>2, UnreadOthers
<1>5. \A x \in M : /\ x.k \in {"index", "block"} => x.i \in 1 .. s.next - 1
                   /\ x.k = "block" => [k |-> "index", i |-> x.i] \notin M
  <2>1. \A x \in L : /\ x.k \in {"index", "block"} => x.i \in 1 .. s.next - 1
                     /\ x.k = "block" => [k |-> "index", i |-> x.i] \notin L
    BY <1>1 DEF ScanOK
  <2>2. \A x : [k |-> "index", i |-> x] # cb
    BY <1>2
  <2> QED BY <1>2, <2>1, <2>2
<1>6. /\ DOMAIN pt = DOMAIN ps \cup {n} /\ pt[n] = <<>> /\ b \in CacheType
      /\ \A k \in DOMAIN ps : pt[k] = ps[k]
  BY DEF IsStarted
<1>7. PlacesIn(<<>>) = {} /\ OncePerPlace(<<>>) /\ DOMAIN (<<>>) = {}
  BY DEF PlacesIn, OncePerPlace
<1>8. \A k \in DOMAIN pt : k = n \/ (k \in DOMAIN ps /\ k # n)
  BY <1>6
<1>9. PlacesWaiting(pt) = PlacesWaiting(ps)
  <2>1. \A k \in DOMAIN pt : PlacesIn(pt[k]) \subseteq PlacesWaiting(ps)
    BY <1>6, <1>7, <1>8 DEF PlacesWaiting
  <2>2. \A k \in DOMAIN ps : PlacesIn(ps[k]) \subseteq PlacesWaiting(pt)
    BY <1>6 DEF PlacesWaiting
  <2>3. PlacesWaiting(pt) \subseteq PlacesWaiting(ps)
    BY <2>1 DEF PlacesWaiting
  <2>4. PlacesWaiting(ps) \subseteq PlacesWaiting(pt)
    BY <2>2 DEF PlacesWaiting
  <2> QED BY <2>3, <2>4
<1> HIDE DEF p, M, pt
<1>10. /\ PlacesIn(q) \cap Statted("access", M) = {} /\ PlacesIn(q) \cap Statted("exists", M) = {}
       /\ PlacesWaiting(pt) \cap Statted("access", M) = {} /\ PlacesIn(q) \cap PlacesWaiting(pt) = {}
       /\ PlacesWaiting(pt) \cap Statted("exists", M) = {}
       /\ Statted("access", M) \cap Statted("exists", M) = {}
  BY <1>1, <1>2, <1>3, <1>9 DEF ScanOK
<1>11. \A x \in PlacesWaiting(pt) \cup Statted("access", M) \cup Statted("exists", M) :
               NamePlace(s, d, x) /\ x[1] \notin Unread(s, M)
  BY <1>1, <1>2, <1>3, <1>4, <1>9 DEF ScanOK
<1>12. \A k \in DOMAIN pt : /\ OncePerPlace(pt[k])
                            /\ \A m \in DOMAIN pt[k] : pt[k][m].do = "check" /\ pt[k][m].ok
  BY <1>1, <1>6, <1>7, <1>8 DEF ScanOK
<1>13. \A k, l \in DOMAIN pt : k # l => PlacesIn(pt[k]) \cap PlacesIn(pt[l]) = {}
  <2> SUFFICES ASSUME NEW k \in DOMAIN pt, NEW l \in DOMAIN pt, k # l
               PROVE  PlacesIn(pt[k]) \cap PlacesIn(pt[l]) = {}
    OBVIOUS
  <2>1. CASE k = n \/ l = n
    BY <1>6, <1>7, <2>1
  <2>2. CASE k # n /\ l # n
    <3>1. \A n1, n2 \in DOMAIN ps : n1 # n2 => PlacesIn(ps[n1]) \cap PlacesIn(ps[n2]) = {}
      BY <1>1 DEF ScanOK
    <3>2. k \in DOMAIN ps /\ l \in DOMAIN ps /\ pt[k] = ps[k] /\ pt[l] = ps[l]
      BY <1>6, <1>8, <2>2
    <3> QED BY <3>1, <3>2
  <2> QED BY <2>1, <2>2
<1>14. ScanOK(s, M, d, q, b)
  BY <1>1, <1>4, <1>5, <1>6, <1>10, <1>11, <1>12, <1>13 DEF ScanOK, pt
<1>15. StatsOK(s, M, d, b)
  <2> DEFINE nm(x) == HitsOf(s, d, x[1])[x[2]]
  <2>1. /\ DOMAIN ps = {nm(x) : x \in Statted("access", L)}
        /\ \A x, y \in Statted("access", L) : nm(x) = nm(y) => x = y
    BY DEF StatsOK
  <2>2. nm(p) = n
    BY DEF p
  <2> HIDE DEF nm
  <2>3. DOMAIN pt = {nm(x) : x \in Statted("access", M)}
    BY <1>2, <1>6, <2>1, <2>2
  <2>4. \A x \in Statted("access", L) : nm(x) # n
    BY <2>1
  <2>5. \A x, y \in Statted("access", M) : nm(x) = nm(y) => x = y
    BY <1>2, <2>1, <2>2, <2>4
  <2> QED BY <2>3, <2>5 DEF StatsOK, nm, pt
<1> QED BY <1>2, <1>14, <1>15 DEF M, StatAdded

\* The name waits for the statx() of another: b is the cache with c queued at k.
IsJoined(b, a, k, c) ==
    /\ b \in CacheType /\ b.granted = a.granted /\ b.denied = a.denied
    /\ DOMAIN b.pending_stats = DOMAIN a.pending_stats
    /\ b.pending_stats[k] = Append(a.pending_stats[k], c)
    /\ \A l \in DOMAIN a.pending_stats : l # k => b.pending_stats[l] = a.pending_stats[l]
LEMMA JoinedFacts ==
    ASSUME acc \in CacheType, NEW n, lower_bound(n) \in DOMAIN acc.pending_stats, NEW c \in Call
    PROVE  IsJoined(Joined(n, c), acc, lower_bound(n), c)
<1> DEFINE k == lower_bound(n)
           N == DOMAIN acc.pending_stats
           ps == [acc.pending_stats EXCEPT ![k] = Append(@, c)]
           b == Joined(n, c)
<1>1. N \in SUBSET Name /\ \A l \in N : acc.pending_stats[l] \in Seq(Call)
  BY CacheFacts
<1>2. b = [acc EXCEPT !.pending_stats = ps]
  BY DEF Joined
<1>3. acc.pending_stats \in [N -> Seq(Call)]
  BY <1>1, CacheFacts
<1> HIDE DEF k, N
<1>4. k \in N /\ Append(acc.pending_stats[k], c) \in Seq(Call)
  BY <1>1 DEF k, N
<1>5. ps \in [N -> Seq(Call)] /\ DOMAIN ps = N /\ ps[k] = Append(acc.pending_stats[k], c)
      /\ \A l \in N : l # k => ps[l] = acc.pending_stats[l]
  BY <1>3, <1>4
<1> HIDE DEF ps, b
<1>6. b \in CacheType /\ b.pending_stats = ps /\ b.granted = acc.granted /\ b.denied = acc.denied
  BY <1>1, <1>2, <1>5, CacheWith
<1> QED BY <1>5, <1>6 DEF b, IsJoined, k, N

LEMMA FreeToWaiting ==
    ASSUME NEW s, NEW L, NEW d, NEW q, NEW a \in CacheType, NEW c \in Call,
           Free(s, L, d, q, a, <<c.i, c.j>>), StatsOK(s, L, d, a), NamePlace(s, d, <<c.i, c.j>>),
           c.do = "check", c.ok, NEW k \in DOMAIN a.pending_stats, NEW b, IsJoined(b, a, k, c)
    PROVE  ScanOK(s, L, d, q, b) /\ StatsOK(s, L, d, b)
<1> DEFINE p == <<c.i, c.j>>
           ps == a.pending_stats
           pt == b.pending_stats
<1>1. ScanOK(s, L, d, q, a) /\ p[1] \notin Unread(s, L) /\ p \notin PlacesIn(q)
      /\ p \notin PlacesWaiting(ps) /\ p \notin Statted("access", L)
      /\ p \notin Statted("exists", L) /\ NamePlace(s, d, p)
  BY DEF Free
<1>2. /\ DOMAIN pt = DOMAIN ps /\ pt[k] = Append(ps[k], c) /\ b \in CacheType
      /\ \A l \in DOMAIN ps : l # k => pt[l] = ps[l]
  BY DEF IsJoined
<1>3. ps[k] \in Seq(Call)
  BY CacheFacts
<1>4. p \notin PlacesIn(ps[k]) /\ OncePerPlace(ps[k])
  BY <1>1 DEF PlacesWaiting, ScanOK
<1>5. /\ pt[k] \in Seq(Call) /\ InQueue(pt[k]) = InQueue(ps[k]) \cup {c}
      /\ PlacesIn(pt[k]) = PlacesIn(ps[k]) \cup {p} /\ OncePerPlace(pt[k])
  BY <1>2, <1>3, <1>4, PlacesAppend
<1> HIDE DEF p, pt
<1>6. PlacesWaiting(pt) \subseteq PlacesWaiting(ps) \cup {p}
  <2>1. \A l \in DOMAIN pt : PlacesIn(pt[l]) \subseteq PlacesWaiting(ps) \cup {p}
    BY <1>2, <1>5 DEF PlacesWaiting
  <2> QED BY <2>1 DEF PlacesWaiting
<1>7. /\ PlacesWaiting(pt) \cap Statted("access", L) = {} /\ PlacesIn(q) \cap PlacesWaiting(pt) = {}
      /\ PlacesWaiting(pt) \cap Statted("exists", L) = {}
  BY <1>1, <1>6 DEF ScanOK
<1>8. \A x \in PlacesWaiting(pt) \cup Statted("access", L) \cup Statted("exists", L) :
               NamePlace(s, d, x) /\ x[1] \notin Unread(s, L)
  BY <1>1, <1>6 DEF ScanOK
<1>9. \A l \in DOMAIN pt : /\ OncePerPlace(pt[l])
                           /\ \A x \in InQueue(pt[l]) : x.do = "check" /\ x.ok
  <2>1. \A l \in DOMAIN ps : /\ OncePerPlace(ps[l])
                             /\ \A x \in InQueue(ps[l]) : x.do = "check" /\ x.ok
    BY <1>1 DEF ScanOK, InQueue
  <2> QED BY <1>2, <1>5, <2>1
<1>10. \A l, m \in DOMAIN pt : l # m => PlacesIn(pt[l]) \cap PlacesIn(pt[m]) = {}
  <2>1. \A l \in DOMAIN ps : p \notin PlacesIn(ps[l])
    BY <1>1 DEF PlacesWaiting
  <2>2. \A l, m \in DOMAIN ps : l # m => PlacesIn(ps[l]) \cap PlacesIn(ps[m]) = {}
    BY <1>1 DEF ScanOK
  <2> SUFFICES ASSUME NEW l \in DOMAIN pt, NEW m \in DOMAIN pt, l # m
               PROVE  PlacesIn(pt[l]) \cap PlacesIn(pt[m]) = {}
    OBVIOUS
  <2>3. /\ PlacesIn(ps[l]) \cap PlacesIn(ps[m]) = {}
        /\ p \notin PlacesIn(ps[l]) /\ p \notin PlacesIn(ps[m])
    BY <1>2, <2>1, <2>2
  <2>4. CASE l = k
    <3>1. pt[m] = ps[m] /\ PlacesIn(pt[l]) = PlacesIn(ps[l]) \cup {p}
      BY <1>2, <1>5, <2>4
    <3> QED BY <2>3, <3>1
  <2>5. CASE m = k
    <3>1. pt[l] = ps[l] /\ PlacesIn(pt[m]) = PlacesIn(ps[m]) \cup {p}
      BY <1>2, <1>5, <2>5
    <3> QED BY <2>3, <3>1
  <2>6. CASE l # k /\ m # k
    BY <1>2, <2>3, <2>6
  <2> QED BY <2>4, <2>5, <2>6
<1>11. \A l \in DOMAIN pt : \A m \in DOMAIN pt[l] : pt[l][m].do = "check" /\ pt[l][m].ok
  BY <1>9 DEF InQueue
<1>12. ScanOK(s, L, d, q, b)
  BY <1>1, <1>2, <1>7, <1>8, <1>9, <1>10, <1>11 DEF ScanOK, pt
<1>13. StatsOK(s, L, d, b)
  BY <1>2 DEF StatsOK, pt
<1> QED BY <1>12, <1>13

\* What a call has to keep; it runs in a callback of the scan.
LEMMA ScanCall ==
    ASSUME SInv, pc \in Scanning, at = "callback", UNCHANGED at,
           UNCHANGED <<mainVars, pc, readable, fixedEngine>>,
           EngOK(eng', Mode), AtOK(eng', "callback", Mode), loc' \in LocType(set.query),
           loc'.next = loc.next, loc'.docids = loc.docids,
           \A b \in Live(eng') \ Live(eng) : b.k \in {"access", "exists"} /\ supports_stat,
           acc' \in CacheType, acc'.granted \subseteq readable, acc'.denied \cap readable = {},
           ScanOK(loc, Live(eng'), db, todo', acc'), StatsOK(loc, Live(eng'), db, acc'),
           supports_stat \/ DOMAIN acc'.pending_stats = DOMAIN acc.pending_stats
    PROVE  SInv'
<1>1. UNCHANGED <<set, db, how, using_uring, supports_stat, readable, pc, at>>
  BY DEF mainVars, fixedEngine
<1>2. /\ pc = "scanned" => loc.next > Len(loc.docids)
      /\ ~supports_stat => /\ DOMAIN acc.pending_stats = {}
                           /\ \A b \in Live(eng) : b.k \notin {"access", "exists"}
      /\ using_uring => pc = "scanned"
      /\ \A b \in Live(eng) : Belongs(b, pc)
  BY ScanFacts
<1>3. supports_stat => pc = "scanned"
  BY <1>2, Basics
<1>4. \A b \in Live(eng') : Belongs(b, pc') /\ (~supports_stat => b.k \notin {"access", "exists"})
  BY <1>1, <1>2, <1>3 DEF Belongs
<1>5. ScanOK(loc', Live(eng'), db, todo', acc') /\ StatsOK(loc', Live(eng'), db, acc')
  <2> DEFINE s == loc
             u == loc'
             M == Live(eng')
             q == todo'
             a == acc'
  <2>1. ScanOK(s, M, db, q, a) /\ StatsOK(s, M, db, a) /\ u.next = s.next /\ u.docids = s.docids
    OBVIOUS
  <2> SUFFICES ScanOK(u, M, db, q, a) /\ StatsOK(u, M, db, a)
    OBVIOUS
  <2> HIDE DEF s, u, M, q, a
  <2>2. Unread(u, M) \subseteq Unread(s, M)
    BY <2>1 DEF Unread
  <2>3. /\ u.next \in 1 .. Len(u.docids) + 1
        /\ \A b \in M : /\ b.k \in {"index", "block"} => b.i \in 1 .. u.next - 1
                        /\ b.k = "block" => [k |-> "index", i |-> b.i] \notin M
    BY <2>1 DEF ScanOK
  <2> QED BY <2>1, <2>2, <2>3, NamesStay
<1> QED BY <1>1, <1>2, <1>3, <1>4, <1>5, ScanStep

\* The first call in todo, in the state before it.
LEMMA FirstCall ==
    ASSUME SInv, pc # "end", todo # <<>>
    PROVE  LET c == Head(todo)
           IN  /\ pc \in Scanning /\ c \in Call /\ c.i \in Nat /\ c.j \in Nat /\ c.ok \in BOOLEAN
               /\ Free(loc, Live(eng), db, Tail(todo), acc, <<c.i, c.j>>)
               /\ StatsOK(loc, Live(eng), db, acc)
               /\ c.do # "print" => /\ NamePlace(loc, db, <<c.i, c.j>>) /\ c.ok
                                    /\ Hits(c.i)[c.j] = HitsOf(loc, db, c.i)[c.j]
                                    /\ Hits(c.i)[c.j] \in Name
<1> DEFINE c == Head(todo)
<1>1. pc \in Scanning
  BY DEF SInv, PcOK
<1>2. ScanOK(loc, Live(eng), db, todo, acc) /\ StatsOK(loc, Live(eng), db, acc) /\ db \in Databases
  BY <1>1, ScanFacts
<1>3. /\ c \in Call /\ Free(loc, Live(eng), db, Tail(todo), acc, <<c.i, c.j>>)
      /\ c.do # "print" => NamePlace(loc, db, <<c.i, c.j>>) /\ c.ok
  BY <1>2, CallTaken
<1> HIDE DEF c
<1>4. c.i \in Nat /\ c.j \in Nat /\ c.ok \in BOOLEAN
  BY <1>3 DEF Call
<1>5. ASSUME NamePlace(loc, db, <<c.i, c.j>>)
      PROVE  Hits(c.i)[c.j] = HitsOf(loc, db, c.i)[c.j] /\ Hits(c.i)[c.j] \in Name
  <2>1. c.i \in 1 .. Len(loc.docids) /\ c.j \in DOMAIN HitsOf(loc, db, c.i)
    BY <1>5 DEF NamePlace
  <2>2. loc.docids \in Seq(Docs)
    BY Basics DEF LocType
  <2>3. loc.docids[c.i] \in Docs
    BY <2>1, <2>2
  <2>4. db.hits \in [Docs -> Seq(Name)]
    BY <1>2, SearchAssumption
  <2>5. HitsOf(loc, db, c.i) \in Seq(Name) /\ Hits(c.i) = HitsOf(loc, db, c.i)
    BY <2>3, <2>4 DEF HitsOf, Hits
  <2> QED BY <2>1, <2>5
<1> QED BY <1>1, <1>2, <1>3, <1>4, <1>5 DEF c

\* stat_if_needed() asks the kernel, or the call goes on to be printed.
Answered ==
    \/ /\ supports_stat /\ todo' = Tail(todo)
       /\ eng' = submit_stat(eng, [k |-> "exists", i |-> Head(todo).i, j |-> Head(todo).j])
    \/ \E b \in BOOLEAN :
           /\ todo' = <<[Head(todo) EXCEPT !.do = "print", !.ok = b]>> \o Tail(todo)
           /\ UNCHANGED eng

LEMMA StepAnswered ==
    ASSUME SInv, pc # "end", todo # <<>>, Head(todo).do # "print", at = "callback", Answered,
           UNCHANGED at, UNCHANGED <<mainVars, pc, readable, fixedEngine>>, UNCHANGED loc,
           acc' \in CacheType, acc'.granted \subseteq readable, acc'.denied \cap readable = {},
           acc'.pending_stats = acc.pending_stats
    PROVE  SInv'
<1> DEFINE c == Head(todo)
           q == Tail(todo)
           L == Live(eng)
           p == <<c.i, c.j>>
           cb == [k |-> "exists", i |-> c.i, j |-> c.j]
<1>1. /\ pc \in Scanning /\ c \in Call /\ c.i \in Nat /\ c.j \in Nat
      /\ Free(loc, L, db, q, acc, p) /\ StatsOK(loc, L, db, acc) /\ NamePlace(loc, db, p)
  BY FirstCall
<1>2. L \in SUBSET Callback
  BY Basics
<1>3. Free(loc, L, db, q, acc', p) /\ StatsOK(loc, L, db, acc')
  <2>1. ScanOK(loc, L, db, q, acc')
    BY <1>1 DEF Free, ScanOK
  <2> QED BY <1>1, <2>1 DEF Free, StatsOK
<1>4. IsStat(cb, "exists", c.i, c.j)
  BY DEF IsStat
<1>5. loc' \in LocType(set.query) /\ loc'.next = loc.next /\ loc'.docids = loc.docids
  BY Basics
<1>6. CASE supports_stat /\ todo' = Tail(todo) /\ eng' = submit_stat(eng, cb)
  <2>1. Mode = "uring" /\ EngOK(eng, "uring") /\ AtOK(eng, "callback", "uring")
    BY <1>6, Basics
  <2> HIDE DEF cb, q, L, c
  <2>2. /\ ScanOK(loc, L \cup {cb}, db, q, acc') /\ StatsOK(loc, L \cup {cb}, db, acc')
        /\ cb \notin L /\ cb \in Callback /\ cb.k = "exists"
    <3>1. StatAdded(loc, L, db, q, acc', cb, "exists")
      BY <1>1, <1>2, <1>3, <1>4, FreeToExists
    <3> QED BY <3>1 DEF StatAdded
  <2>3. /\ EngOK(submit_stat(eng, cb), "uring") /\ Live(submit_stat(eng, cb)) = Live(eng) \cup {cb}
        /\ AtOK(submit_stat(eng, cb), "callback", "uring")
    BY <2>1, <2>2, SubmitStatOK DEF L
  <2>4. EngOK(eng', Mode) /\ AtOK(eng', "callback", Mode) /\ Live(eng') = L \cup {cb}
    BY <1>6, <2>1, <2>3 DEF L
  <2>5. \A b \in Live(eng') \ Live(eng) : b.k \in {"access", "exists"} /\ supports_stat
    BY <1>6, <2>2, <2>4 DEF L
  <2>6. todo' = q
    BY <1>6 DEF q
  <2> QED BY <1>1, <1>5, <1>6, <2>2, <2>4, <2>5, <2>6, ScanCall
<1>7. ASSUME NEW b \in BOOLEAN, todo' = <<[c EXCEPT !.do = "print", !.ok = b]>> \o q, UNCHANGED eng
      PROVE  SInv'
  <2> DEFINE e == [c EXCEPT !.do = "print", !.ok = b]
  <2>1. e \in Call /\ e.i = c.i /\ e.j = c.j /\ e.do = "print" /\ todo' = <<e>> \o q
    BY <1>1, <1>7 DEF Call
  <2> HIDE DEF e, q, L, c
  <2>2. ScanOK(loc, L, db, <<e>> \o q, acc')
    BY <1>3, <2>1, FreeToPrint
  <2>3. EngOK(eng', Mode) /\ AtOK(eng', "callback", Mode) /\ Live(eng') = L
    BY <1>7, Basics DEF L
  <2>4. \A x \in Live(eng') \ Live(eng) : x.k \in {"access", "exists"} /\ supports_stat
    BY <2>3 DEF L
  <2> QED BY <1>1, <1>3, <1>5, <2>1, <2>2, <2>3, <2>4, ScanCall
<1> QED BY <1>6, <1>7 DEF Answered

LEMMA AnswerForms ==
    ASSUME set \in Settings, NEW ok \in BOOLEAN, Answer(Head(todo), ok) PROVE Answered
<1>1. set.check_existence \in BOOLEAN
  BY SettingsFacts
<1>2. (ok /\ (set.check_existence => Hits(Head(todo).i)[Head(todo).j] \in set.existing)) \in BOOLEAN
  OBVIOUS
<1> QED BY <1>2 DEF Answer, Answered

LEMMA StepCheckAccess ==
    ASSUME SInv, pc # "end", at = "callback", check_access,
           UNCHANGED at, UNCHANGED <<mainVars, pc, readable, fixedEngine>>
    PROVE  SInv'
<1> DEFINE c == Head(todo)
           n == Hits(c.i)[c.j]
           L == Live(eng)
           q == Tail(todo)
           p == <<c.i, c.j>>
<1>1. todo # <<>> /\ c.do \in {"check", "check_now"} /\ c.do # "print" /\ UNCHANGED loc
  BY DEF check_access
<1>2. /\ pc \in Scanning /\ c \in Call /\ c.i \in Nat /\ c.j \in Nat
      /\ Free(loc, L, db, q, acc, p) /\ StatsOK(loc, L, db, acc) /\ NamePlace(loc, db, p)
      /\ c.ok /\ n = HitsOf(loc, db, c.i)[c.j] /\ n \in Name
  BY <1>1, FirstCall
<1>3. /\ acc \in CacheType /\ acc.granted \subseteq readable /\ acc.denied \cap readable = {}
  BY <1>2, ScanFacts
<1>4. L \in SUBSET Callback /\ set \in Settings
  BY Basics
<1>5. loc' \in LocType(set.query) /\ loc'.next = loc.next /\ loc'.docids = loc.docids
  BY <1>1, Basics
<1>6. CASE \/ ~set.check_visibility /\ Answer(c, TRUE) /\ UNCHANGED acc
           \/ Settled(n) /\ Answer(c, Unsettled(n) = 0) /\ UNCHANGED acc
  <2>1. Answered /\ UNCHANGED acc
    <3>1. CASE Answer(c, TRUE) /\ UNCHANGED acc
      BY <1>4, <3>1, AnswerForms
    <3>2. CASE Answer(c, Unsettled(n) = 0) /\ UNCHANGED acc
      BY <3>2 DEF Answer, Answered
    <3> QED BY <1>6, <3>1, <3>2
  <2> QED BY <1>1, <1>3, <2>1, StepAnswered
<1>7. CASE Answer(c, CheckNow(n).ok) /\ acc' = CheckNow(n).cache
  <2> HIDE DEF n
  <2>1. /\ acc' \in CacheType /\ acc'.granted \subseteq readable /\ acc'.denied \cap readable = {}
        /\ acc'.pending_stats = acc.pending_stats /\ CheckNow(n).ok \in BOOLEAN
    BY <1>2, <1>3, <1>7, CheckNowFacts
  <2>2. Answered
    BY <1>4, <1>7, <2>1, AnswerForms
  <2> QED BY <1>1, <2>1, <2>2, StepAnswered, SMTT(40)
<1>8. CASE /\ c.do = "check" /\ supports_stat /\ Joinable(n) # {}
           /\ acc' = Joined(n, c) /\ todo' = Tail(todo) /\ UNCHANGED eng
  <2> DEFINE k == lower_bound(n)
  <2> HIDE DEF n, q, L, c
  <2>1. k \in DOMAIN acc.pending_stats
    BY <1>2, <1>3, <1>8, LowerBound
  <2>2. IsJoined(acc', acc, k, c)
    BY <1>2, <1>3, <1>8, <2>1, JoinedFacts
  <2> HIDE DEF k
  <2>3. ScanOK(loc, L, db, q, acc') /\ StatsOK(loc, L, db, acc')
    BY <1>2, <1>3, <1>8, <2>1, <2>2, FreeToWaiting
  <2>4. EngOK(eng', Mode) /\ AtOK(eng', "callback", Mode) /\ Live(eng') = L
    BY <1>8, Basics DEF L
  <2>5. \A x \in Live(eng') \ Live(eng) : x.k \in {"access", "exists"} /\ supports_stat
    BY <2>4 DEF L
  <2>6. acc' \in CacheType /\ acc'.granted \subseteq readable /\ acc'.denied \cap readable = {}
    BY <1>3, <2>2 DEF IsJoined
  <2>7. todo' = q
    BY <1>8 DEF q
  <2> QED BY <1>2, <1>5, <1>8, <2>3, <2>4, <2>5, <2>6, <2>7, ScanCall
<1>9. CASE /\ supports_stat /\ ~Settled(n) /\ Joinable(n) = {}
           /\ acc' = Started(n) /\ todo' = Tail(todo)
           /\ eng' = submit_stat(eng, [k |-> "access", i |-> c.i, j |-> c.j])
  <2> DEFINE cb == [k |-> "access", i |-> c.i, j |-> c.j]
  <2>1. Mode = "uring" /\ EngOK(eng, "uring") /\ AtOK(eng, "callback", "uring")
    BY <1>9, Basics
  <2>2. IsStat(cb, "access", c.i, c.j) /\ eng' = submit_stat(eng, cb)
    BY <1>9 DEF IsStat
  <2> HIDE DEF cb, n, q, L, c
  <2>3. n \notin DOMAIN acc.pending_stats
    BY <1>2, <1>3, <1>9, NotYetStarted
  <2>4. IsStarted(acc', acc, n)
    BY <1>2, <1>3, <1>9, <2>3, StartedFacts
  <2>5. /\ ScanOK(loc, L \cup {cb}, db, q, acc') /\ StatsOK(loc, L \cup {cb}, db, acc')
        /\ cb \notin L /\ cb \in Callback /\ cb.k = "access"
    <3>1. StatAdded(loc, L, db, q, acc', cb, "access")
      BY <1>2, <1>4, <2>2, <2>3, <2>4, FreeToAccess
    <3> QED BY <3>1 DEF StatAdded
  <2>6. /\ EngOK(submit_stat(eng, cb), "uring") /\ Live(submit_stat(eng, cb)) = Live(eng) \cup {cb}
        /\ AtOK(submit_stat(eng, cb), "callback", "uring")
    BY <2>1, <2>5, SubmitStatOK DEF L
  <2>7. EngOK(eng', Mode) /\ AtOK(eng', "callback", Mode) /\ Live(eng') = L \cup {cb}
    BY <2>1, <2>2, <2>6 DEF L
  <2>8. \A b \in Live(eng') \ Live(eng) : b.k \in {"access", "exists"} /\ supports_stat
    BY <1>9, <2>5, <2>7 DEF L
  <2>9. acc' \in CacheType /\ acc'.granted \subseteq readable /\ acc'.denied \cap readable = {}
    BY <1>3, <2>4 DEF IsStarted
  <2>10. todo' = q
    BY <1>9 DEF q
  <2> QED BY <1>2, <1>5, <1>9, <2>5, <2>7, <2>8, <2>9, <2>10, ScanCall
<1> QED BY <1>6, <1>7, <1>8, <1>9 DEF check_access

LEMMA StepPrint ==
    ASSUME SInv, pc # "end", at = "callback", print,
           UNCHANGED at, UNCHANGED <<mainVars, pc, readable, fixedEngine>>
    PROVE  SInv'
<1>1. /\ todo # <<>> /\ todo' = Tail(todo) /\ UNCHANGED <<eng, acc>>
      /\ loc' = loc \/ loc' = [loc EXCEPT !.matched = @ + 1]
  BY DEF print
<1>2. /\ pc \in Scanning /\ StatsOK(loc, Live(eng), db, acc)
      /\ ScanOK(loc, Live(eng), db, Tail(todo), acc)
  BY <1>1, FirstCall DEF Free
<1>3. loc' \in LocType(set.query) /\ loc'.next = loc.next /\ loc'.docids = loc.docids
  <2>1. loc \in LocType(set.query)
    BY Basics
  <2>2. loc.matched \in Nat
    BY <2>1 DEF LocType
  <2>3. loc.matched + 1 \in Nat
    BY <2>2
  <2> QED BY <1>1, <2>1, <2>3 DEF LocType
<1>4. /\ acc \in CacheType /\ acc.granted \subseteq readable /\ acc.denied \cap readable = {}
  BY <1>2, ScanFacts
<1>5. EngOK(eng', Mode) /\ AtOK(eng', "callback", Mode) /\ Live(eng') = Live(eng)
  BY <1>1, Basics
<1>6. \A b \in Live(eng') \ Live(eng) : b.k \in {"access", "exists"} /\ supports_stat
  BY <1>5
<1> QED BY <1>1, <1>2, <1>3, <1>4, <1>5, <1>6, ScanCall

\* The invariant does not speak about the serializer.
LEMMA SameState ==
    ASSUME SInv, UNCHANGED <<set, db, how, pc, loc, todo, using_uring, supports_stat, eng, at,
                             readable, acc>>
    PROVE  SInv'
<1>1. EngOK(eng', Mode') /\ AtOK(eng', at', Mode')
  BY DEF SInv, Mode
<1>2. Fixed' /\ PcOK'
  BY DEF SInv, Fixed, PcOK
<1>3. SearchOK' /\ ScanInv'
  BY DEF SInv, SearchOK, ScanInv
<1> QED BY <1>1, <1>2, <1>3 DEF SInv

\* A step of the engine: the same callbacks are under way.
LEMMA EngineStep ==
    ASSUME SInv, pc \notin {"end", "main", "nothing"},
           UNCHANGED <<mainVars, pc, loc, todo, readable, fixedEngine, acc>>,
           EngOK(eng', Mode), AtOK(eng', at', Mode), Live(eng') = Live(eng),
           todo = <<>>, at' # "callback", using_uring /\ at' # "out" => pc \in Finishing,
           at' = "out" /\ eng'.sync = <<>> /\ pc \in Finishing => Live(eng') = {}
    PROVE  SInv'
<1>1. UNCHANGED <<set, db, how, pc, loc, todo, using_uring, supports_stat, readable, acc>>
  BY DEF mainVars, fixedEngine
<1>2. EngOK(eng', Mode') /\ AtOK(eng', at', Mode')
  BY <1>1 DEF Mode
<1>3. Fixed'
  BY <1>1 DEF SInv, Fixed
<1>4. PcOK'
  BY <1>1 DEF SInv, PcOK
<1>5. SearchOK' /\ ScanInv'
  BY <1>1 DEF SInv, SearchOK, ScanInv
<1> QED BY <1>2, <1>3, <1>4, <1>5 DEF SInv

LEMMA NothingSync == ASSUME NEW e, EngOK(e, "sync"), e.sync = <<>> PROVE Live(e) = {}
<1>1. Ring(e) = {} /\ e.queued_stats = <<>> /\ e.queued_reads = <<>>
  BY DEF EngOK
<1>2. InQueue(<<>>) = {}
  BY DEF InQueue
<1> QED BY <1>1, <1>2 DEF Live, Requests, Waiting

LEMMA StepInCallback == ASSUME SInv, pc # "end", InCallback PROVE SInv'
<1>1. at = "callback" /\ UNCHANGED <<mainVars, pc, readable, fixedEngine>>
  BY DEF InCallback
<1>2. CASE Drain /\ UNCHANGED <<at, todo, loc, eng, acc>>
  BY <1>1, <1>2, SameState DEF mainVars, fixedEngine
<1>3. CASE (check_access \/ print) /\ UNCHANGED at
  BY <1>1, <1>3, StepCheckAccess, StepPrint
<1>4. CASE todo = <<>> /\ CallbackReturns /\ UNCHANGED <<todo, loc, acc, serializerVars>>
  <2>1. /\ EngOK(eng', Mode) /\ AtOK(eng', at', Mode) /\ Live(eng') = Live(eng)
        /\ at' = (IF using_uring THEN "next" ELSE "out")
    BY <1>4, Basics, CallbackReturnsOK
  <2>2. pc \notin {"main", "nothing"} /\ (using_uring => pc \in Finishing)
    BY <1>1 DEF SInv, PcOK
  <2>3. at' = "out" /\ eng'.sync = <<>> => Live(eng') = {}
    BY <2>1, Basics, NothingSync
  <2> QED BY <1>1, <1>4, <2>1, <2>2, <2>3, EngineStep
<1> QED BY <1>2, <1>3, <1>4 DEF InCallback

LEMMA StepFinish == ASSUME SInv, pc # "end", finish PROVE SInv'
<1>1. /\ \/ FinishReturns \/ Peek \/ Wait \/ SubmitQueued \/ \E r \in eng.kernel : ShortRead(r)
      /\ UNCHANGED <<mainVars, pc, loc, todo, readable, fixedEngine, acc>>
  BY DEF finish, accessVars
<1>2. /\ EngOK(eng', Mode) /\ AtOK(eng', at', Mode) /\ Live(eng') = Live(eng)
      /\ using_uring /\ at \notin {"out", "callback"} /\ at' # "callback"
      /\ at' = "out" => Live(eng') = {}
  BY <1>1, Basics, FinishOK
<1>3. pc \notin {"main", "nothing"} /\ pc \in Finishing /\ todo = <<>>
  BY <1>2 DEF SInv, PcOK
<1> QED BY <1>1, <1>2, <1>3, EngineStep

-----------------------------------------------------------------------------
(* The theorems.                                                           *)

LEMMA StepSInv == ASSUME SInv, [Next]_vars PROVE SInv'
<1>1. CASE Main
  BY <1>1, StepOpenDatabase, StepReturns, StepEnds DEF Main
<1>2. CASE Thread
  <2>1. CASE Lookup \/ AwaitLookups \/ EarlyExit \/ SortGroups \/ NextGroup \/ GroupDone
    BY <2>1, StepLookup, StepAwaitLookups, StepReturns, StepSortGroups, StepNextGroup, StepGroupDone
  <2>2. CASE ReadPostings \/ CaughtUp \/ AwaitPostings \/ NoCandidates \/ StartScan
    BY <2>2, StepReadPostings, StepCaughtUp, StepAwaitPostings, StepReturns, StepStartScan
  <2>3. CASE get_compressed_filename_block \/ AwaitBlocks \/ Scanned
    BY <2>3, StepGetBlock, StepAwaitBlocks, StepReturns
  <2> QED BY <1>2, <2>1, <2>2, <2>3 DEF Thread
<1>3. CASE Engine
  BY <1>3, StepOnCompletion, StepInCallback, StepFinish DEF Engine
<1>4. CASE OpenFails \/ ReadFails
  BY <1>4, StepEnds
<1>5. CASE UNCHANGED vars
  BY <1>5, SameState DEF vars, mainVars, engineVars, accessVars
<1> QED BY <1>1, <1>2, <1>3, <1>4, <1>5 DEF Next

LEMMA AlwaysSInv == Spec => []SInv
<1>1. SInv /\ [Next]_vars => SInv'
  BY StepSInv
<1> QED BY InitOK, <1>1, PTL DEF Spec

\* The engine is sound whatever is asked of it: for every queue depth, number of
\* pieces a read comes in, and order of completions, it counts its requests right,
\* and never waits in the kernel for what it has yet to submit.
THEOREM EngineSoundness == Spec => []EngineSound
<1>1. ASSUME SInv PROVE EngineSound
  <2>1. Pending = Ring(eng) /\ Queued = Waiting(eng)
    BY DEF Pending, Queued, Ring, Waiting, InQueue
  <2>2. /\ EngOK(eng, Mode) /\ AtOK(eng, at, Mode) /\ Mode \in {"uring", "sync"}
    BY <1>1, Basics
  <2>3. eng.pending_reads = Cardinality(Ring(eng)) /\ eng.pending_reads <= QueueDepth
    BY <2>2 DEF EngOK
  <2>4. Mode = "sync" => Waiting(eng) = {}
    BY <2>2 DEF EngOK, Waiting, InQueue
  <2>5. /\ at \in {"out", "loop"} /\ Waiting(eng) # {} => eng.pending_reads = QueueDepth
        /\ eng.sq # {} /\ at = "loop" => eng.anything_to_submit
        /\ at = "first" => eng.kernel # {}
    BY <2>2, <2>4 DEF AtOK
  <2>6. eng.pending_reads = Cardinality(Pending)
    BY <2>1, <2>3
  <2> QED BY <2>1, <2>3, <2>5, <2>6 DEF EngineSound
<1>2. SInv => EngineSound
  BY <1>1
<1> QED BY AlwaysSInv, <1>2, PTL

\* What flocate knows when it gives blocks up.
LEMMA NoMatchNow == ASSUME SInv PROVE NoMatchMissed
<1>1. Matching = Matches(db)
  BY DEF Matching, Matches
<1>2. ASSUME pc = "looked_up", loc.should_early_exit PROVE Matches(db) = {}
  <2>1. LookupOK(loc, Live(eng), db, set.query) /\ Promise(db, set.query)
    BY <1>2 DEF SInv, SearchOK, PcOK, Looking
  <2>2. PICK g \in set.query : Known(g, db) = {}
    BY <1>2, <2>1 DEF LookupOK
  <2> QED BY <2>1, <2>2, Hopeless
<1>3. how = "no_match" => Matches(db) = {}
  BY DEF SInv, SearchOK
<1>4. ASSUME pc = "intersected", Idle
      PROVE  IF loc.done THEN Matches(db) = {} ELSE Matches(db) \subseteq loc.cur_candidates
  <2>1. /\ PostOK(loc, Live(eng), db, set.query, "intersected") /\ Live(eng) = {}
        /\ Promise(db, set.query)
    BY <1>4 DEF SInv, SearchOK, PcOK, Intersecting, Finishing, Idle
  <2>2. CASE loc.done
    BY <2>1, <2>2 DEF PostOK
  <2>3. CASE ~loc.done
    <3> DEFINE g == loc.groups[1]
               Done == Arrived(loc, {}, "intersected", set.query)
    <3>1. GroupsOK(loc, db, set.query, "intersected") /\ Intersected(loc, Done, db, set.query)
      BY <2>1 DEF PostOK
    <3>2. loc.groups \in Seq(set.query)
      BY Basics DEF LocType
    <3>3. Len(loc.groups) \in Nat /\ Len(loc.groups) >= 1 /\ loc.order = <<>> /\ loc.reads = {}
      BY <2>3, <3>1, <3>2 DEF GroupsOK
    <3>4. g \in set.query
      BY <3>2, <3>3
    <3>5. Known(g, db) \subseteq loc.submitted
      BY <2>3, <3>1, <3>3 DEF GroupsOK
    <3>6. Done[g] = loc.submitted
      BY <3>4, OfNone DEF Arrived
    <3> HIDE DEF Done, g
    <3>7. CASE Known(g, db) = {}
      BY <2>1, <2>3, <3>4, <3>7, Hopeless
    <3>8. CASE Known(g, db) # {}
      BY <2>3, <3>1, <3>4, <3>5, <3>6, <3>8 DEF Intersected
    <3> QED BY <3>7, <3>8
  <2> QED BY <2>2, <2>3
<1> QED BY <1>1, <1>2, <1>3, <1>4 DEF NoMatchMissed

\* No block with a match is given up, for every pattern, database, read-ahead and
\* ratio, and whatever the order in which the lookups and posting lists arrive.
THEOREM NoMatchIsMissed == Spec => []NoMatchMissed
<1>1. SInv => NoMatchMissed
  BY NoMatchNow
<1> QED BY AlwaysSInv, <1>1, PTL

LEMMA AccessNow == ASSUME SInv, pc # "end" PROVE AccessSound
<1>1. acc.granted \subseteq readable /\ acc.denied \cap readable = {}
  BY DEF SInv, ScanInv
<1>2. CASE pc \notin Scanning
  <2>1. DOMAIN acc.pending_stats = {}
    BY <1>2 DEF SInv, PcOK
  <2> QED BY <1>1, <2>1 DEF AccessSound
<1>3. CASE pc \in Scanning
  <2>1. /\ StatsOK(loc, Live(eng), db, acc)
        /\ ~supports_stat => DOMAIN acc.pending_stats = {}
        /\ at = "out" /\ eng.sync = <<>> /\ pc = "scanned" => Live(eng) = {}
        /\ \A b \in Live(eng) : Belongs(b, pc)
    BY <1>3, ScanFacts
  <2>2. ASSUME NEW n \in DOMAIN acc.pending_stats
        PROVE  /\ \E r \in Pending \cup Queued : r.cb.k = "access" /\ Hits(r.cb.i)[r.cb.j] = n
               /\ ~Idle
    <3>1. PICK c \in Statted("access", Live(eng)) : n = HitsOf(loc, db, c[1])[c[2]]
      BY <2>1 DEF StatsOK
    <3>2. PICK b \in Live(eng) : b.k = "access" /\ c = <<b.i, b.j>>
      BY DEF Statted
    <3>3. PICK r \in Requests(eng) : r.cb = b
      BY DEF Live
    <3>4. using_uring /\ eng.sync = <<>>
      BY <2>1, <2>2, Basics
    <3>5. r \in Pending \cup Queued
      BY <3>4 DEF Requests, Ring, Waiting, InQueue, Pending, Queued
    <3>6. Hits(b.i)[b.j] = n
      BY <3>1, <3>2 DEF Hits, HitsOf
    <3>7. ~Idle
      BY <2>1, <3>2 DEF Idle, Belongs
    <3> QED BY <3>2, <3>3, <3>5, <3>6, <3>7
  <2> QED BY <1>1, <2>2 DEF AccessSound
<1> QED BY <1>2, <1>3

Ended == pc = "end"

LEMMA LookupEnds ==
    ASSUME SInv, OnCompletion, pc' = "end", pc # "end"
    PROVE  acc' = acc /\ readable' = readable /\ DOMAIN acc.pending_stats = {}
<1>1. PICK cb, e : Completing(cb, e) /\ (ReadCallback(cb, e) \/ StatCallback(cb, e))
  BY Completion
<1>2. cb.k = "lookup" /\ OnLookup(cb.t)
  BY <1>1 DEF ReadCallback, StatCallback, OnPostings, OnBlock, OnAccessStat, OnExistsStat
<1>3. pc \in Looking
  BY <1>1, <1>2, LiveBelongs DEF Belongs
<1>4. DOMAIN acc.pending_stats = {}
  BY <1>3 DEF SInv, PcOK, Looking, Scanning
<1> QED BY <1>1, <1>2, <1>4 DEF OnLookup, Completing

\* At its end flocate leaves everything as it is, or a lookup has ended it.
LEMMA HowItEnds ==
    ASSUME SInv, [Next]_vars, pc' = "end"
    PROVE  \/ UNCHANGED <<loc, db, eng, at, readable, acc>>
           \/ pc # "end" /\ OnCompletion
<1> USE DEF engineVars, accessVars
<1>1. CASE Main
  BY <1>1 DEF Main, OpenDatabase, NothingReadable, MainReturns, LimitReached, Return, End
<1>2. CASE Thread
  BY <1>2 DEF Thread, Lookup, AwaitLookups, EarlyExit, SortGroups, NextGroup, GroupDone,
              ReadPostings, CaughtUp, AwaitPostings, NoCandidates, StartScan,
              get_compressed_filename_block, AwaitBlocks, Scanned, Return, Search
<1>3. CASE Engine
  BY <1>3 DEF Engine, InCallback, finish
<1>4. CASE OpenFails \/ ReadFails
  BY <1>4 DEF OpenFails, ReadFails, End
<1>5. CASE UNCHANGED vars
  BY <1>5 DEF vars, mainVars
<1> QED BY <1>1, <1>2, <1>3, <1>4, <1>5 DEF Next

\* Every pending statx() of the access cache has its request, however names wait for
\* one another, and nobody is left waiting when finish() returns; what is cached
\* agrees with the file system.
THEOREM AccessIsSound == Spec => []AccessSound
<1>1. ASSUME Init PROVE AccessSound
  BY <1>1, InitOK, AccessNow DEF Init
<1>2. ASSUME SInv, AccessSound, [Next]_vars, pc' = "end" PROVE AccessSound'
  <2>1. CASE UNCHANGED <<loc, db, eng, at, readable, acc>>
    BY <1>2, <2>1 DEF AccessSound, Pending, Queued, Hits, Idle
  <2>2. CASE pc # "end" /\ OnCompletion
    <3>1. acc' = acc /\ readable' = readable /\ DOMAIN acc.pending_stats = {}
      BY <1>2, <2>2, LookupEnds
    <3> QED BY <1>2, <3>1 DEF AccessSound
  <2> QED BY <1>2, <2>1, <2>2, HowItEnds
<1>3. Init => AccessSound
  BY <1>1
<1>4. SInv /\ AccessSound /\ [Next]_vars /\ Ended' => AccessSound'
  BY <1>2 DEF Ended
<1>5. SInv /\ ~Ended => AccessSound
  BY AccessNow DEF Ended
<1> QED BY AlwaysSInv, <1>3, <1>4, <1>5, PTL DEF Spec
=============================================================================
