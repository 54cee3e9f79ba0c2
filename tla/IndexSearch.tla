---------------------------- MODULE IndexSearch ----------------------------
(***************************************************************************)
(* flocate's main(): the databases are searched one after the other, all   *)
(* but the last in a child process.  do_search_file() looks up the         *)
(* trigrams of the pattern, intersects the posting lists as they arrive,   *)
(* reads the candidate blocks, asks for every name that matches whether it *)
(* may be shown, and prints in order.                                      *)
(*                                                                         *)
(* A pattern is a set of trigram groups; a block can hold a match only if  *)
(* it has a trigram of each group.  A pattern without trigrams is the      *)
(* linear search of module LinearScan.                                     *)
(***************************************************************************)
EXTENDS Serializer, IOUring, AccessCache, SequencesExt

CONSTANTS
    Queries,     \* patterns: sets of TrigramDisjunctions, each a set of trigrams
    Databases,   \* [dict, post, hits]: has it a dictionary, the blocks with each
                 \* trigram, and the names that match in each block
    Settings,    \* what a search depends on besides Options
    NumDocs,     \* blocks of a database
    Span,        \* sequence numbers of a block: 2^32
    Ratio,       \* a group with this many times the candidates is not read: 100
    Ahead        \* posting lists to read ahead: 5

Docs == 0 .. NumDocs - 1

ASSUME SearchAssumption ==
    /\ Settings \subseteq [query : Queries, ignore_case : BOOLEAN, check_existence : BOOLEAN,
                           check_visibility : BOOLEAN, dbpaths : Nat \ {0},
                           using_uring : BOOLEAN, supports_stat : BOOLEAN,
                           readable : SUBSET (Dir \cup {"/"}), existing : SUBSET Name]
    /\ NumDocs \in Nat /\ Span \in Nat \ {0} /\ Ratio \in Nat /\ Ahead \in Nat \ {0}
    /\ \A s \in Settings : s.supports_stat => s.using_uring
    /\ \A q \in Queries : q # {} /\ IsFiniteSet(q) /\ \A g \in q : IsFiniteSet(g)
    /\ \A d \in Databases : /\ d.hits \in [Docs -> Seq(Name)]
                            /\ \A doc \in Docs : Len(d.hits[doc]) <= Span
                            /\ \A q \in Queries : \A g \in q : \A t \in g : d.post[t] \subseteq Docs

VARIABLES
    set,         \* the Settings
    pc,          \* where main() or do_search_file() is
    dbno,        \* the number of the database being searched
    db,          \* and that database
    loc,         \* the local variables of do_search_file()
    todo,        \* calls the running callback has still to make
    total,       \* matches in the databases before
    parent_left, \* limit_left of the parent process
    expected,    \* history: what the databases so far hold to be printed
    how          \* how flocate ended

mainVars == <<set, dbno, db, total, parent_left, expected, how>>
vars == <<mainVars, pc, loc, todo, serializerVars, engineVars, accessVars>>

NoDatabase == [dict |-> FALSE, post |-> [t \in {} |-> {}], hits |-> [doc \in Docs |-> <<>>]]
in_forked_child == dbno < set.dbpaths

\* The state of a TrigramDisjunction, and of do_search_file() before the lookups.
NewGroup(g) == [remaining |-> Cardinality(g), max_num_docids |-> 0, read_trigrams |-> {},
                docids |-> {}]
NewSearch ==
    [lookups |-> UNION set.query,      \* trigrams_to_lookup not yet submitted
     td |-> [g \in set.query |-> NewGroup(g)],
     order |-> <<>>,                   \* the groups that the loop has still to visit,
     groups |-> <<>>,                  \* of all, sorted by max_num_docids
     reads |-> {}, trgm |-> "",        \* the trigrams of its group still to visit
     submitted |-> {},                 \* trigrams_submitted_read
     cur_candidates |-> {}, should_early_exit |-> FALSE, done |-> FALSE,
     docids |-> <<>>, next |-> 1,      \* the candidates, the next to be read
     matched |-> 0]

-----------------------------------------------------------------------------
(* What there is to find.                                                  *)

Id(doc, j) == (dbno * NumDocs + doc) * Span + j
Visible(n) ==
    /\ "/" \in readable
    /\ set.check_visibility => \A i \in DOMAIN Ancestors[n] : Ancestors[n][i] \in readable
    /\ set.check_existence => n \in set.existing
ToShow(d) == UNION {{Id(doc, j) : j \in {k \in DOMAIN d.hits[doc] : Visible(d.hits[doc][k])}}
                        : doc \in Docs}
\* The promise of parse_trigrams() and of the posting lists.
Indexed(d) == \A doc \in Docs : d.hits[doc] # <<>> =>
                  \A g \in set.query : \E t \in g : doc \in d.post[t]

-----------------------------------------------------------------------------
(* main() and the child processes.                                         *)

End(h) ==
    /\ pc' = "end" /\ how' = h
    /\ UNCHANGED <<set, dbno, db, loc, todo, total, parent_left, expected, serializerVars,
                   engineVars, accessVars>>

\* Mutant of Return: the parent does not take the child's matches off the limit.
ReturnKeepsLimit(n) ==
    /\ total' = total + n
    /\ limit_left' = IF in_forked_child THEN parent_left ELSE limit_left
    /\ dbno' = dbno + 1 /\ pc' = "main"
    /\ UNCHANGED <<set, db, loc, todo, parent_left, expected, how, opt, next_seq, pending,
                   printed, exited, engineVars, accessVars>>

\* do_search_file() returns n; a child passes it to its parent through the pipe.
Return(n) ==
    /\ total' = total + n
    /\ limit_left' = (IF in_forked_child THEN parent_left ELSE limit_left) - n
    /\ dbno' = dbno + 1 /\ pc' = "main"
    /\ UNCHANGED <<set, db, loc, todo, parent_left, expected, how, opt, next_seq, pending,
                   printed, exited, engineVars, accessVars>>

OpenDatabase ==
    /\ pc = "main" /\ dbno <= set.dbpaths
    /\ \E d \in Databases :
           /\ Indexed(d)
           /\ db' = d /\ expected' = expected \cup ToShow(d)
           /\ eng' = IF d.dict /\ "/" \in readable THEN submit_read(EmptyEngine, [k |-> "dict"])
                     ELSE EmptyEngine
    /\ pc' = IF "/" \in readable THEN "lookup" ELSE "nothing"
    /\ loc' = NewSearch /\ parent_left' = limit_left
    /\ UNCHANGED <<set, dbno, todo, total, how, serializerVars, fixedEngine, at, accessVars>>

\* access("/") fails: nothing could be shown.
NothingReadable == pc = "nothing" /\ Return(0)

OpenFails == pc = "main" /\ dbno <= set.dbpaths /\ End("error")

MainReturns == pc = "main" /\ dbno > set.dbpaths /\ End("returned")

\* apply_limit() has called exit(0).  A child has then not written its count, and
\* the parent ends with "Short read through pipe".
LimitReached == exited /\ pc # "end" /\ End(IF in_forked_child THEN "short_read" ELSE "limit")

Main ==
    \/ ~exited /\ (OpenDatabase \/ NothingReadable \/ MainReturns)
    \/ LimitReached

-----------------------------------------------------------------------------
(* do_search_file(), outside the callbacks.                                *)

\* Steps that only move the search and the engine.
Search(next_pc, s) ==
    /\ pc' = next_pc /\ loc' = s
    /\ UNCHANGED <<mainVars, todo, serializerVars, fixedEngine, accessVars>>
Submit(cb) == eng' = submit_read(eng, cb) /\ UNCHANGED at

Lookup ==
    /\ pc = "lookup" /\ Idle
    /\ \E t \in loc.lookups :
           /\ Search("lookup", [loc EXCEPT !.lookups = @ \ {t}])
           /\ Submit([k |-> "lookup", t |-> t])

AwaitLookups == pc = "lookup" /\ loc.lookups = {} /\ CallFinish /\ Search("looked_up", loc)

\* Some group has no trigram that the database knows.
EarlyExit == pc = "looked_up" /\ Idle /\ loc.should_early_exit /\ Return(0)

ByCount(o) == \A i, j \in DOMAIN o : i < j =>
                  loc.td[o[i]].max_num_docids <= loc.td[o[j]].max_num_docids

\* remaining_trigrams_to_read is set for the reads; the smallest group comes first.
SortGroups ==
    /\ pc = "looked_up" /\ Idle /\ ~loc.should_early_exit
    /\ \E o \in SetToSeqs(set.query) :
           /\ ByCount(o)
           /\ Search("groups",
                  [loc EXCEPT !.order = o, !.groups = o,
                     !.td = [g \in set.query |->
                        [@[g] EXCEPT !.remaining = Cardinality(loc.td[g].read_trigrams)]]])
    /\ UNCHANGED <<eng, at>>

\* The loop over the groups: the first that is too large ends it.
NextGroup ==
    LET g == Head(loc.order)
        too_large == /\ loc.cur_candidates # {}
                     /\ loc.td[g].max_num_docids > Cardinality(loc.cur_candidates) * Ratio
    IN  /\ pc = "groups" /\ Idle /\ loc.order # <<>>
        /\ IF too_large THEN Search("groups", [loc EXCEPT !.order = <<>>])
           ELSE Search("group", [loc EXCEPT !.order = Tail(@),
                                            !.reads = loc.td[g].read_trigrams])
        /\ UNCHANGED <<eng, at>>

GroupDone ==
    /\ pc = "group" /\ Idle /\ loc.reads = {}
    /\ Search("groups", loc) /\ UNCHANGED <<eng, at>>

Visit(t) == [loc EXCEPT !.reads = @ \ {t}, !.submitted = @ \cup {t}, !.trgm = t]

\* A posting list is read once, and only a few reads ahead.
ReadPostings ==
    /\ pc = "group" /\ Idle
    /\ \E t \in loc.reads :
           \/ t \in loc.submitted /\ Search("group", Visit(t)) /\ UNCHANGED <<eng, at>>
           \/ /\ t \notin loc.submitted /\ get_waiting_reads(eng) >= Ahead
              /\ CallFinish /\ Search("caught_up", Visit(t))
           \/ /\ t \notin loc.submitted /\ get_waiting_reads(eng) < Ahead
              /\ Search("group", Visit(t)) /\ Submit([k |-> "postings", t |-> t])

\* finish() has returned: done leaves the loop over the group, but not the other one.
CaughtUp ==
    /\ pc = "caught_up" /\ Idle
    /\ IF loc.done
       THEN Search("groups", loc) /\ UNCHANGED <<eng, at>>
       ELSE Search("group", loc) /\ Submit([k |-> "postings", t |-> loc.trgm])

AwaitPostings ==
    pc = "groups" /\ loc.order = <<>> /\ CallFinish /\ Search("intersected", loc)

NoCandidates == pc = "intersected" /\ Idle /\ loc.done /\ Return(0)

\* scan_docids(), with a new Serializer and AccessRXCache.
StartScan ==
    /\ pc = "intersected" /\ Idle /\ ~loc.done
    /\ pc' = "scan"
    /\ \E o \in SetToSeqs(loc.cur_candidates) :
           /\ \A i, j \in DOMAIN o : i < j => o[i] < o[j]
           /\ loc' = [loc EXCEPT !.docids = o]
    /\ next_seq' = 0 /\ pending' = {} /\ acc' = EmptyCache
    /\ UNCHANGED <<mainVars, todo, opt, printed, limit_left, exited, engineVars, readable>>

get_compressed_filename_block ==
    /\ pc = "scan" /\ Idle /\ loc.next <= Len(loc.docids)
    /\ Search("scan", [loc EXCEPT !.next = @ + 1])
    /\ Submit([k |-> "index", i |-> loc.next])

AwaitBlocks ==
    pc = "scan" /\ loc.next > Len(loc.docids) /\ CallFinish /\ Search("scanned", loc)

Scanned == pc = "scanned" /\ Idle /\ Return(loc.matched)

Thread ==
    /\ ~exited
    /\ \/ Lookup \/ AwaitLookups \/ EarlyExit \/ SortGroups \/ NextGroup \/ GroupDone
       \/ ReadPostings \/ CaughtUp \/ AwaitPostings \/ NoCandidates \/ StartScan
       \/ get_compressed_filename_block \/ AwaitBlocks \/ Scanned

-----------------------------------------------------------------------------
(* The callbacks.                                                          *)

\* find_trigram() found nothing: is a group of the trigram without any other?
NotFound(t) ==
    LET s == [loc EXCEPT !.td = [g \in set.query |->
                  IF t \in g THEN [loc.td[g] EXCEPT !.remaining = @ - 1] ELSE loc.td[g]]]
    IN  [s EXCEPT !.should_early_exit =
             @ \/ \E g \in set.query : /\ t \in g
                                       /\ s.td[g].remaining = 0 /\ s.td[g].read_trigrams = {}]

FoundTrigram(t) ==
    [loc EXCEPT !.td = [g \in set.query |->
        IF t \in g
        THEN [loc.td[g] EXCEPT !.remaining = @ - 1, !.read_trigrams = @ \cup {t},
                               !.max_num_docids = @ + Cardinality(db.post[t])]
        ELSE loc.td[g]]]

\* Outside a child a hopeless group ends flocate at once, with status 1.
OnLookup(t) ==
    LET s == IF db.post[t] = {} THEN NotFound(t) ELSE FoundTrigram(t)
    IN  /\ loc' = s
        /\ IF s.should_early_exit /\ ~in_forked_child
           THEN pc' = "end" /\ how' = "no_match"
           ELSE UNCHANGED <<pc, how>>
        /\ UNCHANGED <<todo, acc>>

\* Mutant of new_posting_list_read: the first list of a group completes it.
NewPostingListHasty(s, g, decoded) ==
    LET docids == s.td[g].docids \cup decoded
        both == IF s.cur_candidates = {} THEN docids ELSE s.cur_candidates \cap docids
    IN  IF s.done THEN s
        ELSE [s EXCEPT !.td[g].docids = docids, !.td[g].remaining = @ - 1,
                       !.cur_candidates = both,
                       !.done = set.ignore_case /\ s.cur_candidates # {} /\ both = {}]

\* A list is united with its group's others; a complete group is intersected.
\* No candidates means: none yet.
new_posting_list_read(s, g, decoded) ==
    LET docids == s.td[g].docids \cup decoded
        left == s.td[g].remaining - 1
        both == IF s.cur_candidates = {} THEN docids ELSE s.cur_candidates \cap docids
        t == [s EXCEPT !.td[g].docids = docids, !.td[g].remaining = left]
    IN  IF s.done THEN s
        ELSE IF left > 0 THEN t
        ELSE [t EXCEPT !.cur_candidates = both,
                       !.done = set.ignore_case /\ s.cur_candidates # {} /\ both = {}]

OnPostings(t) ==
    /\ LET read[n \in 0 .. Len(loc.groups)] ==      \* for the first n groups
               IF n = 0 THEN loc
               ELSE IF t \in loc.groups[n]
               THEN new_posting_list_read(read[n - 1], loc.groups[n], db.post[t])
               ELSE read[n - 1]
       IN  loc' = read[Len(loc.groups)]
    /\ UNCHANGED <<pc, how, todo, acc>>

Hits(i) == db.hits[loc.docids[i]]

\* scan_file_block(): test_candidate() for every name that matches.
OnBlock(i) ==
    /\ todo' = IF Hits(i) = <<>> THEN <<[do |-> "print", i |-> i, j |-> 1, ok |-> FALSE]>>
               ELSE [j \in DOMAIN Hits(i) |-> [do |-> "check", i |-> i, j |-> j, ok |-> TRUE]]
    /\ UNCHANGED <<pc, how, loc, acc>>

\* Mutant of OnAccessStat: the pending entry stays.
OnAccessStatKept(i, j) ==
    /\ todo' = <<[do |-> "check_now", i |-> i, j |-> j, ok |-> TRUE]>>
                   \o acc.pending_stats[Hits(i)[j]]
    /\ UNCHANGED <<pc, how, loc, acc>>

\* The statx() of check_access(): now access(), then the names that waited for it.
OnAccessStat(i, j) ==
    /\ todo' = <<[do |-> "check_now", i |-> i, j |-> j, ok |-> TRUE]>>
                   \o acc.pending_stats[Hits(i)[j]]
    /\ acc' = Erased(Hits(i)[j])
    /\ UNCHANGED <<pc, how, loc>>

OnExistsStat(i, j) ==
    /\ todo' = <<[do |-> "print", i |-> i, j |-> j, ok |-> Hits(i)[j] \in set.existing]>>
    /\ UNCHANGED <<pc, how, loc, acc>>

\* A request is complete: its callback runs, up to the calls left in todo.
ReadCallback(cb, e) ==
    \/ cb.k = "dict" /\ UNCHANGED <<pc, how, loc, todo, acc>> /\ eng' = e
    \/ cb.k = "lookup" /\ OnLookup(cb.t) /\ eng' = e
    \/ cb.k = "postings" /\ OnPostings(cb.t) /\ eng' = e
    \/ /\ cb.k = "index" /\ UNCHANGED <<pc, how, loc, todo, acc>>
       /\ eng' = submit_read(e, [k |-> "block", i |-> cb.i])
    \/ cb.k = "block" /\ OnBlock(cb.i) /\ eng' = e

StatCallback(cb, e) ==
    \/ cb.k = "access" /\ OnAccessStat(cb.i, cb.j) /\ eng' = e
    \/ cb.k = "exists" /\ OnExistsStat(cb.i, cb.j) /\ eng' = e

OnCompletion ==
    /\ at' = "callback"
    /\ \/ \E r \in eng.kernel :
              AtCompletion(r) /\ (ReadCallback(r.cb, Seen(r)) \/ StatCallback(r.cb, Seen(r)))
       \/ \E i \in DOMAIN eng.sync : AtSync(eng.sync[i]) /\ ReadCallback(eng.sync[i].cb, SeenSync)
    /\ UNCHANGED <<set, dbno, db, total, parent_left, expected, readable, serializerVars,
                   fixedEngine>>

\* A read fails: flocate, or the child and then its parent, exits with status 1.
ReadFails ==
    /\ ~exited /\ pc # "end"
    /\ \/ \E r \in eng.kernel : AtCompletion(r) /\ r.op = "read"
       \/ \E i \in DOMAIN eng.sync : AtSync(eng.sync[i])
    /\ End("error")

\* check_access() has answered: stat_if_needed().
Answer(call, ok) ==
    LET n == Hits(call.i)[call.j] IN
    IF ok /\ set.check_existence /\ supports_stat
    THEN /\ eng' = submit_stat(eng, [k |-> "exists", i |-> call.i, j |-> call.j])
         /\ todo' = Tail(todo)
    ELSE /\ todo' = <<[call EXCEPT !.do = "print",
                         !.ok = ok /\ (set.check_existence => n \in set.existing)]>> \o Tail(todo)
         /\ UNCHANGED eng

\* check_access(), under its mutex.
check_access ==
    LET call == Head(todo)
        n == Hits(call.i)[call.j]
        async == call.do = "check" /\ supports_stat
    IN  /\ todo # <<>> /\ call.do \in {"check", "check_now"}
        /\ \/ ~set.check_visibility /\ Answer(call, TRUE) /\ UNCHANGED acc
           \/ /\ set.check_visibility /\ ~async
              /\ Answer(call, CheckNow(n).ok) /\ acc' = CheckNow(n).cache
           \/ /\ set.check_visibility /\ async /\ Settled(n)
              /\ Answer(call, Unsettled(n) = 0) /\ UNCHANGED acc
           \/ /\ set.check_visibility /\ async /\ ~Settled(n) /\ Joinable(n) # {}
              /\ acc' = Joined(n, call) /\ todo' = Tail(todo) /\ UNCHANGED eng
           \/ /\ set.check_visibility /\ async /\ ~Settled(n) /\ Joinable(n) = {}
              /\ acc' = Started(n) /\ todo' = Tail(todo)
              /\ eng' = submit_stat(eng, [k |-> "access", i |-> call.i, j |-> call.j])
        /\ UNCHANGED <<loc, serializerVars>>

\* The callback of stat_if_needed(), or a block without a match.
print ==
    LET call == Head(todo)
        last == Hits(call.i) = <<>> \/ call.j = Len(Hits(call.i))
    IN  /\ todo # <<>> /\ call.do = "print"
        /\ SerializerPrint([seq |-> (call.i - 1) * Span + call.j - 1,
                            skip |-> IF last THEN Span - (call.j - 1) ELSE 1,
                            msg |-> IF call.ok THEN Id(loc.docids[call.i], call.j) ELSE NoMsg])
        /\ loc' = IF call.ok THEN [loc EXCEPT !.matched = @ + 1] ELSE loc
        /\ todo' = Tail(todo)
        /\ UNCHANGED <<eng, acc>>

\* The rest of a callback, one call after the other.
InCallback ==
    /\ at = "callback"
    /\ \/ CanDrain /\ Drain /\ UNCHANGED <<at, todo, loc, eng, acc>>
       \/ ~CanDrain /\ (check_access \/ print) /\ UNCHANGED at
       \/ /\ ~CanDrain /\ todo = <<>> /\ CallbackReturns
          /\ UNCHANGED <<todo, loc, acc, serializerVars>>
    /\ UNCHANGED <<mainVars, pc, readable, fixedEngine>>

finish ==
    /\ \/ FinishReturns \/ Peek \/ Wait \/ SubmitQueued \/ \E r \in eng.kernel : ShortRead(r)
    /\ UNCHANGED <<mainVars, pc, loc, todo, serializerVars, fixedEngine, accessVars>>

Engine == ~exited /\ pc # "end" /\ (OnCompletion \/ InCallback \/ finish)

Init ==
    /\ SerializerInit
    /\ set \in Settings /\ readable = set.readable
    /\ using_uring = set.using_uring /\ supports_stat = set.supports_stat
    /\ eng = EmptyEngine /\ at = "out" /\ acc = EmptyCache
    /\ pc = "main" /\ dbno = 1 /\ db = NoDatabase /\ loc = NewSearch /\ todo = <<>>
    /\ total = 0 /\ parent_left = 0 /\ expected = {} /\ how = "running"

Next == Main \/ Thread \/ Engine \/ OpenFails \/ ReadFails

\* flocate runs, and the kernel completes what was submitted; faults need not happen.
Spec == Init /\ [][Next]_vars /\ WF_vars(Main \/ Thread \/ Engine)

-----------------------------------------------------------------------------
(* Properties.                                                             *)

Printed == {printed[i] : i \in DOMAIN printed}
Matching == {doc \in Docs : db.hits[doc] # <<>>}

\* A block with a match is never given up: not when a group has no known trigram,
\* not when no candidate is left, not when a group is too large to be read, and
\* whatever the order in which the posting lists arrive.
NoMatchMissed ==
    /\ (pc = "looked_up" /\ loc.should_early_exit) \/ how = "no_match" => Matching = {}
    /\ pc = "intersected" /\ Idle => IF loc.done THEN Matching = {}
                                     ELSE Matching \subseteq loc.cur_candidates

\* Over all databases, stdout holds the first names to be shown, in order, none
\* missing, none twice, and no name that may not be shown; a database that has been
\* searched is printed in full and its matches are counted.
OutputExact ==
    /\ Printed \subseteq expected
    /\ \A i, j \in DOMAIN printed : i < j => printed[i] < printed[j]
    /\ \A s \in expected : \A t \in Printed : s < t => s \in Printed
    /\ pc = "main" => total = Cardinality(expected) /\ (opt.only_count \/ Printed = expected)

\* The limit holds over all databases although each child counts for itself:
\* flocate stops exactly at the limit, and goes on to the end below it.
LimitOverAll ==
    /\ Len(printed) <= opt.limit
    /\ how \in {"limit", "short_read"} =>
           opt.limit <= Cardinality(expected) /\ (opt.only_count \/ Len(printed) = opt.limit)
    /\ how = "returned" => total < opt.limit

\* The cache tells the truth, every pending statx() has its request, and nobody is
\* left waiting when finish() returns.
AccessSound ==
    /\ acc.granted \subseteq readable /\ acc.denied \cap readable = {}
    /\ \A n \in DOMAIN acc.pending_stats :
           \E r \in Pending \cup Queued : r.cb.k = "access" /\ Hits(r.cb.i)[r.cb.j] = n
    /\ Idle => DOMAIN acc.pending_stats = {}

\* flocate ends.
Terminates == <>(pc = "end")
=============================================================================
