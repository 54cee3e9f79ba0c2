----------------------------- MODULE LinearScan -----------------------------
(***************************************************************************)
(* scan_all_docids(): the main thread reads the blocks of the database and *)
(* feeds them to worker threads through a bounded queue; the workers scan  *)
(* them and leave results in queues of their own; the main thread collects *)
(* the results and prints them in order.                                   *)
(*                                                                         *)
(* Every section under the mutex mu is one step.  A condition variable is  *)
(* the set of threads that wait on it: a waiting thread goes on when it is *)
(* notified, or for no reason at all, and then tests its predicate again.  *)
(***************************************************************************)
EXTENDS Serializer, FiniteSets

CONSTANTS
    NumBlocks,   \* hdr.num_docids
    NumThreads,  \* the processors but one, and at least one
    Chunk,       \* blocks per item of the queue: 32
    QueueCap,    \* items the queue may hold: 256
    Span,        \* sequence numbers of a block: 2^32
    BlockHits    \* what the needles may match in a block: for each name that
                 \* matches, whether it may be shown

ASSUME ScanAssumption ==
    /\ NumBlocks \in Nat
    /\ NumThreads \in Nat \ {0} /\ Chunk \in Nat \ {0} /\ QueueCap \in Nat \ {0}
    /\ Span \in Nat \ {0}
    /\ BlockHits \subseteq Seq(BOOLEAN) /\ \A h \in BlockHits : Len(h) <= Span

Doc == 0 .. NumBlocks - 1
Thread == 0 .. NumThreads - 1
Item == {c \in [first : Doc, last : 1 .. NumBlocks] : c.first < c.last}

VARIABLES
    hits,        \* the matches of every block
    work_queue,  \* chunks of blocks read and not taken
    done,        \* nothing more will be queued
    mpc,         \* where the main thread is
    io_docid,    \* the first block of the main thread's chunk
    who,         \* the worker whose results the main thread looks at
    batch,       \* results moved out of that worker's queue
    wpc,         \* where a worker is
    docid,       \* the block it is in
    last_docid,  \* the end of its chunk
    pos,         \* the next result of that block
    results,     \* its results
    matched      \* the counter of matches shared by the workers

scanVars == <<work_queue, done, mpc, io_docid, who, batch, wpc, docid,
              last_docid, pos, results, matched>>
vars == <<hits, scanVars, serializerVars>>

-----------------------------------------------------------------------------
(* scan_file_block(): what it passes to print(), in order.                 *)

NumPrints(d) == IF hits[d] = <<>> THEN 1 ELSE Len(hits[d])

\* Mutant of PrintOf: the last result of a block does not skip to the next.
PrintOfNoSkip(d, i) ==
    [seq |-> d * Span + i - 1, skip |-> 1,
     msg |-> IF hits[d] # <<>> /\ hits[d][i] THEN d * Span + i - 1 ELSE NoMsg]

PrintOf(d, i) ==
    [seq |-> d * Span + (i - 1),
     skip |-> IF i = NumPrints(d) THEN Span - (i - 1) ELSE 1,
     msg |-> IF hits[d] # <<>> /\ hits[d][i] THEN d * Span + (i - 1) ELSE NoMsg]

\* Mutant of Received: a name is merged like an empty result.
ReceivedMerging(s, e) ==
    IF s # <<>> /\ s[Len(s)].seq + s[Len(s)].skip = e.seq
    THEN [s EXCEPT ![Len(s)].skip = @ + e.skip]
    ELSE Append(s, e)

\* WorkerThreadReceiver::print(): an empty result extends its predecessor.
Received(s, e) ==
    IF e.msg = NoMsg /\ s # <<>> /\ s[Len(s)].seq + s[Len(s)].skip = e.seq
    THEN [s EXCEPT ![Len(s)].skip = @ + e.skip]
    ELSE Append(s, e)

-----------------------------------------------------------------------------
(* The worker threads.                                                     *)

\* Mutant of Take: the main thread is not notified.
TakeSilently(w) ==
    /\ wpc[w] = "ready" /\ work_queue # <<>>
    /\ wpc' = [wpc EXCEPT ![w] = "scan"]
    /\ docid' = [docid EXCEPT ![w] = Head(work_queue).first]
    /\ last_docid' = [last_docid EXCEPT ![w] = Head(work_queue).last]
    /\ pos' = [pos EXCEPT ![w] = 1]
    /\ work_queue' = Tail(work_queue)
    /\ UNCHANGED <<done, mpc, io_docid, who, batch, results, matched>>

Take(w) ==
    /\ wpc[w] = "ready" /\ work_queue # <<>>
    /\ wpc' = [wpc EXCEPT ![w] = "scan"]
    /\ docid' = [docid EXCEPT ![w] = Head(work_queue).first]
    /\ last_docid' = [last_docid EXCEPT ![w] = Head(work_queue).last]
    /\ pos' = [pos EXCEPT ![w] = 1]
    /\ work_queue' = Tail(work_queue)
    /\ mpc' = IF mpc = "waiting" THEN "push" ELSE mpc
    /\ UNCHANGED <<done, io_docid, who, batch, results, matched>>

Sleep(w) ==
    /\ wpc[w] = "ready" /\ work_queue = <<>> /\ ~done
    /\ wpc' = [wpc EXCEPT ![w] = "waiting"]
    /\ UNCHANGED <<work_queue, done, mpc, io_docid, who, batch, docid,
                   last_docid, pos, results, matched>>

Quit(w) ==
    /\ wpc[w] = "ready" /\ work_queue = <<>> /\ done
    /\ wpc' = [wpc EXCEPT ![w] = "gone"]
    /\ UNCHANGED <<work_queue, done, mpc, io_docid, who, batch, docid,
                   last_docid, pos, results, matched>>

\* One result of the current block; then the next block, or the queue again.
ScanBlock(w) ==
    LET e == PrintOf(docid[w], pos[w])
        last == pos[w] = NumPrints(docid[w])
    IN  /\ wpc[w] = "scan"
        /\ matched' = IF e.msg = NoMsg THEN matched ELSE matched + 1
        /\ results' = [results EXCEPT ![w] = Received(@, e)]
        /\ pos' = [pos EXCEPT ![w] = IF last THEN 1 ELSE @ + 1]
        /\ docid' = [docid EXCEPT ![w] = IF last THEN @ + 1 ELSE @]
        /\ wpc' = [wpc EXCEPT ![w] = IF last /\ docid[w] + 1 = last_docid[w]
                                     THEN "ready" ELSE "scan"]
        /\ UNCHANGED <<work_queue, done, mpc, io_docid, who, batch, last_docid>>

Worker(w) ==
    /\ ~exited
    /\ Take(w) \/ Sleep(w) \/ Quit(w) \/ ScanBlock(w)
    /\ UNCHANGED <<hits, serializerVars>>

-----------------------------------------------------------------------------
(* The main thread.                                                        *)

ChunkEnd == IF io_docid + Chunk < NumBlocks THEN io_docid + Chunk ELSE NumBlocks
Waiting == {w \in Thread : wpc[w] = "waiting"}

\* Mutant of QueueFull: one item too many.
QueueFullLate == Len(work_queue) > QueueCap

QueueFull == Len(work_queue) >= QueueCap

\* Queues a chunk and notifies one waiting worker, if there is one.
Push ==
    /\ mpc = "push" /\ io_docid < NumBlocks /\ ~QueueFull
    /\ work_queue' = Append(work_queue, [first |-> io_docid, last |-> ChunkEnd])
    /\ \/ Waiting = {} /\ UNCHANGED wpc
       \/ \E w \in Waiting : wpc' = [wpc EXCEPT ![w] = "ready"]
    /\ who' = (io_docid \div Chunk) % NumThreads
    /\ mpc' = "collect"
    /\ UNCHANGED <<done, io_docid, batch, docid, last_docid, pos, results, matched>>

WaitForRoom ==
    /\ mpc = "push" /\ io_docid < NumBlocks /\ QueueFull
    /\ mpc' = "waiting"
    /\ UNCHANGED <<work_queue, done, io_docid, who, batch, wpc, docid,
                   last_docid, pos, results, matched>>

\* Mutant of AllQueued: only one worker is told that nothing more will come.
AllQueuedNotifyOne ==
    /\ mpc = "push" /\ io_docid >= NumBlocks
    /\ done' = TRUE
    /\ \/ Waiting = {} /\ UNCHANGED wpc
       \/ \E w \in Waiting : wpc' = [wpc EXCEPT ![w] = "ready"]
    /\ mpc' = "join" /\ who' = 0
    /\ UNCHANGED <<work_queue, io_docid, batch, docid, last_docid, pos, results, matched>>

AllQueued ==
    /\ mpc = "push" /\ io_docid >= NumBlocks
    /\ done' = TRUE
    /\ wpc' = [w \in Thread |-> IF wpc[w] = "waiting" THEN "ready" ELSE wpc[w]]
    /\ mpc' = "join" /\ who' = 0
    /\ UNCHANGED <<work_queue, io_docid, batch, docid, last_docid, pos, results, matched>>

Join ==
    /\ mpc = "join" /\ wpc[who] = "gone"
    /\ mpc' = "collect"
    /\ UNCHANGED <<work_queue, done, io_docid, who, batch, wpc, docid,
                   last_docid, pos, results, matched>>

\* deliver_results(): moves the results out under result_mu ...
Collect ==
    /\ mpc = "collect"
    /\ batch' = results[who]
    /\ results' = [results EXCEPT ![who] = <<>>]
    /\ mpc' = "deliver"
    /\ UNCHANGED <<work_queue, done, io_docid, who, wpc, docid, last_docid,
                   pos, matched>>

\* ... and hands them to the serializer one by one.
Deliver ==
    /\ mpc = "deliver"
    /\ \/ Drain /\ UNCHANGED batch
       \/ /\ ~CanDrain /\ batch # <<>>
          /\ SerializerPrint(Head(batch))
          /\ batch' = Tail(batch)
    /\ UNCHANGED <<work_queue, done, mpc, io_docid, who, wpc, docid,
                   last_docid, pos, results, matched>>

\* The next chunk, or, when all are queued, the next worker to join.
Delivered ==
    /\ mpc = "deliver" /\ ~CanDrain /\ batch = <<>>
    /\ IF ~done
       THEN mpc' = "push" /\ io_docid' = io_docid + Chunk /\ UNCHANGED who
       ELSE /\ mpc' = IF who + 1 < NumThreads THEN "join" ELSE "returned"
            /\ who' = IF who + 1 < NumThreads THEN who + 1 ELSE who
            /\ UNCHANGED io_docid
    /\ UNCHANGED <<work_queue, done, batch, wpc, docid, last_docid, pos,
                   results, matched>>

Main ==
    /\ ~exited
    /\ UNCHANGED hits
    /\ \/ /\ Push \/ WaitForRoom \/ AllQueued \/ Join \/ Collect \/ Delivered
          /\ UNCHANGED serializerVars
       \/ Deliver

\* A condition variable may return without having been notified.
SpuriousWakeup ==
    /\ ~exited
    /\ \/ /\ mpc = "waiting" /\ mpc' = "push" /\ UNCHANGED wpc
       \/ /\ \E w \in Waiting : wpc' = [wpc EXCEPT ![w] = "ready"]
          /\ UNCHANGED mpc
    /\ UNCHANGED <<hits, serializerVars, work_queue, done, io_docid, who, batch,
                   docid, last_docid, pos, results, matched>>

Init ==
    /\ SerializerInit
    /\ hits \in [Doc -> BlockHits]
    /\ work_queue = <<>> /\ done = FALSE
    /\ mpc = "push" /\ io_docid = 0 /\ who = 0 /\ batch = <<>>
    /\ wpc = [w \in Thread |-> "ready"]
    /\ docid = [w \in Thread |-> 0] /\ last_docid = [w \in Thread |-> 0]
    /\ pos = [w \in Thread |-> 1]
    /\ results = [w \in Thread |-> <<>>]
    /\ matched = 0

Next == Main \/ (\E w \in Thread : Worker(w)) \/ SpuriousWakeup

\* The threads are scheduled fairly; nothing relies on spurious wakeups.
Spec == /\ Init /\ [][Next]_vars
        /\ WF_vars(Main) /\ \A w \in Thread : WF_vars(Worker(w))

-----------------------------------------------------------------------------
(* Properties.                                                             *)

\* The variables of scan_all_docids() and of the serializer have their types,
\* the queue never holds more than QueueCap chunks, and a worker that scans is
\* inside its chunk.
TypeOK ==
    /\ opt \in Options /\ next_seq \in Nat /\ pending \subseteq Element
    /\ printed \in Seq(Nat) /\ limit_left \in Nat /\ exited \in BOOLEAN
    /\ hits \in [Doc -> BlockHits]
    /\ work_queue \in Seq(Item)
    /\ Len(work_queue) <= QueueCap
    /\ done \in BOOLEAN /\ io_docid \in Nat /\ who \in Thread
    /\ mpc \in {"push", "waiting", "collect", "deliver", "join", "returned"}
    /\ batch \in Seq(Element) /\ results \in [Thread -> Seq(Element)]
    /\ wpc \in [Thread -> {"ready", "waiting", "scan", "gone"}]
    /\ docid \in [Thread -> 0 .. NumBlocks] /\ last_docid \in [Thread -> 0 .. NumBlocks]
    /\ pos \in [Thread -> Nat \ {0}]
    /\ \A w \in Thread : wpc[w] = "scan" =>
           docid[w] < last_docid[w] /\ pos[w] <= NumPrints(docid[w])
    /\ matched \in Nat

\* The sequence numbers of the names that are to be shown.
Found == UNION {{d * Span + (i - 1) : i \in {j \in DOMAIN hits[d] : hits[d][j]}} : d \in Doc}

Printed == {printed[i] : i \in DOMAIN printed}

\* At any moment stdout holds the first names to be shown, in the order of the
\* database, none missing and none twice, however the threads interleave and
\* whether or not the limit cuts the output short.
OutputInOrder ==
    /\ Printed \subseteq Found
    /\ \A i, j \in DOMAIN printed : i < j => printed[i] < printed[j]
    /\ \A s \in Found : \A t \in Printed : s < t => s \in Printed

\* When scan_all_docids() returns, everything has been printed, the counter is
\* right and the serializer holds nothing back: ~Serializer asserts that.
DeliversAll ==
    mpc = "returned" =>
        /\ pending = {}
        /\ matched = Cardinality(Found)
        /\ opt.only_count \/ Printed = Found

\* flocate ends early exactly when there are at least as many matches as
\* --limit allows, and has then printed that many.
LimitExact ==
    /\ exited => opt.limit <= Cardinality(Found)
    /\ mpc = "returned" => Cardinality(Found) < opt.limit
    /\ exited /\ ~opt.only_count => Len(printed) = opt.limit

\* No wakeup is lost: a queued chunk has a worker that is awake to take it, the
\* main thread waits only while there is one, and nobody waits for chunks that
\* will never come.
NoLostWakeup ==
    /\ work_queue # <<>> => \E w \in Thread : wpc[w] \in {"ready", "scan"}
    /\ mpc = "waiting" => work_queue # <<>>
    /\ done => Waiting = {}

\* The search ends.
Terminates == <>(mpc = "returned" \/ exited)
=============================================================================
