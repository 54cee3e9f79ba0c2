------------------------------ MODULE IOUring ------------------------------
(***************************************************************************)
(* IOUringEngine: requests are prepared in the submission ring, handed to  *)
(* the kernel in batches, and completed by it in any order.  At most       *)
(* QueueDepth are pending; the others wait in two queues, the stats before *)
(* the reads.  Without io_uring a read is made at once.                    *)
(*                                                                         *)
(* A request names its callback: [op, cb, left], with left the units of a  *)
(* read that are still to come.  The module that uses the engine runs the  *)
(* callback between a completion and CallbackReturns.                          *)
(***************************************************************************)
EXTENDS Integers, Sequences, FiniteSets

CONSTANTS
    QueueDepth,   \* queue_depth: 256
    ReadUnits     \* a read arrives in at most this many pieces

ASSUME EngineAssumption == QueueDepth \in Nat \ {0} /\ ReadUnits \in Nat \ {0}

VARIABLES
    using_uring,  \* whether the kernel has io_uring
    supports_stat, \* and whether that has statx()
    eng,          \* the engine's members and the rings it shares with the kernel
    at            \* where the thread is in finish(), or in a callback

engineVars == <<using_uring, supports_stat, eng, at>>
fixedEngine == <<using_uring, supports_stat>>

ReadOf(cb) == [op |-> "read", cb |-> cb, left |-> ReadUnits]
StatOf(cb) == [op |-> "stat", cb |-> cb, left |-> 0]

EmptyEngine ==
    [sq |-> {},             \* prepared and not submitted
     kernel |-> {},         \* submitted, not seen to be complete
     queued_stats |-> <<>>, queued_reads |-> <<>>,
     pending_reads |-> 0, old_pending_reads |-> 0,
     anything_to_submit |-> FALSE,
     sync |-> <<>>]         \* without io_uring: the read to make now

\* Mutant of Prepare: the new request is not counted.
PrepareUncounted(e, r) == [e EXCEPT !.sq = @ \cup {r}]

\* submit_read_internal(), submit_stat_internal()
Prepare(e, r) == [e EXCEPT !.sq = @ \cup {r}, !.pending_reads = @ + 1]

submit_stat(e, cb) ==
    IF e.pending_reads < QueueDepth
    THEN Prepare(e, StatOf(cb))
    ELSE [e EXCEPT !.queued_stats = Append(@, StatOf(cb))]

submit_read(e, cb) ==
    CASE ~using_uring -> [e EXCEPT !.sync = <<ReadOf(cb)>>]
      [] using_uring /\ e.pending_reads < QueueDepth -> Prepare(e, ReadOf(cb))
      [] OTHER -> [e EXCEPT !.queued_reads = Append(@, ReadOf(cb))]

get_waiting_reads(e) == e.pending_reads + Len(e.queued_reads)

-----------------------------------------------------------------------------
(* finish()                                                                *)

\* The thread is outside the engine and all synchronous reads are made.
Idle == at = "out" /\ eng.sync = <<>>

CallFinish ==
    /\ Idle
    /\ at' = IF using_uring THEN "loop" ELSE "out"
    /\ eng' = [eng EXCEPT !.anything_to_submit = using_uring]

FinishReturns == at = "loop" /\ eng.pending_reads = 0 /\ at' = "out" /\ UNCHANGED eng

\* io_uring_peek_cqe() finds a completion: nothing is submitted this time.
Peek == /\ at = "loop" /\ eng.pending_reads > 0 /\ eng.kernel # {}
        /\ at' = "first" /\ UNCHANGED eng

\* It finds none: io_uring_submit_and_wait() or, with nothing new, io_uring_wait_cqe().
Wait ==
    /\ at = "loop" /\ eng.pending_reads > 0
    /\ at' = "first"
    /\ eng' = IF eng.anything_to_submit
              THEN [eng EXCEPT !.kernel = @ \cup eng.sq, !.sq = {}, !.anything_to_submit = FALSE]
              ELSE eng

AtCompletion(r) == at \in {"first", "next"} /\ r \in eng.kernel

\* A read came back incomplete: the rest is prepared again.
ShortRead(r) ==
    /\ AtCompletion(r) /\ r.op = "read"
    /\ \E res \in 1 .. r.left - 1 :
           eng' = [eng EXCEPT !.kernel = @ \ {r},
                              !.sq = @ \cup {[r EXCEPT !.left = @ - res]},
                              !.anything_to_submit = TRUE]
    /\ at' = "next"

\* A stat, or all of a read: the engine when its callback is called.
Seen(r) ==
    [eng EXCEPT !.kernel = @ \ {r}, !.pending_reads = @ - 1,
                !.old_pending_reads = eng.pending_reads - 1]

\* complete_pread() of a synchronous read: all of it, or the end.
AtSync(r) == at = "out" /\ eng.sync = <<r>>
SeenSync == [eng EXCEPT !.sync = <<>>]

\* Mutant of CallbackReturns: what the callback prepared is not noticed.
CallbackReturnsBlind ==
    at = "callback" /\ at' = (IF using_uring THEN "next" ELSE "out") /\ UNCHANGED eng

\* The callback has returned; did it prepare a request?
CallbackReturns ==
    /\ at = "callback" /\ at' = IF using_uring THEN "next" ELSE "out"
    /\ eng' = [eng EXCEPT !.anything_to_submit =
                   @ \/ eng.pending_reads # eng.old_pending_reads]

\* No more completions: prepare queued stats, then queued reads, while there is room.
SubmitQueued ==
    LET Least(m, n) == IF m < n THEN m ELSE n
        room == QueueDepth - eng.pending_reads
        s == Least(Len(eng.queued_stats), room)
        n == Least(Len(eng.queued_reads), room - s)
    IN  /\ at = "next" /\ at' = "loop"
        /\ eng' = [eng EXCEPT
                !.sq = @ \cup {eng.queued_stats[i] : i \in 1 .. s}
                         \cup {eng.queued_reads[i] : i \in 1 .. n},
                !.queued_stats = SubSeq(@, s + 1, Len(@)),
                !.queued_reads = SubSeq(@, n + 1, Len(@)),
                !.pending_reads = @ + s + n,
                !.anything_to_submit = @ \/ s + n > 0]

-----------------------------------------------------------------------------
(* Properties.                                                             *)

Pending == eng.sq \cup eng.kernel
Queued == {eng.queued_stats[i] : i \in DOMAIN eng.queued_stats}
              \cup {eng.queued_reads[i] : i \in DOMAIN eng.queued_reads}

\* The engine never has more than queue_depth requests under way and counts them
\* right, so that io_uring_get_sqe() finds an entry even for the rest of a short
\* read ("this shouldn't happen"); requests queue only while it is full, or until
\* the completions at hand have been handled; and finish() never waits for a
\* completion when everything it waits for has yet to be submitted.
EngineSound ==
    /\ eng.pending_reads = Cardinality(Pending) /\ eng.pending_reads <= QueueDepth
    /\ at \in {"out", "loop"} /\ Queued # {} => eng.pending_reads = QueueDepth
    /\ eng.sq # {} /\ at = "loop" => eng.anything_to_submit
    /\ at = "first" => eng.kernel # {}
=============================================================================
