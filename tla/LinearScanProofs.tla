-------------------------- MODULE LinearScanProofs --------------------------
(***************************************************************************)
(* Proofs about LinearScan for every number of blocks and threads, every   *)
(* chunk and queue size and every placement of the matches.                *)
(***************************************************************************)
EXTENDS LinearScan, Induction, SequenceTheorems, TLAPS

\* With these the types are inductive: the limit counts down to the exit, and
\* workers leave only when nothing more will be queued.
TInv ==
    /\ TypeOK
    /\ ~exited => limit_left > 0
    /\ done => mpc \notin {"push", "waiting"}
    /\ \A w \in Thread : wpc[w] = "gone" => done

\* What e says of the names to be shown is true: none in its range but its own.
Valid(e) ==
    /\ e.msg # NoMsg => e.msg = e.seq /\ e.msg \in Found
    /\ \A s \in Found : (e.seq <= s /\ s < e.seq + e.skip) => s = e.msg

\* Every result on its way is valid, and up to next_seq everything is printed.
OutInv ==
    /\ \A e \in pending : Valid(e)
    /\ \A i \in DOMAIN batch : Valid(batch[i])
    /\ \A w \in Thread : \A i \in DOMAIN results[w] : Valid(results[w][i])
    /\ ~exited => /\ \A s \in Found : s < next_seq => s \in Printed
                  /\ \A t \in Printed : t < next_seq

-----------------------------------------------------------------------------
(* Types.                                                                  *)

\* Blocks own disjoint ranges of sequence numbers, one after the other.
LEMMA Ranges ==
    /\ \A d \in Nat : d * Span \in Nat /\ (d + 1) * Span = d * Span + Span
    /\ \A d, f \in Nat : d < f => d * Span + Span <= f * Span
<1>1. \A d \in Nat : d * Span \in Nat /\ (d + 1) * Span = d * Span + Span
  BY ScanAssumption
<1>2. ASSUME NEW d \in Nat, NEW f \in Nat, d < f PROVE d * Span + Span <= f * Span
  <2>1. PICK k \in Nat : f = d + 1 + k
    <3>1. f - d - 1 \in Nat /\ f = d + 1 + (f - d - 1)
      BY <1>2
    <3> QED BY <3>1
  <2>2. f * Span = d * Span + Span + k * Span
    BY <2>1, ScanAssumption
  <2>3. k * Span \in Nat
    BY <1>1
  <2> QED BY <1>1, <2>2, <2>3, ScanAssumption
<1> QED BY <1>1, <1>2

\* A block has at least one result and at most as many as sequence numbers.
LEMMA PrintsOfBlock ==
    ASSUME TypeOK, NEW d \in Doc
    PROVE  /\ NumPrints(d) \in Nat /\ 1 <= NumPrints(d) /\ NumPrints(d) <= Span
           /\ hits[d] \in Seq(BOOLEAN)
           /\ hits[d] # <<>> => Len(hits[d]) = NumPrints(d)
<1>1. hits[d] \in BlockHits
  BY DEF TypeOK
<1>2. hits[d] \in Seq(BOOLEAN) /\ Len(hits[d]) <= Span /\ Len(hits[d]) \in Nat
  BY <1>1, ScanAssumption
<1>3. hits[d] # <<>> => Len(hits[d]) > 0
  BY <1>2, EmptySeq
<1> QED BY <1>2, <1>3, ScanAssumption DEF NumPrints

\* What scan_file_block() passes to print() is an element.
LEMMA PrintOfType ==
    ASSUME TypeOK, NEW d \in Doc, NEW i \in Nat \ {0}, i <= NumPrints(d)
    PROVE  PrintOf(d, i) \in Element
<1>1. d \in Nat /\ d * Span \in Nat
  BY Ranges, ScanAssumption DEF Doc
<1>2. d * Span + (i - 1) \in Nat
  BY <1>1
<1>3. Span - (i - 1) \in Nat \ {0}
  BY PrintsOfBlock, ScanAssumption
<1> QED BY <1>2, <1>3 DEF PrintOf, Element, NoMsg

\* WorkerThreadReceiver::print() keeps a queue of elements.
LEMMA ReceivedType ==
    ASSUME NEW s \in Seq(Element), NEW e \in Element
    PROVE  Received(s, e) \in Seq(Element)
<1>1. CASE e.msg = NoMsg /\ s # <<>> /\ s[Len(s)].seq + s[Len(s)].skip = e.seq
  <2>1. Len(s) \in 1 .. Len(s) /\ s[Len(s)] \in Element
    BY <1>1, EmptySeq, ElementOfSeq
  <2> DEFINE f == s[Len(s)]
  <2> HIDE DEF f
  <2>4. f \in Element /\ f.skip + e.skip \in Nat \ {0}
    BY <2>1 DEF f, Element
  <2>5. [f EXCEPT !.skip = @ + e.skip] \in Element
    BY <2>4 DEF Element
  <2>2. [s[Len(s)] EXCEPT !.skip = @ + e.skip] \in Element
    BY <2>5 DEF f
  <2>3. Received(s, e) = [s EXCEPT ![Len(s)] = [s[Len(s)] EXCEPT !.skip = @ + e.skip]]
    BY <1>1 DEF Received
  <2> QED BY <2>1, <2>2, <2>3, ExceptSeq
<1>2. CASE ~(e.msg = NoMsg /\ s # <<>> /\ s[Len(s)].seq + s[Len(s)].skip = e.seq)
  BY <1>2 DEF Received
<1> QED BY <1>1, <1>2

\* Init establishes the types.
LEMMA TypeInit == Init => TInv
<1> SUFFICES ASSUME Init PROVE TInv
  OBVIOUS
<1>1. 0 \in Thread /\ opt.limit \in Nat \ {0} /\ opt \in Options
  BY ScanAssumption, OptionsAssumption DEF Init, SerializerInit, Thread
<1>2. \A S : <<>> \in Seq(S)
  OBVIOUS
<1>3. docid \in [Thread -> 0 .. NumBlocks] /\ last_docid \in [Thread -> 0 .. NumBlocks]
  BY ScanAssumption DEF Init
<1>4. /\ opt \in Options /\ next_seq \in Nat /\ pending \subseteq Element
      /\ printed \in Seq(Nat) /\ limit_left \in Nat /\ exited \in BOOLEAN
      /\ limit_left > 0
  BY <1>1, <1>2 DEF Init, SerializerInit
<1>5. /\ work_queue \in Seq(Item) /\ Len(work_queue) <= QueueCap
      /\ batch \in Seq(Element) /\ results \in [Thread -> Seq(Element)]
  BY <1>2, ScanAssumption DEF Init
<1>6. /\ wpc \in [Thread -> {"ready", "waiting", "scan", "gone"}]
      /\ \A w \in Thread : wpc[w] = "ready"
      /\ pos \in [Thread -> Nat \ {0}]
  BY DEF Init
<1> QED BY <1>1, <1>3, <1>4, <1>5, <1>6 DEF Init, TInv, TypeOK

\* exit() is called once nothing is left of the limit.
LEMMA LimitStep ==
    ASSUME NEW a \in Int, NEW b, b = (a <= 0)
    PROVE  b \in BOOLEAN /\ (~b => a > 0)
<1>1. CASE a <= 0
  <2>1. b = TRUE
    BY <1>1, Zenon
  <2> QED BY <2>1, Zenon
<1>2. CASE ~(a <= 0)
  <2>3. (a <= 0) = FALSE
    BY <1>2
  <2>1. b = FALSE
    BY <2>3, Zenon
  <2>2. a > 0
    BY <1>2
  <2> QED BY <2>1, <2>2, Zenon
<1> QED BY <1>1, <1>2, Zenon

\* apply_limit() counts down and exits at zero.
LEMMA PrintNowType ==
    ASSUME TInv, ~exited, NEW e \in Element, PrintNow(e)
    PROVE  /\ next_seq' \in Nat /\ printed' \in Seq(Nat)
           /\ limit_left' \in Nat /\ exited' \in BOOLEAN /\ (~exited' => limit_left' > 0)
<1>1. CASE e.msg = NoMsg
  BY <1>1 DEF TInv, TypeOK, PrintNow, Element
<1>2. CASE e.msg # NoMsg
  <2>1. e.msg \in Nat /\ e.seq \in Nat /\ e.skip \in Nat /\ printed \in Seq(Nat)
    BY <1>2 DEF Element, TInv, TypeOK
  <2>2. printed' = Append(printed, e.msg)
    BY <1>2 DEF PrintNow
  <2>3. printed' \in Seq(Nat)
    BY <2>1, <2>2
  <2>4. next_seq' \in Nat
    BY <2>1 DEF PrintNow, TInv, TypeOK
  <2>5. limit_left' = limit_left - 1 /\ exited' = (limit_left' <= 0)
    BY <1>2 DEF PrintNow, apply_limit
  <2>6. limit_left \in Nat /\ limit_left > 0
    BY DEF TInv, TypeOK
  <2>7. limit_left' \in Nat /\ (limit_left' <= 0 \/ limit_left' > 0)
    BY <2>5, <2>6
  <2>8. exited' \in BOOLEAN /\ (~exited' => limit_left' > 0)
    BY <2>5, <2>7, LimitStep
  <2> QED BY <2>3, <2>4, <2>7, <2>8
<1> QED BY <1>1, <1>2

\* Steps of the workers keep the types.
LEMMA TypeWorker == TInv /\ (\E w \in Thread : Worker(w)) => TInv'
<1> SUFFICES ASSUME TInv, NEW w \in Thread, Worker(w) PROVE TInv'
  OBVIOUS
<1> USE DEF TInv
<1>0. UNCHANGED <<hits, serializerVars>>
  BY DEF Worker
<1>p. \A d : NumPrints(d)' = NumPrints(d)
  BY <1>0 DEF NumPrints
<1>1. CASE Take(w)
  <2>1. Head(work_queue) \in Item /\ Tail(work_queue) \in Seq(Item)
        /\ Len(Tail(work_queue)) = Len(work_queue) - 1
    BY <1>1, HeadTailProperties DEF TypeOK, Take
  <2>2. /\ Head(work_queue).first \in Doc /\ Head(work_queue).first \in 0 .. NumBlocks
        /\ Head(work_queue).last \in 0 .. NumBlocks
        /\ Head(work_queue).first < Head(work_queue).last
    BY <2>1, ScanAssumption DEF Item, Doc
  <2>3. 1 <= NumPrints(Head(work_queue).first)
    BY <2>2, PrintsOfBlock
  <2>4. Len(work_queue') <= QueueCap /\ work_queue' \in Seq(Item)
    BY <1>1, <2>1, ScanAssumption DEF Take, TypeOK
  <2>5. \A v \in Thread : wpc'[v] = "scan" =>
            docid'[v] < last_docid'[v] /\ pos'[v] <= NumPrints(docid'[v])
    BY <1>1, <2>2, <2>3 DEF Take, TypeOK
  <2>a. docid' \in [Thread -> 0 .. NumBlocks] /\ last_docid' \in [Thread -> 0 .. NumBlocks]
    BY <1>1, <2>2 DEF Take, TypeOK
  <2>b. pos' \in [Thread -> Nat \ {0}]
    BY <1>1 DEF Take, TypeOK
  <2>c. wpc' \in [Thread -> {"ready", "waiting", "scan", "gone"}]
    BY <1>1 DEF Take, TypeOK
  <2>d. \A v \in Thread : wpc'[v] = "gone" => done'
    BY <1>1 DEF Take, TypeOK
  <2>6. /\ docid' \in [Thread -> 0 .. NumBlocks] /\ last_docid' \in [Thread -> 0 .. NumBlocks]
        /\ pos' \in [Thread -> Nat \ {0}]
        /\ wpc' \in [Thread -> {"ready", "waiting", "scan", "gone"}]
        /\ \A v \in Thread : wpc'[v] = "gone" => done'
    BY <2>a, <2>b, <2>c, <2>d
  <2>7. /\ mpc' \in {"push", "waiting", "collect", "deliver", "join", "returned"}
        /\ done' => mpc' \notin {"push", "waiting"}
    BY <1>1 DEF Take, TypeOK
  <2> QED BY <1>0, <1>1, <1>p, <2>4, <2>5, <2>6, <2>7 DEF Take, TypeOK, serializerVars
<1>2. CASE Sleep(w)
  BY <1>0, <1>2, <1>p DEF Sleep, TypeOK, serializerVars
<1>3. CASE Quit(w)
  BY <1>0, <1>3, <1>p DEF Quit, TypeOK, serializerVars
<1>4. CASE ScanBlock(w)
  <2>1. docid[w] \in Doc /\ docid[w] < last_docid[w] /\ pos[w] \in Nat \ {0}
        /\ pos[w] <= NumPrints(docid[w]) /\ last_docid[w] \in 0 .. NumBlocks
    BY <1>4, ScanAssumption DEF ScanBlock, TypeOK, Doc
  <2>2. PrintOf(docid[w], pos[w]) \in Element
    BY <2>1, PrintOfType
  <2>3. Received(results[w], PrintOf(docid[w], pos[w])) \in Seq(Element)
    BY <2>2, ReceivedType DEF TypeOK
  <2>4. results' \in [Thread -> Seq(Element)] /\ matched' \in Nat
    BY <1>4, <2>3 DEF ScanBlock, TypeOK
  <2>5. NumPrints(docid[w]) \in Nat /\ \A d \in Doc : 1 <= NumPrints(d)
    BY <2>1, PrintsOfBlock
  <2>6. docid[w] + 1 \in 0 .. NumBlocks /\ (docid[w] + 1 < last_docid[w] => docid[w] + 1 \in Doc)
    BY <2>1, ScanAssumption DEF Doc
  <2>7. /\ docid' \in [Thread -> 0 .. NumBlocks] /\ pos' \in [Thread -> Nat \ {0}]
        /\ wpc' \in [Thread -> {"ready", "waiting", "scan", "gone"}]
        /\ \A v \in Thread : wpc'[v] = "gone" => done'
    BY <1>4, <2>1, <2>6 DEF ScanBlock, TypeOK
  <2>8. wpc'[w] = "scan" => docid'[w] < last_docid[w] /\ pos'[w] <= NumPrints(docid'[w])
    BY <1>4, <2>1, <2>5, <2>6 DEF ScanBlock, TypeOK
  <2>9. \A v \in Thread : wpc'[v] = "scan" =>
            docid'[v] < last_docid'[v] /\ pos'[v] <= NumPrints(docid'[v])
    BY <1>4, <2>8 DEF ScanBlock, TypeOK
  <2> QED BY <1>0, <1>4, <1>p, <2>4, <2>7, <2>9 DEF ScanBlock, TypeOK, serializerVars
<1> QED BY <1>1, <1>2, <1>3, <1>4 DEF Worker

\* Steps of the main thread that leave the serializer alone keep the types.
LEMMA TypeFeed ==
    ASSUME TInv, UNCHANGED <<hits, serializerVars>>,
           Push \/ WaitForRoom \/ AllQueued \/ Join \/ Collect \/ Delivered
    PROVE  TInv'
<1> USE DEF TInv
<1>p. \A d : NumPrints(d)' = NumPrints(d)
  BY DEF NumPrints
<1>1. CASE Push
  <2>1. ChunkEnd \in 1 .. NumBlocks /\ io_docid \in Doc /\ io_docid < ChunkEnd
    BY <1>1, ScanAssumption DEF Push, ChunkEnd, TypeOK, Doc
  <2>2. [first |-> io_docid, last |-> ChunkEnd] \in Item
    BY <2>1 DEF Item
  <2>3. work_queue' \in Seq(Item) /\ Len(work_queue') = Len(work_queue) + 1
    BY <1>1, <2>2, AppendProperties DEF Push, TypeOK
  <2>4. Len(work_queue') <= QueueCap
    BY <1>1, <2>3, ScanAssumption DEF Push, QueueFull, TypeOK
  <2>5. who' \in Thread
    <3>1. io_docid \div Chunk \in Int
      BY ScanAssumption DEF TypeOK
    <3>2. \A a \in Int : a % NumThreads \in 0 .. NumThreads - 1
      BY ScanAssumption
    <3> QED BY <1>1, <3>1, <3>2 DEF Push, Thread
  <2>6. /\ wpc' \in [Thread -> {"ready", "waiting", "scan", "gone"}]
        /\ \A v \in Thread : wpc'[v] \in {"gone", "scan"} => wpc[v] = wpc'[v]
    BY <1>1 DEF Push, TypeOK, Waiting
  <2> QED BY <1>1, <1>p, <2>3, <2>4, <2>5, <2>6 DEF Push, TypeOK, serializerVars
<1>2. CASE WaitForRoom
  BY <1>2, <1>p DEF WaitForRoom, TypeOK, serializerVars
<1>3. CASE AllQueued
  <2>1. /\ wpc' \in [Thread -> {"ready", "waiting", "scan", "gone"}]
        /\ \A v \in Thread : wpc'[v] \in {"gone", "scan"} => wpc[v] = wpc'[v]
    BY <1>3 DEF AllQueued, TypeOK
  <2>2. 0 \in Thread
    BY ScanAssumption DEF Thread
  <2> QED BY <1>3, <1>p, <2>1, <2>2 DEF AllQueued, TypeOK, serializerVars
<1>4. CASE Join
  BY <1>4, <1>p DEF Join, TypeOK, serializerVars
<1>5. CASE Collect
  <2>1. <<>> \in Seq(Element)
    OBVIOUS
  <2> QED BY <1>5, <1>p, <2>1 DEF Collect, TypeOK, serializerVars
<1>6. CASE Delivered
  <2>1. who' \in Thread
    <3>1. who \in Thread /\ (who + 1 < NumThreads => who + 1 \in Thread)
      BY ScanAssumption DEF TypeOK, Thread
    <3>2. who' = who \/ (who' = who + 1 /\ who + 1 < NumThreads)
      BY <1>6 DEF Delivered
    <3> QED BY <3>1, <3>2
  <2>2. io_docid' \in Nat
    BY <1>6, ScanAssumption DEF Delivered, TypeOK
  <2>3. /\ mpc' \in {"push", "waiting", "collect", "deliver", "join", "returned"}
        /\ done' => mpc' \notin {"push", "waiting"}
    BY <1>6 DEF Delivered, TypeOK
  <2> QED BY <1>6, <1>p, <2>1, <2>2, <2>3 DEF Delivered, TypeOK, serializerVars
<1> QED BY <1>1, <1>2, <1>3, <1>4, <1>5, <1>6

\* Handing a result to the serializer keeps the types.
LEMMA TypeDeliver == TInv /\ ~exited /\ UNCHANGED hits /\ Deliver => TInv'
<1> SUFFICES ASSUME TInv, ~exited, UNCHANGED hits, Deliver PROVE TInv'
  OBVIOUS
<1>p. \A d : NumPrints(d)' = NumPrints(d)
  BY DEF NumPrints
<1>s. ASSUME /\ next_seq' \in Nat /\ printed' \in Seq(Nat)
             /\ limit_left' \in Nat /\ exited' \in BOOLEAN /\ (~exited' => limit_left' > 0),
             opt' = opt, pending' \subseteq Element, batch' \in Seq(Element)
      PROVE  TInv'
  BY <1>p, <1>s DEF TInv, TypeOK, Deliver
<1>1. CASE Drain /\ UNCHANGED batch
  <2>1. PICK e \in Top : PrintNow(e) /\ pending' = pending \ {e} /\ UNCHANGED opt
    BY <1>1 DEF Drain
  <2>2. e \in Element /\ pending' \subseteq Element /\ batch' \in Seq(Element)
    BY <1>1, <2>1 DEF Top, TInv, TypeOK
  <2> QED BY <1>s, <2>1, <2>2, PrintNowType
<1>2. CASE batch # <<>> /\ SerializerPrint(Head(batch)) /\ batch' = Tail(batch)
  <2>1. Head(batch) \in Element /\ batch' \in Seq(Element)
    BY <1>2, HeadTailProperties DEF TInv, TypeOK
  <2>2. CASE PrintCounted(Head(batch))
    <3>1. CASE Head(batch).msg = NoMsg
      BY <1>s, <2>1, <2>2, <3>1 DEF PrintCounted, TInv, TypeOK
    <3>2. CASE Head(batch).msg # NoMsg
      <4>1. limit_left' = limit_left - 1 /\ exited' = (limit_left' <= 0)
        BY <2>2, <3>2 DEF PrintCounted, apply_limit
      <4>2. limit_left \in Nat /\ limit_left > 0
        BY DEF TInv, TypeOK
      <4>3. limit_left' \in Nat /\ (limit_left' <= 0 \/ limit_left' > 0)
        BY <4>1, <4>2
      <4>4. exited' \in BOOLEAN /\ (~exited' => limit_left' > 0)
        BY <4>1, <4>3, LimitStep
      <4> QED BY <1>s, <2>1, <2>2, <4>3, <4>4 DEF PrintCounted, TInv, TypeOK
    <3> QED BY <3>1, <3>2
  <2>3. CASE PrintLater(Head(batch))
    BY <1>s, <2>1, <2>3 DEF PrintLater, TInv, TypeOK
  <2>4. CASE PrintInTurn(Head(batch))
    <3>1. PrintNow(Head(batch)) /\ UNCHANGED <<opt, pending>>
      BY <2>4 DEF PrintInTurn
    <3> QED BY <1>s, <2>1, <3>1, PrintNowType DEF TInv, TypeOK
  <2> QED BY <1>2, <2>2, <2>3, <2>4 DEF SerializerPrint
<1> QED BY <1>1, <1>2 DEF Deliver

\* A wakeup for no reason keeps the types.
LEMMA TypeSpurious == TInv /\ SpuriousWakeup => TInv'
<1> SUFFICES ASSUME TInv, SpuriousWakeup PROVE TInv'
  OBVIOUS
<1>p. \A d : NumPrints(d)' = NumPrints(d)
  BY DEF NumPrints, SpuriousWakeup
<1>1. /\ wpc' \in [Thread -> {"ready", "waiting", "scan", "gone"}]
      /\ \A v \in Thread : wpc'[v] \in {"gone", "scan"} => wpc[v] = wpc'[v]
  BY DEF SpuriousWakeup, TInv, TypeOK, Waiting
<1>2. /\ mpc' \in {"push", "waiting", "collect", "deliver", "join", "returned"}
      /\ done' => mpc' \notin {"push", "waiting"}
  BY DEF SpuriousWakeup, TInv, TypeOK
<1> QED BY <1>p, <1>1, <1>2 DEF SpuriousWakeup, TInv, TypeOK, serializerVars

\* Every step, or none, keeps the types.
LEMMA TypeNext == TInv /\ [Next]_vars => TInv'
<1>1. ASSUME TInv, UNCHANGED vars PROVE TInv'
  <2>1. UNCHANGED <<hits, scanVars, serializerVars>>
    BY <1>1 DEF vars
  <2> QED BY <1>1, <2>1 DEF TInv, TypeOK, scanVars, serializerVars, NumPrints
<1>2. ASSUME TInv, Main PROVE TInv'
  BY <1>2, TypeFeed, TypeDeliver DEF Main
<1> QED BY <1>1, <1>2, TypeWorker, TypeSpurious DEF Next

\* The types hold for every number of blocks and threads; in particular the
\* queue never grows past its limit and no worker leaves its chunk.
THEOREM TypeCorrect == Spec => []TypeOK
<1>1. Spec => []TInv
  BY TypeInit, TypeNext, PTL DEF Spec
<1>2. TInv => TypeOK
  BY DEF TInv
<1> QED BY <1>1, <1>2, PTL

-----------------------------------------------------------------------------
(* Wakeups.                                                                *)

\* Initially nothing is queued and nobody waits.
LEMMA WakeInit == Init => NoLostWakeup
  BY DEF Init, NoLostWakeup, Waiting

\* Every step keeps an awake worker for what is queued.
LEMMA WakeNext == TInv /\ NoLostWakeup /\ [Next]_vars => NoLostWakeup'
<1> SUFFICES ASSUME TInv, NoLostWakeup, [Next]_vars PROVE NoLostWakeup'
  OBVIOUS
<1> USE DEF NoLostWakeup, Waiting
<1>t. wpc \in [Thread -> {"ready", "waiting", "scan", "gone"}] /\ work_queue \in Seq(Item)
  BY DEF TInv, TypeOK
<1>1. ASSUME NEW w \in Thread, Worker(w) PROVE NoLostWakeup'
  <2>1. CASE Take(w)
    BY <1>t, <2>1 DEF Take
  <2>2. CASE Sleep(w)
    BY <1>t, <2>2 DEF Sleep
  <2>3. CASE Quit(w)
    BY <1>t, <2>3 DEF Quit
  <2>4. CASE ScanBlock(w)
    BY <1>t, <2>4 DEF ScanBlock
  <2> QED BY <1>1, <2>1, <2>2, <2>3, <2>4 DEF Worker
<1>2. CASE Push
  <2>1. ~done /\ \A w \in Thread : wpc[w] # "gone"
    BY <1>2 DEF Push, TInv
  <2>2. 0 \in Thread
    BY ScanAssumption DEF Thread
  <2>3. \E w \in Thread : wpc'[w] \in {"ready", "scan"}
    BY <1>2, <1>t, <2>1, <2>2 DEF Push
  <2> QED BY <1>2, <2>1, <2>3 DEF Push
<1>3. CASE WaitForRoom
  <2>1. work_queue # <<>>
    BY <1>3, <1>t, ScanAssumption DEF WaitForRoom, QueueFull
  <2> QED BY <1>3, <2>1 DEF WaitForRoom
<1>4. CASE AllQueued
  BY <1>4, <1>t DEF AllQueued
<1>5. CASE Join \/ Collect \/ Delivered \/ Deliver
  BY <1>5 DEF Join, Collect, Delivered, Deliver
<1>6. CASE SpuriousWakeup
  BY <1>6, <1>t DEF SpuriousWakeup
<1>7. CASE UNCHANGED vars
  BY <1>7 DEF vars, scanVars
<1> QED BY <1>1, <1>2, <1>3, <1>4, <1>5, <1>6, <1>7 DEF Next, Main

\* No wakeup is lost, for any number of threads and any queue size: notify_one
\* after a push and notify_all at the end are enough.
THEOREM WakeupsSuffice == Spec => []NoLostWakeup
<1>1. Spec => []TInv
  BY TypeInit, TypeNext, PTL DEF Spec
<1> QED BY <1>1, WakeInit, WakeNext, PTL DEF Spec

-----------------------------------------------------------------------------
(* The order of the output.                                                *)

\* Which names are to be shown does not change during the search.
LEMMA FoundFixed == hits' = hits => Found' = Found /\ \A e : Valid(e)' = Valid(e)
  BY DEF Found, Valid

\* The names to be shown of one block lie in the range of that block.
LEMMA FoundInBlock ==
    ASSUME TypeOK, NEW s \in Found
    PROVE  \E d \in Doc : \E i \in 1 .. Len(hits[d]) :
               /\ hits[d] # <<>> /\ hits[d][i] /\ s = d * Span + (i - 1)
               /\ Len(hits[d]) = NumPrints(d)
<1>1. PICK d \in Doc : s \in {d * Span + (i - 1) : i \in {j \in DOMAIN hits[d] : hits[d][j]}}
  BY DEF Found
<1>2. PICK i \in DOMAIN hits[d] : hits[d][i] /\ s = d * Span + (i - 1)
  BY <1>1
<1>3. hits[d] \in Seq(BOOLEAN) /\ (hits[d] # <<>> => Len(hits[d]) = NumPrints(d))
  BY PrintsOfBlock
<1>4. DOMAIN hits[d] = 1 .. Len(hits[d])
  BY <1>3, LenProperties
<1>5. hits[d] # <<>>
  BY <1>2, <1>4
<1> QED BY <1>2, <1>3, <1>4, <1>5

\* scan_file_block() tells the truth about the names of its block.
LEMMA PrintOfValid ==
    ASSUME TypeOK, NEW d \in Doc, NEW i \in Nat \ {0}, i <= NumPrints(d)
    PROVE  Valid(PrintOf(d, i))
<1> DEFINE e == PrintOf(d, i)
<1>1. /\ e.seq = d * Span + (i - 1)
      /\ e.skip = IF i = NumPrints(d) THEN Span - (i - 1) ELSE 1
      /\ e.msg = IF hits[d] # <<>> /\ hits[d][i] THEN d * Span + (i - 1) ELSE NoMsg
  BY DEF PrintOf
<1> HIDE DEF e
<1>2. /\ NumPrints(d) \in Nat /\ NumPrints(d) <= Span
      /\ hits[d] \in Seq(BOOLEAN)
      /\ hits[d] # <<>> => Len(hits[d]) = NumPrints(d)
  BY PrintsOfBlock
<1>3. ASSUME e.msg # NoMsg PROVE e.msg = e.seq /\ e.msg \in Found
  <2>1. hits[d] # <<>> /\ hits[d][i] /\ e.msg = d * Span + (i - 1)
    BY <1>1, <1>3
  <2>2. i \in DOMAIN hits[d]
    BY <1>2, <2>1
  <2> QED BY <1>1, <2>1, <2>2 DEF Found
<1>4. ASSUME NEW s \in Found, e.seq <= s, s < e.seq + e.skip PROVE s = e.msg
  <2>1. PICK f \in Doc : \E j \in 1 .. Len(hits[f]) :
            /\ hits[f] # <<>> /\ hits[f][j] /\ s = f * Span + (j - 1)
            /\ Len(hits[f]) = NumPrints(f)
    BY FoundInBlock
  <2>2. PICK j \in 1 .. Len(hits[f]) :
            /\ hits[f] # <<>> /\ hits[f][j] /\ s = f * Span + (j - 1)
            /\ Len(hits[f]) = NumPrints(f)
    BY <2>1
  <2>3. NumPrints(f) \in Nat /\ NumPrints(f) <= Span
    BY PrintsOfBlock
  <2>4. d \in Nat /\ f \in Nat /\ Span \in Nat /\ d * Span \in Nat /\ f * Span \in Nat
    BY Ranges, ScanAssumption DEF Doc
  <2>5. j \in Nat /\ 1 <= j /\ j <= NumPrints(f) /\ j <= Span
    BY <2>2, <2>3, <2>4
  <2>6. d * Span <= s /\ s < d * Span + Span
    BY <1>1, <1>2, <1>4, <2>2, <2>4, <2>5
  <2>7. f * Span <= s /\ s < f * Span + Span
    BY <2>2, <2>4, <2>5
  <2>8. d = f
    <3>1. ~(d < f)
      <4>1. d < f => d * Span + Span <= f * Span
        BY <2>4, Ranges
      <4> QED BY <2>2, <2>4, <2>5, <2>6, <2>7, <4>1
    <3>2. ~(f < d)
      <4>1. f < d => f * Span + Span <= d * Span
        BY <2>4, Ranges
      <4> QED BY <2>2, <2>4, <2>5, <2>6, <2>7, <4>1
    <3> QED BY <2>4, <3>1, <3>2
  <2>9. j = i
    BY <1>1, <1>4, <2>2, <2>4, <2>5, <2>8
  <2> QED BY <1>1, <2>2, <2>8, <2>9
<1> QED BY <1>3, <1>4 DEF Valid, e

\* Sequence numbers are numbers.
LEMMA FoundInt == ASSUME TypeOK PROVE Found \subseteq Int
<1> SUFFICES ASSUME NEW s \in Found PROVE s \in Int
  OBVIOUS
<1>1. PICK d \in Doc : \E i \in 1 .. Len(hits[d]) : s = d * Span + (i - 1)
  BY FoundInBlock
<1>2. d * Span \in Nat
  BY Ranges DEF Doc
<1> QED BY <1>1, <1>2

\* WorkerThreadReceiver::print() keeps the results of a worker valid.
LEMMA ReceivedValid ==
    ASSUME TypeOK, NEW s \in Seq(Element), NEW e \in Element, Valid(e),
           \A i \in DOMAIN s : Valid(s[i])
    PROVE  \A i \in DOMAIN Received(s, e) : Valid(Received(s, e)[i])
<1>1. CASE e.msg = NoMsg /\ s # <<>> /\ s[Len(s)].seq + s[Len(s)].skip = e.seq
  <2> DEFINE f == s[Len(s)]
             g == [f EXCEPT !.skip = @ + e.skip]
  <2>1. Len(s) \in 1 .. Len(s) /\ f \in Element /\ Valid(f)
    BY <1>1, EmptySeq, ElementOfSeq, LenProperties
  <2>2. f.seq + f.skip = e.seq
    BY <1>1
  <2>3. Received(s, e) = [s EXCEPT ![Len(s)] = g]
    BY <1>1 DEF Received
  <2> HIDE DEF f
  <2>4. g.seq = f.seq /\ g.skip = f.skip + e.skip /\ g.msg = f.msg
    BY <2>1 DEF Element
  <2> HIDE DEF g
  <2>5. Found \subseteq Int
    BY FoundInt
  <2>6. \A t \in Found : (g.seq <= t /\ t < g.seq + g.skip) => t = g.msg
    <3> SUFFICES ASSUME NEW t \in Found, g.seq <= t, t < g.seq + g.skip PROVE t = g.msg
      OBVIOUS
    <3>1. f.seq \in Nat /\ f.skip \in Nat /\ e.seq \in Nat /\ e.skip \in Nat /\ t \in Int
      BY <2>1, <2>5 DEF Element
    <3>2. CASE t < f.seq + f.skip
      BY <2>1, <2>4, <3>2 DEF Valid
    <3>3. CASE ~(t < f.seq + f.skip)
      <4>1. e.seq <= t /\ t < e.seq + e.skip
        BY <2>2, <2>4, <3>1, <3>3
      <4>2. t = NoMsg
        BY <1>1, <4>1 DEF Valid
      <4> QED BY <3>1, <4>1, <4>2 DEF NoMsg
    <3> QED BY <3>2, <3>3
  <2>7. Valid(g)
    BY <2>1, <2>4, <2>6 DEF Valid
  <2> QED BY <2>1, <2>3, <2>7
<1>2. CASE ~(e.msg = NoMsg /\ s # <<>> /\ s[Len(s)].seq + s[Len(s)].skip = e.seq)
  <2>1. Received(s, e) = Append(s, e)
    BY <1>2 DEF Received
  <2> QED BY <2>1, AppendProperties
<1> QED BY <1>1, <1>2

\* What the output says, and what makes it inductive.
OInv == OutInv /\ OutputInOrder

\* Printing the element whose turn it is extends the output by the next name.
LEMMA PrintNowKeeps ==
    ASSUME TInv, OInv, ~exited, hits' = hits, NEW e \in Element, Valid(e),
           e.seq = next_seq, PrintNow(e)
    PROVE  /\ OutputInOrder'
           /\ ~exited' => /\ \A s \in Found : s < next_seq' => s \in Printed'
                          /\ \A t \in Printed' : t < next_seq'
<1>1. Found' = Found /\ Found \subseteq Int
  BY FoundFixed, FoundInt DEF TInv
<1>2. printed \in Seq(Nat) /\ next_seq \in Nat /\ e.skip \in Nat /\ e.skip > 0
  BY DEF TInv, TypeOK, Element
<1>3. /\ \A s \in Found : s < next_seq => s \in Printed
      /\ \A t \in Printed : t < next_seq
      /\ OutputInOrder
  BY DEF OInv, OutInv
<1>4. ~exited' => next_seq' = next_seq + e.skip
  BY DEF PrintNow
<1>5. CASE e.msg = NoMsg
  <2>1. printed' = printed
    BY <1>5 DEF PrintNow
  <2>2. Printed' = Printed
    BY <2>1 DEF Printed
  <2>3. \A s \in Found : s < next_seq + e.skip => s < next_seq
    BY <1>1, <1>2, <1>5 DEF Valid, NoMsg
  <2>4. Printed \subseteq Int
    BY <1>1, <1>3 DEF OutputInOrder
  <2>5. OutputInOrder'
    BY <1>1, <1>3, <2>1, <2>2 DEF OutputInOrder
  <2>6. ASSUME ~exited' PROVE /\ \A s \in Found : s < next_seq' => s \in Printed'
                              /\ \A t \in Printed' : t < next_seq'
    BY <1>2, <1>3, <1>4, <2>2, <2>3, <2>4, <2>6
  <2> QED BY <2>5, <2>6
<1>6. CASE e.msg # NoMsg
  <2>1. e.msg = next_seq /\ e.msg \in Found /\ printed' = Append(printed, next_seq)
    BY <1>6 DEF Valid, PrintNow
  <2>2. /\ Len(printed') = Len(printed) + 1
        /\ DOMAIN printed = 1 .. Len(printed) /\ DOMAIN printed' = 1 .. Len(printed) + 1
        /\ \A i \in DOMAIN printed : printed'[i] = printed[i]
        /\ printed'[Len(printed) + 1] = next_seq
        /\ Len(printed) \in Nat
    BY <1>2, <2>1, AppendProperties, LenProperties
  <2>3. Printed' = Printed \cup {next_seq}
    BY <2>2 DEF Printed
  <2>4. Printed \subseteq Int
    BY <1>1, <1>3 DEF OutputInOrder
  <2>5. \A s \in Found : s < next_seq + e.skip => s < next_seq \/ s = next_seq
    BY <1>1, <1>2, <2>1 DEF Valid
  <2>6. OutputInOrder'
    <3>1. Printed' \subseteq Found'
      BY <1>1, <1>3, <2>1, <2>3 DEF OutputInOrder
    <3>2. ASSUME NEW i \in DOMAIN printed', NEW j \in DOMAIN printed', i < j
          PROVE  printed'[i] < printed'[j]
      <4>1. i \in DOMAIN printed
        BY <2>2, <3>2
      <4>2. CASE j \in DOMAIN printed
        BY <1>3, <2>2, <3>2, <4>1, <4>2 DEF OutputInOrder
      <4>3. CASE j = Len(printed) + 1
        <5>1. printed[i] \in Printed
          BY <4>1 DEF Printed
        <5> QED BY <1>3, <2>2, <4>1, <4>3, <5>1
      <4> QED BY <2>2, <4>2, <4>3
    <3>3. ASSUME NEW s \in Found', NEW t \in Printed', s < t PROVE s \in Printed'
      <4>1. CASE t \in Printed
        BY <1>1, <1>3, <2>3, <3>3, <4>1 DEF OutputInOrder
      <4>2. CASE t = next_seq
        BY <1>1, <1>3, <2>3, <3>3, <4>2
      <4> QED BY <2>3, <4>1, <4>2
    <3> QED BY <3>1, <3>2, <3>3 DEF OutputInOrder
  <2>7. ASSUME ~exited' PROVE /\ \A s \in Found : s < next_seq' => s \in Printed'
                              /\ \A t \in Printed' : t < next_seq'
    <3>1. \A s \in Found : s < next_seq' => s \in Printed'
      BY <1>3, <1>4, <2>3, <2>5, <2>7
    <3>2. \A t \in Printed' : t < next_seq'
      BY <1>2, <1>3, <1>4, <2>3, <2>4, <2>7
    <3> QED BY <3>1, <3>2
  <2> QED BY <2>6, <2>7
<1> QED BY <1>5, <1>6

\* Handing a result to the serializer keeps the output in order.
LEMMA DeliverKeeps ==
    ASSUME TInv, OInv, ~exited, hits' = hits, Deliver
    PROVE  OInv'
<1>1. Found' = Found /\ \A e : Valid(e)' = Valid(e)
  BY FoundFixed
<1>2. results' = results
  BY DEF Deliver
<1>3. ASSUME \A e \in pending' : Valid(e), \A i \in DOMAIN batch' : Valid(batch'[i]),
             OutputInOrder',
             ~exited' => /\ \A s \in Found : s < next_seq' => s \in Printed'
                         /\ \A t \in Printed' : t < next_seq'
      PROVE  OInv'
  <2>1. \A w \in Thread : \A i \in DOMAIN results'[w] : Valid(results'[w][i])
    BY <1>2 DEF OInv, OutInv
  <2> QED BY <1>1, <1>3, <2>1 DEF OInv, OutInv
<1>4. CASE Drain /\ UNCHANGED batch
  <2>1. PICK e \in Top : e.seq = next_seq /\ PrintNow(e) /\ pending' = pending \ {e}
    BY <1>4 DEF Drain
  <2>2. e \in pending /\ e \in Element /\ Valid(e)
    BY <2>1 DEF Top, TInv, TypeOK, OInv, OutInv
  <2>3. /\ \A f \in pending' : Valid(f)
        /\ \A i \in DOMAIN batch' : Valid(batch'[i])
    BY <1>4, <2>1 DEF OInv, OutInv
  <2> QED BY <1>3, <2>1, <2>2, <2>3, PrintNowKeeps
<1>5. CASE batch # <<>> /\ SerializerPrint(Head(batch)) /\ batch' = Tail(batch)
  <2>1. /\ batch \in Seq(Element) /\ Head(batch) = batch[1] /\ 1 \in DOMAIN batch
        /\ \A i \in DOMAIN Tail(batch) : i + 1 \in DOMAIN batch /\ Tail(batch)[i] = batch[i + 1]
    BY <1>5, HeadTailProperties, EmptySeq DEF TInv, TypeOK
  <2>2. Head(batch) \in Element /\ Valid(Head(batch))
    BY <2>1, ElementOfSeq DEF OInv, OutInv
  <2>3. \A i \in DOMAIN batch' : Valid(batch'[i])
    BY <1>5, <2>1 DEF OInv, OutInv
  <2>4. CASE PrintCounted(Head(batch))
    <3>1. /\ UNCHANGED <<next_seq, pending, printed>> /\ Printed' = Printed
          /\ OutputInOrder' = OutputInOrder
      BY <1>1, <2>4 DEF PrintCounted, Printed, OutputInOrder
    <3> QED BY <1>3, <2>3, <3>1 DEF OInv, OutInv
  <2>5. CASE PrintLater(Head(batch))
    <3>1. /\ UNCHANGED <<next_seq, printed, exited>> /\ Printed' = Printed
          /\ OutputInOrder' = OutputInOrder
          /\ \A f \in pending' : Valid(f)
      BY <1>1, <2>2, <2>5 DEF PrintLater, Printed, OutputInOrder, OInv, OutInv
    <3> QED BY <1>3, <2>3, <3>1 DEF OInv, OutInv
  <2>6. CASE PrintInTurn(Head(batch))
    <3>1. Head(batch).seq = next_seq /\ PrintNow(Head(batch)) /\ pending' = pending
      BY <2>6 DEF PrintInTurn
    <3>2. \A f \in pending' : Valid(f)
      BY <3>1 DEF OInv, OutInv
    <3> QED BY <1>3, <2>2, <2>3, <3>1, <3>2, PrintNowKeeps
  <2> QED BY <1>5, <2>4, <2>5, <2>6 DEF SerializerPrint
<1> QED BY <1>4, <1>5 DEF Deliver

\* Every step keeps the output in order.
LEMMA OutputNext == TInv /\ OInv /\ [Next]_vars => OInv'
<1> SUFFICES ASSUME TInv, OInv, [Next]_vars PROVE OInv'
  OBVIOUS
<1>0. hits' = hits
  BY DEF Next, Main, Worker, SpuriousWakeup, vars
<1>1. Found' = Found /\ \A e : Valid(e)' = Valid(e)
  BY <1>0, FoundFixed
<1>2. ASSUME UNCHANGED <<serializerVars, batch>>,
             \A w \in Thread : \A i \in DOMAIN results'[w] : Valid(results'[w][i])
      PROVE  OInv'
  <2>1. Printed' = Printed /\ OutputInOrder' = OutputInOrder
    BY <1>1, <1>2 DEF Printed, OutputInOrder, serializerVars
  <2> QED BY <1>1, <1>2, <2>1 DEF OInv, OutInv, serializerVars
<1>3. ASSUME UNCHANGED <<serializerVars, batch, results>> PROVE OInv'
  BY <1>2, <1>3 DEF OInv, OutInv
<1>4. ASSUME NEW w \in Thread, Worker(w) PROVE OInv'
  <2>1. CASE ScanBlock(w)
    <3>1. docid[w] \in Doc /\ pos[w] \in Nat \ {0} /\ pos[w] <= NumPrints(docid[w])
      BY <2>1, ScanAssumption DEF ScanBlock, TInv, TypeOK, Doc
    <3>2. PrintOf(docid[w], pos[w]) \in Element /\ Valid(PrintOf(docid[w], pos[w]))
      BY <3>1, PrintOfType, PrintOfValid DEF TInv
    <3>3. results[w] \in Seq(Element) /\ \A i \in DOMAIN results[w] : Valid(results[w][i])
      BY DEF TInv, TypeOK, OInv, OutInv
    <3>4. \A i \in DOMAIN Received(results[w], PrintOf(docid[w], pos[w])) :
              Valid(Received(results[w], PrintOf(docid[w], pos[w]))[i])
      BY <3>2, <3>3, ReceivedValid DEF TInv
    <3>5. results' = [results EXCEPT ![w] = Received(results[w], PrintOf(docid[w], pos[w]))]
      BY <2>1 DEF ScanBlock
    <3>6. \A v \in Thread : \A i \in DOMAIN results'[v] : Valid(results'[v][i])
      BY <3>4, <3>5 DEF TInv, TypeOK, OInv, OutInv
    <3> QED BY <1>2, <1>4, <2>1, <3>6 DEF Worker, ScanBlock
  <2> QED BY <1>3, <1>4, <2>1 DEF Worker, Take, Sleep, Quit
<1>5. ASSUME ~exited, Main PROVE OInv'
  <2>1. CASE Collect /\ UNCHANGED serializerVars
    <3>1. \A i \in DOMAIN batch' : Valid(batch'[i])
      BY <2>1 DEF Collect, TInv, TypeOK, OInv, OutInv
    <3>2. \A v \in Thread : \A i \in DOMAIN results'[v] : Valid(results'[v][i])
      BY <2>1 DEF Collect, TInv, TypeOK, OInv, OutInv
    <3>3. Printed' = Printed /\ OutputInOrder' = OutputInOrder
      BY <1>1, <2>1 DEF Printed, OutputInOrder, serializerVars
    <3> QED BY <1>1, <2>1, <3>1, <3>2, <3>3 DEF OInv, OutInv, serializerVars
  <2>2. CASE Deliver
    BY <1>0, <1>5, <2>2, DeliverKeeps
  <2> QED BY <1>3, <1>5, <2>1, <2>2 DEF Main, Push, WaitForRoom, AllQueued, Join, Delivered
<1>6. CASE SpuriousWakeup
  BY <1>3, <1>6 DEF SpuriousWakeup
<1>7. CASE UNCHANGED vars
  BY <1>3, <1>7 DEF vars, scanVars
<1> QED BY <1>4, <1>5, <1>6, <1>7 DEF Next, Main

\* At first nothing has been produced and nothing printed.
LEMMA OutputInit == Init => OInv
<1> SUFFICES ASSUME Init PROVE OInv
  OBVIOUS
<1>1. pending = {} /\ printed = <<>> /\ batch = <<>> /\ next_seq = 0
      /\ \A w \in Thread : results[w] = <<>>
  BY DEF Init, SerializerInit
<1>2. Printed = {}
  BY <1>1 DEF Printed
<1>3. \A s \in Found : ~(s < next_seq)
  <2> SUFFICES ASSUME NEW s \in Found PROVE ~(s < next_seq)
    OBVIOUS
  <2>1. TypeOK
    BY TypeInit DEF TInv
  <2>2. PICK d \in Doc : \E i \in 1 .. Len(hits[d]) : s = d * Span + (i - 1)
    BY <2>1, FoundInBlock
  <2>3. d * Span \in Nat
    BY Ranges DEF Doc
  <2> QED BY <1>1, <2>2, <2>3
<1> QED BY <1>1, <1>2, <1>3 DEF OInv, OutInv, OutputInOrder

\* For every number of threads and every schedule, flocate's linear search
\* prints names in database order, without gaps and without duplicates.
THEOREM OutputOrdered == Spec => []OutputInOrder
<1>1. Spec => []TInv
  BY TypeInit, TypeNext, PTL DEF Spec
<1>2. Spec => []OInv
  BY <1>1, OutputInit, OutputNext, PTL DEF Spec
<1>3. OInv => OutputInOrder
  BY DEF OInv
<1> QED BY <1>2, <1>3, PTL

-----------------------------------------------------------------------------
(* Nothing is lost on the way: what is still to scan and what is in flight *)
(* cover the sequence numbers exactly once.                                *)

\* The first sequence number of a block.
Base(d) == d * Span
End == Base(NumBlocks)

\* The next block that will be queued.
NextQueued == IF mpc \in {"push", "waiting"} THEN io_docid ELSE io_docid + Chunk

\* The sequence number that worker w scans next.
At(w) == Base(docid[w]) + (pos[w] - 1)

\* The sequence numbers that nobody has scanned.
Rest ==
    {s \in 0 .. End - 1 :
        \/ Base(NextQueued) <= s
        \/ \E i \in DOMAIN work_queue :
               Base(work_queue[i].first) <= s /\ s < Base(work_queue[i].last)
        \/ \E w \in Thread : wpc[w] = "scan" /\ At(w) <= s /\ s < Base(last_docid[w])}

\* The chunks are queued and taken in order.
FeedInv ==
    /\ \A i \in DOMAIN work_queue : work_queue[i].last <= NextQueued
    /\ \A i, j \in DOMAIN work_queue : i < j => work_queue[i].last <= work_queue[j].first
    /\ \A w \in Thread : wpc[w] = "scan" =>
           /\ last_docid[w] <= NextQueued
           /\ \A i \in DOMAIN work_queue : last_docid[w] <= work_queue[i].first
           /\ \A v \in Thread \ {w} : wpc[v] = "scan" =>
                  last_docid[w] <= docid[v] \/ last_docid[v] <= docid[w]
    /\ done => io_docid >= NumBlocks

\* How far the main thread has come with the workers that it joins.
Empty(w) == wpc[w] = "gone" /\ results[w] = <<>>
JoinInv ==
    /\ batch # <<>> => mpc = "deliver"
    /\ mpc \in {"join", "returned"} => done
    /\ (\E w \in Thread : wpc[w] = "gone") => work_queue = <<>>
    /\ done => /\ \A w \in Thread : w < who => Empty(w)
               /\ mpc \in {"collect", "deliver"} => wpc[who] = "gone"
               /\ mpc = "deliver" => results[who] = <<>>
    /\ mpc = "returned" => ~exited /\ ~CanDrain /\ \A w \in Thread : Empty(w)

In(e, s) == e.seq <= s /\ s < e.seq + e.skip
Apart(e, f) == e.seq + e.skip <= f.seq \/ f.seq + f.skip <= e.seq
Off(e, R) == e.seq + e.skip <= End /\ \A s \in R : ~In(e, s)

SeqApart(s) == \A i, j \in DOMAIN s : i # j => Apart(s[i], s[j])
Between(s, t) == \A i \in DOMAIN s, j \in DOMAIN t : Apart(s[i], t[j])

\* With P pending, B collected and Q in the workers' queues, no sequence number
\* is in flight twice, and none of those in R is in flight.
Flight(P, B, Q, R) ==
    /\ \A e, f \in P : e # f => Apart(e, f)
    /\ \A e \in P : \A i \in DOMAIN B : Apart(e, B[i])
    /\ \A e \in P : \A w \in Thread : \A i \in DOMAIN Q[w] : Apart(e, Q[w][i])
    /\ SeqApart(B)
    /\ \A w \in Thread : SeqApart(Q[w]) /\ Between(B, Q[w])
    /\ \A w, v \in Thread : w # v => Between(Q[w], Q[v])
    /\ \A e \in P : Off(e, R)
    /\ \A i \in DOMAIN B : Off(B[i], R)
    /\ \A w \in Thread : \A i \in DOMAIN Q[w] : Off(Q[w][i], R)

FlightInv == Flight(pending, batch, results, Rest)

\* A sequence number whose result is on its way.
Held(P, B, Q, s) ==
    \/ \E e \in P : In(e, s)
    \/ \E i \in DOMAIN B : In(B[i], s)
    \/ \E w \in Thread : \E i \in DOMAIN Q[w] : In(Q[w][i], s)

\* From n on everything is to come, all of it, and nothing before n is.
Cover(n, P, B, Q, R) ==
    /\ \A s \in 0 .. End - 1 : s < n \/ s \in R \/ Held(P, B, Q, s)
    /\ \A s \in R : n <= s
    /\ \A e \in P : n <= e.seq
    /\ \A i \in DOMAIN B : n <= B[i].seq
    /\ \A w \in Thread : \A i \in DOMAIN Q[w] : n <= Q[w][i].seq

CoverInv == (~opt.only_count /\ ~exited) => Cover(next_seq, pending, batch, results, Rest)

\* The name s has not reached the serializer.
Waits(B, Q, R, s) ==
    \/ s \in R
    \/ \E i \in DOMAIN B : B[i].msg = s
    \/ \E w \in Thread : \E i \in DOMAIN Q[w] : Q[w][i].msg = s

\* Those of the names F that have.
Arrived(F, B, Q, R) == {s \in F : ~Waits(B, Q, R, s)}

\* The workers' counter counts the names that have been scanned ...
MatchInv == matched = Cardinality(Found \ Rest)

\* ... and the limit those that have been printed or, under --count, have reached
\* the serializer.
LimitInv ==
    /\ exited => limit_left = 0
    /\ opt.only_count =>
           /\ pending = {} /\ printed = <<>>
           /\ limit_left + Cardinality(Arrived(Found, batch, results, Rest)) = opt.limit
    /\ ~opt.only_count => limit_left + Len(printed) = opt.limit

\* Ranges of blocks are ordered as the blocks are.
LEMMA Scale ==
    /\ \A a \in Nat : Base(a) \in Nat
    /\ \A a, b \in Nat : a <= b => Base(a) <= Base(b)
    /\ End \in Nat
<1>1. \A a \in Nat : Base(a) \in Nat
  BY Ranges DEF Base
<1>2. ASSUME NEW a \in Nat, NEW b \in Nat, a <= b PROVE Base(a) <= Base(b)
  <2>1. CASE a = b
    BY <1>1, <2>1
  <2>2. CASE a < b
    BY <1>1, <2>2, Ranges, ScanAssumption DEF Base
  <2> QED BY <1>2, <2>1, <2>2
<1> QED BY <1>1, <1>2, ScanAssumption DEF End

\* The types that the ranges need.
LEMMA FeedTypes ==
    ASSUME TInv
    PROVE  /\ work_queue \in Seq(Item) /\ io_docid \in Nat /\ NextQueued \in Nat
           /\ \A i \in DOMAIN work_queue :
                  /\ work_queue[i].first \in Nat /\ work_queue[i].last \in Nat
                  /\ work_queue[i].first < work_queue[i].last /\ work_queue[i].last <= NumBlocks
           /\ \A w \in Thread : docid[w] \in Nat /\ last_docid[w] \in Nat /\ pos[w] \in Nat
                                /\ last_docid[w] <= NumBlocks /\ Base(docid[w]) <= At(w) /\ At(w) \in Nat
           /\ NumBlocks \in Nat /\ Chunk \in Nat /\ Chunk > 0 /\ Span \in Nat /\ Span > 0
<1>1. work_queue \in Seq(Item) /\ io_docid \in Nat /\ NumBlocks \in Nat
      /\ Chunk \in Nat /\ Chunk > 0 /\ Span \in Nat /\ Span > 0
  BY ScanAssumption DEF TInv, TypeOK
<1>2. \A i \in DOMAIN work_queue : work_queue[i] \in Item
  BY <1>1, ElementOfSeq
<1>3. NextQueued \in Nat
  BY <1>1 DEF NextQueued
<1>4. ASSUME NEW w \in Thread
      PROVE  docid[w] \in Nat /\ last_docid[w] \in Nat /\ pos[w] \in Nat
             /\ last_docid[w] <= NumBlocks /\ Base(docid[w]) <= At(w) /\ At(w) \in Nat
  <2>1. docid[w] \in Nat /\ last_docid[w] \in 0 .. NumBlocks /\ pos[w] \in Nat \ {0}
    BY <1>1 DEF TInv, TypeOK
  <2>2. Base(docid[w]) \in Nat
    BY <2>1, Scale
  <2> QED BY <1>1, <2>1, <2>2 DEF At
<1> QED BY <1>1, <1>2, <1>3, <1>4 DEF Item, Doc

\* Scanning a result moves a worker to the end of the result.
LEMMA ScanStep ==
    ASSUME TInv, NEW w \in Thread, ScanBlock(w), UNCHANGED hits
    PROVE  LET e == PrintOf(docid[w], pos[w]) IN
           /\ e \in Element /\ Valid(e) /\ e.seq = At(w)
           /\ e.seq + e.skip <= Base(last_docid[w])
           /\ wpc'[w] = "scan" => At(w)' = e.seq + e.skip
           /\ wpc'[w] # "scan" => e.seq + e.skip = Base(last_docid[w])
           /\ last_docid' = last_docid /\ wpc[w] = "scan" /\ docid'[w] >= docid[w]
           /\ \A v \in Thread \ {w} : wpc'[v] = wpc[v] /\ docid'[v] = docid[v] /\ At(v)' = At(v)
           /\ UNCHANGED <<work_queue, done, mpc, io_docid, who, batch>>
<1> DEFINE e == PrintOf(docid[w], pos[w])
           d == docid[w]
           i == pos[w]
<1>1. d \in Doc /\ i \in Nat \ {0} /\ i <= NumPrints(d) /\ d < last_docid[w] /\ d \in Nat
      /\ last_docid[w] \in Nat /\ wpc[w] = "scan"
  BY ScanAssumption DEF ScanBlock, TInv, TypeOK, Doc
<1>2. e \in Element /\ Valid(e)
  BY <1>1, PrintOfType, PrintOfValid DEF TInv
<1>3. NumPrints(d) \in Nat /\ NumPrints(d) <= Span /\ Span \in Nat
  BY <1>1, PrintsOfBlock, ScanAssumption DEF TInv
<1>4. Base(d) \in Nat /\ Base(d + 1) = Base(d) + Span /\ Base(d + 1) <= Base(last_docid[w])
  BY <1>1, Ranges, Scale DEF Base
<1>5. e.seq = Base(d) + (i - 1) /\ e.skip = IF i = NumPrints(d) THEN Span - (i - 1) ELSE 1
  BY DEF PrintOf, Base
<1>6. e.seq = At(w)
  BY <1>5 DEF At
<1>7. /\ pos' = [pos EXCEPT ![w] = IF i = NumPrints(d) THEN 1 ELSE i + 1]
      /\ docid' = [docid EXCEPT ![w] = IF i = NumPrints(d) THEN d + 1 ELSE d]
      /\ wpc' = [wpc EXCEPT ![w] = IF i = NumPrints(d) /\ d + 1 = last_docid[w] THEN "ready" ELSE "scan"]
      /\ UNCHANGED <<work_queue, done, mpc, io_docid, who, batch, last_docid>>
  BY DEF ScanBlock
<1>8. /\ pos'[w] = IF i = NumPrints(d) THEN 1 ELSE i + 1
      /\ docid'[w] = IF i = NumPrints(d) THEN d + 1 ELSE d
      /\ wpc'[w] = IF i = NumPrints(d) /\ d + 1 = last_docid[w] THEN "ready" ELSE "scan"
      /\ \A v \in Thread \ {w} : wpc'[v] = wpc[v] /\ docid'[v] = docid[v] /\ pos'[v] = pos[v]
  BY <1>7 DEF TInv, TypeOK
<1>9. Base(docid'[w]) + (pos'[w] - 1) = e.seq + e.skip
  BY <1>1, <1>3, <1>4, <1>5, <1>8
<1>10. e.seq + e.skip <= Base(d + 1)
  BY <1>1, <1>3, <1>4, <1>5
<1>11. wpc'[w] # "scan" => e.seq + e.skip = Base(last_docid[w])
  BY <1>1, <1>3, <1>4, <1>5, <1>8
<1>12. e.seq + e.skip <= Base(last_docid[w])
  <2>1. e.seq \in Nat /\ e.skip \in Nat /\ Base(d + 1) \in Nat /\ Base(last_docid[w]) \in Nat
    BY <1>1, <1>2, Scale DEF Element
  <2> QED BY <1>4, <1>10, <2>1
<1>13. docid'[w] >= d
  BY <1>1, <1>8
<1>14. \A v \in Thread \ {w} : At(v)' = At(v)
  BY <1>8 DEF At
<1>15. At(w)' = e.seq + e.skip
  BY <1>9 DEF At
<1> QED BY <1>1, <1>2, <1>6, <1>7, <1>8, <1>11, <1>12, <1>13, <1>14, <1>15

\* What a worker is in, nobody else has.
LEMMA OnlyWorker ==
    ASSUME TInv, FeedInv, NEW w \in Thread, wpc[w] = "scan", NEW s \in Int,
           At(w) <= s, s < Base(last_docid[w])
    PROVE  /\ s \in 0 .. End - 1 /\ ~(Base(NextQueued) <= s)
           /\ \A i \in DOMAIN work_queue : s < Base(work_queue[i].first)
           /\ \A v \in Thread \ {w} : wpc[v] = "scan" => ~(At(v) <= s /\ s < Base(last_docid[v]))
<1> USE FeedTypes
<1>1. Base(last_docid[w]) \in Nat /\ Base(last_docid[w]) <= End /\ Base(docid[w]) \in Nat
      /\ Base(docid[w]) <= s /\ End \in Nat
  <2>1. docid[w] \in Nat /\ last_docid[w] \in Nat /\ NumBlocks \in Nat /\ last_docid[w] <= NumBlocks
    OBVIOUS
  <2>2. Base(docid[w]) \in Nat /\ Base(last_docid[w]) \in Nat /\ Base(last_docid[w]) <= End /\ End \in Nat
    BY <2>1, Scale DEF End
  <2>3. Base(docid[w]) <= At(w) /\ At(w) \in Nat
    OBVIOUS
  <2> QED BY <2>2, <2>3
<1>2. Base(last_docid[w]) <= Base(NextQueued) /\ Base(NextQueued) \in Nat
  BY Scale DEF FeedInv
<1>3. ASSUME NEW i \in DOMAIN work_queue PROVE s < Base(work_queue[i].first)
  <2>1. Base(last_docid[w]) <= Base(work_queue[i].first) /\ Base(work_queue[i].first) \in Nat
    BY Scale DEF FeedInv
  <2> QED BY <1>1, <2>1
<1>4. ASSUME NEW v \in Thread \ {w}, wpc[v] = "scan" PROVE ~(At(v) <= s /\ s < Base(last_docid[v]))
  <2>0. Base(docid[v]) \in Nat /\ Base(last_docid[v]) \in Nat /\ Base(docid[v]) <= At(v) /\ At(v) \in Nat
    BY Scale
  <2>1. CASE last_docid[w] <= docid[v]
    <3>1. Base(last_docid[w]) <= Base(docid[v])
      BY <2>1, Scale
    <3> QED BY <1>1, <2>0, <3>1
  <2>2. CASE last_docid[v] <= docid[w]
    <3>1. Base(last_docid[v]) <= Base(docid[w])
      BY <2>2, Scale
    <3> QED BY <1>1, <2>0, <3>1
  <2> QED BY <1>4, <2>1, <2>2 DEF FeedInv
<1> QED BY <1>1, <1>2, <1>3, <1>4

\* Scanning a result takes its range out of what is to be scanned.
LEMMA RestScan ==
    ASSUME TInv, FeedInv, NEW w \in Thread, ScanBlock(w), UNCHANGED hits
    PROVE  LET e == PrintOf(docid[w], pos[w]) IN
           /\ \A s \in Int : In(e, s) => s \in Rest
           /\ e.seq + e.skip <= End
           /\ Rest' = {s \in Rest : ~In(e, s)}
<1> DEFINE e == PrintOf(docid[w], pos[w])
<1>0. /\ e \in Element /\ e.seq = At(w) /\ e.seq + e.skip <= Base(last_docid[w])
      /\ wpc'[w] = "scan" => At(w)' = e.seq + e.skip
      /\ wpc'[w] # "scan" => e.seq + e.skip = Base(last_docid[w])
      /\ last_docid' = last_docid /\ wpc[w] = "scan"
      /\ \A v \in Thread \ {w} : wpc'[v] = wpc[v] /\ At(v)' = At(v)
      /\ UNCHANGED <<work_queue, mpc, io_docid>>
  BY ScanStep
<1> HIDE DEF e
<1>1. e.seq \in Nat /\ e.skip \in Nat /\ e.skip > 0 /\ Base(last_docid[w]) \in Nat /\ End \in Nat
  <2>1. last_docid[w] \in Nat
    BY FeedTypes
  <2>2. e.seq \in Nat /\ e.skip \in Nat /\ e.skip > 0
    BY <1>0 DEF Element
  <2> QED BY <2>1, <2>2, Scale
<1>2. ASSUME NEW s \in Int, In(e, s) PROVE At(w) <= s /\ s < Base(last_docid[w])
  BY <1>0, <1>1, <1>2 DEF In
<1>3. ASSUME NEW s \in Int, In(e, s) PROVE s \in Rest
  <2>1. At(w) <= s /\ s < Base(last_docid[w]) /\ s \in 0 .. End - 1
    BY <1>0, <1>2, <1>3, OnlyWorker
  <2> QED BY <1>0, <2>1 DEF Rest
<1>4. e.seq + e.skip <= End
  <2>1. last_docid[w] \in Nat /\ NumBlocks \in Nat /\ last_docid[w] <= NumBlocks
    BY FeedTypes
  <2>2. Base(last_docid[w]) <= End
    BY <2>1, Scale DEF End
  <2> QED BY <1>0, <1>1, <2>2
<1>5. NextQueued' = NextQueued
  BY <1>0 DEF NextQueued
<1>6. ASSUME NEW s \in 0 .. End - 1
      PROVE  s \in Rest' <=> (s \in Rest /\ ~In(e, s))
  <2>1. s \in Rest' <=>
           \/ Base(NextQueued) <= s
           \/ \E i \in DOMAIN work_queue :
                  Base(work_queue[i].first) <= s /\ s < Base(work_queue[i].last)
           \/ \E v \in Thread : wpc'[v] = "scan" /\ At(v)' <= s /\ s < Base(last_docid[v])
    BY <1>0, <1>5 DEF Rest
  <2>2. CASE In(e, s)
    <3>1. At(w) <= s /\ s < Base(last_docid[w])
      BY <1>2, <2>2
    <3>2. /\ ~(Base(NextQueued) <= s)
          /\ \A i \in DOMAIN work_queue : s < Base(work_queue[i].first)
          /\ \A v \in Thread \ {w} : wpc[v] = "scan" => ~(At(v) <= s /\ s < Base(last_docid[v]))
      BY <1>0, <3>1, OnlyWorker
    <3>3. ASSUME NEW i \in DOMAIN work_queue PROVE ~(Base(work_queue[i].first) <= s)
      <4>1. work_queue[i].first \in Nat
        BY FeedTypes
      <4>2. Base(work_queue[i].first) \in Nat
        BY <4>1, Scale
      <4> QED BY <1>1, <3>2, <4>2
    <3>4. ~(wpc'[w] = "scan" /\ At(w)' <= s)
      BY <1>0, <1>1, <2>2 DEF In
    <3> QED BY <1>0, <2>1, <2>2, <3>2, <3>3, <3>4
  <2>3. CASE ~In(e, s)
    <3>1. (wpc'[w] = "scan" /\ At(w)' <= s /\ s < Base(last_docid[w])) <=>
              (At(w) <= s /\ s < Base(last_docid[w]))
      BY <1>0, <1>1, <2>3 DEF In
    <3> QED BY <1>0, <2>1, <2>3, <3>1 DEF Rest
  <2> QED BY <2>2, <2>3
<1>7. Rest' = {s \in Rest : ~In(e, s)}
  <2>1. Rest \subseteq 0 .. End - 1 /\ Rest' \subseteq 0 .. End - 1
    BY DEF Rest
  <2> QED BY <1>6, <2>1
<1> QED BY <1>3, <1>4, <1>7 DEF e

\* Steps of the queue change who scans what, not what is to be scanned.
LEMMA RestSame ==
    ASSUME TInv, UNCHANGED <<work_queue, docid, last_docid, pos>>,
           \A w \in Thread : wpc'[w] = "scan" <=> wpc[w] = "scan",
           NextQueued' = NextQueued \/ (NextQueued >= NumBlocks /\ NextQueued' >= NumBlocks /\ NextQueued' \in Nat)
    PROVE  Rest' = Rest
<1>1. \A w \in Thread : At(w)' = At(w)
  BY DEF At
<1>2. \A s \in 0 .. End - 1 : Base(NextQueued') <= s <=> Base(NextQueued) <= s
  <2>1. CASE NextQueued' = NextQueued
    BY <2>1
  <2>2. CASE NextQueued >= NumBlocks /\ NextQueued' >= NumBlocks /\ NextQueued' \in Nat
    <3>1. NextQueued \in Nat /\ NumBlocks \in Nat
      BY FeedTypes
    <3>2. End <= Base(NextQueued) /\ End <= Base(NextQueued') /\ End \in Nat
          /\ Base(NextQueued) \in Nat /\ Base(NextQueued') \in Nat
      BY <2>2, <3>1, Scale DEF End
    <3> QED BY <3>2
  <2> QED BY <2>1, <2>2
<1> QED BY <1>1, <1>2 DEF Rest

LEMMA RestTake ==
    ASSUME TInv, NEW w \in Thread, Take(w) PROVE Rest' = Rest
<1>1. /\ work_queue \in Seq(Item) /\ work_queue # <<>> /\ wpc[w] = "ready"
      /\ work_queue' = Tail(work_queue) /\ NextQueued' = NextQueued
  BY DEF Take, TInv, TypeOK, NextQueued
<1>2. /\ Head(work_queue) = work_queue[1] /\ 1 \in DOMAIN work_queue
      /\ \A i \in DOMAIN Tail(work_queue) : i + 1 \in DOMAIN work_queue /\ Tail(work_queue)[i] = work_queue[i + 1]
      /\ \A i \in DOMAIN work_queue : i = 1 \/ i - 1 \in DOMAIN Tail(work_queue)
      /\ DOMAIN work_queue \subseteq Nat
  BY <1>1, HeadTailProperties, EmptySeq, LenProperties
<1>3. /\ wpc'[w] = "scan" /\ docid'[w] = work_queue[1].first /\ last_docid'[w] = work_queue[1].last /\ pos'[w] = 1
      /\ \A v \in Thread \ {w} : wpc'[v] = wpc[v] /\ docid'[v] = docid[v]
                                 /\ last_docid'[v] = last_docid[v] /\ pos'[v] = pos[v]
  BY <1>2 DEF Take, TInv, TypeOK
<1>4. At(w)' = Base(work_queue[1].first) /\ \A v \in Thread \ {w} : At(v)' = At(v)
  <2>1. Base(work_queue[1].first) \in Nat
    BY <1>2, FeedTypes, Scale
  <2> QED BY <1>3, <2>1 DEF At
<1>5. ASSUME NEW s \in 0 .. End - 1 PROVE s \in Rest' <=> s \in Rest
  <2> DEFINE Q(i) == Base(work_queue[i].first) <= s /\ s < Base(work_queue[i].last)
             W(v) == wpc[v] = "scan" /\ At(v) <= s /\ s < Base(last_docid[v])
  <2>1. s \in Rest <=> (Base(NextQueued) <= s \/ (\E i \in DOMAIN work_queue : Q(i)) \/ \E v \in Thread : W(v))
    BY DEF Rest
  <2>2. s \in Rest' <=> \/ Base(NextQueued) <= s
                        \/ \E i \in DOMAIN Tail(work_queue) : Q(i + 1)
                        \/ Q(1) \/ \E v \in Thread \ {w} : W(v)
    BY <1>1, <1>2, <1>3, <1>4 DEF Rest
  <2>3. ~W(w)
    BY <1>1
  <2> HIDE DEF Q, W
  <2>4. (\E i \in DOMAIN work_queue : Q(i)) <=> (Q(1) \/ \E i \in DOMAIN Tail(work_queue) : Q(i + 1))
    <3>1. \A i \in DOMAIN work_queue : i = 1 \/ (i - 1 \in DOMAIN Tail(work_queue) /\ i = (i - 1) + 1)
      BY <1>2
    <3> QED BY <1>2, <3>1
  <2> QED BY <2>1, <2>2, <2>3, <2>4
<1> QED BY <1>5 DEF Rest

LEMMA RestPush ==
    ASSUME TInv, Push PROVE Rest' = Rest
<1> DEFINE c == [first |-> io_docid, last |-> ChunkEnd]
<1>1. /\ work_queue \in Seq(Item) /\ work_queue' = Append(work_queue, c)
      /\ UNCHANGED <<docid, last_docid, pos>> /\ NextQueued = io_docid /\ NextQueued' = io_docid + Chunk
      /\ io_docid < NumBlocks
  BY DEF Push, TInv, TypeOK, NextQueued
<1>2. \A w \in Thread : wpc'[w] = "scan" <=> wpc[w] = "scan"
  BY DEF Push, Waiting, TInv, TypeOK
<1>3. io_docid \in Nat /\ ChunkEnd \in Nat /\ Chunk \in Nat /\ NumBlocks \in Nat /\ Chunk > 0
      /\ ChunkEnd = IF io_docid + Chunk < NumBlocks THEN io_docid + Chunk ELSE NumBlocks
  BY FeedTypes DEF ChunkEnd
<1>4. /\ DOMAIN work_queue' = DOMAIN work_queue \cup {Len(work_queue) + 1}
      /\ \A i \in DOMAIN work_queue : work_queue'[i] = work_queue[i]
      /\ work_queue'[Len(work_queue) + 1] = c
  BY <1>1, AppendProperties, LenProperties
<1>5. ASSUME NEW s \in 0 .. End - 1
      PROVE  Base(io_docid) <= s <=> (Base(io_docid + Chunk) <= s \/ (Base(io_docid) <= s /\ s < Base(ChunkEnd)))
  <2>1. Base(io_docid) \in Nat /\ Base(io_docid + Chunk) \in Nat /\ Base(ChunkEnd) \in Nat /\ End \in Nat
        /\ Base(io_docid) <= Base(io_docid + Chunk)
    BY <1>3, Scale
  <2>2. CASE io_docid + Chunk < NumBlocks
    BY <1>3, <2>1, <2>2
  <2>3. CASE ~(io_docid + Chunk < NumBlocks)
    <3>1. ChunkEnd = NumBlocks /\ Base(ChunkEnd) = End /\ End <= Base(io_docid + Chunk)
      BY <1>3, <2>3, Scale DEF End
    <3> QED BY <2>1, <3>1
  <2> QED BY <2>2, <2>3
<1>6. \A w \in Thread : At(w)' = At(w)
  BY <1>1 DEF At
<1>7. ASSUME NEW s \in 0 .. End - 1 PROVE s \in Rest' <=> s \in Rest
  <2> DEFINE Q(i) == Base(work_queue[i].first) <= s /\ s < Base(work_queue[i].last)
             W(v) == wpc[v] = "scan" /\ At(v) <= s /\ s < Base(last_docid[v])
  <2>1. s \in Rest <=> (Base(io_docid) <= s \/ (\E i \in DOMAIN work_queue : Q(i)) \/ \E v \in Thread : W(v))
    BY <1>1 DEF Rest
  <2>2. s \in Rest' <=> \/ Base(io_docid + Chunk) <= s
                        \/ \E i \in DOMAIN work_queue : Q(i)
                        \/ Base(io_docid) <= s /\ s < Base(ChunkEnd)
                        \/ \E v \in Thread : W(v)
    BY <1>1, <1>2, <1>4, <1>6 DEF Rest
  <2> HIDE DEF Q, W
  <2> QED BY <1>5, <2>1, <2>2
<1> QED BY <1>7 DEF Rest

\* Chunks stay in order.
LEMMA FeedNext ==
    ASSUME TInv, FeedInv, [Next]_vars PROVE FeedInv'
<1>0. /\ work_queue \in Seq(Item) /\ io_docid \in Nat /\ NextQueued \in Nat /\ NumBlocks \in Nat
      /\ Chunk \in Nat /\ Chunk > 0
      /\ wpc \in [Thread -> {"ready", "waiting", "scan", "gone"}] /\ done \in BOOLEAN
  BY FeedTypes DEF TInv, TypeOK
<1>1. ASSUME UNCHANGED <<work_queue, docid, last_docid>>, NextQueued' \in Nat, NextQueued <= NextQueued',
             \A w \in Thread : wpc'[w] = "scan" <=> wpc[w] = "scan", done' => io_docid' >= NumBlocks
      PROVE  FeedInv'
  <2>1. \A i \in DOMAIN work_queue : work_queue[i].last \in Nat
    BY FeedTypes
  <2>2. \A w \in Thread : last_docid[w] \in Nat
    BY FeedTypes
  <2>3. \A i \in DOMAIN work_queue : work_queue[i].last <= NextQueued'
    BY <1>0, <1>1, <2>1 DEF FeedInv
  <2>4. \A w \in Thread : wpc[w] = "scan" => last_docid[w] <= NextQueued'
    BY <1>0, <1>1, <2>2 DEF FeedInv
  <2> QED BY <1>1, <2>3, <2>4 DEF FeedInv
<1>2. ASSUME NEW w \in Thread, Take(w) PROVE FeedInv'
  <2>1. /\ work_queue # <<>> /\ wpc[w] = "ready"
        /\ work_queue' = Tail(work_queue) /\ NextQueued' = NextQueued /\ UNCHANGED <<done, io_docid>>
    BY <1>2 DEF Take, NextQueued
  <2>2. /\ Head(work_queue) = work_queue[1] /\ 1 \in DOMAIN work_queue
        /\ \A i \in DOMAIN Tail(work_queue) : i + 1 \in DOMAIN work_queue /\ Tail(work_queue)[i] = work_queue[i + 1]
        /\ DOMAIN work_queue \subseteq Nat \ {0} /\ DOMAIN Tail(work_queue) \subseteq Nat \ {0}
    BY <1>0, <2>1, HeadTailProperties, EmptySeq, LenProperties
  <2>3. /\ wpc'[w] = "scan" /\ docid'[w] = work_queue[1].first /\ last_docid'[w] = work_queue[1].last
        /\ \A v \in Thread \ {w} : wpc'[v] = wpc[v] /\ docid'[v] = docid[v] /\ last_docid'[v] = last_docid[v]
    BY <1>2, <2>2 DEF Take, TInv, TypeOK
  <2>4. \A i \in DOMAIN work_queue' : work_queue'[i].last <= NextQueued
    BY <2>1, <2>2 DEF FeedInv
  <2>5. ASSUME NEW i \in DOMAIN work_queue', NEW j \in DOMAIN work_queue', i < j
        PROVE  work_queue'[i].last <= work_queue'[j].first
    <3>1. i + 1 \in DOMAIN work_queue /\ j + 1 \in DOMAIN work_queue /\ i + 1 < j + 1
      BY <2>1, <2>2, <2>5
    <3> QED BY <2>1, <2>2, <3>1 DEF FeedInv
  <2>6. ASSUME NEW v \in Thread \ {w}, wpc[v] = "scan"
        PROVE  /\ last_docid[v] <= NextQueued /\ last_docid[v] <= work_queue[1].first
               /\ \A i \in DOMAIN work_queue' : last_docid[v] <= work_queue'[i].first
    BY <2>1, <2>2, <2>6 DEF FeedInv
  <2>7. \A i \in DOMAIN work_queue' : work_queue[1].last <= work_queue'[i].first
    <3> SUFFICES ASSUME NEW i \in DOMAIN work_queue' PROVE work_queue[1].last <= work_queue'[i].first
      OBVIOUS
    <3>1. 1 < i + 1 /\ i + 1 \in DOMAIN work_queue /\ work_queue'[i] = work_queue[i + 1]
      BY <2>1, <2>2
    <3> QED BY <2>2, <3>1 DEF FeedInv
  <2>8. work_queue[1].last <= NextQueued
    BY <2>2 DEF FeedInv
  <2> QED BY <2>1, <2>3, <2>4, <2>5, <2>6, <2>7, <2>8 DEF FeedInv
<1>3. ASSUME NEW w \in Thread, ScanBlock(w), UNCHANGED hits PROVE FeedInv'
  <2>1. /\ last_docid' = last_docid /\ wpc[w] = "scan" /\ docid'[w] >= docid[w]
        /\ \A v \in Thread \ {w} : wpc'[v] = wpc[v] /\ docid'[v] = docid[v]
        /\ UNCHANGED <<work_queue, done, mpc, io_docid>>
    BY <1>3, ScanStep
  <2>2. NextQueued' = NextQueued
    BY <2>1 DEF NextQueued
  <2>3. \A v \in Thread : docid[v] \in Nat /\ last_docid[v] \in Nat
    BY FeedTypes
  <2>4. docid'[w] \in Nat
    BY <1>3, <2>3 DEF ScanBlock, TInv, TypeOK
  <2>5. \A u \in Thread, v \in Thread : last_docid[u] <= docid[v] => last_docid[u] <= docid'[v]
    <3> SUFFICES ASSUME NEW u \in Thread, NEW v \in Thread, last_docid[u] <= docid[v]
                 PROVE  last_docid[u] <= docid'[v]
      OBVIOUS
    <3>1. docid'[v] \in Nat /\ docid[v] <= docid'[v]
      BY <2>1, <2>3, <2>4
    <3> QED BY <2>3, <3>1
  <2>6. \A v \in Thread : wpc'[v] = "scan" => wpc[v] = "scan"
    BY <2>1
  <2>7. /\ \A i \in DOMAIN work_queue : work_queue[i].last <= NextQueued
        /\ \A i, j \in DOMAIN work_queue : i < j => work_queue[i].last <= work_queue[j].first
        /\ done => io_docid >= NumBlocks
    BY DEF FeedInv
  <2>8. ASSUME NEW u \in Thread, wpc'[u] = "scan"
        PROVE  /\ last_docid[u] <= NextQueued
               /\ \A i \in DOMAIN work_queue : last_docid[u] <= work_queue[i].first
               /\ \A v \in Thread \ {u} : wpc'[v] = "scan" =>
                      last_docid[u] <= docid'[v] \/ last_docid[v] <= docid'[u]
    BY <2>5, <2>6, <2>8 DEF FeedInv
  <2> QED BY <2>1, <2>2, <2>7, <2>8 DEF FeedInv
<1>4. CASE Push
  <2> DEFINE c == [first |-> io_docid, last |-> ChunkEnd]
  <2>1. /\ work_queue' = Append(work_queue, c) /\ mpc' = "collect" /\ mpc = "push"
        /\ UNCHANGED <<docid, last_docid, done, io_docid>> /\ io_docid < NumBlocks
    BY <1>4 DEF Push
  <2>2. NextQueued = io_docid /\ NextQueued' = io_docid + Chunk
    BY <2>1 DEF NextQueued
  <2>3. \A w \in Thread : wpc'[w] = "scan" <=> wpc[w] = "scan"
    BY <1>4 DEF Push, Waiting, TInv, TypeOK
  <2>4. /\ DOMAIN work_queue' = DOMAIN work_queue \cup {Len(work_queue) + 1}
        /\ \A i \in DOMAIN work_queue : work_queue'[i] = work_queue[i] /\ i \in Nat /\ i < Len(work_queue) + 1
        /\ work_queue'[Len(work_queue) + 1] = c /\ Len(work_queue) \in Nat
    BY <1>0, <2>1, AppendProperties, LenProperties
  <2>5. c.first = io_docid /\ c.last = ChunkEnd /\ ChunkEnd \in Nat /\ ChunkEnd <= io_docid + Chunk
    BY <1>0 DEF ChunkEnd
  <2> HIDE DEF c
  <2>6. /\ \A i \in DOMAIN work_queue : work_queue[i].last \in Nat /\ work_queue[i].last <= io_docid
        /\ \A w \in Thread : last_docid[w] \in Nat /\ (wpc[w] = "scan" => last_docid[w] <= io_docid)
    BY <2>2, FeedTypes DEF FeedInv
  <2>7. /\ \A i \in DOMAIN work_queue : work_queue[i].last <= io_docid + Chunk
        /\ \A w \in Thread : wpc[w] = "scan" => last_docid[w] <= io_docid + Chunk
    BY <1>0, <2>6
  <2>8. \A i \in DOMAIN work_queue' : work_queue'[i].last <= NextQueued'
    BY <2>2, <2>4, <2>5, <2>7
  <2>9. ASSUME NEW i \in DOMAIN work_queue', NEW j \in DOMAIN work_queue', i < j
        PROVE  work_queue'[i].last <= work_queue'[j].first
    <3>1. i \in DOMAIN work_queue
      BY <2>4, <2>9
    <3>2. CASE j \in DOMAIN work_queue
      BY <2>4, <2>9, <3>1, <3>2 DEF FeedInv
    <3>3. CASE j = Len(work_queue) + 1
      BY <2>4, <2>5, <2>6, <3>1, <3>3
    <3> QED BY <2>4, <3>2, <3>3
  <2>10. ASSUME NEW w \in Thread, wpc[w] = "scan"
         PROVE  /\ last_docid[w] <= NextQueued'
                /\ \A i \in DOMAIN work_queue' : last_docid[w] <= work_queue'[i].first
                /\ \A v \in Thread \ {w} : wpc[v] = "scan" =>
                       last_docid[w] <= docid[v] \/ last_docid[v] <= docid[w]
    <3>1. \A i \in DOMAIN work_queue' : last_docid[w] <= work_queue'[i].first
      BY <2>4, <2>5, <2>6, <2>10 DEF FeedInv
    <3> QED BY <2>2, <2>7, <2>10, <3>1 DEF FeedInv
  <2> QED BY <2>1, <2>3, <2>8, <2>9, <2>10 DEF FeedInv
<1>5. CASE AllQueued
  <2>1. /\ NextQueued' \in Nat /\ NextQueued <= NextQueued' /\ io_docid' >= NumBlocks
    BY <1>0, <1>5 DEF AllQueued, NextQueued
  <2>2. \A w \in Thread : wpc'[w] = "scan" <=> wpc[w] = "scan"
    BY <1>5 DEF AllQueued
  <2> QED BY <1>1, <1>5, <2>1, <2>2 DEF AllQueued
<1>6. CASE WaitForRoom \/ Join \/ Collect \/ Deliver \/ Delivered
  <2>1. NextQueued' = NextQueued
    BY <1>0, <1>6 DEF WaitForRoom, Join, Collect, Deliver, Delivered, NextQueued
  <2>2. /\ UNCHANGED <<work_queue, docid, last_docid, wpc, done>> /\ io_docid' \in Nat /\ io_docid <= io_docid'
    BY <1>0, <1>6 DEF WaitForRoom, Join, Collect, Deliver, Delivered
  <2>3. done' => io_docid' >= NumBlocks
    BY <1>0, <2>2 DEF FeedInv
  <2> QED BY <1>0, <1>1, <2>1, <2>2, <2>3
<1>7. CASE SpuriousWakeup
  <2>1. NextQueued' = NextQueued /\ UNCHANGED <<work_queue, docid, last_docid, done, io_docid>>
    BY <1>7 DEF SpuriousWakeup, NextQueued
  <2>2. \A w \in Thread : wpc'[w] = "scan" <=> wpc[w] = "scan"
    BY <1>0, <1>7 DEF SpuriousWakeup, Waiting
  <2>3. done' => io_docid' >= NumBlocks
    BY <2>1 DEF FeedInv
  <2> QED BY <1>0, <1>1, <2>1, <2>2, <2>3
<1>8. ASSUME NEW w \in Thread, Sleep(w) \/ Quit(w) PROVE FeedInv'
  <2>1. NextQueued' = NextQueued /\ UNCHANGED <<work_queue, docid, last_docid, done, io_docid>>
    BY <1>8 DEF Sleep, Quit, NextQueued
  <2>2. \A v \in Thread : wpc'[v] = "scan" <=> wpc[v] = "scan"
    BY <1>0, <1>8 DEF Sleep, Quit
  <2>3. done' => io_docid' >= NumBlocks
    BY <2>1 DEF FeedInv
  <2> QED BY <1>0, <1>1, <2>1, <2>2, <2>3
<1>9. CASE UNCHANGED vars
  <2>1. NextQueued' = NextQueued /\ UNCHANGED <<work_queue, docid, last_docid, done, io_docid, wpc>>
    BY <1>9 DEF vars, scanVars, NextQueued
  <2>2. done' => io_docid' >= NumBlocks
    BY <2>1 DEF FeedInv
  <2> QED BY <1>0, <1>1, <2>1, <2>2
<1> QED BY <1>2, <1>3, <1>4, <1>5, <1>6, <1>7, <1>8, <1>9 DEF Next, Main, Worker

\* Only scanning changes what is to be scanned.
LEMMA RestNext ==
    ASSUME TInv, FeedInv, [Next]_vars, \A w \in Thread : ~ScanBlock(w)
    PROVE  Rest' = Rest
<1>0. /\ io_docid \in Nat /\ NumBlocks \in Nat /\ Chunk \in Nat
      /\ wpc \in [Thread -> {"ready", "waiting", "scan", "gone"}]
  BY FeedTypes DEF TInv, TypeOK
<1>1. ASSUME NEW w \in Thread, Sleep(w) \/ Quit(w) PROVE Rest' = Rest
  <2>1. NextQueued' = NextQueued /\ UNCHANGED <<work_queue, docid, last_docid, pos>>
    BY <1>1 DEF Sleep, Quit, NextQueued
  <2>2. \A v \in Thread : wpc'[v] = "scan" <=> wpc[v] = "scan"
    BY <1>0, <1>1 DEF Sleep, Quit
  <2> QED BY <2>1, <2>2, RestSame
<1>2. CASE AllQueued
  <2>1. /\ NextQueued >= NumBlocks /\ NextQueued' >= NumBlocks /\ NextQueued' \in Nat
        /\ UNCHANGED <<work_queue, docid, last_docid, pos>>
    BY <1>0, <1>2 DEF AllQueued, NextQueued
  <2>2. \A v \in Thread : wpc'[v] = "scan" <=> wpc[v] = "scan"
    BY <1>2 DEF AllQueued
  <2> QED BY <2>1, <2>2, RestSame
<1>3. CASE WaitForRoom \/ Join \/ Collect \/ Deliver \/ Delivered \/ UNCHANGED vars
  <2>1. NextQueued' = NextQueued /\ UNCHANGED <<work_queue, docid, last_docid, pos, wpc>>
    BY <1>0, <1>3 DEF WaitForRoom, Join, Collect, Deliver, Delivered, vars, scanVars, NextQueued
  <2> QED BY <2>1, RestSame
<1>4. CASE SpuriousWakeup
  <2>1. NextQueued' = NextQueued /\ UNCHANGED <<work_queue, docid, last_docid, pos>>
    BY <1>4 DEF SpuriousWakeup, NextQueued
  <2>2. \A v \in Thread : wpc'[v] = "scan" <=> wpc[v] = "scan"
    BY <1>0, <1>4 DEF SpuriousWakeup, Waiting
  <2> QED BY <2>1, <2>2, RestSame
<1> QED BY <1>1, <1>2, <1>3, <1>4, RestTake, RestPush DEF Next, Main, Worker

\* The main thread joins the workers one after the other and empties their queues.
LEMMA JoinNext ==
    ASSUME TInv, JoinInv, [Next]_vars PROVE JoinInv'
<1>0. /\ wpc \in [Thread -> {"ready", "waiting", "scan", "gone"}] /\ who \in Thread /\ done \in BOOLEAN
      /\ Thread \subseteq Int /\ results \in [Thread -> Seq(Element)] /\ NumThreads \in Nat
      /\ \A w \in Thread : wpc[w] = "gone" => done
      /\ done => mpc \notin {"push", "waiting"}
  BY ScanAssumption DEF TInv, TypeOK, Thread
<1>1. ASSUME UNCHANGED serializerVars PROVE CanDrain' = CanDrain /\ exited' = exited
  BY <1>1 DEF CanDrain, Top, serializerVars
<1>2. ASSUME NEW w \in Thread, Take(w), UNCHANGED serializerVars PROVE JoinInv'
  <2>1. \A v \in Thread : (wpc'[v] = "gone" <=> wpc[v] = "gone") /\ wpc[v] # "gone"
    BY <1>0, <1>2 DEF Take, JoinInv
  <2>2. /\ UNCHANGED <<done, who, batch, results>> /\ (mpc' = mpc \/ (mpc = "waiting" /\ mpc' = "push"))
    BY <1>2 DEF Take
  <2> QED BY <1>0, <1>1, <1>2, <2>1, <2>2 DEF JoinInv, Empty
<1>3. ASSUME NEW w \in Thread, Sleep(w) \/ Quit(w) \/ ScanBlock(w), UNCHANGED serializerVars PROVE JoinInv'
  <2>1. UNCHANGED <<done, who, batch, mpc, work_queue>>
    BY <1>3 DEF Sleep, Quit, ScanBlock
  <2>2. wpc[w] # "gone" /\ \A v \in Thread : Empty(v) => Empty(v)'
    BY <1>0, <1>3 DEF Sleep, Quit, ScanBlock, Empty
  <2>3. \A v \in Thread : (wpc[v] = "gone" => wpc'[v] = "gone" /\ results'[v] = results[v])
    BY <1>0, <1>3 DEF Sleep, Quit, ScanBlock
  <2>4. (\E v \in Thread : wpc'[v] = "gone") => work_queue = <<>>
    BY <1>0, <1>3 DEF Sleep, Quit, ScanBlock, JoinInv
  <2> QED BY <1>0, <1>1, <1>3, <2>1, <2>2, <2>3, <2>4 DEF JoinInv
<1>4. ASSUME Push \/ WaitForRoom \/ Join, UNCHANGED serializerVars PROVE JoinInv'
  <2>1. CASE Push
    <3>1. ~done /\ done' = done /\ mpc' = "collect" /\ batch' = batch /\ mpc = "push"
      BY <1>0, <2>1 DEF Push
    <3>2. \A v \in Thread : wpc'[v] # "gone"
      BY <1>0, <2>1, <3>1 DEF Push, Waiting
    <3> QED BY <3>1, <3>2 DEF JoinInv
  <2>2. CASE WaitForRoom
    BY <1>0, <2>2 DEF WaitForRoom, JoinInv
  <2>3. CASE Join
    BY <1>0, <2>3 DEF Join, JoinInv, Empty
  <2> QED BY <1>4, <2>1, <2>2, <2>3
<1>5. CASE AllQueued
  <2>1. /\ done' /\ who' = 0 /\ mpc' = "join" /\ UNCHANGED <<batch, work_queue, results>> /\ mpc = "push"
        /\ \A v \in Thread : wpc'[v] = "gone" <=> wpc[v] = "gone"
    BY <1>0, <1>5 DEF AllQueued
  <2>2. \A v \in Thread : ~(v < 0)
    BY ScanAssumption DEF Thread
  <2> QED BY <2>1, <2>2 DEF JoinInv
<1>6. CASE Collect
  <2>1. /\ UNCHANGED <<done, who, wpc, work_queue>> /\ mpc = "collect" /\ mpc' = "deliver"
        /\ results' = [results EXCEPT ![who] = <<>>]
    BY <1>6 DEF Collect
  <2>2. results'[who] = <<>> /\ \A v \in Thread : results'[v] = results[v] \/ results'[v] = <<>>
    BY <1>0, <2>1
  <2>3. \A v \in Thread : Empty(v) => Empty(v)'
    BY <2>1, <2>2 DEF Empty
  <2> QED BY <2>1, <2>2, <2>3 DEF JoinInv
<1>7. CASE Deliver
  <2>1. UNCHANGED <<done, who, wpc, work_queue, mpc, results>> /\ mpc = "deliver"
    BY <1>7 DEF Deliver
  <2>2. \A v \in Thread : Empty(v) => Empty(v)'
    BY <2>1 DEF Empty
  <2> QED BY <2>1, <2>2 DEF JoinInv
<1>8. ASSUME Delivered, UNCHANGED serializerVars, ~exited PROVE JoinInv'
  <2>1. UNCHANGED <<done, wpc, work_queue, results, batch>> /\ mpc = "deliver" /\ batch = <<>> /\ ~CanDrain
    BY <1>8 DEF Delivered
  <2>2. CASE ~done
    <3>1. mpc' = "push"
      BY <1>8, <2>2 DEF Delivered
    <3> QED BY <2>1, <2>2, <3>1 DEF JoinInv
  <2>3. CASE done
    <3>1. \A v \in Thread : v <= who => Empty(v)
      BY <1>0, <2>1, <2>3 DEF JoinInv, Empty
    <3>2. \A v \in Thread : Empty(v) => Empty(v)'
      BY <2>1 DEF Empty
    <3>3. CASE who + 1 < NumThreads
      <4>1. mpc' = "join" /\ who' = who + 1
        BY <1>8, <2>3, <3>3 DEF Delivered
      <4>2. \A v \in Thread : v < who' => Empty(v)
        BY <1>0, <3>1, <4>1
      <4> QED BY <2>1, <2>3, <3>2, <4>1, <4>2 DEF JoinInv
    <3>4. CASE ~(who + 1 < NumThreads)
      <4>1. mpc' = "returned" /\ who' = who
        BY <1>8, <2>3, <3>4 DEF Delivered
      <4>2. \A v \in Thread : v <= who
        BY <1>0, <3>4 DEF Thread
      <4>3. \A v \in Thread : Empty(v)'
        BY <3>1, <3>2, <4>2
      <4> QED BY <1>1, <1>8, <2>1, <2>3, <4>1, <4>3 DEF JoinInv
    <3> QED BY <3>3, <3>4
  <2> QED BY <1>0, <2>2, <2>3
<1>9. CASE SpuriousWakeup
  <2>1. UNCHANGED <<done, who, work_queue, results, batch, serializerVars>>
        /\ (mpc' = mpc \/ (mpc = "waiting" /\ mpc' = "push"))
    BY <1>9 DEF SpuriousWakeup
  <2>2. \A v \in Thread : wpc'[v] = "gone" <=> wpc[v] = "gone"
    BY <1>0, <1>9 DEF SpuriousWakeup, Waiting
  <2>3. \A v \in Thread : Empty(v) => Empty(v)'
    BY <2>1, <2>2 DEF Empty
  <2> QED BY <1>0, <1>1, <2>1, <2>2, <2>3 DEF JoinInv
<1>10. CASE UNCHANGED vars
  <2>1. UNCHANGED <<done, who, wpc, work_queue, mpc, results, batch, serializerVars>>
    BY <1>10 DEF vars, scanVars
  <2> QED BY <1>1, <2>1 DEF JoinInv, Empty
<1> QED BY <1>2, <1>3, <1>4, <1>5, <1>6, <1>7, <1>8, <1>9, <1>10 DEF Next, Main, Worker

\* A result that is received is appended or extends the last one.
Appended(r, s, e) ==
    /\ DOMAIN r = DOMAIN s \cup {Len(s) + 1} /\ Len(s) + 1 \notin DOMAIN s
    /\ r[Len(s) + 1] = e /\ \A i \in DOMAIN s : r[i] = s[i]
Extended(r, s, e) ==
    /\ DOMAIN r = DOMAIN s /\ Len(s) \in DOMAIN s
    /\ r[Len(s)].seq = s[Len(s)].seq /\ r[Len(s)].skip = s[Len(s)].skip + e.skip
    /\ r[Len(s)].msg = s[Len(s)].msg /\ r[Len(s)] \in Element
    /\ \A i \in DOMAIN s : i # Len(s) => r[i] = s[i]
    /\ s[Len(s)].seq + s[Len(s)].skip = e.seq /\ e.msg = NoMsg

LEMMA ReceivedCases ==
    ASSUME NEW s \in Seq(Element), NEW e \in Element
    PROVE  Appended(Received(s, e), s, e) \/ Extended(Received(s, e), s, e)
<1>1. CASE e.msg = NoMsg /\ s # <<>> /\ s[Len(s)].seq + s[Len(s)].skip = e.seq
  <2> DEFINE f == s[Len(s)]
             g == [f EXCEPT !.skip = @ + e.skip]
  <2>1. Len(s) \in DOMAIN s /\ f \in Element
    BY <1>1, EmptySeq, ElementOfSeq, LenProperties
  <2>2. Received(s, e) = [s EXCEPT ![Len(s)] = g]
    BY <1>1 DEF Received
  <2> HIDE DEF f
  <2>3. g.seq = f.seq /\ g.skip = f.skip + e.skip /\ g.msg = f.msg
    BY <2>1 DEF Element
  <2>4. g \in Element
    <3>1. f.skip + e.skip \in Nat \ {0}
      BY <2>1 DEF Element
    <3> QED BY <2>1, <3>1 DEF Element
  <2> HIDE DEF g
  <2>5. /\ DOMAIN Received(s, e) = DOMAIN s /\ Received(s, e)[Len(s)] = g
        /\ \A i \in DOMAIN s : i # Len(s) => Received(s, e)[i] = s[i]
    BY <2>1, <2>2
  <2> QED BY <1>1, <2>1, <2>3, <2>4, <2>5 DEF Extended, f
<1>2. CASE ~(e.msg = NoMsg /\ s # <<>> /\ s[Len(s)].seq + s[Len(s)].skip = e.seq)
  <2>1. Received(s, e) = Append(s, e)
    BY <1>2 DEF Received
  <2>2. DOMAIN s = 1 .. Len(s) /\ Len(s) \in Nat
    BY LenProperties
  <2>3. /\ DOMAIN Append(s, e) = 1 .. Len(s) + 1 /\ Append(s, e)[Len(s) + 1] = e
        /\ \A i \in 1 .. Len(s) : Append(s, e)[i] = s[i]
    BY AppendProperties, LenProperties
  <2> QED BY <2>1, <2>2, <2>3 DEF Appended
<1> QED BY <1>1, <1>2

\* What is apart from the results and from the new one stays apart.
LEMMA ReceivedApart ==
    ASSUME NEW s \in Seq(Element), NEW e \in Element, NEW h \in Element,
           \A i \in DOMAIN s : Apart(h, s[i]), Apart(h, e)
    PROVE  \A i \in DOMAIN Received(s, e) : Apart(h, Received(s, e)[i])
<1> DEFINE r == Received(s, e)
<1>0. Appended(r, s, e) \/ Extended(r, s, e)
  BY ReceivedCases
<1> HIDE DEF r
<1>1. CASE Appended(r, s, e)
  BY <1>1 DEF Appended, r
<1>2. CASE Extended(r, s, e)
  <2>1. Len(s) \in DOMAIN s /\ s[Len(s)] \in Element /\ r[Len(s)] \in Element /\ Apart(h, s[Len(s)])
    BY <1>2, ElementOfSeq DEF Extended
  <2>2. h.seq \in Nat /\ h.skip \in Nat /\ h.skip > 0 /\ e.seq \in Nat /\ e.skip \in Nat
        /\ s[Len(s)].seq \in Nat /\ s[Len(s)].skip \in Nat
    BY <2>1 DEF Element
  <2>3. Apart(h, r[Len(s)])
    BY <1>2, <2>1, <2>2 DEF Apart, Extended
  <2> QED BY <1>2, <2>3 DEF Extended, r
<1> QED BY <1>0, <1>1, <1>2

LEMMA ReceivedSelf ==
    ASSUME NEW s \in Seq(Element), NEW e \in Element, SeqApart(s), \A i \in DOMAIN s : Apart(s[i], e)
    PROVE  SeqApart(Received(s, e))
<1> DEFINE r == Received(s, e)
<1>0. (Appended(r, s, e) \/ Extended(r, s, e)) /\ \A i \in DOMAIN s : s[i] \in Element
  BY ReceivedCases, ElementOfSeq
<1> HIDE DEF r
<1>s. \A a, b : Apart(a, b) => Apart(b, a)
  BY DEF Apart
<1>1. CASE Appended(r, s, e)
  BY <1>1, <1>s DEF Appended, SeqApart, r
<1>2. CASE Extended(r, s, e)
  <2> DEFINE n == Len(s)
  <2>1. n \in DOMAIN s /\ s[n] \in Element /\ r[n] \in Element
    BY <1>0, <1>2 DEF Extended
  <2>2. ASSUME NEW i \in DOMAIN s, i # n PROVE Apart(s[i], r[n])
    <3>1. Apart(s[i], s[n]) /\ Apart(s[i], e) /\ s[i] \in Element
      BY <1>0, <2>1, <2>2 DEF SeqApart
    <3>2. s[i].seq \in Nat /\ s[i].skip \in Nat /\ s[i].skip > 0 /\ e.seq \in Nat /\ e.skip \in Nat
          /\ s[n].seq \in Nat /\ s[n].skip \in Nat
      BY <2>1, <3>1 DEF Element
    <3> QED BY <1>2, <3>1, <3>2 DEF Apart, Extended
  <2>3. ASSUME NEW i \in DOMAIN r, NEW j \in DOMAIN r, i # j PROVE Apart(r[i], r[j])
    <3>1. DOMAIN r = DOMAIN s /\ \A k \in DOMAIN s : k # n => r[k] = s[k]
      BY <1>2 DEF Extended
    <3>2. CASE i = n
      BY <1>s, <2>2, <2>3, <3>1, <3>2
    <3>3. CASE j = n
      BY <2>2, <2>3, <3>1, <3>3
    <3>4. CASE i # n /\ j # n
      BY <2>3, <3>1, <3>4 DEF SeqApart
    <3> QED BY <3>2, <3>3, <3>4
  <2> QED BY <2>3 DEF SeqApart, r
<1> QED BY <1>0, <1>1, <1>2

\* The results cover what they covered, and the new one.
LEMMA ReceivedCovers ==
    ASSUME NEW s \in Seq(Element), NEW e \in Element, NEW x \in Int
    PROVE  (\E i \in DOMAIN Received(s, e) : In(Received(s, e)[i], x)) <=>
               ((\E i \in DOMAIN s : In(s[i], x)) \/ In(e, x))
<1> DEFINE r == Received(s, e)
<1>0. Appended(r, s, e) \/ Extended(r, s, e)
  BY ReceivedCases
<1> HIDE DEF r
<1>1. CASE Appended(r, s, e)
  BY <1>1 DEF Appended, r
<1>2. CASE Extended(r, s, e)
  <2>1. Len(s) \in DOMAIN s /\ s[Len(s)] \in Element
    BY <1>2, ElementOfSeq DEF Extended
  <2>2. e.seq \in Nat /\ e.skip \in Nat /\ s[Len(s)].seq \in Nat /\ s[Len(s)].skip \in Nat
    BY <2>1 DEF Element
  <2>3. In(r[Len(s)], x) <=> (In(s[Len(s)], x) \/ In(e, x))
    BY <1>2, <2>2 DEF In, Extended
  <2> QED BY <1>2, <2>1, <2>3 DEF Extended, r
<1> QED BY <1>0, <1>1, <1>2

\* Results begin and end where they did, or where the new one does.
LEMMA ReceivedEnds ==
    ASSUME NEW s \in Seq(Element), NEW e \in Element, NEW i \in DOMAIN Received(s, e)
    PROVE  LET g == Received(s, e)[i] IN
           /\ g.seq = e.seq \/ \E j \in DOMAIN s : g.seq = s[j].seq
           /\ g.seq + g.skip = e.seq + e.skip \/ \E j \in DOMAIN s : g.seq + g.skip = s[j].seq + s[j].skip
<1> DEFINE r == Received(s, e)
<1>0. Appended(r, s, e) \/ Extended(r, s, e)
  BY ReceivedCases
<1> HIDE DEF r
<1>1. CASE Appended(r, s, e)
  BY <1>1 DEF Appended, r
<1>2. CASE Extended(r, s, e)
  <2>1. Len(s) \in DOMAIN s /\ s[Len(s)] \in Element
    BY <1>2, ElementOfSeq DEF Extended
  <2>2. e.seq \in Nat /\ e.skip \in Nat /\ s[Len(s)].seq \in Nat /\ s[Len(s)].skip \in Nat
    BY <2>1 DEF Element
  <2>3. r[Len(s)].seq + r[Len(s)].skip = e.seq + e.skip /\ r[Len(s)].seq = s[Len(s)].seq
    BY <1>2, <2>2 DEF Extended
  <2>4. i = Len(s) \/ (i \in DOMAIN s /\ r[i] = s[i])
    BY <1>2 DEF Extended, r
  <2> QED BY <2>1, <2>3, <2>4 DEF r
<1> QED BY <1>0, <1>1, <1>2

\* No name is lost when results are merged.
LEMMA ReceivedNames ==
    ASSUME NEW s \in Seq(Element), NEW e \in Element, NEW x, x # NoMsg
    PROVE  (\E i \in DOMAIN Received(s, e) : Received(s, e)[i].msg = x) <=>
               ((\E i \in DOMAIN s : s[i].msg = x) \/ e.msg = x)
<1> DEFINE r == Received(s, e)
<1>0. Appended(r, s, e) \/ Extended(r, s, e)
  BY ReceivedCases
<1> HIDE DEF r
<1>1. CASE Appended(r, s, e)
  BY <1>1 DEF Appended, r
<1>2. CASE Extended(r, s, e)
  BY <1>2 DEF Extended, r
<1> QED BY <1>0, <1>1, <1>2

\* A result that has just been scanned is apart from those in flight.
LEMMA ScannedApart ==
    ASSUME NEW R, NEW f \in Element, NEW e \in Element, Off(f, R), \A s \in Int : In(e, s) => s \in R
    PROVE  Apart(f, e)
<1>1. f.seq \in Nat /\ f.skip \in Nat /\ f.skip > 0 /\ e.seq \in Nat /\ e.skip \in Nat /\ e.skip > 0
  BY DEF Element
<1>2. \A s \in Int : ~(In(e, s) /\ In(f, s))
  BY DEF Off
<1>3. ~(In(e, e.seq) /\ In(f, e.seq)) /\ ~(In(e, f.seq) /\ In(f, f.seq))
  BY <1>1, <1>2
<1> QED BY <1>1, <1>3 DEF In, Apart

\* What is in flight has its type.
LEMMA FlightTypes ==
    ASSUME TInv
    PROVE  /\ pending \subseteq Element /\ batch \in Seq(Element) /\ \A i \in DOMAIN batch : batch[i] \in Element
           /\ results \in [Thread -> Seq(Element)]
           /\ \A w \in Thread : results[w] \in Seq(Element) /\ \A i \in DOMAIN results[w] : results[w][i] \in Element
           /\ Rest \subseteq Int
  BY ElementOfSeq DEF TInv, TypeOK, Rest


\* A result moves from what is to be scanned into the queue of its worker.
LEMMA FlightScan ==
    ASSUME NEW P \in SUBSET Element, NEW B \in Seq(Element), NEW Q \in [Thread -> Seq(Element)],
           NEW R \in SUBSET Int, Flight(P, B, Q, R),
           NEW w \in Thread, NEW e \in Element, \A s \in Int : In(e, s) => s \in R, e.seq + e.skip <= End,
           NEW N, N = [Q EXCEPT ![w] = Received(Q[w], e)], NEW S, S = {s \in R : ~In(e, s)}
    PROVE  Flight(P, B, N, S)
<1> DEFINE r == Received(Q[w], e)
<1>0. /\ \A i \in DOMAIN B : B[i] \in Element
      /\ \A v \in Thread : Q[v] \in Seq(Element) /\ \A i \in DOMAIN Q[v] : Q[v][i] \in Element
  BY ElementOfSeq
<1>s. \A a, b : Apart(a, b) => Apart(b, a)
  BY DEF Apart
<1>1. \A f \in Element : Off(f, R) => Apart(f, e)
  BY ScannedApart
<1>2. \A h \in Element : (Off(h, R) /\ \A i \in DOMAIN Q[w] : Apart(h, Q[w][i])) =>
          \A i \in DOMAIN r : Apart(h, r[i])
  BY <1>0, <1>1, ReceivedApart
<1>3. SeqApart(r)
  <2>1. \A i \in DOMAIN Q[w] : Apart(Q[w][i], e)
    BY <1>0, <1>1 DEF Flight
  <2>2. SeqApart(Q[w])
    BY DEF Flight
  <2> QED BY <1>0, <2>1, <2>2, ReceivedSelf
<1>4. ASSUME NEW i \in DOMAIN r PROVE Off(r[i], S)
  <2>0. \A j \in DOMAIN Q[w] : Off(Q[w][j], R)
    BY DEF Flight
  <2>1. r[i].seq + r[i].skip <= End
    <3>1. r[i].seq + r[i].skip = e.seq + e.skip \/
             \E j \in DOMAIN Q[w] : r[i].seq + r[i].skip = Q[w][j].seq + Q[w][j].skip
      BY <1>0, ReceivedEnds
    <3> QED BY <2>0, <3>1 DEF Off
  <2>2. ASSUME NEW s \in S PROVE ~In(r[i], s)
    <3>1. s \in R /\ s \in Int /\ ~In(e, s)
      OBVIOUS
    <3>2. In(r[i], s) => (\E j \in DOMAIN Q[w] : In(Q[w][j], s)) \/ In(e, s)
      BY <1>0, <3>1, ReceivedCovers
    <3> QED BY <2>0, <3>1, <3>2 DEF Off
  <2> QED BY <2>1, <2>2 DEF Off
<1>5. \A x : Off(x, R) => Off(x, S)
  BY DEF Off
<1>6. N[w] = r /\ \A v \in Thread : v # w => N[v] = Q[v]
  OBVIOUS
<1>7. \A h \in P : \A i \in DOMAIN r : Apart(h, r[i])
  BY <1>2 DEF Flight
<1>8. \A j \in DOMAIN B : \A i \in DOMAIN r : Apart(B[j], r[i])
  BY <1>0, <1>2 DEF Flight, Between
<1>9. \A v \in Thread : v # w => \A j \in DOMAIN Q[v] : \A i \in DOMAIN r : Apart(Q[v][j], r[i])
  BY <1>0, <1>2 DEF Flight, Between
<1> HIDE DEF r
<1>10. \A v \in Thread : SeqApart(N[v]) /\ Between(B, N[v])
  BY <1>3, <1>6, <1>8 DEF Flight, Between
<1>11. \A v, u \in Thread : v # u => Between(N[v], N[u])
  BY <1>6, <1>9, <1>s DEF Flight, Between
<1>12. \A v \in Thread : \A i \in DOMAIN N[v] : Off(N[v][i], S)
  BY <1>4, <1>5, <1>6 DEF Flight
<1>13. \A h \in P : \A v \in Thread : \A i \in DOMAIN N[v] : Apart(h, N[v][i])
  BY <1>6, <1>7 DEF Flight
<1> QED BY <1>5, <1>10, <1>11, <1>12, <1>13 DEF Flight

\* The queue of a worker is moved out.
LEMMA FlightCollect ==
    ASSUME NEW P, NEW Q \in [Thread -> Seq(Element)], NEW R, Flight(P, <<>>, Q, R), NEW w \in Thread
    PROVE  Flight(P, Q[w], [Q EXCEPT ![w] = <<>>], R)
<1> DEFINE N == [Q EXCEPT ![w] = <<>>]
<1>1. N[w] = <<>> /\ \A v \in Thread : v # w => N[v] = Q[v]
  OBVIOUS
<1>2. \A v \in Thread : N[v] = Q[v] \/ N[v] = <<>>
  BY <1>1
<1> HIDE DEF N
<1>3. DOMAIN <<>> = {}
  OBVIOUS
<1>4. SeqApart(<<>>) /\ \A s : Between(s, <<>>) /\ Between(<<>>, s)
  BY <1>3 DEF SeqApart, Between
<1>5. \A v \in Thread : SeqApart(N[v]) /\ Between(Q[w], N[v])
  BY <1>1, <1>4 DEF Flight
<1>6. \A v, u \in Thread : v # u => Between(N[v], N[u])
  <2> SUFFICES ASSUME NEW v \in Thread, NEW u \in Thread, v # u PROVE Between(N[v], N[u])
    OBVIOUS
  <2>1. Between(Q[v], Q[u])
    BY DEF Flight
  <2> QED BY <1>2, <1>4, <2>1
<1>7. \A v \in Thread : \A i \in DOMAIN N[v] : Off(N[v][i], R) /\ \A h \in P : Apart(h, N[v][i])
  BY <1>2, <1>3 DEF Flight
<1>8. Flight(P, Q[w], N, R)
  BY <1>5, <1>6, <1>7 DEF Flight
<1> QED BY <1>8 DEF N

\* The serializer keeps a result, or it has done with it.
LEMMA FlightPrint ==
    ASSUME NEW P, NEW B \in Seq(Element), B # <<>>, NEW Q, NEW R, Flight(P, B, Q, R),
           NEW O \in SUBSET (P \cup {Head(B)})
    PROVE  Flight(O, Tail(B), Q, R)
<1>1. /\ Head(B) = B[1] /\ 1 \in DOMAIN B
      /\ \A i \in DOMAIN Tail(B) : i + 1 \in DOMAIN B /\ Tail(B)[i] = B[i + 1] /\ i \in Int /\ i # 0
  BY HeadTailProperties, EmptySeq, LenProperties
<1> DEFINE T == Tail(B)
<1> HIDE DEF T
<1>2. \A i \in DOMAIN T : i + 1 \in DOMAIN B /\ T[i] = B[i + 1] /\ i \in Int /\ i # 0
  BY <1>1 DEF T
<1>3. \A f \in O : f \in P \/ f = B[1]
  BY <1>1
<1>s. \A a, b : Apart(a, b) => Apart(b, a)
  BY DEF Apart
<1>4. \A e, f \in O : e # f => Apart(e, f)
  BY <1>1, <1>3, <1>s DEF Flight
<1>5. \A e \in O : \A i \in DOMAIN T : Apart(e, T[i])
  <2> SUFFICES ASSUME NEW e \in O, NEW i \in DOMAIN T PROVE Apart(e, T[i])
    OBVIOUS
  <2>1. i + 1 # 1 /\ i + 1 \in DOMAIN B /\ T[i] = B[i + 1]
    BY <1>2
  <2> QED BY <1>1, <1>3, <2>1 DEF Flight, SeqApart
<1>6. \A e \in O : \A w \in Thread : \A i \in DOMAIN Q[w] : Apart(e, Q[w][i])
  BY <1>1, <1>3 DEF Flight, Between
<1>7. SeqApart(T)
  <2> SUFFICES ASSUME NEW i \in DOMAIN T, NEW j \in DOMAIN T, i # j PROVE Apart(T[i], T[j])
    BY DEF SeqApart
  <2>1. i + 1 # j + 1
    BY <1>2
  <2> QED BY <1>2, <2>1 DEF Flight, SeqApart
<1>8. \A w \in Thread : Between(T, Q[w])
  BY <1>2 DEF Flight, Between
<1>9. (\A e \in O : Off(e, R)) /\ \A i \in DOMAIN T : Off(T[i], R)
  BY <1>1, <1>2, <1>3 DEF Flight
<1> QED BY <1>4, <1>5, <1>6, <1>7, <1>8, <1>9 DEF Flight, T

\* A worker that scans touches nothing of the serializer.
LEMMA ScanAlone ==
    ASSUME TInv, [Next]_vars, NEW w \in Thread, ScanBlock(w)
    PROVE  UNCHANGED <<hits, serializerVars>>
<1>1. docid[w] \in Nat /\ pos[w] \in Nat /\ w \in DOMAIN pos /\ w \in DOMAIN docid
  BY FeedTypes DEF TInv, TypeOK
<1>2. docid' # docid \/ pos' # pos
  BY <1>1 DEF ScanBlock
<1> QED BY <1>2 DEF Next, Main, Worker, SpuriousWakeup, Deliver, vars, scanVars

\* The results that are moved around stay apart.
LEMMA FlightNext ==
    ASSUME TInv, FeedInv, JoinInv, FlightInv, [Next]_vars PROVE FlightInv'
<1>0. /\ pending \in SUBSET Element /\ batch \in Seq(Element) /\ results \in [Thread -> Seq(Element)]
      /\ Rest \in SUBSET Int /\ who \in Thread
  BY FlightTypes DEF TInv, TypeOK
<1>f. Flight(pending, batch, results, Rest)
  BY DEF FlightInv
<1>1. ASSUME NEW w \in Thread, ScanBlock(w), UNCHANGED <<hits, serializerVars>> PROVE FlightInv'
  <2> DEFINE e == PrintOf(docid[w], pos[w])
  <2>1. e \in Element /\ batch' = batch /\ pending' = pending
    BY <1>1, ScanStep DEF serializerVars
  <2>2. (\A s \in Int : In(e, s) => s \in Rest) /\ e.seq + e.skip <= End /\ Rest' = {s \in Rest : ~In(e, s)}
    BY <1>1, RestScan
  <2>3. results' = [results EXCEPT ![w] = Received(results[w], e)]
    BY <1>1 DEF ScanBlock
  <2> HIDE DEF e
  <2>4. Flight(pending, batch, results', Rest')
    BY <1>0, <1>f, <2>1, <2>2, <2>3, FlightScan
  <2>5. Flight(pending', batch', results', Rest')
    BY <2>1, <2>4
  <2> QED BY <2>5 DEF FlightInv
<1>2. CASE \A w \in Thread : ~ScanBlock(w)
  <2>1. Rest' = Rest
    BY <1>2, RestNext
  <2>2. CASE Collect /\ UNCHANGED serializerVars
    <3>1. batch = <<>> /\ pending' = pending /\ batch' = results[who] /\ results' = [results EXCEPT ![who] = <<>>]
      BY <2>2 DEF Collect, JoinInv, serializerVars
    <3>2. Flight(pending, results[who], [results EXCEPT ![who] = <<>>], Rest)
      BY <1>0, <1>f, <3>1, FlightCollect
    <3>3. Flight(pending', batch', results', Rest')
      BY <2>1, <3>1, <3>2
    <3> QED BY <3>3 DEF FlightInv
  <2>3. CASE Deliver
    <3>1. results' = results
      BY <2>3 DEF Deliver
    <3>2. CASE Drain /\ UNCHANGED batch
      <4>1. pending' \subseteq pending /\ batch' = batch
        BY <3>2 DEF Drain
      <4>2. Flight(pending', batch', results', Rest')
        BY <1>f, <2>1, <3>1, <4>1 DEF Flight
      <4> QED BY <4>2 DEF FlightInv
    <3>3. CASE batch # <<>> /\ SerializerPrint(Head(batch)) /\ batch' = Tail(batch)
      <4>1. pending' \in SUBSET (pending \cup {Head(batch)})
        BY <3>3 DEF SerializerPrint, PrintCounted, PrintLater, PrintInTurn
      <4>2. Flight(pending', Tail(batch), results, Rest)
        BY <1>0, <1>f, <3>3, <4>1, FlightPrint
      <4>3. Flight(pending', batch', results', Rest')
        BY <2>1, <3>1, <3>3, <4>2
      <4> QED BY <4>3 DEF FlightInv
    <3> QED BY <2>3, <3>2, <3>3 DEF Deliver
  <2>4. CASE UNCHANGED <<pending, batch, results>>
    <3>1. Flight(pending', batch', results', Rest')
      BY <1>f, <2>1, <2>4
    <3> QED BY <3>1 DEF FlightInv
  <2>5. \/ Collect /\ UNCHANGED serializerVars
        \/ Deliver
        \/ UNCHANGED <<pending, batch, results>>
    BY <1>2 DEF Next, Main, Worker, SpuriousWakeup, Push, WaitForRoom, AllQueued, Join, Delivered,
                Take, Sleep, Quit, vars, scanVars, serializerVars
  <2> QED BY <2>2, <2>3, <2>4, <2>5
<1> QED BY <1>1, <1>2, ScanAlone

\* A scanned result is on its way.
LEMMA CoverScan ==
    ASSUME NEW n \in Nat, NEW P, NEW B, NEW Q \in [Thread -> Seq(Element)],
           NEW R \in SUBSET Int, Cover(n, P, B, Q, R),
           NEW w \in Thread, NEW e \in Element, \A s \in Int : In(e, s) => s \in R,
           NEW N, N = [Q EXCEPT ![w] = Received(Q[w], e)], NEW S, S = {s \in R : ~In(e, s)}
    PROVE  Cover(n, P, B, N, S)
<1> DEFINE r == Received(Q[w], e)
<1>0. Q[w] \in Seq(Element)
  OBVIOUS
<1>1. N[w] = r /\ \A v \in Thread : v # w => N[v] = Q[v]
  OBVIOUS
<1>2. \A x \in Int : (\E i \in DOMAIN r : In(r[i], x)) <=> ((\E i \in DOMAIN Q[w] : In(Q[w][i], x)) \/ In(e, x))
  BY <1>0, ReceivedCovers
<1>3. \A i \in DOMAIN r : r[i].seq = e.seq \/ \E j \in DOMAIN Q[w] : r[i].seq = Q[w][j].seq
  BY <1>0, ReceivedEnds
<1>4. n <= e.seq
  <2>1. e.seq \in Int /\ In(e, e.seq)
    BY DEF In, Element
  <2> QED BY <2>1 DEF Cover
<1> HIDE DEF r
<1>5. \A v \in Thread : \A i \in DOMAIN N[v] : n <= N[v][i].seq
  BY <1>1, <1>3, <1>4 DEF Cover
<1>6. ASSUME NEW s \in 0 .. End - 1 PROVE s < n \/ s \in S \/ Held(P, B, N, s)
  <2>1. s \in Int /\ (s < n \/ s \in R \/ Held(P, B, Q, s))
    BY Scale DEF Cover
  <2>2. In(e, s) => Held(P, B, N, s)
    BY <1>1, <1>2, <2>1 DEF Held
  <2>3. Held(P, B, Q, s) => Held(P, B, N, s)
    BY <1>1, <1>2, <2>1 DEF Held
  <2> QED BY <2>1, <2>2, <2>3
<1> QED BY <1>5, <1>6 DEF Cover

\* Moving results out of a queue loses none.
LEMMA CoverCollect ==
    ASSUME NEW n, NEW P, NEW Q \in [Thread -> Seq(Element)], NEW R, Cover(n, P, <<>>, Q, R), NEW w \in Thread,
           NEW N, N = [Q EXCEPT ![w] = <<>>]
    PROVE  Cover(n, P, Q[w], N, R)
<1>1. N[w] = <<>> /\ \A v \in Thread : v # w => N[v] = Q[v]
  OBVIOUS
<1>2. DOMAIN <<>> = {}
  OBVIOUS
<1>3. \A s : Held(P, <<>>, Q, s) => Held(P, Q[w], N, s)
  BY <1>1, <1>2 DEF Held
<1>4. \A v \in Thread : \A i \in DOMAIN N[v] : n <= N[v][i].seq
  BY <1>1, <1>2 DEF Cover
<1>5. \A i \in DOMAIN Q[w] : n <= Q[w][i].seq
  BY DEF Cover
<1> QED BY <1>3, <1>4, <1>5 DEF Cover

\* The queue of results, first and rest.
LEMMA FirstAndRest ==
    ASSUME NEW B \in Seq(Element), B # <<>>
    PROVE  /\ Head(B) = B[1] /\ 1 \in DOMAIN B /\ Head(B) \in Element
           /\ \A i \in DOMAIN Tail(B) : i + 1 \in DOMAIN B /\ Tail(B)[i] = B[i + 1] /\ i \in Int /\ i # 0
           /\ \A i \in DOMAIN B : i = 1 \/ (i - 1 \in DOMAIN Tail(B) /\ Tail(B)[i - 1] = B[i])
<1>1. /\ Head(B) = B[1] /\ 1 \in DOMAIN B
      /\ \A i \in DOMAIN Tail(B) : i + 1 \in DOMAIN B /\ Tail(B)[i] = B[i + 1] /\ i \in Int /\ i # 0
      /\ DOMAIN B = 1 .. Len(B) /\ Len(B) \in Nat /\ DOMAIN Tail(B) = 1 .. Len(B) - 1
  BY HeadTailProperties, EmptySeq, LenProperties
<1>2. Head(B) \in Element
  BY <1>1, ElementOfSeq
<1>3. ASSUME NEW i \in DOMAIN B, i # 1 PROVE i - 1 \in DOMAIN Tail(B) /\ Tail(B)[i - 1] = B[i]
  <2>1. i - 1 \in 1 .. Len(B) - 1 /\ i - 1 + 1 = i
    BY <1>1, <1>3
  <2>2. Tail(B)[i - 1] = B[i - 1 + 1]
    BY <1>1, <2>1
  <2> QED BY <1>1, <2>1, <2>2
<1> QED BY <1>1, <1>2, <1>3

\* A result that came early is kept.
LEMMA CoverLater ==
    ASSUME NEW n, NEW P, NEW B \in Seq(Element), B # <<>>, NEW Q, NEW R, Cover(n, P, B, Q, R)
    PROVE  Cover(n, P \cup {Head(B)}, Tail(B), Q, R)
<1> DEFINE T == Tail(B)
           h == Head(B)
<1>1. /\ h = B[1] /\ 1 \in DOMAIN B
      /\ \A i \in DOMAIN T : i + 1 \in DOMAIN B /\ T[i] = B[i + 1]
      /\ \A i \in DOMAIN B : i = 1 \/ (i - 1 \in DOMAIN T /\ T[i - 1] = B[i])
  BY FirstAndRest
<1> HIDE DEF T, h
<1>2. \A s : Held(P, B, Q, s) => Held(P \cup {h}, T, Q, s)
  BY <1>1 DEF Held
<1>3. (\A i \in DOMAIN T : n <= T[i].seq) /\ \A e \in P \cup {h} : n <= e.seq
  BY <1>1 DEF Cover
<1>4. Cover(n, P \cup {h}, T, Q, R)
  BY <1>2, <1>3 DEF Cover
<1> QED BY <1>4 DEF T, h

\* What is apart from a result that is printed comes after it.
LEMMA AfterPrint ==
    ASSUME NEW n \in Nat, NEW e \in Element, e.seq = n, NEW f \in Element, n <= f.seq, Apart(e, f)
    PROVE  n + e.skip <= f.seq
  BY DEF Apart, Element

\* A pending result whose turn it is is printed.
LEMMA CoverDrain ==
    ASSUME NEW n \in Nat, NEW P \in SUBSET Element, NEW B \in Seq(Element), NEW Q \in [Thread -> Seq(Element)],
           NEW R \in SUBSET Int, Flight(P, B, Q, R), Cover(n, P, B, Q, R), NEW e \in P, e.seq = n
    PROVE  Cover(n + e.skip, P \ {e}, B, Q, R)
<1>0. /\ \A i \in DOMAIN B : B[i] \in Element
      /\ \A v \in Thread : \A i \in DOMAIN Q[v] : Q[v][i] \in Element
      /\ e \in Element
  BY ElementOfSeq
<1>k. e.skip \in Nat
  BY <1>0 DEF Element
<1>1. \A f \in Element : (n <= f.seq /\ Apart(e, f)) => n + e.skip <= f.seq
  BY <1>0, AfterPrint
<1> DEFINE m == n + e.skip
<1>2. /\ \A f \in P \ {e} : m <= f.seq
      /\ \A i \in DOMAIN B : m <= B[i].seq
      /\ \A v \in Thread : \A i \in DOMAIN Q[v] : m <= Q[v][i].seq
  BY <1>0, <1>1 DEF Flight, Cover
<1>3. \A s \in R : m <= s
  <2>1. Off(e, R) /\ \A s \in R : n <= s
    BY DEF Flight, Cover
  <2> SUFFICES ASSUME NEW s \in R PROVE m <= s
    OBVIOUS
  <2>2. ~In(e, s) /\ n <= s /\ s \in Int
    BY <2>1 DEF Off
  <2>3. e.seq = n /\ ~(e.seq <= s /\ s < e.seq + e.skip)
    BY <2>2 DEF In
  <2> QED BY <1>k, <2>2, <2>3
<1>4. ASSUME NEW s \in 0 .. End - 1 PROVE s < m \/ s \in R \/ Held(P \ {e}, B, Q, s)
  <2>1. s \in Int /\ (s < n \/ s \in R \/ Held(P, B, Q, s))
    BY Scale DEF Cover
  <2>2. In(e, s) => s < m
    BY DEF In
  <2>3. s < n => s < m
    BY <1>k, <2>1
  <2>4. Held(P, B, Q, s) => (In(e, s) \/ Held(P \ {e}, B, Q, s))
    BY DEF Held
  <2> QED BY <2>1, <2>2, <2>3, <2>4
<1> HIDE DEF m
<1>5. Cover(m, P \ {e}, B, Q, R)
  BY <1>2, <1>3, <1>4 DEF Cover
<1> QED BY <1>5 DEF m

\* A collected result whose turn it is is printed.
LEMMA CoverTurn ==
    ASSUME NEW n \in Nat, NEW P \in SUBSET Element, NEW B \in Seq(Element), B # <<>>,
           NEW Q \in [Thread -> Seq(Element)], NEW R \in SUBSET Int,
           Flight(P, B, Q, R), Cover(n, P, B, Q, R), Head(B).seq = n
    PROVE  Cover(n + Head(B).skip, P, Tail(B), Q, R)
<1> DEFINE T == Tail(B)
           e == Head(B)
<1>a. /\ e = B[1] /\ 1 \in DOMAIN B /\ e \in Element /\ e.seq = n
      /\ \A i \in DOMAIN T : i + 1 \in DOMAIN B /\ T[i] = B[i + 1] /\ i \in Int /\ i # 0
      /\ \A i \in DOMAIN B : i = 1 \/ (i - 1 \in DOMAIN T /\ T[i - 1] = B[i])
  BY FirstAndRest
<1> HIDE DEF T, e
<1>0. /\ \A i \in DOMAIN B : B[i] \in Element
      /\ \A v \in Thread : \A i \in DOMAIN Q[v] : Q[v][i] \in Element
  BY ElementOfSeq
<1>k. e.skip \in Nat
  BY <1>a DEF Element
<1>s. \A a, b : Apart(a, b) => Apart(b, a)
  BY DEF Apart
<1>1. \A f \in Element : (n <= f.seq /\ Apart(e, f)) => n + e.skip <= f.seq
  BY <1>a, AfterPrint
<1> DEFINE m == n + e.skip
<1>2. /\ \A f \in P : m <= f.seq
      /\ \A v \in Thread : \A i \in DOMAIN Q[v] : m <= Q[v][i].seq
  BY <1>0, <1>1, <1>a, <1>s DEF Flight, Cover, Between
<1>6. ASSUME NEW i \in DOMAIN T PROVE m <= T[i].seq
  <2>1. i + 1 \in DOMAIN B /\ i + 1 # 1 /\ T[i] = B[i + 1]
    BY <1>a
  <2>2. Apart(e, B[i + 1]) /\ n <= B[i + 1].seq
    BY <1>a, <2>1 DEF Flight, SeqApart, Cover
  <2> QED BY <1>0, <1>1, <2>1, <2>2
<1>3. \A s \in R : m <= s
  <2>1. Off(e, R) /\ \A s \in R : n <= s
    BY <1>a DEF Flight, Cover
  <2> SUFFICES ASSUME NEW s \in R PROVE m <= s
    OBVIOUS
  <2>2. ~In(e, s) /\ n <= s /\ s \in Int
    BY <2>1 DEF Off
  <2>3. e.seq = n /\ ~(e.seq <= s /\ s < e.seq + e.skip)
    BY <1>a, <2>2 DEF In
  <2> QED BY <1>k, <2>2, <2>3
<1>4. ASSUME NEW s \in 0 .. End - 1 PROVE s < m \/ s \in R \/ Held(P, T, Q, s)
  <2>1. s \in Int /\ (s < n \/ s \in R \/ Held(P, B, Q, s))
    BY Scale DEF Cover
  <2>2. In(e, s) => s < m
    BY <1>a DEF In
  <2>3. s < n => s < m
    BY <1>k, <2>1
  <2>4. Held(P, B, Q, s) => (In(e, s) \/ Held(P, T, Q, s))
    BY <1>a DEF Held
  <2> QED BY <2>1, <2>2, <2>3, <2>4
<1> HIDE DEF m
<1>5. Cover(m, P, T, Q, R)
  BY <1>2, <1>3, <1>4, <1>6 DEF Cover
<1> QED BY <1>5 DEF m, T, e

\* Whatever is not printed stays on its way.
LEMMA CoverNext ==
    ASSUME TInv, FeedInv, JoinInv, FlightInv, CoverInv, [Next]_vars PROVE CoverInv'
<1>0. /\ pending \in SUBSET Element /\ batch \in Seq(Element) /\ results \in [Thread -> Seq(Element)]
      /\ Rest \in SUBSET Int /\ who \in Thread /\ next_seq \in Nat
  BY FlightTypes DEF TInv, TypeOK
<1>f. Flight(pending, batch, results, Rest)
  BY DEF FlightInv
<1> SUFFICES ASSUME ~opt'.only_count, ~exited'
             PROVE  Cover(next_seq', pending', batch', results', Rest')
  BY DEF CoverInv
<1>o. opt' = opt /\ ~exited
  BY DEF Next, Main, Deliver, Drain, SerializerPrint, PrintCounted, PrintLater, PrintInTurn,
         Worker, SpuriousWakeup, vars, serializerVars
<1>c. Cover(next_seq, pending, batch, results, Rest)
  BY <1>o DEF CoverInv
<1>1. ASSUME NEW w \in Thread, ScanBlock(w), UNCHANGED <<hits, serializerVars>>
      PROVE  Cover(next_seq', pending', batch', results', Rest')
  <2> DEFINE e == PrintOf(docid[w], pos[w])
  <2>1. e \in Element /\ batch' = batch /\ pending' = pending /\ next_seq' = next_seq
    BY <1>1, ScanStep DEF serializerVars
  <2>2. (\A s \in Int : In(e, s) => s \in Rest) /\ Rest' = {s \in Rest : ~In(e, s)}
    BY <1>1, RestScan
  <2>3. results' = [results EXCEPT ![w] = Received(results[w], e)]
    BY <1>1 DEF ScanBlock
  <2> HIDE DEF e
  <2>4. Cover(next_seq, pending, batch, results', Rest')
    BY <1>0, <1>c, <2>1, <2>2, <2>3, CoverScan
  <2> QED BY <2>1, <2>4
<1>2. CASE \A w \in Thread : ~ScanBlock(w)
  <2>1. Rest' = Rest
    BY <1>2, RestNext
  <2>2. CASE Collect /\ UNCHANGED serializerVars
    <3>1. batch = <<>> /\ pending' = pending /\ batch' = results[who] /\ results' = [results EXCEPT ![who] = <<>>]
          /\ next_seq' = next_seq
      BY <2>2 DEF Collect, JoinInv, serializerVars
    <3>2. Cover(next_seq, pending, results[who], results', Rest)
      BY <1>0, <1>c, <3>1, CoverCollect
    <3> QED BY <2>1, <3>1, <3>2
  <2>3. CASE Deliver
    <3>1. results' = results
      BY <2>3 DEF Deliver
    <3>2. CASE Drain /\ UNCHANGED batch
      <4>1. PICK e \in pending : e.seq = next_seq /\ pending' = pending \ {e} /\ next_seq' = next_seq + e.skip
        BY <3>2 DEF Drain, Top, PrintNow
      <4>2. Cover(next_seq + e.skip, pending \ {e}, batch, results, Rest)
        BY <1>0, <1>f, <1>c, <4>1, CoverDrain
      <4> QED BY <2>1, <3>1, <3>2, <4>1, <4>2
    <3>3. CASE batch # <<>> /\ SerializerPrint(Head(batch)) /\ batch' = Tail(batch)
      <4>1. CASE PrintLater(Head(batch))
        <5>1. pending' = pending \cup {Head(batch)} /\ next_seq' = next_seq
          BY <4>1 DEF PrintLater
        <5>2. Cover(next_seq, pending \cup {Head(batch)}, Tail(batch), results, Rest)
          BY <1>0, <1>c, <3>3, CoverLater
        <5> QED BY <2>1, <3>1, <3>3, <5>1, <5>2
      <4>2. CASE PrintInTurn(Head(batch))
        <5>1. pending' = pending /\ next_seq' = next_seq + Head(batch).skip /\ Head(batch).seq = next_seq
          BY <4>2 DEF PrintInTurn, PrintNow
        <5>2. Cover(next_seq + Head(batch).skip, pending, Tail(batch), results, Rest)
          BY <1>0, <1>f, <1>c, <3>3, <5>1, CoverTurn
        <5> QED BY <2>1, <3>1, <3>3, <5>1, <5>2
      <4>3. ~PrintCounted(Head(batch))
        BY <1>o DEF PrintCounted
      <4> QED BY <3>3, <4>1, <4>2, <4>3 DEF SerializerPrint
    <3> QED BY <2>3, <3>2, <3>3 DEF Deliver
  <2>4. CASE UNCHANGED <<pending, batch, results, next_seq>>
    BY <1>c, <2>1, <2>4
  <2>5. \/ Collect /\ UNCHANGED serializerVars
        \/ Deliver
        \/ UNCHANGED <<pending, batch, results, next_seq>>
    BY <1>2 DEF Next, Main, Worker, SpuriousWakeup, Push, WaitForRoom, AllQueued, Join, Delivered,
                Take, Sleep, Quit, vars, scanVars, serializerVars
  <2> QED BY <2>2, <2>3, <2>4, <2>5
<1> QED BY <1>1, <1>2, ScanAlone

\* There are finitely many names, and each belongs to a block.
LEMMA FoundFinite ==
    ASSUME TInv
    PROVE  Found \subseteq 0 .. End - 1 /\ Found \subseteq Nat /\ IsFiniteSet(Found)
<1>0. End \in Nat
  BY Scale
<1>1. ASSUME NEW s \in Found PROVE s \in 0 .. End - 1
  <2>1. PICK d \in Doc : \E i \in 1 .. Len(hits[d]) : s = d * Span + (i - 1) /\ Len(hits[d]) = NumPrints(d)
    BY FoundInBlock DEF TInv
  <2>2. PICK i \in 1 .. Len(hits[d]) : s = d * Span + (i - 1) /\ Len(hits[d]) = NumPrints(d)
    BY <2>1
  <2>3. NumPrints(d) \in Nat /\ NumPrints(d) <= Span /\ Span \in Nat
    BY PrintsOfBlock, ScanAssumption DEF TInv
  <2>4. d \in Nat /\ d < NumBlocks /\ NumBlocks \in Nat
    BY ScanAssumption DEF Doc
  <2>5. Base(d) \in Nat /\ Base(d) + Span <= End
    BY <2>4, Ranges DEF Base, End
  <2>6. s = Base(d) + (i - 1) /\ i \in Int /\ 1 <= i /\ i <= Span
    BY <2>2, <2>3 DEF Base
  <2> QED BY <1>0, <2>3, <2>5, <2>6
<1>2. IsFiniteSet(0 .. End - 1)
  BY <1>0, FS_Interval
<1>3. Found \subseteq 0 .. End - 1
  BY <1>1
<1>4. IsFiniteSet(Found)
  BY <1>2, <1>3, FS_Subset
<1>5. \A s \in 0 .. End - 1 : s \in Nat
  BY <1>0
<1> QED BY <1>3, <1>4, <1>5

\* A valid result is about its own name and about no other.
LEMMA OwnName ==
    ASSUME TInv, NEW e \in Element, Valid(e), NEW s \in Found
    PROVE  In(e, s) <=> s = e.msg
<1>1. s \in Nat /\ s # NoMsg
  BY FoundFinite DEF NoMsg
<1>2. e.seq \in Nat /\ e.skip \in Nat /\ e.skip > 0
  BY DEF Element
<1>3. In(e, s) => s = e.msg
  BY DEF Valid, In
<1>4. s = e.msg => s = e.seq
  BY <1>1 DEF Valid
<1> QED BY <1>2, <1>3, <1>4 DEF In

\* A worker counts a name when it has scanned it.
LEMMA MatchScan ==
    ASSUME TInv, FeedInv, MatchInv, NEW w \in Thread, ScanBlock(w), UNCHANGED hits
    PROVE  matched' = Cardinality(Found \ Rest')
<1> DEFINE e == PrintOf(docid[w], pos[w])
<1>1. e \in Element /\ Valid(e)
  BY ScanStep
<1>2. (\A s \in Int : In(e, s) => s \in Rest) /\ Rest' = {s \in Rest : ~In(e, s)}
  BY RestScan
<1>3. matched' = IF e.msg = NoMsg THEN matched ELSE matched + 1
  BY DEF ScanBlock
<1> HIDE DEF e
<1>4. \A s \in Found : In(e, s) <=> s = e.msg
  BY <1>1, OwnName
<1>5. Found \subseteq Nat /\ IsFiniteSet(Found)
  BY FoundFinite
<1>6. IsFiniteSet(Found \ Rest)
  BY <1>5, FS_Subset
<1>7. CASE e.msg = NoMsg
  <2>0. \A s \in Found : s # e.msg
    BY <1>5, <1>7 DEF NoMsg
  <2>1. Found \ Rest' = Found \ Rest
    BY <1>2, <1>4, <2>0
  <2> QED BY <1>3, <1>7, <2>1 DEF MatchInv
<1>8. CASE e.msg # NoMsg
  <2>1. e.msg \in Found
    BY <1>1, <1>8 DEF Valid
  <2>5. In(e, e.msg)
    BY <1>4, <2>1, Zenon
  <2>6. e.msg \in Int
    BY <1>1 DEF Element, NoMsg
  <2>2. e.msg \in Rest
    BY <1>2, <2>5, <2>6
  <2>3. Found \ Rest' = (Found \ Rest) \cup {e.msg}
    BY <1>2, <1>4, <2>1
  <2>4. Cardinality(Found \ Rest') = Cardinality(Found \ Rest) + 1
    BY <1>6, <2>2, <2>3, FS_AddElement
  <2> QED BY <1>3, <1>8, <2>4 DEF MatchInv
<1> QED BY <1>7, <1>8

LEMMA MatchNext ==
    ASSUME TInv, FeedInv, MatchInv, [Next]_vars PROVE MatchInv'
<1>0. hits' = hits /\ Found' = Found
  BY FoundFixed DEF Next, Main, Worker, SpuriousWakeup, vars
<1>1. CASE \E w \in Thread : ScanBlock(w)
  BY <1>0, <1>1, MatchScan DEF MatchInv
<1>2. CASE \A w \in Thread : ~ScanBlock(w)
  <2>1. Rest' = Rest
    BY <1>2, RestNext
  <2>2. matched' = matched
    BY <1>2 DEF Next, Main, Worker, SpuriousWakeup, Push, WaitForRoom, AllQueued, Join, Collect, Deliver,
                Delivered, Take, Sleep, Quit, vars, scanVars
  <2> QED BY <1>0, <2>1, <2>2 DEF MatchInv
<1> QED BY <1>1, <1>2

\* The same of the names F have arrived; of the names F a result covers its own and no other.
SameArrived(F, B, Q, R, N, S) == Arrived(F, B, N, S) = Arrived(F, B, Q, R)
OnlyOwn(e, F) == \A s \in F : (In(e, s) => s = e.msg) /\ (s = e.msg => In(e, s))

\* Scanning a name and collecting it bring it no nearer to the serializer.
LEMMA ArrivedScan ==
    ASSUME NEW F \in SUBSET Nat, NEW B, NEW Q \in [Thread -> Seq(Element)], NEW R \in SUBSET Int,
           NEW w \in Thread, NEW e \in Element, \A s \in Int : In(e, s) => s \in R,
           OnlyOwn(e, F),
           NEW N, N = [Q EXCEPT ![w] = Received(Q[w], e)], NEW S, S = {s \in R : ~In(e, s)}
    PROVE  SameArrived(F, B, Q, R, N, S)
<1> DEFINE r == Received(Q[w], e)
<1>0. Q[w] \in Seq(Element)
  OBVIOUS
<1>1. N[w] = r /\ \A v \in Thread : v # w => N[v] = Q[v]
  OBVIOUS
<1>2. \A x : x # NoMsg => ((\E i \in DOMAIN r : r[i].msg = x) <=> ((\E i \in DOMAIN Q[w] : Q[w][i].msg = x) \/ e.msg = x))
  BY <1>0, ReceivedNames
<1> HIDE DEF r
<1>3. ASSUME NEW s \in F PROVE Waits(B, N, S, s) <=> Waits(B, Q, R, s)
  <2>1. s # NoMsg /\ s \in Int
    BY DEF NoMsg
  <2>2. (\E i \in DOMAIN N[w] : N[w][i].msg = s) <=> ((\E i \in DOMAIN Q[w] : Q[w][i].msg = s) \/ e.msg = s)
    BY <1>1, <1>2, <2>1
  <2>3. (\E v \in Thread : \E i \in DOMAIN N[v] : N[v][i].msg = s) <=>
            ((\E v \in Thread : \E i \in DOMAIN Q[v] : Q[v][i].msg = s) \/ e.msg = s)
    BY <1>1, <2>2
  <2>4. In(e, s) => s = e.msg
    BY DEF OnlyOwn
  <2>5. s = e.msg => In(e, s)
    BY DEF OnlyOwn
  <2>6. s = e.msg => s \in R
    BY <2>1, <2>5
  <2>7. s \in R => s \in S \/ s = e.msg
    BY <2>4
  <2>8. s \in S => s \in R
    OBVIOUS
  <2> QED BY <2>3, <2>6, <2>7, <2>8, Zenon DEF Waits
<1> QED BY <1>3 DEF Arrived, SameArrived

LEMMA ArrivedCollect ==
    ASSUME NEW F, NEW Q \in [Thread -> Seq(Element)], NEW R, NEW w \in Thread, NEW N, N = [Q EXCEPT ![w] = <<>>]
    PROVE  Arrived(F, Q[w], N, R) = Arrived(F, <<>>, Q, R)
<1>1. N[w] = <<>> /\ \A v \in Thread : v # w => N[v] = Q[v]
  OBVIOUS
<1>2. DOMAIN <<>> = {}
  OBVIOUS
<1>3. \A s : Waits(Q[w], N, R, s) <=> Waits(<<>>, Q, R, s)
  BY <1>1, <1>2 DEF Waits
<1> QED BY <1>3 DEF Arrived

\* Nobody else brings the name of a result.
LEMMA OneName ==
    ASSUME NEW e \in Element, NEW f \in Element, Valid(e), Valid(f), Apart(e, f), e.msg # NoMsg
    PROVE  f.msg # e.msg
<1>1. e.seq \in Nat /\ e.skip \in Nat /\ e.skip > 0 /\ f.seq \in Nat /\ f.skip \in Nat /\ f.skip > 0
  BY DEF Element
<1>2. f.msg = e.msg => f.seq = e.seq
  BY DEF Valid
<1> QED BY <1>1, <1>2 DEF Apart

\* Handing the first result to the serializer brings its name there, for the first time.
LEMMA ArrivedPrint ==
    ASSUME TInv, OInv, FlightInv, batch # <<>>
    PROVE  LET e == Head(batch)
               A == Arrived(Found, batch, results, Rest)
               Z == Arrived(Found, Tail(batch), results, Rest)
           IN  /\ e.msg = NoMsg => Z = A
               /\ e.msg # NoMsg => e.msg \notin A /\ Z = A \cup {e.msg}
<1> DEFINE e == Head(batch)
           T == Tail(batch)
<1>0. /\ batch \in Seq(Element) /\ Found \subseteq Nat
      /\ \A i \in DOMAIN batch : batch[i] \in Element
      /\ \A v \in Thread : \A i \in DOMAIN results[v] : results[v][i] \in Element
  BY FlightTypes, FoundFinite
<1>1. /\ e = batch[1] /\ 1 \in DOMAIN batch /\ e \in Element
      /\ \A i \in DOMAIN T : i + 1 \in DOMAIN batch /\ T[i] = batch[i + 1] /\ i \in Int /\ i # 0
      /\ \A i \in DOMAIN batch : i = 1 \/ (i - 1 \in DOMAIN T /\ T[i - 1] = batch[i])
  BY <1>0, FirstAndRest
<1> HIDE DEF e, T
<1>2. \A s : Waits(batch, results, Rest, s) <=> (Waits(T, results, Rest, s) \/ s = e.msg)
  BY <1>1 DEF Waits
<1>3. ASSUME e.msg = NoMsg PROVE Arrived(Found, T, results, Rest) = Arrived(Found, batch, results, Rest)
  <2>1. \A s \in Found : s # e.msg
    BY <1>0, <1>3 DEF NoMsg
  <2> QED BY <1>2, <2>1 DEF Arrived
<1>4. ASSUME e.msg # NoMsg
      PROVE  /\ e.msg \notin Arrived(Found, batch, results, Rest)
             /\ Arrived(Found, T, results, Rest) = Arrived(Found, batch, results, Rest) \cup {e.msg}
  <2>1. /\ Valid(e) /\ \A i \in DOMAIN batch : Valid(batch[i])
        /\ \A v \in Thread : \A i \in DOMAIN results[v] : Valid(results[v][i])
    BY <1>1 DEF OInv, OutInv
  <2>2. e.msg \in Found /\ e.msg = e.seq
    BY <1>4, <2>1 DEF Valid
  <2>3. e.msg \notin Rest
    <3>1. Off(e, Rest) /\ In(e, e.seq)
      BY <1>1 DEF FlightInv, Flight, In, Element
    <3> QED BY <2>2, <3>1 DEF Off
  <2>4. ASSUME NEW i \in DOMAIN T PROVE T[i].msg # e.msg
    <3>1. i + 1 \in DOMAIN batch /\ T[i] = batch[i + 1] /\ i + 1 # 1
      BY <1>1
    <3>2. Apart(e, T[i]) /\ Valid(T[i]) /\ T[i] \in Element
      BY <1>0, <1>1, <2>1, <3>1 DEF FlightInv, Flight, SeqApart
    <3> QED BY <1>1, <1>4, <2>1, <3>2, OneName
  <2>5. ASSUME NEW v \in Thread, NEW i \in DOMAIN results[v] PROVE results[v][i].msg # e.msg
    <3>1. Apart(e, results[v][i])
      BY <1>1 DEF FlightInv, Flight, Between
    <3> QED BY <1>0, <1>1, <1>4, <2>1, <3>1, OneName
  <2>6. ~Waits(T, results, Rest, e.msg)
    BY <2>3, <2>4, <2>5 DEF Waits
  <2> QED BY <1>2, <2>2, <2>6 DEF Arrived
<1> QED BY <1>3, <1>4 DEF e, T

\* apply_limit() exits when nothing is left.
LEMMA ExitAtZero ==
    ASSUME TInv, apply_limit, limit_left' \in Nat
    PROVE  /\ limit_left' = limit_left - 1 /\ limit_left \in Nat
           /\ exited' => limit_left' = 0
<1>1. limit_left \in Nat /\ limit_left' = limit_left - 1 /\ exited' = (limit_left' <= 0)
  BY DEF TInv, TypeOK, apply_limit
<1>2. exited' => limit_left' <= 0
  BY <1>1, Zenon
<1> QED BY <1>1, <1>2

\* Printing takes one from the limit and adds one to the output.
LEMMA LimitPrint ==
    ASSUME TInv, LimitInv, ~exited, ~opt.only_count, opt' = opt, NEW e \in Element, PrintNow(e), limit_left' \in Nat
    PROVE  LimitInv'
<1>0. limit_left \in Nat /\ printed \in Seq(Nat) /\ Len(printed) \in Nat /\ opt.limit \in Nat
      /\ limit_left + Len(printed) = opt.limit
  BY OptionsAssumption DEF TInv, TypeOK, LimitInv
<1>1. CASE e.msg = NoMsg
  BY <1>0, <1>1 DEF PrintNow, LimitInv
<1>2. CASE e.msg # NoMsg
  <2>1. printed' = Append(printed, e.msg) /\ apply_limit
    BY <1>2 DEF PrintNow
  <2>2. Len(printed') = Len(printed) + 1
    BY <1>0, <2>1, AppendProperties
  <2>3. limit_left' = limit_left - 1 /\ (exited' => limit_left' = 0)
    BY <2>1, ExitAtZero
  <2>4. limit_left' + Len(printed') = opt.limit
    BY <1>0, <2>2, <2>3
  <2> QED BY <2>3, <2>4 DEF LimitInv
<1> QED BY <1>1, <1>2

\* Under --count a name takes one from the limit when it arrives.
LEMMA LimitCount ==
    ASSUME TInv, OInv, FlightInv, LimitInv, ~exited, batch # <<>>, PrintCounted(Head(batch)),
           limit_left' \in Nat, hits' = hits, Rest' = Rest, results' = results, batch' = Tail(batch)
    PROVE  LimitInv'
<1> DEFINE e == Head(batch)
           A == Arrived(Found, batch, results, Rest)
           Z == Arrived(Found, Tail(batch), results, Rest)
<1>0. limit_left \in Nat /\ opt.limit \in Nat /\ opt.only_count /\ opt' = opt /\ pending' = pending /\ printed' = printed
  BY OptionsAssumption DEF TInv, TypeOK, PrintCounted
<1>1. IsFiniteSet(A) /\ Cardinality(A) \in Nat /\ limit_left + Cardinality(A) = opt.limit
      /\ pending = {} /\ printed = <<>>
  <2>1. IsFiniteSet(Found)
    BY FoundFinite
  <2>2. A \in SUBSET Found
    BY DEF Arrived
  <2>3. IsFiniteSet(A)
    BY <2>1, <2>2, FS_Subset
  <2> QED BY <1>0, <2>3, FS_CardinalityType DEF LimitInv
<1>2. Found' = Found
  BY FoundFixed
<1>3. Arrived(Found', batch', results', Rest') = Z
  BY <1>2
<1>4. /\ e.msg = NoMsg => Z = A
      /\ e.msg # NoMsg => e.msg \notin A /\ Z = A \cup {e.msg}
  BY ArrivedPrint
<1>5. IF e.msg = NoMsg THEN limit_left' = limit_left /\ exited' = exited ELSE apply_limit
  BY DEF PrintCounted
<1> HIDE DEF e, A, Z
<1>6. limit_left' + Cardinality(Z) = opt.limit /\ (exited' => limit_left' = 0)
  <2>1. CASE e.msg = NoMsg
    BY <1>1, <1>4, <1>5, <2>1
  <2>2. CASE e.msg # NoMsg
    <3>1. Cardinality(Z) = Cardinality(A) + 1
      BY <1>1, <1>4, <2>2, FS_AddElement
    <3>2. limit_left' = limit_left - 1 /\ (exited' => limit_left' = 0)
      BY <1>5, <2>2, ExitAtZero
    <3> QED BY <1>0, <1>1, <3>1, <3>2
  <2> QED BY <2>1, <2>2
<1>7. limit_left' + Cardinality(Arrived(Found', batch', results', Rest')) = opt'.limit
  BY <1>0, <1>3, <1>6
<1> QED BY <1>0, <1>1, <1>6, <1>7 DEF LimitInv

LEMMA LimitNext ==
    ASSUME TInv, OInv, FeedInv, JoinInv, FlightInv, LimitInv, [Next]_vars PROVE LimitInv'
<1>0. /\ pending \in SUBSET Element /\ batch \in Seq(Element) /\ results \in [Thread -> Seq(Element)]
      /\ Rest \in SUBSET Int /\ who \in Thread /\ Found \in SUBSET Nat
  BY FlightTypes, FoundFinite DEF TInv, TypeOK
<1>h. hits' = hits /\ Found' = Found
  BY FoundFixed DEF Next, Main, Worker, SpuriousWakeup, vars
<1>t. limit_left' \in Nat
  BY TypeNext DEF TInv, TypeOK
<1>3. ASSUME UNCHANGED serializerVars,
             Arrived(Found, batch', results', Rest') = Arrived(Found, batch, results, Rest)
      PROVE  LimitInv'
  BY <1>h, <1>3 DEF LimitInv, serializerVars
<1>1. ASSUME NEW w \in Thread, ScanBlock(w), UNCHANGED <<hits, serializerVars>> PROVE LimitInv'
  <2> DEFINE e == PrintOf(docid[w], pos[w])
  <2>1. e \in Element /\ Valid(e) /\ batch' = batch
    BY <1>1, ScanStep
  <2>2. (\A s \in Int : In(e, s) => s \in Rest) /\ Rest' = {s \in Rest : ~In(e, s)}
    BY <1>1, RestScan
  <2>3. results' = [results EXCEPT ![w] = Received(results[w], e)]
    BY <1>1 DEF ScanBlock
  <2> HIDE DEF e
  <2>4. OnlyOwn(e, Found)
    BY <2>1, OwnName DEF OnlyOwn
  <2>5. SameArrived(Found, batch, results, Rest, results', Rest')
    BY <1>0, <2>1, <2>2, <2>3, <2>4, ArrivedScan
  <2> QED BY <1>1, <1>3, <2>1, <2>5 DEF SameArrived
<1>2. CASE \A w \in Thread : ~ScanBlock(w)
  <2>1. Rest' = Rest
    BY <1>2, RestNext
  <2>2. CASE Collect /\ UNCHANGED serializerVars
    <3>1. batch = <<>> /\ batch' = results[who] /\ results' = [results EXCEPT ![who] = <<>>]
      BY <2>2 DEF Collect, JoinInv
    <3>2. Arrived(Found, results[who], results', Rest) = Arrived(Found, <<>>, results, Rest)
      BY <1>0, <3>1, ArrivedCollect
    <3> QED BY <1>3, <2>1, <2>2, <3>1, <3>2
  <2>3. CASE Deliver /\ ~exited
    <3>1. results' = results
      BY <2>3 DEF Deliver
    <3>2. CASE Drain /\ UNCHANGED batch
      <4>1. PICK e \in pending : PrintNow(e) /\ opt' = opt
        BY <3>2 DEF Drain, Top
      <4>2. ~opt.only_count
        BY DEF LimitInv
      <4> QED BY <1>0, <1>t, <2>3, <4>1, <4>2, LimitPrint
    <3>3. CASE batch # <<>> /\ SerializerPrint(Head(batch)) /\ batch' = Tail(batch)
      <4>0. Head(batch) \in Element
        BY <1>0, <3>3, FirstAndRest
      <4>1. CASE PrintLater(Head(batch))
        BY <4>1 DEF PrintLater, LimitInv
      <4>2. CASE PrintInTurn(Head(batch))
        <5>1. ~opt.only_count /\ opt' = opt /\ PrintNow(Head(batch))
          BY <4>2 DEF PrintInTurn
        <5> QED BY <1>t, <2>3, <4>0, <5>1, LimitPrint
      <4>3. CASE PrintCounted(Head(batch))
        BY <1>h, <1>t, <2>1, <2>3, <3>1, <3>3, <4>3, LimitCount
      <4> QED BY <3>3, <4>1, <4>2, <4>3 DEF SerializerPrint
    <3> QED BY <2>3, <3>2, <3>3 DEF Deliver
  <2>4. CASE UNCHANGED <<serializerVars, batch, results>>
    BY <1>3, <2>1, <2>4
  <2>5. \/ Collect /\ UNCHANGED serializerVars
        \/ Deliver /\ ~exited
        \/ UNCHANGED <<serializerVars, batch, results>>
    BY <1>2 DEF Next, Main, Worker, SpuriousWakeup, Push, WaitForRoom, AllQueued, Join, Delivered,
                Take, Sleep, Quit, vars, scanVars
  <2> QED BY <2>2, <2>3, <2>4, <2>5
<1> QED BY <1>1, <1>2, ScanAlone

\* In the beginning everything is to be scanned.
LEMMA FlowInit ==
    ASSUME Init PROVE FeedInv /\ JoinInv /\ FlightInv /\ CoverInv /\ MatchInv /\ LimitInv
<1>0. /\ work_queue = <<>> /\ batch = <<>> /\ pending = {} /\ printed = <<>> /\ done = FALSE /\ exited = FALSE
      /\ mpc = "push" /\ io_docid = 0 /\ next_seq = 0 /\ matched = 0 /\ limit_left = opt.limit
      /\ \A w \in Thread : wpc[w] = "ready" /\ results[w] = <<>>
      /\ opt.limit \in Nat
  BY OptionsAssumption DEF Init, SerializerInit
<1>1. DOMAIN <<>> = {} /\ Len(<<>>) = 0
  OBVIOUS
<1>2. Rest = 0 .. End - 1
  <2>1. NextQueued = 0 /\ Base(0) = 0 /\ End \in Nat
    BY <1>0, Scale, ScanAssumption DEF NextQueued, Base
  <2>2. \A s \in 0 .. End - 1 : Base(NextQueued) <= s
    BY <2>1
  <2> QED BY <2>2 DEF Rest
<1>3. FeedInv
  BY <1>0, <1>1 DEF FeedInv
<1>4. JoinInv
  BY <1>0 DEF JoinInv
<1>5. FlightInv
  BY <1>0, <1>1 DEF FlightInv, Flight, SeqApart, Between
<1>6. CoverInv
  <2>1. \A s \in 0 .. End - 1 : 0 <= s
    BY Scale
  <2> QED BY <1>0, <1>1, <1>2, <2>1 DEF CoverInv, Cover
<1>7. TInv
  BY TypeInit
<1>8. Found \ Rest = {} /\ Arrived(Found, batch, results, Rest) = {}
  BY <1>2, <1>7, FoundFinite DEF Arrived, Waits
<1>9. MatchInv
  BY <1>0, <1>8, FS_EmptySet DEF MatchInv
<1>10. LimitInv
  <2>1. Cardinality(Arrived(Found, batch, results, Rest)) = 0 /\ Len(printed) = 0
    BY <1>0, <1>1, <1>8, FS_EmptySet
  <2>2. limit_left + 0 = opt.limit
    BY <1>0
  <2> QED BY <1>0, <2>1, <2>2 DEF LimitInv
<1> QED BY <1>3, <1>4, <1>5, <1>6, <1>9, <1>10

\* When scan_all_docids() has returned, nothing is left anywhere.
LEMMA AllGone ==
    ASSUME TInv, FeedInv, JoinInv, mpc = "returned"
    PROVE  /\ Rest = {} /\ batch = <<>> /\ ~exited /\ ~CanDrain /\ done
           /\ \A w \in Thread : results[w] = <<>>
<1>1. /\ batch = <<>> /\ ~exited /\ ~CanDrain /\ done /\ \A w \in Thread : wpc[w] = "gone" /\ results[w] = <<>>
  BY DEF JoinInv, Empty
<1>2. 0 \in Thread
  BY ScanAssumption DEF Thread
<1>3. work_queue = <<>> /\ DOMAIN work_queue = {}
  BY <1>1, <1>2 DEF JoinInv
<1>4. NextQueued \in Nat /\ NextQueued >= NumBlocks /\ NumBlocks \in Nat
  BY <1>1, FeedTypes DEF FeedInv, NextQueued
<1>5. \A s \in 0 .. End - 1 : ~(Base(NextQueued) <= s)
  <2>1. End <= Base(NextQueued) /\ End \in Nat /\ Base(NextQueued) \in Nat
    BY <1>4, Scale DEF End
  <2> QED BY <2>1
<1>6. Rest = {}
  BY <1>1, <1>3, <1>5 DEF Rest
<1> QED BY <1>1, <1>6

\* When nothing is left but the pending results, the serializer has none.
LEMMA NothingPending ==
    ASSUME TInv, FeedInv, JoinInv, FlightInv, CoverInv, mpc = "returned", ~opt.only_count
    PROVE  pending = {} /\ next_seq >= End
<1>a. Rest = {} /\ batch = <<>> /\ ~exited /\ ~CanDrain /\ \A w \in Thread : results[w] = <<>>
  BY AllGone
<1>b. next_seq \in Nat /\ pending \subseteq Element /\ End \in Nat /\ DOMAIN <<>> = {}
  BY Scale DEF TInv, TypeOK
<1>0. /\ Rest = {} /\ batch = <<>> /\ ~exited /\ ~CanDrain /\ \A w \in Thread : results[w] = <<>>
      /\ next_seq \in Nat /\ pending \subseteq Element /\ End \in Nat /\ DOMAIN <<>> = {}
  BY <1>a, <1>b
<1>1. Cover(next_seq, pending, batch, results, Rest) /\ Flight(pending, batch, results, Rest)
  BY <1>0 DEF CoverInv, FlightInv
<1>2. \A s \in 0 .. End - 1 : s < next_seq \/ \E e \in pending : In(e, s)
  BY <1>0, <1>1 DEF Cover, Held
<1>3. \A e \in pending : next_seq <= e.seq /\ e.seq + e.skip <= End /\ e.seq \in Nat /\ e.skip \in Nat /\ e.skip > 0
  BY <1>0, <1>1 DEF Cover, Flight, Off, Element
<1>4. next_seq >= End
  <2> SUFFICES ASSUME next_seq < End PROVE FALSE
    BY <1>0
  <2>1. next_seq \in 0 .. End - 1 /\ ~(next_seq < next_seq)
    BY <1>0
  <2>2. PICK e \in pending : In(e, next_seq)
    BY <1>2, <2>1
  <2>3. e.seq = next_seq
    BY <1>0, <1>3, <2>2 DEF In
  <2>4. e \in Top
    BY <1>3, <2>3 DEF Top
  <2> QED BY <1>0, <2>3, <2>4 DEF CanDrain
<1>5. ASSUME NEW e \in pending PROVE FALSE
  BY <1>0, <1>3, <1>4
<1> QED BY <1>4, <1>5

\* Each name is printed once: there are as many names as lines.
LEMMA PrintedCount ==
    ASSUME TInv, OInv
    PROVE  Printed \subseteq Found /\ Len(printed) = Cardinality(Printed) /\ Len(printed) \in Nat
<1>1. printed \in Seq(Nat) /\ Len(printed) \in Nat /\ DOMAIN printed = 1 .. Len(printed)
      /\ \A i \in DOMAIN printed : printed[i] \in Nat
  BY LenProperties, ElementOfSeq DEF TInv, TypeOK
<1>2. Printed \subseteq Found /\ \A i, j \in DOMAIN printed : i < j => printed[i] < printed[j]
  BY DEF OInv, OutputInOrder
<1>3. \A i, j \in 1 .. Len(printed) : printed[i] = printed[j] => i = j
  <2> SUFFICES ASSUME NEW i \in 1 .. Len(printed), NEW j \in 1 .. Len(printed), printed[i] = printed[j], i # j
               PROVE  FALSE
    OBVIOUS
  <2>1. i < j \/ j < i
    BY <1>1
  <2>2. printed[i] \in Nat /\ printed[j] \in Nat
    BY <1>1
  <2>3. printed[i] < printed[j] \/ printed[j] < printed[i]
    BY <1>1, <1>2, <2>1
  <2> QED BY <2>2, <2>3
<1>4. Printed = Listed(printed, Len(printed))
  BY <1>1 DEF Printed, Listed
<1>5. Different(printed, Len(printed))
  BY <1>3 DEF Different
<1>6. Cardinality(Listed(printed, Len(printed))) = Len(printed)
  BY <1>1, <1>5, CountRange
<1> QED BY <1>1, <1>2, <1>4, <1>6

\* Everything that the two theorems need.
FlowInv == TInv /\ OInv /\ FeedInv /\ JoinInv /\ FlightInv /\ CoverInv /\ MatchInv /\ LimitInv

LEMMA FlowDelivers == ASSUME FlowInv PROVE DeliversAll
<1> SUFFICES ASSUME mpc = "returned"
             PROVE  pending = {} /\ matched = Cardinality(Found) /\ (opt.only_count \/ Printed = Found)
  BY DEF DeliversAll
<1>1. Rest = {} /\ ~exited
  BY AllGone DEF FlowInv
<1>2. matched = Cardinality(Found)
  <2>1. Found \ Rest = Found
    BY <1>1
  <2> QED BY <2>1 DEF FlowInv, MatchInv
<1>3. CASE opt.only_count
  BY <1>2, <1>3 DEF FlowInv, LimitInv
<1>4. CASE ~opt.only_count
  <2>1. pending = {} /\ next_seq >= End /\ End \in Nat /\ next_seq \in Nat
    BY <1>4, NothingPending, Scale DEF FlowInv, TInv, TypeOK
  <2>2. \A s \in Found : s < next_seq
    BY <2>1, FoundFinite DEF FlowInv
  <2>3. Found \subseteq Printed /\ Printed \subseteq Found
    BY <1>1, <2>2 DEF FlowInv, OInv, OutInv, OutputInOrder
  <2> QED BY <1>2, <2>1, <2>3
<1> QED BY <1>3, <1>4

LEMMA FlowLimits == ASSUME FlowInv PROVE LimitExact
<1>0. /\ limit_left \in Nat /\ opt.limit \in Nat /\ (~exited => limit_left > 0) /\ (exited => limit_left = 0)
  BY OptionsAssumption DEF FlowInv, TInv, TypeOK, LimitInv
<1>1. IsFiniteSet(Found) /\ Cardinality(Found) \in Nat
  BY FoundFinite, FS_CardinalityType DEF FlowInv
<1> DEFINE n == IF opt.only_count THEN Cardinality(Arrived(Found, batch, results, Rest)) ELSE Len(printed)
<1>2. n \in Nat /\ n <= Cardinality(Found)
  <2>1. Arrived(Found, batch, results, Rest) \in SUBSET Found
    BY DEF Arrived
  <2>2. CASE opt.only_count
    BY <1>1, <2>1, <2>2, FS_Subset, FS_CardinalityType
  <2>3. CASE ~opt.only_count
    <3>1. Printed \in SUBSET Found /\ Len(printed) = Cardinality(Printed) /\ Len(printed) \in Nat
      BY PrintedCount DEF FlowInv
    <3>2. Cardinality(Printed) <= Cardinality(Found)
      BY <1>1, <3>1, FS_Subset
    <3> QED BY <2>3, <3>1, <3>2
  <2> QED BY <2>2, <2>3
<1>3. limit_left + n = opt.limit
  BY DEF FlowInv, LimitInv
<1>4. ASSUME mpc = "returned" PROVE n = Cardinality(Found) /\ ~exited
  <2>1. Rest = {} /\ batch = <<>> /\ ~exited /\ (\A w \in Thread : results[w] = <<>>) /\ DOMAIN <<>> = {}
    BY <1>4, AllGone DEF FlowInv
  <2>2. Arrived(Found, batch, results, Rest) = Found
    BY <2>1 DEF Arrived, Waits
  <2>3. ~opt.only_count => Printed = Found
    BY <1>4, FlowDelivers DEF DeliversAll
  <2>4. Len(printed) = Cardinality(Printed)
    BY PrintedCount DEF FlowInv
  <2> QED BY <2>1, <2>2, <2>3, <2>4
<1> HIDE DEF n
<1>5. exited => opt.limit <= Cardinality(Found)
  BY <1>0, <1>1, <1>2, <1>3
<1>6. mpc = "returned" => Cardinality(Found) < opt.limit
  BY <1>0, <1>1, <1>2, <1>3, <1>4
<1>7. (exited /\ ~opt.only_count) => Len(printed) = opt.limit
  BY <1>0, <1>2, <1>3 DEF n
<1> QED BY <1>5, <1>6, <1>7 DEF LimitExact

LEMMA FlowHolds == Spec => []FlowInv
<1>1. Init => FlowInv
  BY TypeInit, OutputInit, FlowInit DEF FlowInv
<1>2. FlowInv /\ [Next]_vars => FlowInv'
  BY TypeNext, OutputNext, FeedNext, JoinNext, FlightNext, CoverNext, MatchNext, LimitNext DEF FlowInv
<1> QED BY <1>1, <1>2, PTL DEF Spec

\* When scan_all_docids() returns, every name to be shown has been printed, the
\* workers' counter is right and the serializer holds nothing back, for every
\* number of blocks and threads, every size of chunks and queue and every
\* interleaving: ~Serializer's assertion never fires.
THEOREM AllDelivered == Spec => []DeliversAll
  BY FlowHolds, FlowDelivers, PTL

\* flocate ends early exactly when there are at least as many names to be shown
\* as --limit allows, with that many printed.
THEOREM LimitRespected == Spec => []LimitExact
  BY FlowHolds, FlowLimits, PTL
=============================================================================
