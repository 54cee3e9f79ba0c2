---------------------------- MODULE PublishProofs ----------------------------
(***************************************************************************)
(* Proofs about Publish for any number of processes, readers and runs and  *)
(* every combination of faults: what is under the name is complete, what a *)
(* reader has open stays so, the name is missing only between unlink() and *)
(* linkat(), every history is what its lineage tells, and the whole        *)
(* implements DatabaseFile.                                                *)
(***************************************************************************)
EXTENDS Publish, Induction

-----------------------------------------------------------------------------
(* The inductive invariant.                                                *)

\* x has the fields of a file, whatever its history is.
Rec(x) ==
    x = [header |-> x.header, body |-> x.body, conf |-> x.conf, history |-> x.history,
         lineage |-> x.lineage, own |-> x.own, damaged |-> x.damaged]

PCs == {"idle", "create", "scan", "body", "header", "publish", "linkat"}

Shape ==
    /\ o_tmpfile \in BOOLEAN
    /\ run \in Nat
    /\ pc \in [Procs -> PCs]
    /\ mine \in [Procs -> Int]
    /\ base \in [Procs -> Int]
    /\ rfd \in [Readers -> Int]
    /\ refused \in [Readers -> Int]
    /\ file = [f \in Files |-> file[f]]
    /\ \A f \in Files : Rec(file[f])

Sound(x) == ~x.damaged => x.header = "final" /\ x.body = "whole"

Working(p) == pc[p] # "idle"

\* A running process has a file of its own, which nobody else can see.
MineInv ==
    /\ \A p \in Procs : Working(p) => mine[p] \in Runs /\ mine[p] <= run /\ mine[p] \notin published
    /\ \A p, q \in Procs : Working(p) /\ Working(q) /\ mine[p] = mine[q] => p = q

\* What can be opened, or is open, has been published.
Seen == {None, Foreign} \cup published
SeenInv ==
    /\ published \subseteq {f \in Runs : f <= run}
    /\ name \in Seen
    /\ \A p \in Procs : Working(p) => base[p] \in Seen
    /\ \A r \in Readers : rfd[r] \in Seen
    /\ \A r \in Readers : refused[r] \in Seen /\ (refused[r] \in Runs => file[refused[r]].damaged)

\* A file is complete before it is published, and stays so.
SoundInv ==
    /\ \A f \in published : Sound(file[f])
    /\ \A p \in Procs : pc[p] = "header" /\ ~file[mine[p]].damaged => file[mine[p]].body = "whole"
    /\ \A p \in Procs : pc[p] \in {"publish", "linkat"} => Sound(file[mine[p]])

\* The databases that a run can have grown from.
Past == {file[f].lineage : f \in published} \cup {<<>>}
LineageInv ==
    /\ file[Foreign].lineage = <<>>
    /\ \A p \in Procs : pc[p] \in {"body", "header", "publish", "linkat"} =>
           \E b \in Past : file[mine[p]].lineage = Append(b, mine[p])

PInv == Shape /\ MineInv /\ SeenInv /\ SoundInv /\ NameKept /\ LineageInv

-----------------------------------------------------------------------------

\* None and Foreign are no runs.
LEMMA FileNumbers ==
    /\ None \notin Files /\ Foreign \in Files /\ Foreign \notin Runs
    /\ Runs \subseteq Files /\ Runs \subseteq Nat
BY PublishAssumption DEF None, Foreign, Files, Runs

\* The invariant holds before the first run.
LEMMA InitPInv == Init => PInv
<1> SUFFICES ASSUME Init PROVE PInv
  OBVIOUS
<1> USE FileNumbers, PublishAssumption
<1>1. \A f \in Files : Rec(file[f]) /\ file[f].lineage = <<>>
  BY DEF Init, Rec, Blank
<1>2. Shape
  <2>1. o_tmpfile \in BOOLEAN
    BY DEF Init
  <2>2. file = [f \in Files |-> file[f]]
    BY DEF Init
  <2>3. pc \in [Procs -> PCs] /\ run \in Nat
    BY DEF Init, PCs
  <2>4. mine \in [Procs -> Int] /\ base \in [Procs -> Int]
    BY DEF Init, None
  <2>5. rfd \in [Readers -> Int] /\ refused \in [Readers -> Int]
    BY DEF Init, None
  <2> QED BY <1>1, <2>1, <2>2, <2>3, <2>4, <2>5 DEF Shape
<1>3. MineInv /\ SoundInv
  BY DEF Init, MineInv, SoundInv, Working
<1>4. SeenInv
  BY DEF Init, SeenInv, Seen, Working, Foreign, None
<1>5. NameKept /\ LineageInv
  BY <1>1 DEF Init, NameKept, LineageInv
<1> QED BY <1>2, <1>3, <1>4, <1>5 DEF PInv

-----------------------------------------------------------------------------
(* What a step of a running process p does to the files: at most its own   *)
(* changes.                                                                *)

Framed(p) ==
    /\ file' = [f \in Files |-> file'[f]]
    /\ \A f \in Files : Rec(file'[f])
    /\ \A f \in Files \ {mine[p]} : file'[f] = file[f]

\* Replacing the contents of one's own file changes no other.
LEMMA EditFrames ==
    ASSUME PInv, NEW p \in Procs, Working(p), NEW x, Rec(x),
           file' = [file EXCEPT ![mine[p]] = x]
    PROVE  Framed(p) /\ file'[mine[p]] = x
<1>1. mine[p] \in Files /\ file = [f \in Files |-> file[f]] /\ \A f \in Files : Rec(file[f])
  BY FileNumbers DEF PInv, Shape, MineInv
<1> QED BY <1>1 DEF Framed

\* Nor does leaving the files alone.
LEMMA IdleFrames ==
    ASSUME PInv, NEW p \in Procs, UNCHANGED file
    PROVE  Framed(p)
BY DEF PInv, Shape, Framed

\* What has been published, is open, or belongs to another process is not p's.
LEMMA FrameFacts ==
    ASSUME PInv, NEW p \in Procs, Working(p), Framed(p)
    PROVE  /\ \A f \in published : file'[f] = file[f]
           /\ \A q \in Procs \ {p} : Working(q) => file'[mine[q]] = file[mine[q]]
           /\ \A r \in Readers : refused[r] \in Runs => file'[refused[r]] = file[refused[r]]
           /\ file'[Foreign] = file[Foreign]
<1> USE FileNumbers DEF PInv, Framed
<1>1. mine[p] \in Runs /\ mine[p] \notin published
  BY DEF MineInv
<1>2. \A f \in published : file'[f] = file[f]
  BY <1>1 DEF SeenInv
<1>3. \A q \in Procs \ {p} : Working(q) => file'[mine[q]] = file[mine[q]]
  BY DEF MineInv
<1>4. \A r \in Readers : refused[r] \in Runs => refused[r] \in published
  BY DEF SeenInv, Seen, None
<1>5. file'[Foreign] = file[Foreign]
  BY <1>1
<1> QED BY <1>2, <1>3, <1>4, <1>5

\* A step from one place of the code to another.
LEMMA MoveStep ==
    ASSUME PInv, NEW p \in Procs, Working(p), Framed(p),
           NEW l \in PCs \ {"idle"},
           pc' = [pc EXCEPT ![p] = l],
           UNCHANGED <<o_tmpfile, published, mine, base, run, readerVars>>,
           name' \in Seen, NameKept',
           l = "header" /\ ~file'[mine[p]].damaged => file'[mine[p]].body = "whole",
           l \in {"publish", "linkat"} => Sound(file'[mine[p]]),
           l \in {"body", "header", "publish", "linkat"} =>
               \E b \in Past : file'[mine[p]].lineage = Append(b, mine[p])
    PROVE  PInv'
<1> USE FileNumbers DEF PInv
<1>1. Shape'
  BY DEF Shape, Framed, readerVars
<1>2. MineInv'
  BY DEF MineInv, Working, Shape
<1>3. SeenInv'
  BY FrameFacts DEF SeenInv, Seen, Working, Shape, readerVars
<1>4. SoundInv'
  <2>1. \A q \in Procs \ {p} : pc'[q] = pc[q] /\ mine'[q] = mine[q]
    BY DEF Shape
  <2>2. pc'[p] = l /\ mine'[p] = mine[p]
    BY DEF Shape
  <2>3. \A f \in published' : Sound(file'[f])
    BY FrameFacts DEF SoundInv
  <2> QED BY <2>1, <2>2, <2>3, FrameFacts DEF SoundInv, Working, Sound
<1>5. LineageInv'
  <2>1. Past' = Past
    BY FrameFacts DEF Past
  <2>2. \A q \in Procs \ {p} : pc'[q] = pc[q] /\ mine'[q] = mine[q]
    BY DEF Shape
  <2>3. pc'[p] = l /\ mine'[p] = mine[p]
    BY DEF Shape
  <2>4. ASSUME NEW q \in Procs, pc'[q] \in {"body", "header", "publish", "linkat"}
        PROVE  \E b \in Past' : file'[mine'[q]].lineage = Append(b, mine'[q])
    <3>1. CASE q = p
      BY <2>1, <2>3, <2>4, <3>1
    <3>2. CASE q # p
      <4>1. PICK b \in Past : file[mine[q]].lineage = Append(b, mine[q])
        BY <2>2, <2>4, <3>2 DEF LineageInv
      <4>2. file'[mine[q]] = file[mine[q]]
        BY <2>2, <2>4, <3>2, FrameFacts DEF Working
      <4> QED BY <2>1, <2>2, <3>2, <4>1, <4>2
    <3> QED BY <3>1, <3>2
  <2>5. file'[Foreign].lineage = <<>>
    BY FrameFacts DEF LineageInv
  <2> QED BY <2>4, <2>5 DEF LineageInv
<1> QED BY <1>1, <1>2, <1>3, <1>4, <1>5

\* A step that ends the process, with or without publishing its file.
LEMMA EndStep ==
    ASSUME PInv, NEW p \in Procs, Working(p), Framed(p), Gone(p),
           UNCHANGED <<o_tmpfile, readerVars>>,
           \/ published' = published
           \/ published' = published \cup {mine[p]} /\ Sound(file'[mine[p]]),
           name' \in Seen', NameKept'
    PROVE  PInv'
<1> USE FileNumbers DEF PInv
<1>0. /\ \A q \in Procs \ {p} : pc'[q] = pc[q] /\ mine'[q] = mine[q] /\ base'[q] = base[q]
      /\ pc'[p] = "idle" /\ mine'[p] = None /\ run' = run
  BY DEF Shape, Gone
<1>1. Shape'
  BY DEF Shape, Framed, readerVars, Gone, PCs, None
<1>2. MineInv'
  BY <1>0 DEF MineInv, Working
<1>3. SeenInv'
  <2>1. published' \subseteq {f \in Runs : f <= run'}
    BY <1>0 DEF SeenInv, MineInv
  <2>2. \A q \in Procs : pc'[q] # "idle" => base'[q] \in Seen'
    BY <1>0 DEF SeenInv, Seen, Working
  <2>3. \A r \in Readers : rfd'[r] \in Seen' /\ refused'[r] \in Seen'
    BY DEF SeenInv, Seen, readerVars
  <2>4. \A r \in Readers : refused'[r] \in Runs => file'[refused'[r]].damaged
    BY FrameFacts DEF SeenInv, readerVars
  <2> QED BY <2>1, <2>2, <2>3, <2>4 DEF SeenInv, Working
<1>4. SoundInv'
  <2>1. \A f \in published' : Sound(file'[f])
    BY FrameFacts DEF SoundInv
  <2> QED BY <1>0, <2>1, FrameFacts DEF SoundInv, Working, Sound
<1>5. LineageInv'
  <2>1. Past \subseteq Past'
    BY FrameFacts DEF Past
  <2>2. ASSUME NEW q \in Procs, pc'[q] \in {"body", "header", "publish", "linkat"}
        PROVE  \E b \in Past' : file'[mine'[q]].lineage = Append(b, mine'[q])
    <3>1. q # p /\ pc[q] = pc'[q] /\ mine'[q] = mine[q]
      BY <1>0, <2>2
    <3>2. PICK b \in Past : file[mine[q]].lineage = Append(b, mine[q])
      BY <2>2, <3>1 DEF LineageInv
    <3>3. file'[mine[q]] = file[mine[q]]
      BY <2>2, <3>1, FrameFacts DEF Working
    <3> QED BY <2>1, <3>1, <3>2, <3>3
  <2>3. file'[Foreign].lineage = <<>>
    BY FrameFacts DEF LineageInv
  <2> QED BY <2>2, <2>3 DEF LineageInv
<1> QED BY <1>1, <1>2, <1>3, <1>4, <1>5

\* While the name stays as it is, a process that was not between unlink() and
\* linkat() does not matter for NameKept.
LEMMA NameKeptMove ==
    ASSUME PInv, NEW p \in Procs, pc[p] # "linkat", NEW l, pc' = [pc EXCEPT ![p] = l],
           UNCHANGED <<name, published>>, lost => lost'
    PROVE  NameKept'
BY DEF PInv, Shape, NameKept

\* Assigning to some fields of a file changes nothing else of it.
SameHistory(x, y) ==
    x.conf = y.conf /\ x.history = y.history /\ x.lineage = y.lineage /\ x.own = y.own

\* The contents have been written.
SetHeaderBody(r, a, b) == [r EXCEPT !.header = a, !.body = b]
LEMMA HeaderBody ==
    ASSUME NEW r, Rec(r), NEW a, NEW b
    PROVE  /\ Rec(SetHeaderBody(r, a, b))
           /\ SetHeaderBody(r, a, b).header = a /\ SetHeaderBody(r, a, b).body = b
           /\ SetHeaderBody(r, a, b).damaged = r.damaged
           /\ SetHeaderBody(r, a, b).lineage = r.lineage
           /\ SameHistory(SetHeaderBody(r, a, b), r)
<1> DEFINE y == SetHeaderBody(r, a, b)
<1> DEFINE z == [r EXCEPT !.header = a]
<1>1. y = [z EXCEPT !.body = b]
  BY DEF SetHeaderBody
<1>2. /\ Rec(z)
      /\ z.header = a /\ z.body = r.body /\ z.conf = r.conf
      /\ z.history = r.history /\ z.lineage = r.lineage /\ z.own = r.own /\ z.damaged = r.damaged
  BY DEF Rec
<1> HIDE DEF z
<1> HIDE DEF y
<1>4. /\ Rec(y)
      /\ y.header = a /\ y.body = b /\ y.conf = r.conf
      /\ y.history = r.history /\ y.lineage = r.lineage /\ y.own = r.own /\ y.damaged = r.damaged
  BY <1>1, <1>2 DEF Rec
<1> QED BY <1>4 DEF y, SameHistory

\* Part of the contents could not be written.
SetHeaderDamaged(r, a) == [r EXCEPT !.header = a, !.damaged = TRUE]
LEMMA HeaderDamaged ==
    ASSUME NEW r, Rec(r), NEW a
    PROVE  /\ Rec(SetHeaderDamaged(r, a))
           /\ SetHeaderDamaged(r, a).header = a /\ SetHeaderDamaged(r, a).damaged = TRUE
           /\ SetHeaderDamaged(r, a).body = r.body
           /\ SetHeaderDamaged(r, a).lineage = r.lineage
           /\ SameHistory(SetHeaderDamaged(r, a), r)
<1> DEFINE y == SetHeaderDamaged(r, a)
<1> DEFINE z == [r EXCEPT !.header = a]
<1>1. y = [z EXCEPT !.damaged = TRUE]
  BY DEF SetHeaderDamaged
<1>2. /\ Rec(z)
      /\ z.header = a /\ z.body = r.body /\ z.conf = r.conf
      /\ z.history = r.history /\ z.lineage = r.lineage /\ z.own = r.own /\ z.damaged = r.damaged
  BY DEF Rec
<1> HIDE DEF z
<1> HIDE DEF y
<1>4. /\ Rec(y)
      /\ y.header = a /\ y.body = r.body /\ y.conf = r.conf
      /\ y.history = r.history /\ y.lineage = r.lineage /\ y.own = r.own /\ y.damaged = TRUE
  BY <1>1, <1>2 DEF Rec
<1> QED BY <1>4 DEF y, SameHistory

\* The header could not be written.
SetDamaged(r, a) == [r EXCEPT !.damaged = a]
LEMMA OnlyDamaged ==
    ASSUME NEW r, Rec(r), NEW a
    PROVE  /\ Rec(SetDamaged(r, a))
           /\ SetDamaged(r, a).damaged = a
           /\ SetDamaged(r, a).header = r.header /\ SetDamaged(r, a).body = r.body
           /\ SetDamaged(r, a).lineage = r.lineage
           /\ SameHistory(SetDamaged(r, a), r)
<1> DEFINE y == SetDamaged(r, a)
<1> QED BY DEF Rec, SetDamaged, SameHistory

\* The header has been written.
SetHeader(r, a) == [r EXCEPT !.header = a]
LEMMA OnlyHeader ==
    ASSUME NEW r, Rec(r), NEW a
    PROVE  /\ Rec(SetHeader(r, a))
           /\ SetHeader(r, a).header = a
           /\ SetHeader(r, a).body = r.body /\ SetHeader(r, a).damaged = r.damaged
           /\ SameHistory(SetHeader(r, a), r)
BY DEF Rec, SetHeader, SameHistory

\* The scan has left its history.
SetScanned(r, a, b, c) == [r EXCEPT !.history = a, !.lineage = b, !.own = c]
LEMMA ScanFields ==
    ASSUME NEW r, Rec(r), NEW a, NEW b, NEW c
    PROVE  /\ Rec(SetScanned(r, a, b, c))
           /\ SetScanned(r, a, b, c).history = a /\ SetScanned(r, a, b, c).lineage = b /\ SetScanned(r, a, b, c).own = c
           /\ SetScanned(r, a, b, c).conf = r.conf /\ SetScanned(r, a, b, c).damaged = r.damaged
           /\ SetScanned(r, a, b, c).header = r.header /\ SetScanned(r, a, b, c).body = r.body
<1> DEFINE y == SetScanned(r, a, b, c)
<1> DEFINE z == [r EXCEPT !.history = a]
           w == [z EXCEPT !.lineage = b]
<1>1. y = [w EXCEPT !.own = c]
  BY DEF SetScanned
<1>2. /\ Rec(z)
      /\ z.header = r.header /\ z.body = r.body /\ z.conf = r.conf
      /\ z.history = a /\ z.lineage = r.lineage /\ z.own = r.own /\ z.damaged = r.damaged
  BY DEF Rec
<1> HIDE DEF z
<1>3. /\ Rec(w)
      /\ w.header = r.header /\ w.body = r.body /\ w.conf = r.conf
      /\ w.history = a /\ w.lineage = b /\ w.own = r.own /\ w.damaged = r.damaged
  BY <1>2 DEF Rec
<1> HIDE DEF w
<1> HIDE DEF y
<1>4. /\ Rec(y)
      /\ y.header = r.header /\ y.body = r.body /\ y.conf = r.conf
      /\ y.history = a /\ y.lineage = b /\ y.own = c /\ y.damaged = r.damaged
  BY <1>1, <1>3 DEF Rec
<1> QED BY <1>4 DEF y

-----------------------------------------------------------------------------
(* The steps of a running process.                                         *)

\* The constructor of DatabaseBuilder touches only the process's own file.
LEMMA CreateKeeps == ASSUME PInv, NEW p \in Procs, Create(p) PROVE PInv'
<1> DEFINE x == [file[mine[p]] EXCEPT !.conf = depth[p]]
<1>1. Working(p) /\ mine[p] \in Files
  BY FileNumbers DEF Create, Working, PInv, MineInv
<1>2. Rec(x) /\ file' = [file EXCEPT ![mine[p]] = x]
  BY <1>1 DEF PInv, Shape, Rec, Create
<1>3. Framed(p)
  BY <1>1, <1>2, EditFrames
<1>4. NameKept'
  BY NameKeptMove DEF Create
<1> QED
  BY <1>1, <1>3, <1>4, MoveStep DEF Create, PCs, PInv, SeenInv

\* Writing the contents leaves them whole, or the file marked damaged.
LEMMA WriteBodyKeeps == ASSUME PInv, NEW p \in Procs, WriteBody(p) PROVE PInv'
<1>1. Working(p) /\ mine[p] \in Files
  BY FileNumbers DEF WriteBody, Working, PInv, MineInv
<1>2. Rec(file[mine[p]])
  BY <1>1 DEF PInv, Shape
<1>3. PICK x : /\ Rec(x) /\ file' = [file EXCEPT ![mine[p]] = x]
               /\ x.lineage = file[mine[p]].lineage
               /\ x.damaged \/ x.body = "whole"
  <2>1. CASE file' = [file EXCEPT ![mine[p]].header = "broken", ![mine[p]].body = "whole"]
    <3> DEFINE y == SetHeaderBody(file[mine[p]], "broken", "whole")
    <3>1. Rec(y) /\ y.lineage = file[mine[p]].lineage /\ y.body = "whole"
      BY <1>2, HeaderBody
    <3>2. file' = [file EXCEPT ![mine[p]] = y]
      BY <1>1, <2>1, <1>2 DEF PInv, Shape, Rec, SetHeaderBody
    <3> QED BY <3>1, <3>2
  <2>2. CASE \E h \in {"absent", "broken"} :
               file' = [file EXCEPT ![mine[p]].header = h, ![mine[p]].damaged = TRUE]
    <3>1. PICK h \in {"absent", "broken"} :
               file' = [file EXCEPT ![mine[p]].header = h, ![mine[p]].damaged = TRUE]
      BY <2>2
    <3> DEFINE y == SetHeaderDamaged(file[mine[p]], h)
    <3>2. Rec(y) /\ y.lineage = file[mine[p]].lineage /\ y.damaged = TRUE
      BY <1>2, HeaderDamaged
    <3>3. file' = [file EXCEPT ![mine[p]] = y]
      BY <1>1, <3>1, <1>2 DEF PInv, Shape, Rec, SetHeaderDamaged
    <3> QED BY <3>2, <3>3
  <2> QED BY <2>1, <2>2 DEF WriteBody
<1>4. Framed(p) /\ file'[mine[p]] = x
  BY <1>1, <1>3, EditFrames
<1>5. NameKept'
  BY NameKeptMove DEF WriteBody, dirVars
<1>6. \E b \in Past : file'[mine[p]].lineage = Append(b, mine[p])
  BY <1>3, <1>4 DEF PInv, LineageInv, WriteBody
<1> QED
  BY <1>1, <1>3, <1>4, <1>5, <1>6, MoveStep DEF WriteBody, dirVars, PCs, PInv, SeenInv

\* After the final header the file is sound: this is what publication needs.
LEMMA WriteHeaderKeeps == ASSUME PInv, NEW p \in Procs, WriteHeader(p) PROVE PInv'
<1>1. Working(p) /\ mine[p] \in Files
  BY FileNumbers DEF WriteHeader, Working, PInv, MineInv
<1>2. Rec(file[mine[p]])
  BY <1>1 DEF PInv, Shape
<1>3. PICK x : /\ Rec(x) /\ file' = [file EXCEPT ![mine[p]] = x]
               /\ x.lineage = file[mine[p]].lineage
               /\ Sound(x)
  <2>1. CASE file' = [file EXCEPT ![mine[p]].header = "final"]
    <3> DEFINE y == [file[mine[p]] EXCEPT !.header = "final"]
    <3>1. Rec(y) /\ y.lineage = file[mine[p]].lineage
      BY <1>2 DEF Rec
    <3>2. file' = [file EXCEPT ![mine[p]] = y]
      BY <1>1, <2>1, <1>2 DEF PInv, Shape, Rec
    <3>3. Sound(y)
      BY <1>2 DEF Rec, Sound, PInv, SoundInv, WriteHeader
    <3> QED BY <3>1, <3>2, <3>3
  <2>2. CASE file' = [file EXCEPT ![mine[p]].damaged = TRUE]
    <3> DEFINE y == SetDamaged(file[mine[p]], TRUE)
    <3>1. Rec(y) /\ y.lineage = file[mine[p]].lineage /\ Sound(y)
      <4>1. Rec(y) /\ y.lineage = file[mine[p]].lineage /\ y.damaged = TRUE
        BY <1>2, OnlyDamaged
      <4> QED BY <4>1 DEF Sound
    <3>2. file' = [file EXCEPT ![mine[p]] = y]
      BY <1>1, <2>2, <1>2 DEF PInv, Shape, Rec, SetDamaged
    <3> QED BY <3>1, <3>2
  <2> QED BY <2>1, <2>2 DEF WriteHeader
<1>4. Framed(p) /\ file'[mine[p]] = x
  BY <1>1, <1>3, EditFrames
<1>5. NameKept'
  BY NameKeptMove DEF WriteHeader, dirVars
<1>6. \E b \in Past : file'[mine[p]].lineage = Append(b, mine[p])
  BY <1>3, <1>4 DEF PInv, LineageInv, WriteHeader
<1> QED
  BY <1>1, <1>3, <1>4, <1>5, <1>6, MoveStep DEF WriteHeader, dirVars, PCs, PInv, SeenInv

\* After unlink() a process is there to explain the missing name.
LEMMA UnlinkKeeps == ASSUME PInv, NEW p \in Procs, Unlink(p) PROVE PInv'
<1>1. Working(p)
  BY DEF Unlink, Working
<1>2. Framed(p)
  BY IdleFrames DEF Unlink
<1>3. NameKept'
  BY DEF Unlink, NameKept, PInv, Shape
<1>4. Sound(file'[mine[p]]) /\ \E b \in Past : file'[mine[p]].lineage = Append(b, mine[p])
  BY DEF Unlink, PInv, SoundInv, LineageInv
<1> QED
  BY <1>1, <1>2, <1>3, <1>4, MoveStep DEF Unlink, PCs, Seen

\* Of a base that could be read, the lineage is that of a published database.
LEMMA ScanKeeps == ASSUME PInv, NEW p \in Procs, Scan(p), pc'[p] = "body" PROVE PInv' /\ Framed(p)
<1>1. Working(p) /\ mine[p] \in Files
  BY FileNumbers DEF Scan, Working, PInv, MineInv
<1>2. Rec(file[mine[p]])
  BY <1>1 DEF PInv, Shape
<1>3. PICK changes \in 0..(IF baseline[p] THEN 0 ELSE MaxChanges),
           found \in HistoryRead(base[p]) \ (IF depth[p] > 1 THEN {} ELSE {"abort"}) :
             /\ found # "abort"
             /\ LET old == IF found = "all" THEN file[base[p]] ELSE Blank
                    own == OwnEvents(p, changes)
                IN  file' = [file EXCEPT
                      ![mine[p]].history = NewHistory(decode_history_stream(old.history), own, depth[p]),
                      ![mine[p]].lineage = Append(old.lineage, mine[p]),
                      ![mine[p]].own = own]
             /\ pc' = [pc EXCEPT ![p] = "body"]
             /\ UNCHANGED <<mine, base, depth, baseline, run, aborted>>
  BY DEF Scan, Gone, PInv, Shape
<1> DEFINE old == IF found = "all" THEN file[base[p]] ELSE Blank
           own == OwnEvents(p, changes)
           h == NewHistory(decode_history_stream(old.history), own, depth[p])
           x == SetScanned(file[mine[p]], h, Append(old.lineage, mine[p]), own)
<1> HIDE DEF own, h
<1>4. Rec(x) /\ x.lineage = Append(old.lineage, mine[p])
  <2> DEFINE rec == file[mine[p]]
             l == Append(old.lineage, mine[p])
  <2>1. Rec(rec)
    BY <1>2
  <2> HIDE DEF old, rec, l
  <2>2. Rec(SetScanned(rec, h, l, own)) /\ SetScanned(rec, h, l, own).lineage = l
    BY <2>1, ScanFields
  <2> QED BY <2>2 DEF rec, l
<1>5. file' = [file EXCEPT ![mine[p]] = x]
  <2>1. file' = [file EXCEPT ![mine[p]].history = h,
                             ![mine[p]].lineage = Append(old.lineage, mine[p]),
                             ![mine[p]].own = own]
    BY <1>3 DEF h, own
  <2> HIDE DEF old
  <2> QED BY <1>1, <1>2, <2>1 DEF PInv, Shape, Rec, SetScanned
<1>6. old.lineage \in Past
  <2>1. CASE found # "all"
    BY <2>1 DEF Past, Blank
  <2>2. CASE found = "all"
    <3>1. base[p] # None /\ base[p] \in Seen
      BY <1>1, <1>3, <2>2 DEF HistoryRead, PInv, SeenInv
    <3> QED BY <2>2, <3>1 DEF Past, Seen, PInv, LineageInv
  <2> QED BY <2>1, <2>2
<1> HIDE DEF old
<1>7. Framed(p) /\ file'[mine[p]] = x
  BY <1>1, <1>4, <1>5, EditFrames
<1>8. NameKept'
  BY <1>3, NameKeptMove DEF Scan, dirVars
<1>9. \E b \in Past : file'[mine[p]].lineage = Append(b, mine[p])
  BY <1>4, <1>6, <1>7
<1> HIDE DEF x
<1> QED
  BY <1>1, <1>3, <1>7, <1>8, <1>9, MoveStep DEF Scan, dirVars, PCs, PInv, SeenInv

-----------------------------------------------------------------------------
(* The steps that end a process.                                           *)

\* Blank is a file.
LEMMA BlankRec == Rec(Blank)
BY DEF Rec, Blank

\* A process that dies leaves its file alone, or nothing of it.
LEMMA AbandonFrames ==
    ASSUME PInv, NEW p \in Procs, Working(p), UNCHANGED file \/ Unnamed(mine[p])
    PROVE  Framed(p)
BY BlankRec, EditFrames, IdleFrames DEF Unnamed

\* A process that dies anywhere but between unlink() and linkat().
LEMMA DiesEarly ==
    ASSUME PInv, NEW p \in Procs, Working(p), pc[p] # "linkat", Gone(p),
           UNCHANGED file \/ Unnamed(mine[p]),
           UNCHANGED <<o_tmpfile, name, published, readerVars>>, lost => lost'
    PROVE  PInv'
<1>1. NameKept'
  BY NameKeptMove DEF Gone
<1>2. Framed(p)
  BY AbandonFrames
<1>3. name' \in Seen'
  BY DEF PInv, SeenInv, Seen
<1> QED BY <1>1, <1>2, <1>3, EndStep

\* rename() publishes a sound file.
LEMMA RenameKeeps == ASSUME PInv, NEW p \in Procs, Rename(p) PROVE PInv'
<1>1. Working(p)
  BY DEF Rename, Working
<1>2. NameKept'
  BY <1>1, FileNumbers DEF Rename, NameKept, PInv, MineInv
<1>3. Framed(p)
  BY IdleFrames DEF Rename
<1>4. Sound(file'[mine[p]])
  BY DEF Rename, PInv, SoundInv
<1>5. name' \in Seen'
  BY DEF Rename, Seen
<1> QED BY <1>1, <1>2, <1>3, <1>4, <1>5, EndStep DEF Rename

\* linkat() publishes a sound file, or finds the name taken and leaves it.
LEMMA LinkatKeeps == ASSUME PInv, NEW p \in Procs, Linkat(p) PROVE PInv'
<1>1. Working(p)
  BY DEF Linkat, Working
<1>2. CASE name = None
  <2>1. name' = mine[p] /\ published' = published \cup {mine[p]} /\ UNCHANGED file
    BY <1>2 DEF Linkat
  <2>2. NameKept'
    BY <1>1, <2>1, FileNumbers DEF NameKept, PInv, MineInv
  <2>3. Framed(p)
    BY <2>1, IdleFrames
  <2>4. Sound(file'[mine[p]])
    BY <2>1 DEF Linkat, PInv, SoundInv
  <2>5. name' \in Seen'
    BY <2>1 DEF Seen
  <2> QED BY <1>1, <2>1, <2>2, <2>3, <2>4, <2>5, EndStep DEF Linkat
<1>3. CASE name # None
  <2>1. UNCHANGED <<name, published, lost>> /\ Unnamed(mine[p])
    BY <1>3 DEF Linkat
  <2>2. NameKept'
    BY <1>3, <2>1 DEF NameKept
  <2>3. Framed(p)
    BY <1>1, <2>1, AbandonFrames
  <2>4. name' \in Seen'
    BY <2>1 DEF Seen, PInv, SeenInv
  <2> QED BY <1>1, <2>1, <2>2, <2>3, <2>4, EndStep DEF Linkat
<1> QED BY <1>2, <1>3

\* A process that dies between unlink() and linkat().
LEMMA DiesLate ==
    ASSUME PInv, NEW p \in Procs, pc[p] = "linkat", Gone(p),
           UNCHANGED file \/ Unnamed(mine[p]),
           lost' = (lost \/ name = None),
           UNCHANGED <<o_tmpfile, name, published, readerVars>>
    PROVE  PInv'
<1>1. Working(p)
  BY DEF Working
<1>2. NameKept'
  BY DEF NameKept
<1>3. Framed(p)
  BY <1>1, AbandonFrames
<1>4. name' \in Seen'
  BY DEF PInv, SeenInv, Seen
<1> QED BY <1>1, <1>2, <1>3, <1>4, EndStep

\* A process that fails or is killed takes nothing with it but its own file.
LEMMA FaultKeeps == ASSUME PInv, NEW p \in Procs, Fault(p) PROVE PInv'
<1>1. CASE SetupFails(p)
  BY <1>1, DiesEarly DEF SetupFails, Working
<1>2. CASE RenameFails(p)
  BY <1>2, DiesEarly DEF RenameFails, Working, dirVars
<1>3. CASE LinkatFails(p)
  BY <1>3, DiesLate DEF LinkatFails
<1>4. CASE Kill(p)
  <2>1. UNCHANGED file \/ Unnamed(mine[p])
    BY <1>4 DEF Kill, Abandon
  <2>2. CASE pc[p] = "linkat"
    <3>1. lost' = (lost \/ name = None)
      BY <1>4, <2>2 DEF Kill
    <3> QED BY <1>4, <2>1, <2>2, <3>1, DiesLate DEF Kill
  <2>3. CASE pc[p] # "linkat"
    <3>1. lost => lost'
      BY <1>4 DEF Kill
    <3> QED BY <1>4, <2>1, <2>3, <3>1, DiesEarly DEF Kill, Working
  <2> QED BY <2>2, <2>3
<1> QED BY <1>1, <1>2, <1>3, <1>4 DEF Fault

\* A run that cannot make sense of the old header ends like a killed one.
LEMMA AbortKeeps == ASSUME PInv, NEW p \in Procs, Scan(p), pc'[p] # "body" PROVE PInv'
<1>1. Gone(p) /\ Abandon(p)
  BY DEF Scan, PInv, Shape
<1> QED BY <1>1, DiesEarly DEF Scan, Working, dirVars, Abandon

-----------------------------------------------------------------------------
(* The start of a run, and the readers.                                    *)

\* A run starts with a number that no file has, and with a published base.
LEMMA OpenOldKeeps == ASSUME PInv, NEW p \in Procs, OpenOld(p) PROVE PInv'
<1> USE FileNumbers DEF PInv
<1>0. /\ \A q \in Procs \ {p} : pc'[q] = pc[q] /\ mine'[q] = mine[q] /\ base'[q] = base[q]
      /\ pc'[p] = "create" /\ mine'[p] = run + 1 /\ base'[p] = name /\ run' = run + 1
      /\ run + 1 \in Runs /\ ~Working(p) /\ run \in Nat
      /\ UNCHANGED <<o_tmpfile, dirVars, file, readerVars>>
  BY PublishAssumption DEF OpenOld, Shape, Runs, Working
<1>1. Shape'
  BY <1>0 DEF Shape, OpenOld, PCs, Seen, SeenInv, readerVars, Foreign, None, Runs
<1>2. MineInv'
  <2>1. \A q \in Procs \ {p} : Working(q) => mine[q] \in Nat /\ mine[q] <= run
    BY DEF MineInv
  <2>2. run + 1 \notin published
    BY <1>0 DEF SeenInv
  <2>3. \A q \in Procs \ {p} : Working(q) => mine[q] # run + 1
    BY <1>0, <2>1
  <2>4. \A q \in Procs : Working(q)' =>
            mine'[q] \in Runs /\ mine'[q] <= run' /\ mine'[q] \notin published'
    BY <1>0, <2>1, <2>2 DEF MineInv, Working, dirVars
  <2>5. \A q, t \in Procs : Working(q)' /\ Working(t)' /\ mine'[q] = mine'[t] => q = t
    BY <1>0, <2>3 DEF MineInv, Working
  <2> QED BY <2>4, <2>5 DEF MineInv
<1>3. SeenInv'
  BY <1>0 DEF SeenInv, Seen, Working, dirVars, readerVars
<1>4. SoundInv'
  BY <1>0 DEF SoundInv, dirVars
<1>5. NameKept'
  BY NameKeptMove DEF OpenOld, dirVars
<1>6. LineageInv'
  BY <1>0 DEF LineageInv, dirVars, Past
<1> QED BY <1>1, <1>2, <1>3, <1>4, <1>5, <1>6

\* A search that fails has met a file that is not sound, hence damaged.
LEMMA ReaderKeeps ==
    ASSUME PInv, NEW r \in Readers, ReaderOpen(r) \/ ReaderHeader(r) \/ ReaderSearch(r)
    PROVE  PInv'
<1> USE FileNumbers DEF PInv
<1>1. UNCHANGED <<o_tmpfile, dirVars, file, procVars>>
  BY DEF ReaderOpen, ReaderHeader, ReaderSearch
<1>2. \A f \in published : Sound(file[f])
  BY DEF SoundInv
<1>3. rfd' \in [Readers -> Int] /\ refused' \in [Readers -> Int] /\ \A q \in Readers : rfd'[q] \in Seen
  BY DEF ReaderOpen, ReaderHeader, ReaderSearch, ReaderDone, Shape, SeenInv, Seen, None, Foreign, Runs
<1>4. \A q \in Readers : refused'[q] \in Seen /\ (refused'[q] \in Runs => file[refused'[q]].damaged)
  <2>1. CASE UNCHANGED refused
    BY <2>1 DEF SeenInv
  <2>2. CASE refused' = [refused EXCEPT ![r] = rfd[r]] /\ (rfd[r] \in published => ~(file[rfd[r]].header = "final" /\ file[rfd[r]].body = "whole"))
    <3>1. rfd[r] \in Seen /\ (rfd[r] \in Runs => file[rfd[r]].damaged)
      BY <1>2, <2>2 DEF SeenInv, Seen, Sound, None
    <3> QED BY <2>2, <3>1 DEF SeenInv, Shape
  <2> QED BY <2>1, <2>2 DEF ReaderOpen, ReaderHeader, ReaderSearch, ReaderDone
<1>5. Shape'
  BY <1>1, <1>3 DEF Shape, procVars
<1>6. SeenInv'
  BY <1>1, <1>3, <1>4 DEF SeenInv, Seen, Working, procVars, dirVars
<1>7. MineInv' /\ SoundInv' /\ NameKept' /\ LineageInv'
  BY <1>1 DEF MineInv, SoundInv, NameKept, LineageInv, Working, procVars, dirVars, Past
<1> QED BY <1>5, <1>6, <1>7

\* Every step keeps the invariant.
LEMMA StepPInv == PInv /\ [Next]_vars => PInv'
<1> SUFFICES ASSUME PInv, [Next]_vars PROVE PInv'
  OBVIOUS
<1>1. CASE UNCHANGED vars
  <2> USE <1>1 DEF PInv, vars, dirVars, procVars, readerVars
  <2>1. Shape'
    BY DEF Shape
  <2>2. MineInv' /\ SeenInv'
    BY DEF MineInv, SeenInv, Seen, Working
  <2>3. SoundInv' /\ NameKept'
    BY DEF SoundInv, Sound, NameKept
  <2>4. LineageInv'
    BY DEF LineageInv, Past
  <2> QED BY <2>1, <2>2, <2>3, <2>4
<1>2. ASSUME NEW p \in Procs, OpenOld(p) PROVE PInv'
  BY <1>2, OpenOldKeeps
<1>3. ASSUME NEW p \in Procs, Step(p) PROVE PInv'
  <2>1. CASE Create(p) \/ WriteBody(p) \/ WriteHeader(p) \/ Unlink(p)
    BY <2>1, CreateKeeps, WriteBodyKeeps, WriteHeaderKeeps, UnlinkKeeps
  <2>2. CASE Scan(p)
    BY <2>2, ScanKeeps, AbortKeeps
  <2>3. CASE Rename(p) \/ Linkat(p)
    BY <2>3, RenameKeeps, LinkatKeeps
  <2> QED BY <1>3, <2>1, <2>2, <2>3 DEF Step
<1>4. ASSUME NEW p \in Procs, Fault(p) PROVE PInv'
  BY <1>4, FaultKeeps
<1>5. ASSUME NEW r \in Readers, ReaderOpen(r) \/ ReaderHeader(r) \/ ReaderSearch(r) PROVE PInv'
  BY <1>5, ReaderKeeps
<1> QED BY <1>1, <1>2, <1>3, <1>4, <1>5 DEF Next

\* The invariant holds in every reachable state.
LEMMA Invariance == Spec => []PInv
BY InitPInv, StepPInv, PTL DEF Spec

-----------------------------------------------------------------------------

\* However many runs of updatedb overlap, fail or are killed, the file under
\* the name is one that finish_corpus() had completed, or one to which a write
\* had failed.
THEOREM CompletePublication == Spec => []PublishedComplete
<1>1. PInv => PublishedComplete
  BY FileNumbers DEF PInv, SeenInv, Seen, SoundInv, Sound, PublishedComplete, None
<1> QED BY <1>1, Invariance, PTL

\* A flocate process that has the database open is refused or cut short only
\* by a file that was damaged before it was published, whatever runs of
\* updatedb do to the name meanwhile.
THEOREM UndisturbedReaders == Spec => []ReaderUndisturbed
<1>1. PInv => ReaderUndisturbed
  BY DEF PInv, SeenInv, ReaderUndisturbed
<1> QED BY <1>1, Invariance, PTL

\* Once there has been a database, its name is missing only while a run is
\* between unlink() and linkat(), or after one died there.
THEOREM NameAlmostAlways == Spec => []NameKept
<1>1. PInv => NameKept
  BY DEF PInv
<1> QED BY <1>1, Invariance, PTL

-----------------------------------------------------------------------------
(* Publish implements DatabaseFile.                                        *)

\* No step of a process changes a file but its own.
LEMMA OwnFileOnly ==
    ASSUME PInv, NEW p \in Procs, OpenOld(p) \/ Step(p) \/ Fault(p)
    PROVE  \A f \in published : file'[f] = file[f]
<1>1. CASE UNCHANGED file
  BY <1>1
<1>2. CASE Working(p) /\ ~UNCHANGED file
  <2>1. published \subseteq Files /\ mine[p] \notin published /\ DOMAIN file = Files
    BY <1>2, FileNumbers DEF PInv, Shape, SeenInv, MineInv
  <2>2. CASE Create(p) \/ WriteBody(p) \/ WriteHeader(p)
    BY <2>1, <2>2 DEF Create, WriteBody, WriteHeader
  <2>3. CASE Scan(p)
    <3>1. CASE pc'[p] = "body"
      BY <1>2, <2>3, <3>1, ScanKeeps, FrameFacts
    <3>2. CASE pc'[p] # "body"
      BY <1>2, <2>1, <2>3, <3>2 DEF Scan, PInv, Shape, Abandon, Unnamed
    <3> QED BY <3>1, <3>2
  <2>4. CASE Linkat(p) \/ LinkatFails(p) \/ Kill(p)
    BY <1>2, <2>1, <2>4 DEF Linkat, LinkatFails, Kill, Abandon, Unnamed
  <2>5. CASE OpenOld(p) \/ SetupFails(p) \/ RenameFails(p) \/ Rename(p) \/ Unlink(p)
    BY <1>2, <2>5 DEF OpenOld, SetupFails, RenameFails, Rename, Unlink
  <2> QED BY <2>2, <2>3, <2>4, <2>5 DEF Step, Fault
<1>3. CASE ~Working(p)
  BY <1>3 DEF Working, OpenOld, Step, Fault, Create, Scan, WriteBody, WriteHeader, Rename, Unlink,
              Linkat, SetupFails, RenameFails, LinkatFails, Kill
<1> QED BY <1>1, <1>2, <1>3

\* A step that publishes nothing and leaves the name is none for the reader
\* of the name.
LEMMA Stutters ==
    ASSUME PInv, UNCHANGED <<name, published, o_tmpfile>>, \A f \in published : file'[f] = file[f]
    PROVE  UNCHANGED Abstract!vars
<1>1. name \in Runs => name \in published
  BY FileNumbers DEF PInv, SeenInv, Seen, None
<1> QED BY <1>1 DEF Abstract!vars

\* A step that publishes the file of p replaces the database by one that grew
\* from an earlier one.
LEMMA Replaces ==
    ASSUME PInv, NEW p \in Procs, pc[p] \in {"publish", "linkat"},
           name' = mine[p], published' = published \cup {mine[p]}, UNCHANGED <<file, o_tmpfile>>
    PROVE  Abstract!Next
<1>1. mine[p] \in Runs
  BY DEF PInv, MineInv, Working
<1>2. PICK b \in Past : file[mine[p]].lineage = Append(b, mine[p])
  BY DEF PInv, LineageInv
<1>3. {file'[f].lineage : f \in published'} =
          {file[f].lineage : f \in published} \cup {file[mine[p]].lineage}
  OBVIOUS
<1>4. Abstract!Replace(b, mine[p])
  BY <1>1, <1>2, <1>3 DEF Abstract!Replace
<1>5. \E a \in Past, r \in Runs : Abstract!Replace(a, r)
  BY <1>1, <1>2, <1>3 DEF Abstract!Replace
<1> QED BY <1>5, Zenon DEF Abstract!Next, Past, Abstract!NoDb

\* Taking the name away is the abstract withdrawal.
LEMMA Withdraws ==
    ASSUME PInv, o_tmpfile, name' = None, UNCHANGED <<file, published, o_tmpfile>>
    PROVE  Abstract!Next
<1>1. {file'[f].lineage : f \in published'} = {file[f].lineage : f \in published}
  OBVIOUS
<1>2. name' \notin Runs
  BY FileNumbers
<1>3. Abstract!Withdraw
  BY <1>1, <1>2 DEF Abstract!Withdraw, Abstract!NoDb
<1> QED BY <1>3 DEF Abstract!Next

\* Whoever opens the database by its name sees what DatabaseFile describes:
\* complete databases, each grown from one published before, replaced in one
\* step where rename() is used.
THEOREM Refinement == Spec => Refines
<1>1. Init => Abstract!Init
  BY FileNumbers, PublishAssumption DEF Init, Abstract!Init, Abstract!NoDb
<1>2. PInv /\ [Next]_vars => [Abstract!Next]_(Abstract!vars)
  <2> SUFFICES ASSUME PInv, [Next]_vars PROVE Abstract!Next \/ UNCHANGED Abstract!vars
    OBVIOUS
  <2>1. CASE UNCHANGED vars
    BY <2>1, Stutters DEF vars, dirVars
  <2>2. ASSUME NEW r \in Readers, ReaderOpen(r) \/ ReaderHeader(r) \/ ReaderSearch(r)
        PROVE  UNCHANGED Abstract!vars
    BY <2>2, Stutters DEF ReaderOpen, ReaderHeader, ReaderSearch, dirVars
  <2>3. ASSUME NEW p \in Procs, OpenOld(p) \/ Step(p) \/ Fault(p)
        PROVE  Abstract!Next \/ UNCHANGED Abstract!vars
    <3>1. CASE Rename(p)
      BY <3>1, Replaces DEF Rename
    <3>2. CASE Linkat(p) /\ name = None
      BY <3>2, Replaces DEF Linkat
    <3>3. CASE Unlink(p)
      BY <3>3, Withdraws DEF Unlink
    <3>4. CASE UNCHANGED <<name, published, o_tmpfile>>
      BY <2>3, <3>4, OwnFileOnly, Stutters
    <3> QED
      BY <2>3, <3>1, <3>2, <3>3, <3>4 DEF OpenOld, Step, Fault, Create, Scan, WriteBody, WriteHeader,
         Linkat, SetupFails, RenameFails, LinkatFails, Kill, dirVars
  <2> QED BY <2>1, <2>2, <2>3 DEF Next
<1> QED BY <1>1, <1>2, Invariance, PTL DEF Spec, Refines, Abstract!Spec

-----------------------------------------------------------------------------
(* What trim_history_runs() leaves of a history that consists of whole runs. *)

\* The events of one run: a marker, and after it no other.
OneRun(o) == o \in Seq(Event) /\ Len(o) >= 1 /\ \A i \in 1 .. Len(o) : IsMarker(o[i]) <=> i = 1

\* t[k] is what the runs after the a-th up to the k-th have told.
Chain(t, w, a, n) ==
    /\ a \in Nat /\ n \in Nat /\ a <= n
    /\ t[a] = <<>>
    /\ \A k \in a .. n : t[k] \in Seq(Event)
    /\ \A k \in a + 1 .. n : OneRun(w[k]) /\ t[k] = t[k - 1] \o w[k]

\* The link from one point to the next.
Link(t, w, j, k) ==
    /\ OneRun(w[k]) /\ w[k] \in Seq(Event) /\ t[j] \in Seq(Event) /\ t[k] \in Seq(Event)
    /\ t[k] = t[j] \o w[k]

LEMMA ChainStep ==
    ASSUME NEW t, NEW w, NEW a, NEW n, Chain(t, w, a, n), NEW j \in Nat, NEW k \in Nat,
           a <= j, k = j + 1, k <= n
    PROVE  Link(t, w, j, k)
<1>1. a \in Nat /\ n \in Nat
  BY DEF Chain
<1>2. k \in a + 1 .. n /\ k \in a .. n /\ j \in a .. n /\ k - 1 = j
  BY <1>1
<1>3. OneRun(w[k]) /\ t[k] = t[k - 1] \o w[k] /\ t[k] \in Seq(Event) /\ t[j] \in Seq(Event)
  BY <1>2 DEF Chain
<1> QED BY <1>2, <1>3 DEF Link, OneRun

\* The markers of a history, and those behind its first m events.
Marks(h, m) == {i \in 1 .. Len(h) : i > m /\ IsMarker(h[i])}

\* A run adds one marker behind what was there.
LEMMA RunAdded ==
    ASSUME NEW h \in Seq(Event), NEW o, OneRun(o), NEW m \in 0 .. Len(h)
    PROVE  /\ Marks(h \o o, m) = Marks(h, m) \cup {Len(h) + 1}
           /\ Len(h) + 1 \notin Marks(h, m)
           /\ Len(h \o o) = Len(h) + Len(o)
<1>1. o \in Seq(Event) /\ Len(o) \in Nat /\ Len(h) \in Nat /\ Len(o) >= 1
  BY DEF OneRun
<1>2. Len(h \o o) = Len(h) + Len(o)
  BY <1>1
<1>3. \A i \in 1 .. Len(h) : (h \o o)[i] = h[i]
  BY <1>1
<1>4. \A i \in Len(h) + 1 .. Len(h) + Len(o) : (h \o o)[i] = o[i - Len(h)]
  BY <1>1
<1>5. \A i \in Len(h) + 1 .. Len(h) + Len(o) : IsMarker((h \o o)[i]) <=> i = Len(h) + 1
  <2> TAKE i \in Len(h) + 1 .. Len(h) + Len(o)
  <2>1. i - Len(h) \in 1 .. Len(o) /\ (h \o o)[i] = o[i - Len(h)]
    BY <1>1, <1>4
  <2>2. IsMarker(o[i - Len(h)]) <=> i - Len(h) = 1
    BY <2>1 DEF OneRun
  <2> QED BY <1>1, <2>1, <2>2
<1> DEFINE g == h \o o
           N == Len(h)
           M == Len(o)
<1> HIDE DEF g, N, M
<1>6. N \in Nat /\ M \in Nat /\ M >= 1 /\ m \in 0 .. N /\ Len(g) = N + M
  BY <1>1, <1>2 DEF g, N, M
<1>7. \A i \in 1 .. N : IsMarker(g[i]) <=> IsMarker(h[i])
  BY <1>3 DEF g, N
<1>8. \A i \in N + 1 .. N + M : IsMarker(g[i]) <=> i = N + 1
  BY <1>5 DEF g, N, M
<1>9. Marks(g, m) = {i \in 1 .. N : i > m /\ IsMarker(h[i])} \cup {N + 1}
  BY <1>6, <1>7, <1>8 DEF Marks
<1>10. Marks(h, m) = {i \in 1 .. N : i > m /\ IsMarker(h[i])}
  BY DEF Marks, N
<1>11. N + 1 \notin Marks(h, m)
  BY <1>6, <1>10
<1> QED BY <1>2, <1>9, <1>10, <1>11 DEF g, N

\* A later point of a chain has told what an earlier one has, and one marker
\* for each run since.
ChainFacts(t, m, k) ==
    /\ Len(t[m]) <= Len(t[k]) /\ \A i \in 1 .. Len(t[m]) : t[k][i] = t[m][i]
    /\ IsFiniteSet(Marks(t[k], Len(t[m]))) /\ Cardinality(Marks(t[k], Len(t[m]))) = k - m

LEMMA ChainGrows ==
    ASSUME NEW t, NEW w, NEW a, NEW n, Chain(t, w, a, n), NEW m \in a .. n
    PROVE  \A k \in m .. n : ChainFacts(t, m, k)
<1> DEFINE S == {d \in Nat : m + d <= n => ChainFacts(t, m, m + d)}
<1>1. a \in Nat /\ n \in Nat /\ m \in Nat
  BY DEF Chain
<1>2. 0 \in S
  <2>1. t[m] \in Seq(Event) /\ Len(t[m]) \in Nat
    BY DEF Chain
  <2>2. Marks(t[m], Len(t[m])) = {}
    BY <2>1 DEF Marks
  <2>3. ChainFacts(t, m, m)
    BY <1>1, <2>1, <2>2, FS_EmptySet DEF ChainFacts
  <2> QED BY <1>1, <2>3
<1>3. ASSUME NEW d \in Nat, d \in S PROVE d + 1 \in S
  <2> SUFFICES ASSUME m + (d + 1) <= n PROVE ChainFacts(t, m, m + (d + 1))
    OBVIOUS
  <2> DEFINE k == m + (d + 1)
  <2>1. k \in a + 1 .. n /\ k - 1 \in a .. n /\ k - 1 = m + d /\ m + d <= n /\ k \in Nat
    BY <1>1
  <2> HIDE DEF k
  <2>2. ChainFacts(t, m, k - 1)
    BY <1>3, <2>1
  <2>3. OneRun(w[k]) /\ t[k] = t[k - 1] \o w[k] /\ t[k - 1] \in Seq(Event) /\ t[m] \in Seq(Event)
    BY <2>1 DEF Chain
  <2>4. Len(t[m]) \in 0 .. Len(t[k - 1])
    BY <2>2, <2>3 DEF ChainFacts
  <2>5. /\ Marks(t[k], Len(t[m])) = Marks(t[k - 1], Len(t[m])) \cup {Len(t[k - 1]) + 1}
        /\ Len(t[k - 1]) + 1 \notin Marks(t[k - 1], Len(t[m]))
        /\ Len(t[k]) = Len(t[k - 1]) + Len(w[k])
    BY <2>3, <2>4, RunAdded
  <2>6. /\ IsFiniteSet(Marks(t[k], Len(t[m])))
        /\ Cardinality(Marks(t[k], Len(t[m]))) = Cardinality(Marks(t[k - 1], Len(t[m]))) + 1
    BY <2>2, <2>5, FS_AddElement DEF ChainFacts
  <2>7. Len(w[k]) \in Nat
    BY <2>3 DEF OneRun
  <2>8. Len(t[m]) <= Len(t[k])
    <3>1. Len(t[k - 1]) \in Nat /\ Len(t[m]) \in Nat
      BY <2>3
    <3> DEFINE A == Len(t[m])
               B == Len(t[k - 1])
               C == Len(w[k])
    <3>2. A \in Nat /\ B \in Nat /\ C \in Nat /\ A <= B /\ Len(t[k]) = B + C
      BY <2>4, <2>5, <2>7, <3>1
    <3> HIDE DEF A, B, C
    <3>3. A <= B + C
      BY <3>2
    <3> QED BY <3>2, <3>3 DEF A
  <2>9. ASSUME NEW i \in 1 .. Len(t[m]) PROVE t[k][i] = t[m][i]
    <3>1. t[k - 1][i] = t[m][i]
      BY <2>2 DEF ChainFacts
    <3>2. i \in 1 .. Len(t[k - 1]) /\ w[k] \in Seq(Event)
      BY <2>3, <2>4 DEF OneRun
    <3> DEFINE h == t[k - 1]
               o == w[k]
    <3>3. h \in Seq(Event) /\ o \in Seq(Event) /\ i \in 1 .. Len(h) /\ t[k] = h \o o
      BY <2>3, <3>2
    <3> HIDE DEF h, o
    <3>4. (h \o o)[i] = h[i]
      BY <3>3
    <3> QED BY <3>1, <3>3, <3>4 DEF h
  <2>10. ChainFacts(t, m, k)
    BY <1>1, <2>1, <2>2, <2>6, <2>8, <2>9 DEF ChainFacts
  <2> QED BY <2>10 DEF k
<1> HIDE DEF S
<1>4. Nat \subseteq S
  BY <1>2, <1>3, SetInduction
<1>5. ASSUME NEW k \in m .. n PROVE ChainFacts(t, m, k)
  <2>1. k - m \in Nat /\ m + (k - m) = k /\ k <= n
    BY <1>1
  <2>2. k - m \in S
    BY <1>4, <2>1
  <2> QED BY <2>1, <2>2 DEF S
<1> QED BY <1>5

\* What the runs after the m-th have told, without the others.
Cut(t, m, n) == [k \in m .. n |-> SubSeq(t[k], Len(t[m]) + 1, Len(t[k]))]

LEMMA CutBehind ==
    ASSUME NEW h \in Seq(Event), NEW o \in Seq(Event), NEW m \in 0 .. Len(h)
    PROVE  SubSeq(h \o o, m + 1, Len(h \o o)) = SubSeq(h, m + 1, Len(h)) \o o
<1> DEFINE x == SubSeq(h \o o, m + 1, Len(h \o o))
           y == SubSeq(h, m + 1, Len(h))
           z == y \o o
<1>1. Len(h) \in Nat /\ Len(o) \in Nat /\ h \o o \in Seq(Event) /\ Len(h \o o) = Len(h) + Len(o)
  OBVIOUS
<1>2. x \in Seq(Event) /\ Len(x) = Len(h) + Len(o) - m
  BY <1>1
<1>3. y \in Seq(Event) /\ Len(y) = Len(h) - m
  BY <1>1
<1>4. z \in Seq(Event) /\ Len(z) = Len(h) + Len(o) - m
  BY <1>1, <1>3
<1>5. \A i \in 1 .. Len(h) + Len(o) - m : x[i] = (h \o o)[m + i]
  BY <1>1
<1>6. \A i \in 1 .. Len(h) - m : y[i] = h[m + i]
  BY <1>1
<1> HIDE DEF x, y
<1>7. ASSUME NEW i \in 1 .. Len(h) + Len(o) - m PROVE x[i] = z[i]
  <2>1. CASE i <= Len(h) - m
    <3>1. z[i] = y[i]
      BY <1>1, <1>3, <2>1
    <3>2. (h \o o)[m + i] = h[m + i]
      BY <1>1, <2>1
    <3> QED BY <1>1, <1>5, <1>6, <2>1, <3>1, <3>2
  <2>2. CASE i > Len(h) - m
    <3>1. z[i] = o[i - (Len(h) - m)]
      BY <1>1, <1>3, <2>2
    <3>2. (h \o o)[m + i] = o[m + i - Len(h)]
      BY <1>1, <2>2
    <3>3. i - (Len(h) - m) = m + i - Len(h)
      BY <1>1
    <3> QED BY <1>5, <3>1, <3>2, <3>3
  <2>3. i \in Int /\ Len(h) - m \in Int
    BY <1>1
  <2>4. i <= Len(h) - m \/ i > Len(h) - m
    BY <2>3
  <2> QED BY <2>1, <2>2, <2>4
<1> HIDE DEF z
<1>8. x = z
  BY <1>1, <1>2, <1>4, <1>7
<1> QED BY <1>8 DEF x, y, z

\* It is a chain of its own.
LEMMA CutChain ==
    ASSUME NEW t, NEW w, NEW a, NEW n, Chain(t, w, a, n), NEW m \in a .. n
    PROVE  Chain(Cut(t, m, n), w, m, n)
<1> DEFINE u == Cut(t, m, n)
<1>1. a \in Nat /\ n \in Nat /\ m \in Nat /\ m <= n /\ \A k \in m .. n : t[k] \in Seq(Event)
  BY DEF Chain
<1>2. \A k \in m .. n : u[k] = SubSeq(t[k], Len(t[m]) + 1, Len(t[k]))
  BY DEF Cut
<1> HIDE DEF u
<1>3. \A k \in m .. n : u[k] \in Seq(Event)
  <2> TAKE k \in m .. n
  <2>1. t[k] \in Seq(Event) /\ t[m] \in Seq(Event) /\ Len(t[m]) \in Nat
    BY <1>1
  <2> DEFINE h == t[k]
             l == Len(t[m])
  <2>2. h \in Seq(Event) /\ l \in Nat /\ u[k] = SubSeq(h, l + 1, Len(h))
    BY <1>2, <2>1
  <2> HIDE DEF h, l
  <2> QED BY <2>2
<1>4. u[m] = <<>>
  <2>1. t[m] \in Seq(Event) /\ Len(t[m]) \in Nat
    BY <1>1
  <2>2. SubSeq(t[m], Len(t[m]) + 1, Len(t[m])) = <<>>
    BY <2>1
  <2>3. m \in m .. n
    BY <1>1
  <2> QED BY <1>2, <2>2, <2>3
<1>5. ASSUME NEW k \in m + 1 .. n PROVE OneRun(w[k]) /\ u[k] = u[k - 1] \o w[k]
  <2>1. k \in a + 1 .. n /\ k \in m .. n /\ k - 1 \in m .. n
    BY <1>1
  <2>2. OneRun(w[k]) /\ t[k] = t[k - 1] \o w[k]
    BY <2>1 DEF Chain
  <2>3. t[k - 1] \in Seq(Event) /\ w[k] \in Seq(Event) /\ t[m] \in Seq(Event)
    BY <1>1, <2>1, <2>2 DEF OneRun
  <2>4. Len(t[m]) <= Len(t[k - 1])
    BY <2>1, ChainGrows DEF ChainFacts
  <2>5. Len(t[m]) \in 0 .. Len(t[k - 1])
    BY <2>3, <2>4
  <2>6. SubSeq(t[k], Len(t[m]) + 1, Len(t[k]))
          = SubSeq(t[k - 1], Len(t[m]) + 1, Len(t[k - 1])) \o w[k]
    BY <2>2, <2>3, <2>5, CutBehind
  <2> QED BY <1>2, <2>1, <2>2, <2>6
<1>6. Chain(u, w, m, n)
  BY <1>1, <1>3, <1>4, <1>5 DEF Chain
<1> QED BY <1>6 DEF u

\* A chain begins with a marker, so the decoder finds nothing to repair and the
\* places where runs start are the markers.
LEMMA ChainOpens ==
    ASSUME NEW t, NEW w, NEW a, NEW n, Chain(t, w, a, n)
    PROVE  /\ decode_history_stream(t[n]) = t[n]
           /\ run_starts(t[n]) = Marks(t[n], 0)
<1>1. a \in Nat /\ n \in Nat /\ a <= n /\ t[n] \in Seq(Event) /\ t[a] = <<>>
  BY DEF Chain
<1>2. CASE n = a
  BY <1>1, <1>2 DEF decode_history_stream, run_starts, Marks
<1>3. CASE n > a
  <2> DEFINE e == a + 1
  <2>1. e \in Nat /\ e <= n /\ e = a + 1 /\ e \in a .. n /\ n \in e .. n
    BY <1>1, <1>3
  <2> HIDE DEF e
  <2>2. Link(t, w, a, e)
    BY <1>1, <2>1, ChainStep
  <2>3. w[e] \in Seq(Event) /\ Len(w[e]) >= 1 /\ IsMarker(w[e][1])
    BY <2>2 DEF Link, OneRun
  <2>4. t[e] = w[e]
    BY <1>1, <2>2, <2>3 DEF Link
  <2>5. ChainFacts(t, e, n)
    BY <2>1, ChainGrows
  <2>6. IsMarker(t[n][1])
    BY <2>3, <2>4, <2>5 DEF ChainFacts
  <2>7. run_starts(t[n]) = Marks(t[n], 0)
    BY <1>1, <2>6 DEF run_starts, Marks
  <2> QED BY <2>6, <2>7 DEF decode_history_stream
<1> QED BY <1>1, <1>2, <1>3

\* trim_history_runs() leaves the last d runs.
LastRuns(t, a, n, d) == IF n - d <= a THEN t[n] ELSE Cut(t, n - d, n)[n]

LEMMA Trimmed ==
    ASSUME NEW t, NEW w, NEW a, NEW n, Chain(t, w, a, n), NEW d \in Nat \ {0}
    PROVE  trim_history_runs(t[n], d) = LastRuns(t, a, n, d)
<1> DEFINE starts == run_starts(t[n])
<1>1. a \in Nat /\ n \in Nat /\ a <= n /\ t[n] \in Seq(Event) /\ t[a] = <<>>
  BY DEF Chain
<1>2. starts = Marks(t[n], 0)
  BY ChainOpens
<1> HIDE DEF starts
<1>3. IsFiniteSet(starts) /\ Cardinality(starts) = n - a
  <2>1. ChainFacts(t, a, n) /\ Len(t[a]) = 0
    BY <1>1, ChainGrows
  <2> QED BY <1>2, <2>1 DEF ChainFacts
<1>4. CASE n - d <= a
  BY <1>1, <1>3, <1>4 DEF trim_history_runs, starts, LastRuns
<1>5. CASE n - d > a
  <2> DEFINE m == n - d
             x == Len(t[m]) + 1
             Behind(i) == {j \in starts : j >= i}
  <2> DEFINE e == m + 1
  <2>1. m \in a .. n /\ n \in m .. n /\ e \in a .. n /\ n \in e .. n /\ n - m = d
    BY <1>1, <1>5
  <2>2. m \in Nat /\ e \in Nat /\ a <= m /\ e = m + 1 /\ e <= n
    BY <1>1, <1>5
  <2> HIDE DEF m, e
  <2>3. Link(t, w, m, e)
    BY <2>2, ChainStep
  <2>4. ChainFacts(t, m, n) /\ ChainFacts(t, e, n)
    BY <2>1, ChainGrows
  <2>5. Len(t[m]) \in Nat
    BY <2>3 DEF Link
  <2>6. Behind(x) = Marks(t[n], Len(t[m]))
    BY <1>1, <1>2, <2>5 DEF Marks
  <2>7. IsFiniteSet(Behind(x)) /\ Cardinality(Behind(x)) = d
    BY <2>1, <2>4, <2>6 DEF ChainFacts
  <2>8. x \in starts
    <3> DEFINE h == t[m]
               o == w[e]
    <3>1. /\ h \in Seq(Event) /\ o \in Seq(Event) /\ Len(o) >= 1 /\ IsMarker(o[1])
          /\ t[e] = h \o o /\ x = Len(h) + 1
      BY <2>3 DEF Link, OneRun
    <3> HIDE DEF h, o, x
    <3>2. (h \o o)[Len(h) + 1] = o[1] /\ Len(h \o o) >= Len(h) + 1 /\ Len(h \o o) \in Nat /\ Len(h) \in Nat
      BY <3>1
    <3>3. Len(t[e]) <= Len(t[n]) /\ \A i \in 1 .. Len(t[e]) : t[n][i] = t[e][i]
      BY <2>4 DEF ChainFacts
    <3>4. x \in 1 .. Len(t[e]) /\ x \in 1 .. Len(t[n]) /\ x > 0
      BY <1>1, <3>1, <3>2, <3>3
    <3>5. IsMarker(t[n][x])
      BY <3>1, <3>2, <3>3, <3>4
    <3> QED BY <1>2, <3>4, <3>5 DEF Marks
  <2> DEFINE Last(i) == Cardinality(Behind(i)) = d
  <2>9. \A i \in starts : i \in Nat
    BY <1>1, <1>2 DEF Marks
  <2> HIDE DEF x
  <2>10. ASSUME NEW i \in starts, Last(i) PROVE i = x
    <3>1. IsFiniteSet(Behind(i))
      BY <1>3, FS_Subset
    <3>2. CASE i < x
      <4>1. Behind(x) \subseteq Behind(i) /\ i \in Behind(i) /\ i \notin Behind(x)
        BY <2>8, <2>9, <3>2
      <4>2. Behind(x) = Behind(i)
        BY <2>7, <2>10, <3>1, <4>1, FS_Subset
      <4> QED BY <4>1, <4>2
    <3>3. CASE i > x
      <4>1. Behind(i) \subseteq Behind(x) /\ x \in Behind(x) /\ x \notin Behind(i)
        BY <2>8, <2>9, <3>3
      <4>2. Behind(x) = Behind(i)
        BY <2>7, <2>10, <4>1, FS_Subset
      <4> QED BY <4>1, <4>2
    <3> QED BY <2>8, <2>9, <3>2, <3>3
  <2>11. (CHOOSE i \in starts : Cardinality({j \in starts : j >= i}) = d) = x
    BY <2>7, <2>8, <2>10
  <2>12. trim_history_runs(t[n], d) = SubSeq(t[n], x, Len(t[n]))
    <3>1. ~(d <= 0) /\ ~(Cardinality(starts) <= d)
      BY <1>1, <1>3, <1>5
    <3> QED BY <2>11, <3>1 DEF trim_history_runs, starts
  <2>13. Cut(t, m, n)[n] = SubSeq(t[n], Len(t[m]) + 1, Len(t[n]))
    BY <2>1 DEF Cut
  <2>14. ~(n - d <= a)
    BY <1>1, <1>5
  <2> QED BY <2>12, <2>13, <2>14 DEF x, m, LastRuns
<1> QED BY <1>1, <1>4, <1>5

-----------------------------------------------------------------------------
(* What a lineage tells.                                                   *)

\* F holds the contents of the files.  The events of a lineage's runs, and
\* whether those of the i-th are still there.
Owns(F, L) == [k \in 1 .. Len(L) |-> F[L[k]].own]
Keeps(F, L, i) == \A j \in i .. Len(L) : j - i < F[L[j]].conf

\* The history h is what the runs after the a-th have told, and they survive.
TellsBy(F, L, h, a, t) ==
    /\ Chain(t, Owns(F, L), a, Len(L)) /\ h = t[Len(L)]
    /\ \A i \in 1 .. Len(L) : Keeps(F, L, i) <=> i > a
Tells(F, L, h) == \E a, t : TellsBy(F, L, h, a, t)

\* Nothing else of the files matters.
LEMMA TellsStays ==
    ASSUME NEW F, NEW G, NEW L, NEW h, Tells(F, L, h),
           \A j \in 1 .. Len(L) : G[L[j]].conf = F[L[j]].conf /\ G[L[j]].own = F[L[j]].own,
           L \in Seq(Runs)
    PROVE  Tells(G, L, h)
<1>1. PICK a, t : TellsBy(F, L, h, a, t)
  BY DEF Tells
<1>2. Owns(G, L) = Owns(F, L)
  BY DEF Owns
<1>3. ASSUME NEW i \in 1 .. Len(L) PROVE Keeps(G, L, i) <=> Keeps(F, L, i)
  <2>1. Len(L) \in Nat
    OBVIOUS
  <2>2. \A j \in i .. Len(L) : G[L[j]].conf = F[L[j]].conf
    BY <2>1
  <2> QED BY <2>2 DEF Keeps
<1>4. TellsBy(G, L, h, a, t)
  BY <1>1, <1>2, <1>3 DEF TellsBy
<1> QED BY <1>4 DEF Tells

\* The last run has kept the events of those before it that were there and that
\* its depth allows.
LEMMA KeptByLast ==
    ASSUME NEW F, NEW L \in Seq(Runs), NEW f \in Runs, F[f].conf \in Nat,
           NEW a \in 0 .. Len(L), \A i \in 1 .. Len(L) : Keeps(F, L, i) <=> i > a,
           NEW b, b = IF Len(L) + 1 - F[f].conf <= a THEN a ELSE Len(L) + 1 - F[f].conf
    PROVE  \A i \in 1 .. Len(L) + 1 : Keeps(F, Append(L, f), i) <=> i > b
<1> DEFINE n == Len(L)
           d == F[f].conf
           M == Append(L, f)
<1>1. n \in Nat /\ d \in Nat /\ Len(M) = n + 1 /\ M[n + 1] = f /\ \A j \in 1 .. n : M[j] = L[j]
  OBVIOUS
<1>2. b = IF n + 1 - d <= a THEN a ELSE n + 1 - d
  OBVIOUS
<1>3. \A i \in 1 .. n : Keeps(F, L, i) <=> i > a
  OBVIOUS
<1>4. \A i \in 1 .. n : Keeps(F, L, i) <=> \A j \in i .. n : j - i < F[L[j]].conf
  BY DEF Keeps
<1>5. a \in 0 .. n
  OBVIOUS
<1> HIDE DEF n, M
<1>6. \A i \in 1 .. n + 1 : Keeps(F, M, i) <=> \A j \in i .. n + 1 : j - i < F[M[j]].conf
  BY <1>1 DEF Keeps
<1>7. F[M[n + 1]].conf = d
  BY <1>1
<1> HIDE DEF d
<1>8. ASSUME NEW i \in 1 .. n + 1 PROVE Keeps(F, M, i) <=> i > b
  <2>1. CASE i = n + 1
    <3>1. Keeps(F, M, i) <=> 0 < d
      BY <1>1, <1>6, <1>7, <2>1
    <3>2. i > b <=> 0 < d
      BY <1>1, <1>2, <1>5, <2>1
    <3> QED BY <3>1, <3>2
  <2>2. CASE i # n + 1
    <3>1. i \in 1 .. n
      BY <1>1, <2>2
    <3>2. \A j \in i .. n : M[j] = L[j]
      BY <1>1, <3>1
    <3>3. (\A j \in i .. n + 1 : j - i < F[M[j]].conf)
            <=> (\A j \in i .. n : j - i < F[L[j]].conf) /\ n + 1 - i < d
      BY <1>1, <1>7, <3>1, <3>2
    <3>4. Keeps(F, M, i) <=> i > a /\ n + 1 - i < d
      BY <1>3, <1>4, <1>6, <3>1, <3>3
    <3>5. i > b <=> i > a /\ n + 1 - i < d
      BY <1>1, <1>2, <1>5, <3>1
    <3> QED BY <3>4, <3>5
  <2> QED BY <2>1, <2>2
<1> QED BY <1>8 DEF n, M

\* One run more.
Extended(t, a, n, o) == [k \in a .. n + 1 |-> IF k <= n THEN t[k] ELSE t[n] \o o]
Longer(v, w, n, o) == v[n + 1] = o /\ \A k \in 1 .. n : v[k] = w[k]
ExtendedChain(t, v, a, n, o) ==
    Chain(Extended(t, a, n, o), v, a, n + 1) /\ Extended(t, a, n, o)[n + 1] = t[n] \o o

LEMMA ChainExtended ==
    ASSUME NEW t, NEW w, NEW v, NEW a, NEW n, Chain(t, w, a, n), NEW o, OneRun(o),
           Longer(v, w, n, o)
    PROVE  ExtendedChain(t, v, a, n, o)
<1> DEFINE u == Extended(t, a, n, o)
<1>0. u = [k \in a .. n + 1 |-> IF k <= n THEN t[k] ELSE t[n] \o o]
  BY DEF Extended
<1> HIDE DEF u
<1>1. a \in Nat /\ n \in Nat /\ a <= n /\ t[a] = <<>> /\ o \in Seq(Event) /\ n + 1 \in Nat
  BY DEF Chain, OneRun
<1>2. \A k \in a .. n : u[k] = t[k] /\ t[k] \in Seq(Event)
  BY <1>0, <1>1 DEF Chain
<1>3. u[n + 1] = t[n] \o o
  <2>1. n + 1 \in a .. n + 1 /\ ~(n + 1 <= n)
    BY <1>1
  <2> QED BY <1>0, <2>1
<1>4. t[n] \in Seq(Event) /\ u[n] = t[n] /\ u[a] = <<>>
  <2>1. n \in a .. n /\ a \in a .. n
    BY <1>1
  <2> QED BY <1>1, <1>2, <2>1
<1>5. u[n + 1] \in Seq(Event)
  BY <1>1, <1>3, <1>4
<1>6. \A k \in a .. n + 1 : u[k] \in Seq(Event)
  <2> TAKE k \in a .. n + 1
  <2>1. k \in a .. n \/ k = n + 1
    BY <1>1
  <2> QED BY <1>2, <1>5, <2>1
<1>7. ASSUME NEW k \in a + 1 .. n + 1 PROVE OneRun(v[k]) /\ u[k] = u[k - 1] \o v[k]
  <2>1. CASE k = n + 1
    <3>1. k - 1 = n
      BY <1>1, <2>1
    <3> QED BY <1>3, <1>4, <2>1, <3>1 DEF Longer
  <2>2. CASE k # n + 1
    <3>1. k \in a + 1 .. n /\ k \in a .. n /\ k - 1 \in a .. n /\ k \in 1 .. n
      BY <1>1, <2>2
    <3>2. OneRun(w[k]) /\ t[k] = t[k - 1] \o w[k]
      BY <3>1 DEF Chain
    <3> QED BY <1>2, <3>1, <3>2 DEF Longer
  <2> QED BY <2>1, <2>2
<1>8. a <= n + 1
  BY <1>1
<1>9. Chain(u, v, a, n + 1)
  BY <1>1, <1>4, <1>6, <1>7, <1>8 DEF Chain
<1> QED BY <1>3, <1>9 DEF u, ExtendedChain

\* A run's own history is one run, and a depth of 1 keeps it.
LEMMA OwnKept ==
    ASSUME NEW o, OneRun(o)
    PROVE  trim_history_runs(o, 1) = o
<1> DEFINE t == [k \in 0 .. 1 |-> IF k = 0 THEN <<>> ELSE o]
           w == [k \in 1 .. 1 |-> o]
<1>1. o \in Seq(Event) /\ t[0] = <<>> /\ t[1] = o /\ w[1] = o
  BY DEF OneRun
<1> HIDE DEF t, w
<1>2. t[1] = t[1 - 1] \o w[1]
  <2>1. o = <<>> \o o /\ 1 - 1 = 0
    BY <1>1
  <2> QED BY <1>1, <2>1
<1>3. 0 .. 1 = {0, 1} /\ 0 + 1 .. 1 = {1}
  OBVIOUS
<1>4. Chain(t, w, 0, 1)
  <2>1. \A k \in 0 .. 1 : t[k] \in Seq(Event)
    <3>1. <<>> \in Seq(Event)
      OBVIOUS
    <3>2. \A k \in {0, 1} : t[k] \in Seq(Event)
      BY <1>1, <3>1, Zenon
    <3> QED BY <1>3, <3>2, Zenon
  <2>2. \A k \in {1} : OneRun(w[k]) /\ t[k] = t[k - 1] \o w[k]
    BY <1>1, <1>2
  <2>3. \A k \in 0 + 1 .. 1 : OneRun(w[k]) /\ t[k] = t[k - 1] \o w[k]
    BY <1>3, <2>2
  <2>4. 0 \in Nat /\ 1 \in Nat /\ 0 <= 1
    OBVIOUS
  <2> QED BY <1>1, <2>1, <2>3, <2>4, Zenon DEF Chain
<1>5. 1 - 1 <= 0 /\ 1 \in Nat \ {0}
  OBVIOUS
<1>6. trim_history_runs(t[1], 1) = t[1]
  BY <1>4, <1>5, Trimmed DEF LastRuns
<1> QED BY <1>1, <1>6

\* The history that updatedb's main() gives to the builder is what the lineage
\* that ends with this run tells.
LEMMA NewTells ==
    ASSUME NEW F, NEW L \in Seq(Runs), NEW h, Tells(F, L, h),
           NEW f \in Runs, F[f].conf \in Nat, OneRun(F[f].own)
    PROVE  Tells(F, Append(L, f), NewHistory(decode_history_stream(h), F[f].own, F[f].conf))
<1> DEFINE n == Len(L)
           d == F[f].conf
           o == F[f].own
           M == Append(L, f)
           w == Owns(F, L)
           v == Owns(F, M)
<1>1. PICK a, t : TellsBy(F, L, h, a, t)
  BY DEF Tells
<1> DEFINE N == n + 1
           u == Extended(t, a, n, o)
           b == IF N - d <= a THEN a ELSE N - d
           g == NewHistory(decode_history_stream(h), o, d)
<1>2. Chain(t, w, a, n) /\ h = t[n]
  BY <1>1 DEF TellsBy
<1>3. n \in Nat /\ d \in Nat /\ a \in Nat /\ a <= n /\ N \in Nat /\ N = n + 1 /\ t[a] = <<>> /\ o \in Seq(Event)
  BY <1>2 DEF Chain, OneRun
<1>4. Len(M) = N /\ M \in Seq(Runs) /\ M[n + 1] = f /\ \A k \in 1 .. n : M[k] = L[k]
  OBVIOUS
<1>5. Longer(v, w, n, o)
  <2>1. n + 1 \in 1 .. Len(M) /\ \A k \in 1 .. n : k \in 1 .. Len(M)
    BY <1>3, <1>4
  <2> QED BY <1>4, <2>1 DEF Owns, Longer
<1>6. a \in 0 .. n
  BY <1>3
<1>7. \A i \in 1 .. N : Keeps(F, M, i) <=> i > b
  BY <1>1, <1>6, KeptByLast DEF TellsBy
<1> HIDE DEF n, d, o, M, w, v
<1>8. Chain(u, v, a, n + 1) /\ u[n + 1] = t[n] \o o
  <2>1. OneRun(o)
    BY DEF o
  <2>2. ExtendedChain(t, v, a, n, o)
    BY <1>2, <1>5, <2>1, ChainExtended
  <2> QED BY <2>2 DEF ExtendedChain
<1> HIDE DEF u, N, g
<1>9. decode_history_stream(h) = h
  BY <1>2, ChainOpens
<1>10. Chain(u, v, a, N) /\ u[N] = h \o o
  BY <1>2, <1>3, <1>8
<1>11. d > 1 => g = trim_history_runs(u[N], d)
  BY <1>9, <1>10 DEF g, NewHistory
<1>12. ~(d > 1) => g = trim_history_runs(o, d)
  BY DEF g, NewHistory
<1> DEFINE c == Cut(u, b, N)
<1>13. b \in a .. N /\ b \in Nat
  BY <1>3
<1>14. b = IF N - d <= a THEN a ELSE N - d
  OBVIOUS
<1> HIDE DEF b
<1>15. Chain(c, v, b, N)
  BY <1>10, <1>13, CutChain
<1> HIDE DEF c
<1>16. CASE d = 0
  <2>1. b = N
    BY <1>3, <1>14, <1>16
  <2>2. c[N] = <<>>
    BY <1>15, <2>1 DEF Chain
  <2>3. g = <<>>
    BY <1>12, <1>16 DEF trim_history_runs
  <2>4. TellsBy(F, M, g, b, c)
    BY <1>4, <1>7, <1>15, <2>2, <2>3 DEF TellsBy, v
  <2> QED BY <2>4 DEF Tells, g, M, o, d
<1>17. CASE d = 1
  <2>1. g = o
    BY <1>12, <1>17, OwnKept DEF o
  <2>2. b = n
    BY <1>3, <1>14, <1>17
  <2>3. Link(c, v, b, N) /\ c[b] = <<>>
    <3>1. b <= b /\ N = b + 1 /\ N <= N
      BY <1>3, <1>13, <2>2
    <3> QED BY <1>3, <1>13, <1>15, <3>1, ChainStep DEF Chain
  <2>4. v[N] = o
    BY <1>3, <1>5 DEF Longer
  <2>5. c[N] = o
    BY <1>3, <2>3, <2>4 DEF Link
  <2>6. TellsBy(F, M, g, b, c)
    BY <1>4, <1>7, <1>15, <2>1, <2>5 DEF TellsBy, v
  <2> QED BY <2>6 DEF Tells, g, M, o, d
<1>18. CASE d > 1
  <2>1. trim_history_runs(u[N], d) = IF N - d <= a THEN u[N] ELSE Cut(u, N - d, N)[N]
    <3>1. d \in Nat \ {0}
      BY <1>3, <1>18
    <3> QED BY <1>10, <3>1, Trimmed DEF LastRuns
  <2>2. CASE N - d <= a
    <3>1. g = u[N] /\ b = a
      BY <1>11, <1>14, <1>18, <2>1, <2>2
    <3>2. TellsBy(F, M, g, a, u)
      BY <1>4, <1>7, <1>10, <3>1 DEF TellsBy, v
    <3> QED BY <3>2 DEF Tells, g, M, o, d
  <2>3. CASE ~(N - d <= a)
    <3>1. b = N - d
      BY <1>14, <2>3
    <3>2. g = c[N]
      BY <1>11, <1>18, <2>1, <2>3, <3>1 DEF c
    <3>3. TellsBy(F, M, g, b, c)
      BY <1>4, <1>7, <1>15, <3>2 DEF TellsBy, v
    <3> QED BY <3>3 DEF Tells, g, M, o, d
  <2> QED BY <2>2, <2>3
<1> QED BY <1>3, <1>16, <1>17, <1>18

\* Without a database there is nothing to tell.
LEMMA NothingTold == \A F : Tells(F, <<>>, <<>>)
<1> TAKE F
<1> DEFINE t == [k \in 0 .. 0 |-> <<>>]
<1>1. t[0] = <<>> /\ \A k \in 0 .. 0 : t[k] \in Seq(Event)
  OBVIOUS
<1> HIDE DEF t
<1>2. Chain(t, Owns(F, <<>>), 0, 0)
  BY <1>1 DEF Chain
<1>3. TellsBy(F, <<>>, <<>>, 0, t)
  BY <1>1, <1>2 DEF TellsBy
<1> QED BY <1>3 DEF Tells

\* What a lineage tells is what HistoryFaithful expects.
LEMMA ToldIsTold ==
    ASSUME NEW L \in Seq(Runs), NEW h, Tells(file, L, h)
    PROVE  h = Told(L)
<1> DEFINE n == Len(L)
<1>1. PICK a, t : TellsBy(file, L, h, a, t)
  BY DEF Tells
<1> DEFINE Part(k) == IF Survives(L, k) THEN file[L[k]].own ELSE <<>>
           Body(f) == [k \in 0 .. n |-> IF k = 0 THEN <<>> ELSE f[k - 1] \o Part(k)]
           u == [k \in 0 .. n |-> IF k <= a THEN <<>> ELSE t[k]]
           told == CHOOSE f : f = Body(f)
<1>2. Chain(t, Owns(file, L), a, n) /\ h = t[n] /\ \A i \in 1 .. n : Survives(L, i) <=> i > a
  BY <1>1 DEF TellsBy, Keeps, Survives
<1>3. n \in Nat /\ a \in Nat /\ a <= n /\ t[a] = <<>>
  BY <1>2 DEF Chain
<1>4. \A k \in 1 .. n : Owns(file, L)[k] = file[L[k]].own
  BY DEF Owns
<1>5. u \in [0 .. n -> Seq(Event)]
  <2> SUFFICES ASSUME NEW k \in 0 .. n PROVE (IF k <= a THEN <<>> ELSE t[k]) \in Seq(Event)
    OBVIOUS
  <2>1. ~(k <= a) => k \in a .. n
    BY <1>3
  <2> QED BY <1>2, <2>1 DEF Chain
<1>6. ASSUME NEW k \in 1 .. n PROVE u[k] = u[k - 1] \o Part(k)
  <2>1. k - 1 \in 0 .. n /\ k \in 0 .. n
    BY <1>3
  <2>2. CASE k <= a
    <3>1. u[k] = <<>> /\ u[k - 1] = <<>>
      BY <1>3, <2>1, <2>2
    <3>2. Part(k) = <<>>
      BY <1>2, <1>3, <2>2
    <3> QED BY <3>1, <3>2
  <2>3. CASE k > a
    <3>1. k \in a + 1 .. n
      BY <1>3, <2>3
    <3>2. OneRun(Owns(file, L)[k]) /\ t[k] = t[k - 1] \o Owns(file, L)[k]
      BY <1>2, <3>1 DEF Chain
    <3>3. Part(k) = Owns(file, L)[k]
      BY <1>2, <1>4, <2>3
    <3>4. u[k] = t[k]
      BY <1>3, <2>1, <2>3
    <3>5. u[k - 1] = t[k - 1]
      <4>1. CASE k - 1 = a
        BY <1>3, <2>1, <4>1
      <4>2. CASE k - 1 # a
        BY <1>3, <2>1, <2>3, <4>2
      <4> QED BY <4>1, <4>2
    <3> QED BY <3>2, <3>3, <3>4, <3>5
  <2> QED BY <1>3, <2>2, <2>3
<1>7. u[n] = h /\ u[0] = <<>>
  BY <1>2, <1>3
<1> HIDE DEF u, Part
<1>8. u = Body(u)
  BY <1>5, <1>6, <1>7
<1>9. told = Body(told)
  BY <1>8
<1> HIDE DEF told
<1>10. told[0] = <<>> /\ \A k \in 1 .. n : told[k] = told[k - 1] \o Part(k)
  <2> DEFINE body == Body(told)
  <2>1. body[0] = <<>> /\ \A k \in 1 .. n : body[k] = told[k - 1] \o Part(k)
    BY <1>3
  <2> HIDE DEF body
  <2>2. told = body
    BY <1>9 DEF body
  <2> QED BY <2>1, <2>2
<1> DEFINE S == {k \in Nat : k <= n => told[k] = u[k]}
<1>11. 0 \in S
  BY <1>7, <1>10
<1>12. ASSUME NEW k \in Nat, k \in S PROVE k + 1 \in S
  <2> DEFINE m == k + 1
  <2> SUFFICES ASSUME m <= n PROVE told[m] = u[m]
    OBVIOUS
  <2>1. m \in 1 .. n /\ m - 1 = k /\ k <= n
    BY <1>3
  <2> HIDE DEF m
  <2>2. told[m] = told[m - 1] \o Part(m) /\ u[m] = u[m - 1] \o Part(m)
    BY <1>6, <1>10, <2>1
  <2> QED BY <1>12, <2>1, <2>2
<1> HIDE DEF S
<1>13. n \in S
  BY <1>3, <1>11, <1>12, SetInduction
<1>14. told[n] = h
  BY <1>3, <1>7, <1>13 DEF S
<1>15. Told(L) = told[n]
  BY DEF Told, told, Part
<1> QED BY <1>14, <1>15


-----------------------------------------------------------------------------
(* The history of every database is what its lineage tells.                *)

\* The lineage of f consists of files in P and f, and tells its history.
Good(F, f, P) ==
    /\ F[f].lineage \in Seq(Runs)
    /\ \A j \in 1 .. Len(F[f].lineage) : F[f].lineage[j] \in P \cup {f}
    /\ Tells(F, F[f].lineage, F[f].history)

Late == {"body", "header", "publish", "linkat"}

\* A published file is good, and one that is being written is from the scan on;
\* the scan finds its own depth where the constructor has put it.
HistInv ==
    /\ \A f \in published : Good(file, f, published)
    /\ \A p \in Procs : pc[p] \in Late => Good(file, mine[p], published)
    /\ \A p \in Procs : pc[p] = "scan" => file[mine[p]].conf = depth[p]
    /\ file[Foreign].header = "foreign"

\* Changes to other parts of the files, and more published ones, do not matter.
LEMMA GoodStays ==
    ASSUME NEW F, NEW G, NEW f, NEW P, NEW Q, Good(F, f, P), P \subseteq Q,
           \A g \in P \cup {f} : SameHistory(G[g], F[g])
    PROVE  Good(G, f, Q)
<1> DEFINE L == F[f].lineage
<1>1. G[f].lineage = L /\ G[f].history = F[f].history
  BY DEF SameHistory
<1>2. L \in Seq(Runs) /\ (\A j \in 1 .. Len(L) : L[j] \in P \cup {f}) /\ Tells(F, L, F[f].history)
  BY DEF Good
<1> HIDE DEF L
<1>3. \A j \in 1 .. Len(L) : G[L[j]].conf = F[L[j]].conf /\ G[L[j]].own = F[L[j]].own
  BY <1>2 DEF SameHistory
<1>4. Tells(G, L, F[f].history)
  BY <1>2, <1>3, TellsStays
<1> QED BY <1>1, <1>2, <1>4 DEF Good

LEMMA GoodFramed ==
    ASSUME PInv, NEW p \in Procs, Working(p), Framed(p), published \subseteq published',
           NEW f, Good(file, f, published), f \in Files \ {mine[p]}
    PROVE  Good(file', f, published')
<1>1. \A g \in published \cup {f} : file'[g] = file[g]
  BY FrameFacts DEF Framed
<1>2. \A g \in published \cup {f} : SameHistory(file'[g], file[g])
  BY <1>1 DEF SameHistory
<1> QED BY <1>2, GoodStays

\* A step of p that leaves its own file good.
LEMMA HistStep ==
    ASSUME PInv, HistInv, NEW p \in Procs, Working(p), Framed(p),
           published \subseteq published', published' \subseteq published \cup {mine[p]},
           \A q \in Procs \ {p} : pc'[q] = pc[q] /\ mine'[q] = mine[q] /\ depth'[q] = depth[q],
           mine[p] \in published' => Good(file', mine[p], published'),
           pc'[p] \in Late => Good(file', mine'[p], published'),
           pc'[p] = "scan" => file'[mine'[p]].conf = depth'[p]
    PROVE  HistInv'
<1> USE FileNumbers
<1>1. \A f \in published' : Good(file', f, published')
  <2> TAKE f \in published'
  <2>1. CASE f = mine[p]
    BY <2>1
  <2>2. CASE f # mine[p]
    <3>1. f \in published /\ f \in Files
      BY <2>2 DEF PInv, SeenInv
    <3>2. Good(file, f, published)
      BY <3>1 DEF HistInv
    <3> QED BY <2>2, <3>1, <3>2, GoodFramed
  <2> QED BY <2>1, <2>2
<1>2. \A q \in Procs : pc'[q] \in Late => Good(file', mine'[q], published')
  <2> SUFFICES ASSUME NEW q \in Procs, pc'[q] \in Late, q # p
               PROVE  Good(file', mine'[q], published')
    OBVIOUS
  <2>1. pc[q] \in Late /\ mine'[q] = mine[q]
    OBVIOUS
  <2>2. mine[q] \in Files \ {mine[p]}
    BY <2>1 DEF PInv, MineInv, Working, Late
  <2>3. Good(file, mine[q], published)
    BY <2>1 DEF HistInv
  <2> QED BY <2>1, <2>2, <2>3, GoodFramed
<1>3. \A q \in Procs : pc'[q] = "scan" => file'[mine'[q]].conf = depth'[q]
  <2> SUFFICES ASSUME NEW q \in Procs, pc'[q] = "scan", q # p
               PROVE  file'[mine'[q]].conf = depth'[q]
    OBVIOUS
  <2>1. pc[q] = "scan" /\ mine'[q] = mine[q] /\ depth'[q] = depth[q]
    OBVIOUS
  <2>2. file'[mine[q]] = file[mine[q]]
    BY <2>1, FrameFacts DEF Working
  <2> QED BY <2>1, <2>2 DEF HistInv
<1>4. file'[Foreign].header = "foreign"
  BY FrameFacts DEF HistInv
<1> QED BY <1>1, <1>2, <1>3, <1>4 DEF HistInv

-----------------------------------------------------------------------------
(* Types.                                                                  *)

\* The types of what a file holds.
Fields(x) ==
    /\ x.header \in {"absent", "broken", "final", "foreign"} /\ x.body \in {"whole", "cut"}
    /\ x.conf \in Nat /\ x.history \in Seq(Event) /\ x.lineage \in Seq(Runs)
    /\ x.own \in Seq(Event) /\ x.damaged \in BOOLEAN

LEMMA ContentsFields == \A x : x \in Contents <=> Rec(x) /\ Fields(x)
<1> TAKE x
<1>1. ASSUME x \in Contents PROVE Rec(x) /\ Fields(x)
  BY <1>1 DEF Contents, Rec, Fields
<1>2. ASSUME Rec(x), Fields(x) PROVE x \in Contents
  BY <1>2 DEF Contents, Rec, Fields
<1> QED BY <1>1, <1>2

LEMMA FilesTyped ==
    ASSUME TypeOK, NEW p \in Procs, Framed(p), mine[p] \in Files, Fields(file'[mine[p]])
    PROVE  file' \in [Files -> Contents]
<1>1. ASSUME NEW f \in Files PROVE file'[f] \in Contents
  <2>1. CASE f = mine[p]
    BY <2>1, ContentsFields DEF Framed
  <2>2. CASE f # mine[p]
    BY <2>2 DEF Framed, TypeOK
  <2> QED BY <2>1, <2>2
<1> QED BY <1>1 DEF Framed

\* Every running process has a file.
LEMMA MineTyped ==
    ASSUME PInv, TypeOK, NEW p \in Procs, Working(p)
    PROVE  /\ mine[p] \in Runs /\ mine[p] \in Files /\ Rec(file[mine[p]]) /\ Fields(file[mine[p]])
           /\ depth[p] \in Nat
<1>1. mine[p] \in Runs /\ mine[p] \in Files /\ depth[p] \in Nat
  BY FileNumbers DEF PInv, MineInv, TypeOK
<1>2. file[mine[p]] \in Contents
  BY <1>1 DEF TypeOK
<1> QED BY <1>1, <1>2, ContentsFields

\* The types of everything but the files, over a move and over an end.
LEMMA TypeMove ==
    ASSUME TypeOK, NEW p \in Procs, Working(p), NEW l \in PCs \ {"idle"}, pc' = [pc EXCEPT ![p] = l],
           UNCHANGED <<o_tmpfile, published, mine, base, depth, baseline, run, readerVars, aborted, lost>>,
           name' \in {None} \cup Files, temps' \subseteq Runs, file' \in [Files -> Contents]
    PROVE  TypeOK'
<1>1. pc' \in [Procs -> PCs] /\ \A q \in Procs : pc'[q] = "idle" <=> mine'[q] = None
  BY DEF TypeOK, Working, PCs
<1> QED BY <1>1 DEF TypeOK, PCs, readerVars

LEMMA TypeEnd ==
    ASSUME TypeOK, NEW p \in Procs, Working(p), Gone(p), mine[p] \in Runs,
           UNCHANGED <<o_tmpfile, readerVars>>,
           lost' \in BOOLEAN, aborted' \in BOOLEAN, published' \subseteq published \cup {mine[p]},
           name' \in {None} \cup Files, temps' \subseteq Runs, file' \in [Files -> Contents]
    PROVE  TypeOK'
<1>1. pc' \in [Procs -> PCs] /\ \A q \in Procs : pc'[q] = "idle" <=> mine'[q] = None
  BY DEF TypeOK, Working, PCs, Gone
<1>2. mine' \in [Procs -> {None} \cup Runs] /\ base' \in [Procs -> {None} \cup Files]
  BY DEF TypeOK, Gone
<1>3. depth' \in [Procs -> Nat] /\ baseline' \in [Procs -> BOOLEAN] /\ run' \in 0 .. MaxRuns
  BY DEF TypeOK, Gone
<1>4. published' \subseteq Runs
  BY DEF TypeOK
<1> QED BY <1>1, <1>2, <1>3, <1>4 DEF TypeOK, PCs, readerVars

\* Before the first run.
LEMMA InitHist == Init => TypeOK /\ HistInv
<1> SUFFICES ASSUME Init PROVE TypeOK /\ HistInv
  OBVIOUS
<1> USE FileNumbers, PublishAssumption
<1>1. <<>> \in Seq(Event) /\ <<>> \in Seq(Runs)
  OBVIOUS
<1>2. \A f \in Files : Rec(file[f]) /\ Fields(file[f])
  <2>1. Rec(Blank) /\ Fields(Blank)
    BY <1>1 DEF Rec, Fields, Blank
  <2> DEFINE y == SetHeader(Blank, "foreign")
  <2>2. Rec(y) /\ y.header = "foreign" /\ y.body = Blank.body /\ y.damaged = Blank.damaged /\ SameHistory(y, Blank)
    BY <2>1, OnlyHeader
  <2> HIDE DEF y
  <2>3. Fields(y)
    BY <2>1, <2>2 DEF Fields, SameHistory
  <2> QED BY <2>1, <2>2, <2>3 DEF Init, y, SetHeader
<1>3. file \in [Files -> Contents]
  <2>1. \A f \in Files : file[f] \in Contents
    BY <1>2, ContentsFields
  <2>2. file = [f \in Files |-> file[f]]
    BY DEF Init
  <2> QED BY <2>1, <2>2
<1>4. o_tmpfile \in BOOLEAN /\ name \in {None} \cup Files /\ temps \subseteq Runs /\ run \in 0 .. MaxRuns
  BY DEF Init
<1>5. pc \in [Procs -> PCs] /\ mine \in [Procs -> {None} \cup Runs] /\ base \in [Procs -> {None} \cup Files]
  BY DEF Init, PCs
<1>6. depth \in [Procs -> Nat] /\ baseline \in [Procs -> BOOLEAN]
  BY DEF Init
<1>7. published \subseteq Runs /\ lost \in BOOLEAN /\ aborted \in BOOLEAN
  BY DEF Init
<1>8. rpc \in [Readers -> {"idle", "header", "search"}] /\ rfd \in [Readers -> {None} \cup Files]
        /\ refused \in [Readers -> {None} \cup Files]
  BY DEF Init
<1>9. \A p \in Procs : pc[p] = "idle" <=> mine[p] = None
  BY DEF Init
<1>10. HistInv
  <2>1. file[Foreign].header = "foreign"
    BY DEF Init, Blank
  <2> QED BY <2>1 DEF Init, HistInv, Late
<1> QED BY <1>3, <1>4, <1>5, <1>6, <1>7, <1>8, <1>9, <1>10 DEF TypeOK, PCs

-----------------------------------------------------------------------------
(* Every step keeps the histories and the types.                           *)

HInv == PInv /\ TypeOK /\ HistInv

\* A process writes to its file, and leaves its history alone.
LEMMA WriteGood ==
    ASSUME HInv, NEW p \in Procs, pc[p] \in Late, NEW l \in Late, pc' = [pc EXCEPT ![p] = l],
           NEW x, Rec(x), Fields(x), SameHistory(x, file[mine[p]]),
           file' = [file EXCEPT ![mine[p]] = x], name' \in {None} \cup Files,
           UNCHANGED <<o_tmpfile, temps, published, lost, mine, base, depth, baseline, run, aborted, readerVars>>
    PROVE  TypeOK' /\ HistInv'
<1> USE DEF HInv
<1>1. Working(p) /\ l \in PCs \ {"idle"} /\ l # "scan"
  BY DEF Working, Late, PCs
<1>2. mine[p] \in Files /\ mine[p] \in Runs
  BY <1>1, MineTyped
<1>3. Framed(p) /\ file'[mine[p]] = x
  BY <1>1, EditFrames
<1>4. file' \in [Files -> Contents]
  BY <1>2, <1>3, FilesTyped
<1>5. TypeOK'
  <2>1. temps' \subseteq Runs
    BY DEF TypeOK
  <2> QED BY <1>1, <1>4, <2>1, TypeMove
<1>6. Good(file', mine[p], published)
  <2>1. \A g \in published : file'[g] = file[g]
    BY <1>1, <1>3, FrameFacts
  <2>2. \A g \in published \cup {mine[p]} : SameHistory(file'[g], file[g])
    BY <1>3, <2>1 DEF SameHistory
  <2>3. Good(file, mine[p], published)
    BY DEF HistInv
  <2> QED BY <2>2, <2>3, GoodStays
<1>7. /\ \A q \in Procs \ {p} : pc'[q] = pc[q] /\ mine'[q] = mine[q] /\ depth'[q] = depth[q]
      /\ pc'[p] = l /\ mine'[p] = mine[p] /\ published' = published /\ mine[p] \notin published
  BY <1>1 DEF TypeOK, PInv, MineInv
<1>8. HistInv'
  BY <1>1, <1>3, <1>6, <1>7, HistStep
<1> QED BY <1>5, <1>8

\* A process ends, and what it does not publish may be gone.
LEMMA EndGood ==
    ASSUME HInv, NEW p \in Procs, Working(p), Gone(p), UNCHANGED file \/ Unnamed(mine[p]),
           \/ published' = published
           \/ published' = published \cup {mine[p]} /\ pc[p] \in Late /\ UNCHANGED file,
           lost' \in BOOLEAN, aborted' \in BOOLEAN,
           name' \in {None} \cup Files, temps' \subseteq Runs,
           UNCHANGED <<o_tmpfile, readerVars>>
    PROVE  TypeOK' /\ HistInv'
<1> USE DEF HInv
<1>1. mine[p] \in Files /\ mine[p] \in Runs /\ Fields(file[mine[p]])
  BY MineTyped
<1>2. Framed(p)
  BY AbandonFrames
<1>3. Fields(file'[mine[p]])
  <2>1. CASE UNCHANGED file
    BY <1>1, <2>1
  <2>2. CASE Unnamed(mine[p])
    <3>1. file'[mine[p]] = Blank
      BY <2>2, BlankRec, EditFrames DEF Unnamed
    <3>2. <<>> \in Seq(Event) /\ <<>> \in Seq(Runs)
      OBVIOUS
    <3>3. Fields(Blank)
      BY <3>2 DEF Fields, Blank
    <3> QED BY <3>1, <3>3
  <2> QED BY <2>1, <2>2
<1>4. file' \in [Files -> Contents]
  BY <1>1, <1>2, <1>3, FilesTyped
<1>5. TypeOK'
  <2>1. published' \subseteq published \cup {mine[p]}
    OBVIOUS
  <2> QED BY <1>1, <1>4, <2>1, TypeEnd
<1>6. \A q \in Procs \ {p} : pc'[q] = pc[q] /\ mine'[q] = mine[q] /\ depth'[q] = depth[q]
  BY DEF TypeOK, Gone
<1>7. pc'[p] = "idle"
  BY DEF TypeOK, Gone
<1>8. mine[p] \in published' => Good(file', mine[p], published')
  <2>1. CASE published' = published
    BY <2>1 DEF PInv, MineInv
  <2>2. CASE published' = published \cup {mine[p]} /\ pc[p] \in Late /\ UNCHANGED file
    <3>1. Good(file, mine[p], published)
      BY <2>2 DEF HistInv
    <3>2. \A g \in published \cup {mine[p]} : SameHistory(file'[g], file[g])
      BY <2>2 DEF SameHistory
    <3>3. published \subseteq published'
      BY <2>2
    <3> QED BY <3>1, <3>2, <3>3, GoodStays
  <2> QED BY <2>1, <2>2
<1>9. HistInv'
  <2>1. published \subseteq published' /\ published' \subseteq published \cup {mine[p]}
    OBVIOUS
  <2>2. pc'[p] \notin Late /\ pc'[p] # "scan"
    BY <1>7 DEF Late
  <2> QED BY <1>2, <1>6, <1>8, <2>1, <2>2, HistStep
<1> QED BY <1>5, <1>9

\* The constructor puts the depth into the file.
SetConf(r, a) == [r EXCEPT !.conf = a]
LEMMA OnlyConf ==
    ASSUME NEW r, Rec(r), Fields(r), NEW a \in Nat
    PROVE  Rec(SetConf(r, a)) /\ SetConf(r, a).conf = a /\ Fields(SetConf(r, a))
<1> DEFINE y == SetConf(r, a)
<1>1. Rec(y) /\ y.header = r.header /\ y.body = r.body /\ y.conf = a /\ y.history = r.history
        /\ y.lineage = r.lineage /\ y.own = r.own /\ y.damaged = r.damaged
  BY DEF Rec, SetConf
<1> HIDE DEF y
<1>2. Fields(y)
  BY <1>1 DEF Fields
<1> QED BY <1>1, <1>2 DEF y

LEMMA CreateGood == ASSUME HInv, NEW p \in Procs, Create(p) PROVE TypeOK' /\ HistInv'
<1> USE DEF HInv
<1> DEFINE x == SetConf(file[mine[p]], depth[p])
<1>1. Working(p)
  BY DEF Create, Working
<1>2. mine[p] \in Files /\ mine[p] \in Runs /\ Rec(file[mine[p]]) /\ Fields(file[mine[p]]) /\ depth[p] \in Nat
  BY <1>1, MineTyped
<1>3. Rec(x) /\ x.conf = depth[p] /\ Fields(x)
  BY <1>2, OnlyConf
<1>4. file' = [file EXCEPT ![mine[p]] = x]
  BY <1>2 DEF Create, SetConf, TypeOK
<1> HIDE DEF x
<1>5. Framed(p) /\ file'[mine[p]] = x
  BY <1>1, <1>3, <1>4, EditFrames
<1>6. file' \in [Files -> Contents]
  BY <1>2, <1>3, <1>5, FilesTyped
<1>7. TypeOK'
  <2>1. temps' \subseteq Runs /\ name' \in {None} \cup Files
    BY <1>2 DEF TypeOK, Create
  <2>2. "scan" \in PCs \ {"idle"} /\ pc' = [pc EXCEPT ![p] = "scan"]
    BY DEF Create, PCs
  <2> QED BY <1>1, <1>6, <2>1, <2>2, TypeMove DEF Create
<1>8. HistInv'
  <2>1. /\ \A q \in Procs \ {p} : pc'[q] = pc[q] /\ mine'[q] = mine[q] /\ depth'[q] = depth[q]
        /\ pc'[p] = "scan" /\ mine'[p] = mine[p] /\ depth'[p] = depth[p] /\ published' = published
        /\ mine[p] \notin published
    BY <1>1 DEF TypeOK, PInv, MineInv, Create
  <2>2. file'[mine'[p]].conf = depth'[p] /\ pc'[p] \notin Late
    BY <1>3, <1>5, <2>1 DEF Late
  <2> QED BY <1>1, <1>5, <2>1, <2>2, HistStep
<1> QED BY <1>7, <1>8

\* The contents and the final header.
LEMMA WriteBodyGood == ASSUME HInv, NEW p \in Procs, WriteBody(p) PROVE TypeOK' /\ HistInv'
<1> USE DEF HInv
<1>1. Working(p) /\ pc[p] \in Late /\ "header" \in Late
  BY DEF WriteBody, Working, Late
<1>2. mine[p] \in Files /\ Rec(file[mine[p]]) /\ Fields(file[mine[p]])
  BY <1>1, MineTyped
<1>3. PICK x : Rec(x) /\ Fields(x) /\ SameHistory(x, file[mine[p]]) /\ file' = [file EXCEPT ![mine[p]] = x]
  <2>1. CASE file' = [file EXCEPT ![mine[p]].header = "broken", ![mine[p]].body = "whole"]
    <3> DEFINE y == SetHeaderBody(file[mine[p]], "broken", "whole")
    <3>1. Rec(y) /\ SameHistory(y, file[mine[p]]) /\ y.header = "broken" /\ y.body = "whole"
            /\ y.damaged = file[mine[p]].damaged
      BY <1>2, HeaderBody
    <3>2. file' = [file EXCEPT ![mine[p]] = y]
      BY <1>2, <2>1 DEF TypeOK, SetHeaderBody
    <3> HIDE DEF y
    <3>3. Fields(y)
      BY <1>2, <3>1 DEF Fields, SameHistory
    <3> QED BY <3>1, <3>2, <3>3
  <2>2. CASE \E h \in {"absent", "broken"} :
               file' = [file EXCEPT ![mine[p]].header = h, ![mine[p]].damaged = TRUE]
    <3>1. PICK h \in {"absent", "broken"} :
               file' = [file EXCEPT ![mine[p]].header = h, ![mine[p]].damaged = TRUE]
      BY <2>2
    <3> DEFINE y == SetHeaderDamaged(file[mine[p]], h)
    <3>2. Rec(y) /\ SameHistory(y, file[mine[p]]) /\ y.header = h /\ y.body = file[mine[p]].body
            /\ y.damaged = TRUE
      BY <1>2, HeaderDamaged
    <3>3. file' = [file EXCEPT ![mine[p]] = y]
      BY <1>2, <3>1 DEF TypeOK, SetHeaderDamaged
    <3> HIDE DEF y
    <3>4. Fields(y)
      BY <1>2, <3>2 DEF Fields, SameHistory
    <3> QED BY <3>2, <3>3, <3>4
  <2> QED BY <2>1, <2>2 DEF WriteBody
<1>4. name' \in {None} \cup Files
  BY DEF TypeOK, WriteBody, dirVars
<1> QED BY <1>1, <1>3, <1>4, WriteGood DEF WriteBody, dirVars

LEMMA WriteHeaderGood == ASSUME HInv, NEW p \in Procs, WriteHeader(p) PROVE TypeOK' /\ HistInv'
<1> USE DEF HInv
<1>1. Working(p) /\ pc[p] \in Late /\ "publish" \in Late
  BY DEF WriteHeader, Working, Late
<1>2. mine[p] \in Files /\ Rec(file[mine[p]]) /\ Fields(file[mine[p]])
  BY <1>1, MineTyped
<1>3. PICK x : Rec(x) /\ Fields(x) /\ SameHistory(x, file[mine[p]]) /\ file' = [file EXCEPT ![mine[p]] = x]
  <2>1. CASE file' = [file EXCEPT ![mine[p]].header = "final"]
    <3> DEFINE y == SetHeader(file[mine[p]], "final")
    <3>1. Rec(y) /\ SameHistory(y, file[mine[p]]) /\ y.header = "final" /\ y.body = file[mine[p]].body
            /\ y.damaged = file[mine[p]].damaged
      BY <1>2, OnlyHeader
    <3>2. file' = [file EXCEPT ![mine[p]] = y]
      BY <1>2, <2>1 DEF TypeOK, SetHeader
    <3> HIDE DEF y
    <3>3. Fields(y)
      BY <1>2, <3>1 DEF Fields, SameHistory
    <3> QED BY <3>1, <3>2, <3>3
  <2>2. CASE file' = [file EXCEPT ![mine[p]].damaged = TRUE]
    <3> DEFINE y == SetDamaged(file[mine[p]], TRUE)
    <3>1. Rec(y) /\ SameHistory(y, file[mine[p]]) /\ y.header = file[mine[p]].header
            /\ y.body = file[mine[p]].body /\ y.damaged = TRUE
      BY <1>2, OnlyDamaged
    <3>2. file' = [file EXCEPT ![mine[p]] = y]
      BY <1>2, <2>2 DEF TypeOK, SetDamaged
    <3> HIDE DEF y
    <3>3. Fields(y)
      BY <1>2, <3>1 DEF Fields, SameHistory
    <3> QED BY <3>1, <3>2, <3>3
  <2> QED BY <2>1, <2>2 DEF WriteHeader
<1>4. name' \in {None} \cup Files
  BY DEF TypeOK, WriteHeader, dirVars
<1> QED BY <1>1, <1>3, <1>4, WriteGood DEF WriteHeader, dirVars

\* unlink() touches no file.
LEMMA UnlinkGood == ASSUME HInv, NEW p \in Procs, Unlink(p) PROVE TypeOK' /\ HistInv'
<1> USE DEF HInv
<1>1. Working(p) /\ pc[p] \in Late /\ "linkat" \in Late
  BY DEF Unlink, Working, Late
<1>2. mine[p] \in Files /\ Rec(file[mine[p]]) /\ Fields(file[mine[p]])
  BY <1>1, MineTyped
<1>3. SameHistory(file[mine[p]], file[mine[p]]) /\ file' = [file EXCEPT ![mine[p]] = file[mine[p]]]
  BY <1>2 DEF SameHistory, Unlink, TypeOK
<1>4. name' \in {None} \cup Files
  BY DEF Unlink
<1> QED BY <1>1, <1>2, <1>3, <1>4, WriteGood DEF Unlink

\* The events of a run are one run.
LEMMA OwnIsOneRun ==
    ASSUME NEW p \in Procs, mine[p] \in Runs, baseline[p] \in BOOLEAN, NEW c \in Nat
    PROVE  OneRun(OwnEvents(p, c))
<1> DEFINE m == IF baseline[p] THEN BaselineMarker(mine[p]) ELSE Marker(mine[p])
           e == Change(mine[p])
           s == [i \in 1 .. c |-> e]
<1>1. m \in Event /\ IsMarker(m)
  BY DEF Event, IsMarker, Marker, BaselineMarker
<1>2. e \in Event /\ ~IsMarker(e)
  BY DEF Event, IsMarker, Change
<1>3. OwnEvents(p, c) = <<m>> \o s
  BY DEF OwnEvents
<1> HIDE DEF m, e
<1>4. s \in Seq(Event) /\ Len(s) = c /\ \A i \in 1 .. c : s[i] = e
  BY <1>2
<1>5. <<m>> \in Seq(Event) /\ Len(<<m>>) = 1 /\ <<m>>[1] = m
  BY <1>1
<1> HIDE DEF s
<1> DEFINE o == <<m>> \o s
<1>6. o \in Seq(Event) /\ Len(o) = 1 + c /\ o[1] = m /\ \A i \in 2 .. 1 + c : o[i] = s[i - 1]
  BY <1>4, <1>5
<1> HIDE DEF o
<1>7. \A i \in 2 .. 1 + c : o[i] = e
  <2> TAKE i \in 2 .. 1 + c
  <2>1. i - 1 \in 1 .. c
    OBVIOUS
  <2> QED BY <1>4, <1>6, <2>1
<1>8. ASSUME NEW i \in 1 .. 1 + c PROVE IsMarker(o[i]) <=> i = 1
  <2>1. CASE i = 1
    BY <1>1, <1>6, <2>1
  <2>2. CASE i # 1
    <3>1. i \in 2 .. 1 + c
      BY <2>2
    <3> QED BY <1>2, <1>7, <2>2, <3>1
  <2> QED BY <2>1, <2>2
<1>9. OneRun(o)
  BY <1>6, <1>8 DEF OneRun
<1> QED BY <1>3, <1>9 DEF o

\* What a history tells has the type of one.
LEMMA ToldTyped == ASSUME NEW F, NEW L \in Seq(Runs), NEW h, Tells(F, L, h) PROVE h \in Seq(Event)
<1>1. PICK a, t : TellsBy(F, L, h, a, t)
  BY DEF Tells
<1>2. a \in Nat /\ Len(L) \in Nat /\ a <= Len(L) /\ h = t[Len(L)]
  BY <1>1 DEF TellsBy, Chain
<1>3. Len(L) \in a .. Len(L)
  BY <1>2
<1> QED BY <1>1, <1>2, <1>3 DEF TellsBy, Chain

\* What the scan finds of the old database is nothing, or a published one.
LEMMA ScanFinds ==
    ASSUME HInv, NEW p \in Procs, pc[p] = "scan", "all" \in HistoryRead(base[p])
    PROVE  base[p] \in published
<1>1. base[p] \in Seen
  BY DEF HInv, PInv, SeenInv, Working
<1>2. base[p] # None
  BY DEF HistoryRead
<1>3. base[p] # Foreign
  BY <1>2, FileNumbers DEF HistoryRead, HInv, HistInv
<1> QED BY <1>1, <1>2, <1>3 DEF Seen

\* The scan leaves a good file.
LEMMA ScanGood == ASSUME HInv, NEW p \in Procs, Scan(p), pc'[p] = "body" PROVE TypeOK' /\ HistInv'
<1> USE DEF HInv
<1>1. Working(p) /\ pc[p] = "scan"
  BY DEF Scan, Working
<1>2. mine[p] \in Files /\ mine[p] \in Runs /\ Rec(file[mine[p]]) /\ Fields(file[mine[p]])
  BY <1>1, MineTyped
<1>3. PICK changes \in 0..(IF baseline[p] THEN 0 ELSE MaxChanges),
           found \in HistoryRead(base[p]) \ (IF depth[p] > 1 THEN {} ELSE {"abort"}) :
             /\ found # "abort"
             /\ LET old == IF found = "all" THEN file[base[p]] ELSE Blank
                    own == OwnEvents(p, changes)
                IN  file' = [file EXCEPT
                      ![mine[p]].history = NewHistory(decode_history_stream(old.history), own, depth[p]),
                      ![mine[p]].lineage = Append(old.lineage, mine[p]),
                      ![mine[p]].own = own]
             /\ pc' = [pc EXCEPT ![p] = "body"]
             /\ UNCHANGED <<mine, base, depth, baseline, run, aborted>>
  BY DEF Scan, Gone, TypeOK
<1> DEFINE old == IF found = "all" THEN file[base[p]] ELSE Blank
           L == old.lineage
           H == old.history
           own == OwnEvents(p, changes)
           h == NewHistory(decode_history_stream(H), own, depth[p])
           M == Append(L, mine[p])
           x == SetScanned(file[mine[p]], h, M, own)
<1>4. OneRun(own)
  <2>1. changes \in Nat
    BY <1>3, PublishAssumption
  <2>2. baseline[p] \in BOOLEAN
    BY DEF TypeOK
  <2> QED BY <1>2, <2>1, <2>2, OwnIsOneRun
<1>5. L \in Seq(Runs) /\ (\A j \in 1 .. Len(L) : L[j] \in published) /\ Tells(file, L, H)
  <2>1. CASE found # "all"
    <3>1. L = <<>> /\ H = <<>>
      BY <2>1 DEF Blank
    <3> HIDE DEF L, H
    <3>2. Tells(file, <<>>, <<>>) /\ <<>> \in Seq(Runs)
      BY NothingTold
    <3> QED BY <3>1, <3>2
  <2>2. CASE found = "all"
    <3>1. base[p] \in published
      BY <1>1, <2>2, ScanFinds
    <3>2. Good(file, base[p], published)
      BY <3>1 DEF HistInv
    <3> QED BY <2>2, <3>1, <3>2 DEF Good
  <2> QED BY <2>1, <2>2
<1>6. file' = [file EXCEPT ![mine[p]] = x]
  <2>1. file' = [file EXCEPT ![mine[p]].history = h, ![mine[p]].lineage = M, ![mine[p]].own = own]
    BY <1>3
  <2> HIDE DEF h, M, own
  <2> QED BY <1>2, <2>1 DEF TypeOK, SetScanned
<1>7. h = NewHistory(decode_history_stream(H), own, depth[p]) /\ M = Append(L, mine[p])
  OBVIOUS
<1> HIDE DEF old, L, H, own, h, M
<1>8. /\ Rec(x) /\ x.history = h /\ x.lineage = M /\ x.own = own /\ x.conf = file[mine[p]].conf
      /\ x.damaged = file[mine[p]].damaged /\ x.header = file[mine[p]].header /\ x.body = file[mine[p]].body
  BY <1>2, ScanFields
<1> HIDE DEF x
<1>9. Framed(p) /\ file'[mine[p]] = x
  BY <1>1, <1>6, <1>8, EditFrames
<1>10. x.conf = depth[p] /\ depth[p] \in Nat
  BY <1>1, <1>8 DEF HistInv, TypeOK
<1>11. Tells(file', M, h)
  <2>1. \A j \in 1 .. Len(L) : file'[L[j]] = file[L[j]]
    BY <1>1, <1>5, <1>9, FrameFacts
  <2>2. Tells(file', L, H)
    BY <1>5, <2>1, TellsStays
  <2> DEFINE G == file'
             f == mine[p]
  <2>3. Tells(G, L, H) /\ f \in Runs /\ G[f].conf = depth[p] /\ G[f].own = own
    BY <1>2, <1>8, <1>9, <1>10, <2>2
  <2> HIDE DEF G, f
  <2>4. Tells(G, Append(L, f), NewHistory(decode_history_stream(H), G[f].own, G[f].conf))
    BY <1>4, <1>5, <1>10, <2>3, NewTells
  <2>5. Tells(G, Append(L, f), NewHistory(decode_history_stream(H), own, depth[p]))
    BY <2>3, <2>4
  <2> QED BY <1>7, <2>5 DEF G, f
<1>12. M \in Seq(Runs) /\ \A j \in 1 .. Len(M) : M[j] \in published \cup {mine[p]}
  BY <1>2, <1>5, <1>7
<1>13. Good(file', mine[p], published)
  BY <1>8, <1>9, <1>11, <1>12 DEF Good
<1>14. Fields(x)
  <2>1. h \in Seq(Event) /\ own \in Seq(Event)
    BY <1>4, <1>11, <1>12, ToldTyped DEF OneRun
  <2> QED BY <1>2, <1>8, <1>12, <2>1 DEF Fields
<1>15. TypeOK'
  <2>1. file' \in [Files -> Contents]
    BY <1>2, <1>9, <1>14, FilesTyped
  <2>2. temps' \subseteq Runs /\ name' \in {None} \cup Files /\ "body" \in PCs \ {"idle"}
    BY DEF TypeOK, Scan, dirVars, PCs
  <2> QED BY <1>1, <1>3, <2>1, <2>2, TypeMove DEF Scan, dirVars
<1>16. HistInv'
  <2>1. /\ \A q \in Procs \ {p} : pc'[q] = pc[q] /\ mine'[q] = mine[q] /\ depth'[q] = depth[q]
        /\ pc'[p] = "body" /\ mine'[p] = mine[p] /\ published' = published /\ mine[p] \notin published
    BY <1>1, <1>3 DEF TypeOK, PInv, MineInv, Scan, dirVars
  <2> QED BY <1>1, <1>9, <1>13, <2>1, HistStep
<1> QED BY <1>15, <1>16

\* The steps that end a process.
LEMMA EndsGood ==
    ASSUME HInv, NEW p \in Procs,
           Rename(p) \/ Linkat(p) \/ Fault(p) \/ (Scan(p) /\ pc'[p] # "body")
    PROVE  TypeOK' /\ HistInv'
<1> USE DEF HInv
<1>0. name \in {None} \cup Files /\ temps \subseteq Runs /\ lost \in BOOLEAN /\ aborted \in BOOLEAN
  BY DEF TypeOK
<1>1. CASE Rename(p)
  <2>1. Working(p) /\ pc[p] \in Late
    BY <1>1 DEF Rename, Working, Late
  <2>2. name' \in {None} \cup Files /\ temps' \subseteq Runs /\ lost' \in BOOLEAN /\ aborted' \in BOOLEAN
    BY <1>0, <1>1, <2>1, MineTyped DEF Rename
  <2> QED BY <1>1, <2>1, <2>2, EndGood DEF Rename
<1>2. CASE Linkat(p)
  <2>1. Working(p) /\ pc[p] \in Late
    BY <1>2 DEF Linkat, Working, Late
  <2>2. name' \in {None} \cup Files /\ temps' \subseteq Runs /\ lost' \in BOOLEAN /\ aborted' \in BOOLEAN
    BY <1>0, <1>2, <2>1, MineTyped DEF Linkat
  <2> QED BY <1>2, <2>1, <2>2, EndGood DEF Linkat
<1>3. CASE SetupFails(p)
  <2>1. Working(p)
    BY <1>3 DEF SetupFails, Working
  <2>2. name' \in {None} \cup Files /\ temps' \subseteq Runs /\ lost' \in BOOLEAN /\ aborted' \in BOOLEAN
    BY <1>0, <1>3, <2>1, MineTyped DEF SetupFails
  <2> QED BY <1>3, <2>1, <2>2, EndGood DEF SetupFails
<1>4. CASE RenameFails(p)
  <2>1. Working(p)
    BY <1>4 DEF RenameFails, Working
  <2> QED BY <1>0, <1>4, <2>1, EndGood DEF RenameFails, dirVars
<1>5. CASE LinkatFails(p)
  <2>1. Working(p)
    BY <1>5 DEF LinkatFails, Working
  <2>2. lost' \in BOOLEAN
    BY <1>0, <1>5 DEF LinkatFails
  <2> QED BY <1>0, <1>5, <2>1, <2>2, EndGood DEF LinkatFails
<1>6. CASE Kill(p)
  <2>1. Working(p)
    BY <1>6 DEF Kill, Working
  <2>2. lost' \in BOOLEAN /\ (UNCHANGED file \/ Unnamed(mine[p]))
    BY <1>0, <1>6 DEF Kill, Abandon
  <2> QED BY <1>0, <1>6, <2>1, <2>2, EndGood DEF Kill
<1>7. CASE Scan(p) /\ pc'[p] # "body"
  <2>1. Working(p)
    BY <1>7 DEF Scan, Working
  <2>2. Gone(p) /\ aborted' = TRUE /\ (UNCHANGED file \/ Unnamed(mine[p]))
    BY <1>7 DEF Scan, Abandon, TypeOK
  <2>3. aborted' \in BOOLEAN
    BY <2>2
  <2> QED BY <1>0, <1>7, <2>1, <2>2, <2>3, EndGood DEF Scan, dirVars
<1> QED BY <1>1, <1>2, <1>3, <1>4, <1>5, <1>6, <1>7 DEF Fault

\* A new run has nothing to tell yet.
LEMMA OpenOldGood == ASSUME HInv, NEW p \in Procs, OpenOld(p) PROVE TypeOK' /\ HistInv'
<1> USE DEF HInv
<1>1. PICK d \in Depths[p] :
         depth' = [depth EXCEPT ![p] = d] /\ baseline' = [baseline EXCEPT ![p] = ~Usable(name, d)]
  BY DEF OpenOld
<1>2. run + 1 \in Runs /\ run + 1 \in 0 .. MaxRuns /\ run + 1 # None
  BY PublishAssumption DEF OpenOld, TypeOK, Runs, None
<1>3. pc' \in [Procs -> PCs] /\ mine' \in [Procs -> {None} \cup Runs] /\ base' \in [Procs -> {None} \cup Files]
  BY <1>2 DEF OpenOld, TypeOK, PCs
<1>4. depth' \in [Procs -> Nat]
  BY <1>1, PublishAssumption DEF TypeOK
<1>5. baseline' \in [Procs -> BOOLEAN]
  <2>1. (~Usable(name, d)) \in BOOLEAN
    BY DEF Usable
  <2> QED BY <1>1, <2>1 DEF TypeOK
<1>6. \A q \in Procs : pc'[q] = "idle" <=> mine'[q] = None
  BY <1>2 DEF OpenOld, TypeOK
<1>7. TypeOK'
  BY <1>2, <1>3, <1>4, <1>5, <1>6 DEF TypeOK, OpenOld, dirVars, readerVars, PCs
<1>8. /\ \A q \in Procs \ {p} : pc'[q] = pc[q] /\ mine'[q] = mine[q] /\ depth'[q] = depth[q]
      /\ pc'[p] = "create" /\ UNCHANGED <<file, published>>
  BY <1>1 DEF OpenOld, TypeOK, dirVars
<1>9. HistInv'
  BY <1>8 DEF HistInv, Late
<1> QED BY <1>7, <1>9

\* A search changes nothing that matters here.
LEMMA ReaderGood ==
    ASSUME HInv, NEW r \in Readers, ReaderOpen(r) \/ ReaderHeader(r) \/ ReaderSearch(r)
    PROVE  TypeOK' /\ HistInv'
<1> USE DEF HInv
<1>1. UNCHANGED <<o_tmpfile, dirVars, file, procVars, aborted>>
  BY DEF ReaderOpen, ReaderHeader, ReaderSearch
<1>2. /\ rpc' \in [Readers -> {"idle", "header", "search"}]
      /\ rfd' \in [Readers -> {None} \cup Files]
      /\ refused' \in [Readers -> {None} \cup Files]
  BY DEF ReaderOpen, ReaderHeader, ReaderSearch, ReaderDone, TypeOK
<1> QED BY <1>1, <1>2 DEF TypeOK, HistInv, dirVars, procVars

LEMMA StepHist == HInv /\ [Next]_vars => HInv'
<1> SUFFICES ASSUME HInv, [Next]_vars PROVE HInv'
  OBVIOUS
<1>0. PInv'
  BY StepPInv DEF HInv
<1>1. CASE UNCHANGED vars
  BY <1>0, <1>1 DEF HInv, TypeOK, HistInv, vars, dirVars, procVars, readerVars
<1>2. ASSUME NEW p \in Procs, OpenOld(p) PROVE TypeOK' /\ HistInv'
  BY <1>2, OpenOldGood
<1>3. ASSUME NEW p \in Procs, Step(p) \/ Fault(p) PROVE TypeOK' /\ HistInv'
  <2>1. CASE Create(p) \/ WriteBody(p) \/ WriteHeader(p) \/ Unlink(p)
    BY <2>1, CreateGood, WriteBodyGood, WriteHeaderGood, UnlinkGood
  <2>2. CASE Scan(p)
    BY <2>2, ScanGood, EndsGood
  <2>3. CASE Rename(p) \/ Linkat(p) \/ Fault(p)
    BY <2>3, EndsGood
  <2> QED BY <1>3, <2>1, <2>2, <2>3 DEF Step
<1>4. ASSUME NEW r \in Readers, ReaderOpen(r) \/ ReaderHeader(r) \/ ReaderSearch(r)
      PROVE  TypeOK' /\ HistInv'
  BY <1>4, ReaderGood
<1>5. CASE Next
  BY <1>0, <1>2, <1>3, <1>4, <1>5 DEF Next, HInv
<1> QED BY <1>1, <1>5

LEMMA HistInvariance == Spec => []HInv
<1>1. Init => HInv
  BY InitPInv, InitHist DEF HInv
<1> QED BY <1>1, StepHist, PTL DEF Spec

\* Every variable of Publish has its type in every reachable state, whatever
\* runs overlap, fail or are killed.
THEOREM TypeCorrect == Spec => []TypeOK
<1>1. HInv => TypeOK
  BY DEF HInv
<1> QED BY <1>1, HistInvariance, PTL

\* The history in every database that has been published is, for any sequence
\* of depths, overlapping and killed runs, what append and trim_history_runs()
\* are meant to leave: the marker and the changes of exactly the runs of its
\* lineage that no later run's depth has excluded, whole and in order.
THEOREM FaithfulHistory == Spec => []HistoryFaithful
<1>1. HInv => HistoryFaithful
  <2> SUFFICES ASSUME HInv, NEW f \in published PROVE file[f].history = Told(file[f].lineage)
    BY DEF HistoryFaithful
  <2>1. Good(file, f, published)
    BY DEF HInv, HistInv
  <2>2. file[f].lineage \in Seq(Runs) /\ Tells(file, file[f].lineage, file[f].history)
    BY <2>1 DEF Good
  <2> QED BY <2>2, ToldIsTold
<1> QED BY <1>1, HistInvariance, PTL
=============================================================================
