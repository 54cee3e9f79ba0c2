--------------------------- MODULE UpdatedbProofs ---------------------------
(***************************************************************************)
(* Proofs about Updatedb for every tree, every bound and every schedule:   *)
(* types, and, for a file system whose stamps tell any two changes apart,  *)
(* the soundness of reusing listings and digests of the old database.  A   *)
(* run during which nothing changes produces the file system, and the      *)
(* recorded events lead from the old database to the new one.              *)
(***************************************************************************)
EXTENDS Updatedb, Induction

-----------------------------------------------------------------------------
(* The inductive invariant.                                                *)

\* The directory at d still has the time t that was read for it.  Changes
\* move stamps forward, so once this is false it stays false.
Fresh(d, t) == kind[d] = "dir" /\ stamp[d] = t /\ t > 0

\* What the loops still have to visit are entries; with it types are inductive.
TInv ==
    /\ TypeOK
    /\ pc \in {"stat", "hash", "open"} => pend \subseteq DOMAIN ents
    /\ dbent \subseteq DOMAIN db.rec

FsInv ==
    /\ kind[Root] = "dir"
    /\ \A p \in Path : kind[p] # "none" => kind[Parent[p]] = "dir"
    /\ \A n \in Node : stamp[n] <= now

\* No time that was read is ahead of the clock.
TimeInv ==
    /\ \A p \in DOMAIN db.rec : db.rec[p].dt <= now /\ db.rec[p].meta.stamp <= now
    /\ \A p \in DOMAIN out : out[p].dt <= now /\ out[p].meta.stamp <= now
    /\ \A p \in DOMAIN ents :
           ents[p].dt <= now /\ ents[p].meta.stamp <= now /\ ents[p].prev.stamp <= now
    /\ \A n \in DOMAIN fds : fds[n].dt <= now

InScan == pc \in {"readdir", "stat", "hash", "open"}

\* Which directories are open, and which records they have.
ShapeInv ==
    /\ InScan => cur \in DOMAIN fds /\ DOMAIN ents \subseteq Children(cur)
    /\ ~InScan => DOMAIN ents = {}
    /\ pc = "readdir" => pend \subseteq Children(cur) /\ pend \cap DOMAIN ents = {}
    /\ \A p \in DOMAIN out : Parent[p] \in Path => Parent[p] \in DOMAIN out
    /\ \A n \in DOMAIN fds : Children(n) \cap DOMAIN out = {}
    /\ \A n \in DOMAIN fds \cap Path :
           n \in DOMAIN out /\ out[n].dt = fds[n].dt /\ n \notin PruneNames

\* The times said to come from the old database do.
OldInv ==
    /\ \A p \in DOMAIN ents : ents[p].dbm > 0 =>
           p \in DOMAIN db.rec /\ ents[p].dbm = db.rec[p].dt
    /\ \A n \in DOMAIN fds : fds[n].dbm > 0 =>
           n \in DOMAIN db.rec /\ fds[n].dbm = db.rec[n].dt

\* The part of cur's listing that has been read.
ReadSoFar == IF pc = "readdir" THEN Children(cur) \ pend ELSE Children(cur)

\* As long as cur has the time it was opened with, what was read of its
\* listing is its listing, or it is the empty listing that was stored when cur
\* could not be opened.
ReadExact ==
    /\ \A p \in ReadSoFar : p \in DOMAIN ents <=> kind[p] # "none"
    /\ \A p \in DOMAIN ents : ents[p].isdir <=> kind[p] = "dir"
    /\ \A p \in DOMAIN ents : ents[p].isdir => ents[p].dt >= 0
ReadNothing == "open" \in Faults /\ DOMAIN ents = {} /\ pc # "readdir"
ListInv == (InScan /\ Fresh(cur, fds[cur].dt)) => ReadExact \/ ReadNothing

\* The open directory is the one at the path, as long as the time matches.
FdInv == \A n \in DOMAIN fds : Fresh(n, fds[n].dt) => fds[n].ino = ino[n]

\* An entry with a current time was opened, or can still be opened.
EntInv ==
    /\ InScan => \A p \in DOMAIN ents : Fresh(p, ents[p].dt) =>
           IF ents[p].fd = NoInode THEN Alive ELSE ents[p].fd = ino[p]
    /\ \A p \in DOMAIN ents : ents[p].fd # NoInode =>
           ents[p].isdir /\ p \notin PruneNames /\ pc = "open"
    /\ pc = "open" => \A p \in DOMAIN ents \ pend :
           /\ ~ents[p].isdir => ents[p].dt = not_a_dir
           /\ (ents[p].fd = NoInode /\ p \notin PruneNames) =>
                  (~Fresh(p, ents[p].dt) \/ "open" \in Faults)

\* A set of records has d's listing, with the right entries marked as
\* directories; or it has nothing of it, because d could not be opened.
Whole(d, rec) ==
    /\ Children(d) \cap DOMAIN rec = Listing(d)
    /\ \A p \in Listing(d) : rec[p].dt >= 0 <=> kind[p] = "dir"
Bare(d, rec) == "open" \in Faults /\ Children(d) \cap DOMAIN rec = {}

\* What is stored for a directory that still has its stored time, in the old
\* database and, but for directories still to come, in the new one.
StoredInv ==
    \A d \in Scanned \cap DOMAIN db.rec :
        Fresh(d, db.rec[d].dt) => Whole(d, db.rec) \/ Bare(d, db.rec)
OutInv ==
    \A d \in Scanned \cap DOMAIN out :
        (Fresh(d, out[d].dt) /\ d \notin DOMAIN fds) => Whole(d, out) \/ Bare(d, out)

\* A recorded stamp and digest agree with the file, if the stamp is the file's.
HashOk(p, m) ==
    (kind[p] = "file" /\ m.stamp = stamp[p]) => m.hash \in {NoHash, content[p]}

HashInv ==
    /\ \A p \in DOMAIN db.rec : HashOk(p, db.rec[p].meta)
    /\ \A p \in DOMAIN out : HashOk(p, out[p].meta)
    /\ \A p \in DOMAIN ents : HashOk(p, ents[p].meta) /\ HashOk(p, ents[p].prev)

IInv == /\ FsInv /\ TimeInv /\ ShapeInv /\ OldInv /\ ListInv
        /\ FdInv /\ EntInv /\ OutInv /\ StoredInv /\ HashInv

-----------------------------------------------------------------------------
(* Types.                                                                  *)

\* The empty function, which stands for an empty vector, has no entries.
LEMMA EmptyFacts ==
    /\ DOMAIN Empty = {}
    /\ Empty \in [DOMAIN Empty -> Record]
    /\ Empty \in [DOMAIN Empty -> OpenDir]
    /\ Empty \in [DOMAIN Empty -> Entry]
  BY DEF Empty

\* A machine on which updatedb has not run yet is typed.
LEMMA TypeInit == Init => TInv
<1> SUFFICES ASSUME Init PROVE TInv
  OBVIOUS
<1>1. /\ db.valid = FALSE /\ db.rec = Empty /\ fds = Empty /\ ents = Empty
      /\ out = Empty /\ dbent = {} /\ pend = {} /\ events = {}
  BY DEF Init
<1>2. /\ kind \in [Node -> {"none", "file", "dir"}]
      /\ stamp \in [Node -> Nat] /\ ino \in [Node -> Nat \ {NoInode}]
      /\ content \in [Node -> Content \cup {0}]
  BY DEF Init, NoInode
<1>3. now \in Nat /\ tcache \in Int
  BY ClockAssumption DEF Init
<1>4. pc \in PC /\ cur \in Node
  BY DEF Init, PC, Node
<1>5. baseline \in BOOLEAN /\ olderr \in BOOLEAN /\ dirty \in BOOLEAN
  BY DEF Init
<1> QED
  BY <1>1, <1>2, <1>3, <1>4, <1>5, EmptyFacts DEF TInv, TypeOK

\* A change of the file system keeps the types.
LEMMA TypeFileSystem == TInv /\ FileSystem => TInv'
<1> SUFFICES ASSUME TInv, FileSystem PROVE TInv'
  OBVIOUS
<1> USE DEF TInv, TypeOK, runVars
<1>1. ASSUME NEW S, Change(S)
      PROVE  /\ now' \in Nat /\ stamp' \in [Node -> Nat] /\ dirty' \in BOOLEAN
             /\ UNCHANGED <<db, pc, runVars>>
  BY <1>1 DEF Change
<1>2. ASSUME NEW p \in Path, NEW k \in {"file", "dir"}, NEW c \in Content, Create(p, k, c)
      PROVE  TInv'
  <2>1. kind' \in [Node -> {"none", "file", "dir"}] /\ ino' \in [Node -> Nat \ {NoInode}]
    BY <1>2 DEF Create, Node, NoInode
  <2>2. content' \in [Node -> Content \cup {0}]
    BY <1>2 DEF Create, Node
  <2> QED
    BY <1>1, <1>2, <2>1, <2>2 DEF Create
<1>3. ASSUME NEW p \in Path, Remove(p) PROVE TInv'
  <2>1. kind' \in [Node -> {"none", "file", "dir"}] /\ ino' \in [Node -> Nat \ {NoInode}]
    BY <1>3 DEF Remove, Node
  <2>2. content' \in [Node -> Content \cup {0}]
    BY <1>3 DEF Remove, Node
  <2> QED
    BY <1>1, <1>3, <2>1, <2>2 DEF Remove
<1>4. ASSUME NEW p \in Path, NEW c \in Content, Modify(p, c) PROVE TInv'
  <2>1. content' \in [Node -> Content \cup {0}]
    BY <1>4 DEF Modify, Node
  <2> QED
    BY <1>1, <1>4, <2>1 DEF Modify
<1>5. CASE Tick
  BY <1>5 DEF Tick
<1> QED
  BY <1>2, <1>3, <1>4, <1>5 DEF FileSystem
\* Facts about the helpers that the action proofs share.
\* A loop takes an element of what it has not come to yet.
LEMMA FirstIn == \A S : First(S) \subseteq S
  BY DEF First

\* get_dirtime_from_stat() returns a time of a directory.
LEMMA DirTimeType ==
    ASSUME NEW t \in Nat
    PROVE  get_dirtime_from_stat(t) \in Nat /\ get_dirtime_from_stat(t) \in {0, t}
  BY DEF get_dirtime_from_stat, unknown_dir_time

\* A FileMetadata that is not enabled is a FileMetadata.
LEMMA NoMetadataType == NoMetadata \in Metadata
  BY DEF NoMetadata, Metadata, NoHash

\* record_history_event() appends at most well-formed events.
LEMMA EventType ==
    ASSUME NEW p \in Path, NEW e \in Entry
    PROVE  HistoryOf(p, e) \subseteq Event
  BY NoMetadataType DEF HistoryOf, Event, Entry

\* What fstatat() fills in makes an entry of an entry.
LEMMA StattedType ==
    ASSUME TypeOK, NEW p \in DOMAIN ents
    PROVE  Statted(p) \in Entry
<1>1. p \in Node /\ stamp[p] \in Nat /\ ents[p] \in Entry
  BY DEF TypeOK, Node
<1>2. get_dirtime_from_stat(stamp[p]) \in DirTime /\ not_a_dir \in DirTime
  BY <1>1, DirTimeType DEF DirTime, not_a_dir, NoInode
<1>3. [stamp |-> stamp[p], hash |-> NoHash] \in Metadata
  BY <1>1 DEF Metadata
<1> QED
  BY <1>1, <1>2, <1>3 DEF Statted, Entry

\* The end of an iteration of the stat loop keeps the entries typed.
LEMMA StatDoneType ==
    ASSUME TInv, pc \in {"stat", "hash"}, NEW p \in pend, NEW e \in Entry, StatDone(p, e)
    PROVE  /\ ents' \in [DOMAIN ents -> Entry] /\ DOMAIN ents' = DOMAIN ents
           /\ events' \subseteq Event
           /\ pend' \subseteq pend /\ pc' = "stat"
  BY EventType DEF TInv, TypeOK, StatDone

\* Whatever is read of the old listing has a record in the old database.
LEMMA ReadOldType ==
    ASSUME TInv, NEW d \in Node, ReadOld(d)
    PROVE  /\ dbent' \subseteq Children(d) \cap DOMAIN db.rec
           /\ olderr' \in BOOLEAN
           /\ ~olderr' => (~olderr /\ dbent' = Children(d) \cap DOMAIN db.rec)
  BY DEF TInv, TypeOK, ReadOld, OldListing

\* A record of the old database makes an entry.
LEMMA FromDbType ==
    ASSUME TInv, NEW p \in DOMAIN db.rec
    PROVE  FromDb(p) \in Entry
<1>1. db.rec[p] \in Record
  BY DEF TInv, TypeOK
<1>2. db.rec[p].dt \in DirTime /\ db.rec[p].meta \in Metadata
  BY <1>1 DEF Record
<1>3. (db.rec[p].dt >= 0) \in BOOLEAN
  OBVIOUS
<1> QED
  BY <1>2, <1>3, NoMetadataType DEF FromDb, Entry, DirTime, unknown_dir_time, NoInode, not_a_dir

\* A name returned by readdir() makes an entry.
LEMMA FromReaddirType ==
    ASSUME TInv, NEW p \in Path
    PROVE  FromReaddir(p) \in Entry
<1>1. p \in dbent => db.rec[p].dt \in DirTime /\ db.rec[p].meta \in Metadata
  BY DEF TInv, TypeOK, Record
<1>2. (kind[p] = "dir") \in BOOLEAN /\ (p \in dbent) \in BOOLEAN
  OBVIOUS
<1> QED
  BY <1>1, <1>2, NoMetadataType DEF FromReaddir, Entry, DirTime, unknown_dir_time, NoInode, not_a_dir

\* Every step of updatedb keeps the types.
LEMMA TypeScan == TInv /\ (Scan \/ Abort) => TInv'
<1> SUFFICES ASSUME TInv, Scan \/ Abort PROVE TInv'
  OBVIOUS
<1> USE DEF fsVars
<1>0. TypeOK /\ db.rec \in [DOMAIN db.rec -> Record] /\ DOMAIN db.rec \subseteq Path
  BY DEF TInv, TypeOK
<1>1. CASE Start
  <2>1. fds' \in [DOMAIN fds' -> OpenDir] /\ DOMAIN fds' = {Root}
    <3>1. Root \in Node /\ stamp[Root] \in Nat /\ ino[Root] \in Nat \ {NoInode}
      BY <1>0 DEF TypeOK, Node
    <3> QED
      BY <1>1, <3>1 DEF Start, OpenDir, DirTime, unknown_dir_time, not_a_dir, NoInode
  <2>2. out' = Empty /\ tcache' \in Int /\ pc' = "enter"
    BY <1>0, <1>1, ClockAssumption DEF Start, TypeOK
  <2> QED
    BY <1>0, <1>1, <2>1, <2>2, EmptyFacts DEF Start, TInv, TypeOK, PC, Node
<1>2. CASE Enter
  <2>1. PICK d \in First(DOMAIN fds) : EnterPruned(d) \/ EnterUnchanged(d) \/ EnterChanged(d)
    BY <1>2 DEF Enter
  <2>2. d \in DOMAIN fds /\ d \in Node /\ Children(d) \subseteq Path
    BY <1>0, <2>1, FirstIn DEF TypeOK, Children
  <2>3. ASSUME SkipDir(d) PROVE fds' \in [DOMAIN fds' -> OpenDir] /\ DOMAIN fds' \subseteq Node
    BY <1>0, <2>3 DEF SkipDir, TypeOK
  <2>4. CASE EnterPruned(d)
    BY <1>0, <1>2, <2>3, <2>4 DEF Enter, EnterPruned, SkipDir, TInv, TypeOK
  <2>5. CASE EnterUnchanged(d)
    <3>1. ents' \in [dbent' -> Entry] /\ DOMAIN ents' = dbent'
      BY <2>2, <2>5, ReadOldType, FromDbType DEF EnterUnchanged
    <3> QED
      BY <1>0, <1>2, <2>2, <2>5, <3>1, ReadOldType
         DEF Enter, EnterUnchanged, TInv, TypeOK, PC
  <2>6. CASE EnterChanged(d)
    BY <1>0, <1>2, <2>2, <2>3, <2>6, ReadOldType, EmptyFacts
       DEF Enter, EnterChanged, SkipDir, TInv, TypeOK, PC
  <2> QED
    BY <2>1, <2>4, <2>5, <2>6
<1>3. CASE Readdir
  <2>1. PICK p \in First(pend) :
           /\ pend' = pend \ {p}
           /\ ents' = IF Alive /\ kind[p] # "none"
                      THEN [q \in DOMAIN ents \cup {p} |->
                                IF q = p THEN FromReaddir(p) ELSE ents[q]]
                      ELSE ents
    BY <1>3 DEF Readdir
  <2>2. p \in Path
    BY <1>0, <2>1, FirstIn DEF TypeOK
  <2>3. ents' \in [DOMAIN ents' -> Entry] /\ DOMAIN ents' \subseteq Path
    BY <1>0, <2>1, <2>2, FromReaddirType DEF TypeOK
  <2> QED
    BY <1>0, <1>3, <2>1, <2>3 DEF Readdir, TInv, TypeOK
<1>4. CASE ReaddirDone
  BY <1>0, <1>4 DEF ReaddirDone, TInv, TypeOK, PC
<1>5. CASE Stat
  <2>1. PICK p \in First(pend) : StatFails(p) \/ StatDir(p) \/ StatSameHash(p) \/ StatToHash(p)
    BY <1>5 DEF Stat
  <2>2. p \in pend /\ p \in Path /\ p \in DOMAIN ents /\ Statted(p) \in Entry /\ stamp[p] \in Nat
    BY <1>0, <1>5, <2>1, FirstIn, StattedType DEF Stat, TInv, TypeOK, Node
  <2>3. CASE StatFails(p)
    BY <1>0, <1>5, <2>3 DEF Stat, StatFails, TInv, TypeOK
  <2>4. CASE StatDir(p)
    <3>1. tcache' \in Int
      BY <1>0, <2>2, <2>4, ClockAssumption DEF StatDir, CacheAfter, TypeOK
    <3>2. StatDone(p, Statted(p))
      BY <2>4 DEF StatDir
    <3> QED
      BY <1>0, <1>5, <2>2, <3>1, <3>2, StatDoneType DEF Stat, TInv, TypeOK, PC
  <2>5. CASE StatSameHash(p)
    <3>1. [Statted(p) EXCEPT !.meta.hash = ents[p].prev.hash] \in Entry
      BY <1>0, <2>2 DEF TypeOK, Entry, Metadata
    <3>2. StatDone(p, [Statted(p) EXCEPT !.meta.hash = ents[p].prev.hash])
      BY <2>5 DEF StatSameHash
    <3> QED
      BY <1>0, <1>5, <2>2, <2>5, <3>1, <3>2, StatDoneType
         DEF Stat, StatSameHash, TInv, TypeOK, PC
  <2>6. CASE StatToHash(p)
    BY <1>0, <1>5, <2>2, <2>6 DEF Stat, StatToHash, TInv, TypeOK, PC
  <2> QED
    BY <2>1, <2>3, <2>4, <2>5, <2>6
<1>6. CASE Hash
  <2>0. PICK p \in First(pend) :
           \E h \in {NoHash} \cup (IF Alive /\ kind[p] = "file" THEN {content[p]} ELSE {}) :
               StatDone(p, [ents[p] EXCEPT !.meta.hash = h])
    BY <1>6 DEF Hash
  <2>1. PICK h \in {NoHash} \cup (IF Alive /\ kind[p] = "file" THEN {content[p]} ELSE {}) :
           StatDone(p, [ents[p] EXCEPT !.meta.hash = h])
    BY <2>0
  <2>2. p \in pend /\ p \in Path /\ p \in DOMAIN ents /\ ents[p] \in Entry
        /\ content[p] \in Content \cup {0}
    BY <1>0, <1>6, FirstIn DEF Hash, TInv, TypeOK, Node
  <2>3. [ents[p] EXCEPT !.meta.hash = h] \in Entry
    BY <2>1, <2>2 DEF Entry, Metadata, NoHash
  <2> QED
    BY <1>0, <1>6, <2>1, <2>2, <2>3, StatDoneType DEF Hash, TInv, TypeOK, PC
<1>7. CASE StatLoopDone
  BY <1>0, <1>7 DEF StatLoopDone, TInv, TypeOK, PC
<1>8. CASE Open
  <2>1. PICK p \in First(pend) : /\ OpenNothing(p) \/ OpenFails(p) \/ OpenDirectory(p)
                                 /\ pend' = pend \ {p}
    BY <1>8 DEF Open
  <2>2. p \in DOMAIN ents /\ ents[p] \in Entry /\ stamp[p] \in Nat /\ ino[p] \in Nat
    BY <1>0, <1>8, <2>1, FirstIn DEF Open, TInv, TypeOK, Node
  <2>3. ents' \in [DOMAIN ents -> Entry] /\ DOMAIN ents' = DOMAIN ents /\ tcache' \in Int
    <3>1. CASE OpenNothing(p)
      <4>1. [ents[p] EXCEPT !.dt = not_a_dir] \in Entry
        BY <2>2 DEF Entry, DirTime, not_a_dir, NoInode
      <4>2. ents' = [ents EXCEPT ![p] = [ents[p] EXCEPT !.dt = not_a_dir]]
        BY <3>1 DEF OpenNothing
      <4> QED
        BY <1>0, <3>1, <4>1, <4>2 DEF OpenNothing, TypeOK
    <3>2. CASE OpenFails(p)
      BY <1>0, <3>2 DEF OpenFails, TypeOK
    <3>3. CASE OpenDirectory(p)
      <4> DEFINE e == [ents[p] EXCEPT !.dt = get_dirtime_from_stat(stamp[p]), !.fd = ino[p]]
      <4>0. get_dirtime_from_stat(stamp[p]) \in DirTime
        BY <2>2, DirTimeType DEF DirTime
      <4>1. e \in Entry
        BY <2>2, <4>0 DEF Entry
      <4>2. ents' = [ents EXCEPT ![p] = e]
        BY <2>2, <3>3 DEF OpenDirectory
      <4>3. tcache' \in Int
        BY <1>0, <2>2, <3>3, ClockAssumption DEF OpenDirectory, CacheAfter, TypeOK
      <4> QED
        BY <1>0, <4>1, <4>2, <4>3 DEF TypeOK
    <3> QED
      BY <2>1, <3>1, <3>2, <3>3
  <2> QED
    BY <1>0, <1>8, <2>1, <2>3 DEF Open, TInv, TypeOK
<1>9. CASE Add
  <2>1. \A p \in DOMAIN ents : /\ ents[p].dt \in DirTime /\ ents[p].dbm \in DirTime
                               /\ ents[p].meta \in Metadata /\ ents[p].fd \in Nat
    BY <1>0 DEF TypeOK, Entry, DirTime, not_a_dir, NoInode
  <2>2. out' \in [DOMAIN out' -> Record] /\ DOMAIN out' \subseteq Path
    BY <1>0, <1>9, <2>1 DEF Add, TypeOK, Record, DirTime, not_a_dir, NoInode
  <2>3. fds' \in [DOMAIN fds' -> OpenDir] /\ DOMAIN fds' \subseteq Node
    <3>1. \A n \in Subdirs : n \in DOMAIN ents /\ ents[n].fd \in Nat \ {NoInode}
      BY <2>1 DEF Subdirs
    <3> QED
      BY <1>0, <1>9, <2>1, <3>1 DEF Add, TypeOK, OpenDir, Node
  <2>4. events' \subseteq Event
    <3>1. \A p \in Unmatched : p \in Path /\ db.rec[p].meta \in Metadata
      BY <1>0 DEF Unmatched, TInv, TypeOK, Record
    <3> QED
      BY <1>0, <1>9, <3>1, NoMetadataType DEF Add, TypeOK, Event
  <2> QED
    BY <1>0, <1>9, <2>2, <2>3, <2>4, EmptyFacts DEF Add, TInv, TypeOK, PC
<1>10. ASSUME EndRun, DOMAIN db.rec' \subseteq Path, db.valid' \in BOOLEAN,
              db.rec' \in [DOMAIN db.rec' -> Record]
       PROVE  TInv'
  BY <1>0, <1>10, EmptyFacts DEF EndRun, TInv, TypeOK, PC, Node
<1>11. CASE Finish
  BY <1>0, <1>10, <1>11 DEF Finish, TypeOK
<1>12. CASE Abort
  BY <1>0, <1>10, <1>12 DEF Abort, TypeOK
<1> QED
  BY <1>1, <1>2, <1>3, <1>4, <1>5, <1>6, <1>7, <1>8, <1>9, <1>11, <1>12 DEF Scan

\* A step that changes nothing keeps the types.
LEMMA TypeStutter == TInv /\ UNCHANGED vars => TInv'
  BY DEF TInv, TypeOK, vars, fsVars, runVars

\* What the scan and the file system do to the variables of updatedb never
\* leaves the types the code declares: no handler reads an entry, a record or
\* an open directory that is not there.
THEOREM TypeCorrect == Spec => []TypeOK
<1>1. Spec => []TInv
  BY TypeInit, TypeFileSystem, TypeScan, TypeStutter, PTL DEF Spec, Next
<1>2. TInv => TypeOK
  BY DEF TInv
<1> QED
  BY <1>1, <1>2, PTL

-----------------------------------------------------------------------------
(* Changes of the file system.                                             *)

\* Everything the invariant needs to know of a change under a fine clock: an
\* inode that was not stamped is the same inode, with the same content, the
\* same entries if it is a directory, and the same parent.
Careful ==
    /\ now' \in Nat /\ now <= now'
    /\ UNCHANGED <<db, pc, baseline, olderr, tcache, fds, cur, ents, dbent, pend, out, events>>
    /\ \A n \in Node : stamp'[n] = stamp[n] \/ stamp'[n] > now
    /\ \A n \in Node : stamp'[n] = stamp[n] =>
           kind'[n] = kind[n] /\ ino'[n] = ino[n] /\ content'[n] = content[n]
    /\ \A p \in Path : stamp'[Parent[p]] = stamp[Parent[p]] => kind'[p] = kind[p]
    /\ \A p \in Path : (kind[p] # "none" /\ stamp'[p] = stamp[p]) =>
           kind'[Parent[p]] = kind[Parent[p]] /\ ino'[Parent[p]] = ino[Parent[p]]

\* A path and the directory it is in are two different nodes.
LEMMA ParentType == \A p \in Path : Parent[p] \in Node /\ p \in Node /\ Parent[p] # p
  BY TreeAssumption DEF Node

\* With a fine clock every change moves a stamp past every time read so far.
LEMMA FileSystemCareful ==
    ASSUME TInv, FsInv, FineClock, FileSystem
    PROVE  Careful /\ FsInv'
<1>0. /\ kind \in [Node -> {"none", "file", "dir"}] /\ now \in Nat
      /\ stamp \in [Node -> Nat] /\ ino \in [Node -> Nat]
      /\ content \in [Node -> Content \cup {0}] /\ Path \subseteq Node /\ Root \in Node
  BY DEF TInv, TypeOK, Node
<1>1. ASSUME NEW S, Change(S)
      PROVE  /\ now' = now + 1
             /\ UNCHANGED <<db, pc, baseline, olderr, tcache, fds, cur, ents, dbent,
                            pend, out, events>>
             /\ stamp' = [n \in Node |-> IF n \in S THEN now + 1 ELSE stamp[n]]
             /\ \A n \in Node : IF n \in S THEN stamp'[n] = now + 1 /\ stamp'[n] # stamp[n]
                                           ELSE stamp'[n] = stamp[n]
  BY <1>0, <1>1 DEF Change, runVars, FsInv
<1>2. ASSUME NEW p \in Path, NEW k \in {"file", "dir"}, NEW c \in Content, Create(p, k, c)
      PROVE  Careful /\ FsInv'
  <2>1. /\ kind[p] = "none" /\ kind[Parent[p]] = "dir" /\ Change({p, Parent[p]})
        /\ \A n \in Node : n # p => kind'[n] = kind[n] /\ ino'[n] = ino[n]
                                    /\ content'[n] = content[n]
        /\ kind'[p] = k /\ ino'[p] = ino[p] + 1
    BY <1>0, <1>2 DEF Create
  <2>2. \A q \in Path : kind[q] # "none" => Parent[q] # p
    BY <2>1 DEF FsInv
  <2>3. Careful
    BY <1>0, <1>1, <2>1, <2>2, ParentType DEF Careful
  <2>4. FsInv'
    BY <1>0, <1>1, <2>1, <2>2, ParentType, TreeAssumption DEF FsInv
  <2> QED
    BY <2>3, <2>4
<1>3. ASSUME NEW p \in Path, Remove(p)
      PROVE  Careful /\ FsInv'
  <2>1. /\ kind[p] # "none" /\ Change({p, Parent[p]})
        /\ \A n \in Node : n # p => kind'[n] = kind[n] /\ content'[n] = content[n]
        /\ kind'[p] = "none" /\ ino' = ino
    BY <1>0, <1>3 DEF Remove
  <2>2. \A q \in Path : kind[q] # "none" => Parent[q] # p
    BY <1>3 DEF Remove, Listing, Children
  <2>3. Careful
    BY <1>0, <1>1, <2>1, <2>2, ParentType DEF Careful
  <2>4. FsInv'
    BY <1>0, <1>1, <2>1, <2>2, ParentType, TreeAssumption DEF FsInv
  <2> QED
    BY <2>3, <2>4
<1>4. ASSUME NEW p \in Path, NEW c \in Content, Modify(p, c)
      PROVE  Careful /\ FsInv'
  <2>1. /\ Change({p}) /\ kind' = kind /\ ino' = ino
        /\ \A n \in Node : n # p => content'[n] = content[n]
    BY <1>0, <1>4 DEF Modify
  <2>3. Careful
    BY <1>0, <1>1, <2>1, ParentType DEF Careful
  <2>4. FsInv'
    BY <1>0, <1>1, <2>1, ParentType DEF FsInv
  <2> QED
    BY <2>3, <2>4
<1>5. CASE Tick
  <2>1. Careful
    BY <1>0, <1>5 DEF Tick, Careful, runVars
  <2>2. FsInv'
    BY <1>0, <1>5 DEF Tick, FsInv
  <2> QED
    BY <2>1, <2>2
<1> QED
  BY <1>2, <1>3, <1>4, <1>5 DEF FileSystem

\* A directory that has a time read in the past has not changed since.
LEMMA FreshBack ==
    ASSUME TInv, Careful, NEW d \in Node, NEW t \in Int, t <= now,
           kind'[d] = "dir", stamp'[d] = t, t > 0
    PROVE  /\ Fresh(d, t) /\ ino'[d] = ino[d]
           /\ \A p \in Children(d) : kind'[p] = kind[p]
           /\ d \in Path => kind'[Parent[d]] = kind[Parent[d]]
                            /\ ino'[Parent[d]] = ino[Parent[d]]
<1>1. now \in Nat /\ stamp[d] \in Nat
  BY DEF TInv, TypeOK
<1>2. stamp'[d] = stamp[d]
  BY <1>1 DEF Careful
<1>3. Fresh(d, t) /\ ino'[d] = ino[d]
  BY <1>2 DEF Careful, Fresh
<1> QED
  BY <1>2, <1>3 DEF Careful, Fresh, Children

\* A careful change of the file system keeps the invariant: what it
\* invalidates, it also makes unrecognisable by its time.
LEMMA CarefulKeeps ==
    ASSUME TInv, IInv, Careful, FsInv'
    PROVE  IInv'
<1> USE DEF IInv
<1>0. /\ UNCHANGED <<db, pc, fds, cur, ents, dbent, pend, out>>
      /\ now \in Nat /\ now' \in Nat /\ now <= now'
  BY DEF TInv, TypeOK, Careful
<1>1. /\ DOMAIN db.rec \subseteq Node /\ DOMAIN out \subseteq Node
      /\ DOMAIN ents \subseteq Node /\ DOMAIN fds \subseteq Node /\ cur \in Node
      /\ \A p \in DOMAIN db.rec : db.rec[p].dt \in Int /\ db.rec[p].meta.stamp \in Nat
      /\ \A p \in DOMAIN out : out[p].dt \in Int /\ out[p].meta.stamp \in Nat
      /\ \A p \in DOMAIN ents : ents[p].dt \in Int /\ ents[p].meta.stamp \in Nat
                                /\ ents[p].prev.stamp \in Nat
      /\ \A n \in DOMAIN fds : fds[n].dt \in Int
  BY DEF TInv, TypeOK, Node, Record, Entry, OpenDir, DirTime, Metadata, not_a_dir, NoInode
<1>2. TimeInv'
  BY <1>0, <1>1 DEF TimeInv
<1>3. ShapeInv' /\ OldInv'
  BY <1>0 DEF ShapeInv, OldInv, InScan, Children
<1>4. ListInv'
  <2> SUFFICES ASSUME InScan, kind'[cur] = "dir", stamp'[cur] = fds[cur].dt, fds[cur].dt > 0
               PROVE  ReadExact' \/ ReadNothing'
    BY <1>0 DEF ListInv, InScan, Fresh
  <2>1. cur \in DOMAIN fds /\ DOMAIN ents \subseteq Children(cur)
    BY DEF ShapeInv
  <2>2. Fresh(cur, fds[cur].dt) /\ \A p \in Children(cur) : kind'[p] = kind[p]
    BY <1>1, <2>1, FreshBack DEF TimeInv
  <2>3. ReadExact => ReadExact'
    BY <1>0, <2>1, <2>2 DEF ReadExact, ReadSoFar, Children
  <2>4. ReadNothing => ReadNothing'
    BY <1>0 DEF ReadNothing
  <2> QED
    BY <2>2, <2>3, <2>4 DEF ListInv
<1>5. FdInv'
  BY <1>0, <1>1, FreshBack DEF FdInv, TimeInv, Fresh
<1>6. EntInv'
  <2>1. ASSUME NEW p \in DOMAIN ents, kind'[p] = "dir", stamp'[p] = ents[p].dt, ents[p].dt > 0
        PROVE  /\ Fresh(p, ents[p].dt) /\ ino'[p] = ino[p]
               /\ InScan /\ Alive => Alive'
    <3>1. /\ Fresh(p, ents[p].dt) /\ ino'[p] = ino[p]
          /\ p \in Path => kind'[Parent[p]] = kind[Parent[p]] /\ ino'[Parent[p]] = ino[Parent[p]]
      BY <1>1, <2>1, FreshBack DEF TimeInv
    <3>2. InScan => p \in Path /\ Parent[p] = cur
      BY DEF ShapeInv, Children
    <3> QED
      BY <1>0, <3>1, <3>2 DEF Alive
  <2>2. (InScan => \A p \in DOMAIN ents : Fresh(p, ents[p].dt) =>
           IF ents[p].fd = NoInode THEN Alive ELSE ents[p].fd = ino[p])'
    BY <1>0, <2>1 DEF EntInv, InScan, Fresh
  <2>3. (pc = "open" => \A p \in DOMAIN ents \ pend :
           /\ ~ents[p].isdir => ents[p].dt = not_a_dir
           /\ (ents[p].fd = NoInode /\ p \notin PruneNames) =>
                  (~Fresh(p, ents[p].dt) \/ "open" \in Faults))'
    BY <1>0, <2>1 DEF EntInv, Fresh
  <2> QED
    BY <1>0, <2>2, <2>3 DEF EntInv
<1>7. OutInv'
  <2> SUFFICES ASSUME NEW d \in Scanned \cap DOMAIN out, d \notin DOMAIN fds,
                      kind'[d] = "dir", stamp'[d] = out[d].dt, out[d].dt > 0
               PROVE  Whole(d, out)' \/ Bare(d, out)'
    BY <1>0 DEF OutInv, Fresh
  <2>1. Fresh(d, out[d].dt) /\ Listing(d)' = Listing(d) /\ \A p \in Listing(d) : kind'[p] = kind[p]
    BY <1>0, <1>1, FreshBack DEF TimeInv, Listing, Children
  <2> QED
    BY <1>0, <2>1 DEF OutInv, Whole, Bare, Children
<1>8. StoredInv'
  <2> SUFFICES ASSUME NEW d \in Scanned \cap DOMAIN db.rec,
                      kind'[d] = "dir", stamp'[d] = db.rec[d].dt, db.rec[d].dt > 0
               PROVE  Whole(d, db.rec)' \/ Bare(d, db.rec)'
    BY <1>0 DEF StoredInv, Fresh
  <2>1. Fresh(d, db.rec[d].dt) /\ Listing(d)' = Listing(d)
        /\ \A p \in Listing(d) : kind'[p] = kind[p]
    BY <1>0, <1>1, FreshBack DEF TimeInv, Listing, Children
  <2> QED
    BY <1>0, <2>1 DEF StoredInv, Whole, Bare, Children
<1>9. HashInv'
  <2>1. ASSUME NEW p \in Node, NEW m, m.stamp \in Nat, m.stamp <= now, HashOk(p, m),
               kind'[p] = "file", m.stamp = stamp'[p]
        PROVE  m.hash \in {NoHash, content'[p]}
    <3>1. stamp'[p] = stamp[p]
      BY <1>0, <2>1 DEF Careful, TInv, TypeOK
    <3> QED
      BY <2>1, <3>1 DEF Careful, HashOk
  <2>2. (\A p \in DOMAIN db.rec : HashOk(p, db.rec[p].meta))'
    BY <1>0, <1>1, <2>1 DEF HashInv, HashOk, TimeInv
  <2>3. (\A p \in DOMAIN out : HashOk(p, out[p].meta))'
    BY <1>0, <1>1, <2>1 DEF HashInv, HashOk, TimeInv
  <2>4. (\A p \in DOMAIN ents : HashOk(p, ents[p].meta) /\ HashOk(p, ents[p].prev))'
    BY <1>0, <1>1, <2>1 DEF HashInv, HashOk, TimeInv
  <2> QED
    BY <2>2, <2>3, <2>4 DEF HashInv
<1> QED
  BY <1>2, <1>3, <1>4, <1>5, <1>6, <1>7, <1>8, <1>9

-----------------------------------------------------------------------------
(* Steps of updatedb.                                                      *)

\* The steps between entering a directory and adding its entries touch only
\* the entries, so only what the invariant says of entries is at stake.
EntryOk(p, e) ==
    /\ e.dt <= now /\ e.meta.stamp <= now /\ e.prev.stamp <= now
    /\ e.dbm > 0 => p \in DOMAIN db.rec /\ e.dbm = db.rec[p].dt
    /\ HashOk(p, e.meta) /\ HashOk(p, e.prev)

\* A step that only updates entries keeps what the invariant says of the rest.
LEMMA EntsStep ==
    ASSUME TInv, IInv, InScan, InScan', UNCHANGED <<fsVars, db, fds, cur, out>>,
           DOMAIN ents' \subseteq Children(cur),
           pc' = "readdir" => pend' \subseteq Children(cur) /\ pend' \cap DOMAIN ents' = {},
           \A p \in DOMAIN ents' : EntryOk(p, ents'[p]),
           ListInv', EntInv'
    PROVE  IInv'
<1> USE DEF IInv, fsVars
<1>1. FsInv' /\ TimeInv'
  BY DEF FsInv, TimeInv, EntryOk
<1>2. ShapeInv' /\ OldInv'
  BY DEF ShapeInv, OldInv, InScan, EntryOk, Children
<1>3. FdInv' /\ OutInv' /\ StoredInv'
  BY DEF FdInv, OutInv, StoredInv, Whole, Bare, Fresh, Listing, Children
<1>4. HashInv'
  BY DEF HashInv, HashOk, EntryOk
<1> QED
  BY <1>1, <1>2, <1>3, <1>4

\* The invariant makes every entry a good one.
LEMMA EntriesOk ==
    ASSUME IInv
    PROVE  \A p \in DOMAIN ents : EntryOk(p, ents[p])
  BY DEF IInv, TimeInv, OldInv, HashInv, EntryOk

\* An entry made from a record of the old database is a good one.
LEMMA OldEntryOk ==
    ASSUME TInv, IInv, NEW p \in DOMAIN db.rec
    PROVE  EntryOk(p, FromDb(p))
<1>1. now \in Nat /\ db.rec[p].dt \in Int /\ p \in Node
  BY DEF TInv, TypeOK, Record, DirTime, Node, not_a_dir, NoInode
<1>2. db.rec[p].meta.stamp <= now /\ HashOk(p, db.rec[p].meta)
  BY DEF IInv, TimeInv, HashInv
<1>3. HashOk(p, NoMetadata)
  BY DEF HashOk, NoMetadata
<1> QED
  BY <1>1, <1>2, <1>3 DEF FromDb, EntryOk, NoMetadata, unknown_dir_time

\* An entry made from readdir() is a good one.
LEMMA NewEntryOk ==
    ASSUME TInv, IInv, NEW p \in Path
    PROVE  EntryOk(p, FromReaddir(p))
<1>1. now \in Nat
  BY DEF TInv, TypeOK
<1>2. p \in dbent => db.rec[p].meta.stamp <= now /\ HashOk(p, db.rec[p].meta) /\ p \in DOMAIN db.rec
  BY DEF IInv, TimeInv, HashInv, TInv
<1>3. HashOk(p, NoMetadata) /\ NoMetadata.stamp = 0
  BY DEF HashOk, NoMetadata
<1> QED
  BY <1>1, <1>2, <1>3 DEF FromReaddir, EntryOk, unknown_dir_time

\* Opening the old database and the scan root keeps the invariant.
LEMMA StartKeeps ==
    ASSUME TInv, IInv, Start PROVE IInv'
<1> USE DEF IInv, fsVars
<1>0. /\ UNCHANGED <<kind, stamp, ino, content, now, db, ents>> /\ pc = "idle" /\ pc' = "enter"
      /\ DOMAIN fds' = {Root} /\ fds'[Root].ino = ino[Root]
      /\ fds'[Root].dbm = 0 /\ fds'[Root].dt \in {0, stamp[Root]}
      /\ out' = Empty /\ DOMAIN out' = {}
  BY EmptyFacts DEF Start, unknown_dir_time
<1>1. now \in Nat /\ stamp[Root] <= now
  BY DEF TInv, TypeOK, FsInv, Node
<1>2. FsInv' /\ TimeInv'
  BY <1>0, <1>1 DEF FsInv, TimeInv
<1>3. ShapeInv' /\ OldInv'
  BY <1>0, TreeAssumption DEF ShapeInv, OldInv, InScan
<1>4. ListInv' /\ EntInv' /\ FdInv'
  BY <1>0 DEF ListInv, EntInv, InScan, FdInv, ShapeInv
<1>5. OutInv' /\ StoredInv'
  BY <1>0 DEF OutInv, StoredInv, Whole, Bare, Fresh, Listing, Children
<1>6. HashInv'
  BY <1>0 DEF HashInv, HashOk
<1> QED
  BY <1>2, <1>3, <1>4, <1>5, <1>6

\* Entering scan() keeps the invariant, whichever listing it chooses.
LEMMA EnterKeeps ==
    ASSUME TInv, IInv, Enter PROVE IInv'
<1> USE DEF fsVars
<1>0. UNCHANGED <<kind, stamp, ino, content, now, db, out>> /\ pc = "enter"
  BY DEF Enter
<1>1. PICK d \in First(DOMAIN fds) : EnterPruned(d) \/ EnterUnchanged(d) \/ EnterChanged(d)
  BY DEF Enter
<1>2. d \in DOMAIN fds /\ d \in Node /\ DOMAIN ents = {} /\ Children(d) \subseteq Path
  BY <1>0, <1>1, FirstIn DEF TInv, TypeOK, IInv, ShapeInv, InScan, Children
\* The two cases that return: d is pruned, or it cannot be read.
<1>3. ASSUME SkipDir(d), d \in Scanned => "open" \in Faults
      PROVE  IInv'
  <2>1. /\ DOMAIN fds' = DOMAIN fds \ {d} /\ \A n \in DOMAIN fds' : fds'[n] = fds[n]
        /\ pc' = "enter" /\ ents' = ents
    BY <1>0, <1>3 DEF SkipDir
  <2> USE DEF IInv
  <2>2. FsInv' /\ TimeInv'
    BY <1>0, <2>1 DEF FsInv, TimeInv
  <2>3. ShapeInv' /\ OldInv'
    BY <1>0, <1>2, <2>1 DEF ShapeInv, OldInv, InScan, Children
  <2>4. ListInv' /\ EntInv' /\ FdInv'
    BY <1>0, <1>2, <2>1 DEF ListInv, EntInv, InScan, FdInv, Fresh
  <2>5. OutInv' /\ StoredInv'
    <3>1. d \in Scanned => Bare(d, out)
      BY <1>2, <1>3 DEF ShapeInv, Bare
    <3>2. OutInv'
      BY <1>0, <2>1, <3>1 DEF OutInv, Whole, Bare, Fresh, Listing, Children
    <3> QED
      BY <1>0, <3>2 DEF StoredInv, Whole, Bare, Fresh, Listing, Children
  <2>6. HashInv'
    BY <1>0, <1>2, <2>1 DEF HashInv, HashOk
  <2> QED
    BY <2>2, <2>3, <2>4, <2>5, <2>6
\* The two cases that read on: cur, ents and pend are set, fds stays.
<1>4. ASSUME /\ cur' = d /\ fds' = fds /\ InScan'
             /\ DOMAIN ents' \subseteq Children(d)
             /\ pc' = "readdir" => pend' \subseteq Children(d) /\ pend' \cap DOMAIN ents' = {}
             /\ \A p \in DOMAIN ents' : EntryOk(p, ents'[p]) /\ ents'[p].dt = 0
                                        /\ ents'[p].fd = NoInode
             /\ pc' # "open" /\ ListInv'
      PROVE  IInv'
  <2> USE DEF IInv
  <2>1. FsInv' /\ TimeInv'
    BY <1>0, <1>4 DEF FsInv, TimeInv, EntryOk
  <2>2. ShapeInv' /\ OldInv'
    BY <1>0, <1>2, <1>4 DEF ShapeInv, OldInv, InScan, EntryOk, Children
  <2>3. EntInv' /\ FdInv'
    BY <1>0, <1>4 DEF EntInv, FdInv, Fresh, InScan
  <2>4. OutInv' /\ StoredInv'
    BY <1>0, <1>4 DEF OutInv, StoredInv, Whole, Bare, Fresh, Listing, Children
  <2>5. HashInv'
    BY <1>0, <1>4 DEF HashInv, HashOk, EntryOk
  <2> QED
    BY <1>4, <2>1, <2>2, <2>3, <2>4, <2>5
<1>5. CASE EnterUnchanged(d)
  <2>1. /\ cur' = d /\ fds' = fds /\ pc' = "stat" /\ ~olderr'
        /\ ents' = [p \in dbent' |-> FromDb(p)] /\ DOMAIN ents' = dbent'
        /\ fds[d].dbm > 0 /\ fds[d].dt = fds[d].dbm /\ d \notin PrunePaths
    BY <1>5 DEF EnterUnchanged, Unchanged
  <2>2. dbent' = Children(d) \cap DOMAIN db.rec
    BY <1>2, <1>5, <2>1, ReadOldType DEF EnterUnchanged
  <2>3. \A p \in DOMAIN ents' : EntryOk(p, ents'[p]) /\ ents'[p].dt = 0 /\ ents'[p].fd = NoInode
                                /\ (ents'[p].isdir <=> db.rec[p].dt >= 0)
    BY <2>1, <2>2, OldEntryOk DEF FromDb, unknown_dir_time
  <2>4. d \in Path /\ d \in DOMAIN db.rec /\ fds[d].dt = db.rec[d].dt /\ d \in Scanned
    BY <1>2, <2>1 DEF IInv, OldInv, ShapeInv, TInv, TypeOK, Scanned
  <2>5. Fresh(d, fds[d].dt) => Whole(d, db.rec) \/ Bare(d, db.rec)
    BY <2>4 DEF IInv, StoredInv
  <2>6. Whole(d, db.rec) => ReadExact'
    BY <1>0, <2>1, <2>2, <2>3 DEF ReadExact, ReadSoFar, Whole, Listing, Children
  <2>7. Bare(d, db.rec) => ReadNothing'
    BY <2>1, <2>2 DEF Bare, ReadNothing
  <2>8. ListInv'
    BY <1>0, <2>1, <2>5, <2>6, <2>7 DEF ListInv, Fresh
  <2> QED
    BY <1>4, <2>1, <2>2, <2>3, <2>8 DEF InScan
<1>6. CASE EnterPruned(d)
  BY <1>3, <1>6 DEF EnterPruned, Scanned
<1>7. CASE EnterChanged(d) /\ "open" \in Faults /\ SkipDir(d)
  BY <1>3, <1>7
<1>8. CASE EnterChanged(d) /\ pc' = "readdir"
  <2>1. /\ cur' = d /\ fds' = fds /\ pc' = "readdir" /\ pend' = Children(d)
        /\ DOMAIN ents' = {}
    BY <1>0, <1>8, EmptyFacts DEF EnterChanged, SkipDir
  <2>2. ReadExact'
    BY <2>1 DEF ReadExact, ReadSoFar, Children
  <2>3. ListInv'
    BY <2>2 DEF ListInv
  <2> QED
    BY <1>4, <2>1, <2>3 DEF InScan
<1> QED
  BY <1>1, <1>5, <1>6, <1>7, <1>8 DEF EnterChanged

\* Reading the names of a directory keeps the invariant.
LEMMA ReaddirKeeps ==
    ASSUME TInv, IInv, Readdir \/ ReaddirDone PROVE IInv'
<1> USE DEF fsVars
<1>0. /\ UNCHANGED <<kind, stamp, ino, content, now, db, fds, cur, out, dbent>>
      /\ pc = "readdir" /\ InScan /\ cur \in DOMAIN fds
      /\ DOMAIN ents \subseteq Children(cur) /\ pend \subseteq Children(cur)
      /\ pend \cap DOMAIN ents = {}
  BY DEF Readdir, ReaddirDone, InScan, IInv, ShapeInv
<1>1. CASE Readdir
  <2>1. PICK p \in First(pend) :
           /\ pend' = pend \ {p}
           /\ ents' = IF Alive /\ kind[p] # "none"
                      THEN [q \in DOMAIN ents \cup {p} |->
                                IF q = p THEN FromReaddir(p) ELSE ents[q]]
                      ELSE ents
    BY <1>1 DEF Readdir
  <2>2. p \in pend /\ p \in Children(cur) /\ p \in Path /\ p \notin DOMAIN ents /\ pc' = "readdir"
    BY <1>0, <1>1, <2>1, FirstIn DEF Children, Readdir
  <2>3. DOMAIN ents' = (IF Alive /\ kind[p] # "none" THEN DOMAIN ents \cup {p} ELSE DOMAIN ents)
        /\ \A q \in DOMAIN ents' : ents'[q] = IF q = p THEN FromReaddir(p) ELSE ents[q]
    BY <2>1, <2>2
  <2>4. /\ EntryOk(p, FromReaddir(p)) /\ FromReaddir(p).dt = 0 /\ FromReaddir(p).fd = NoInode
        /\ FromReaddir(p).isdir <=> kind[p] = "dir"
    BY <2>2, NewEntryOk DEF FromReaddir, unknown_dir_time
  <2>5. \A q \in DOMAIN ents' : EntryOk(q, ents'[q])
    BY <2>3, <2>4, EntriesOk
  <2>6. Fresh(cur, fds[cur].dt) => Alive
    BY <1>0 DEF IInv, FdInv, Fresh, Alive
  <2>7. ListInv'
    BY <1>0, <2>1, <2>2, <2>3, <2>4, <2>6
       DEF IInv, ListInv, ReadExact, ReadNothing, InScan, Fresh, ReadSoFar, Children
  <2>8. EntInv'
    BY <1>0, <2>2, <2>3, <2>4 DEF IInv, EntInv, InScan, Fresh, Alive
  <2> QED
    BY <1>0, <2>1, <2>2, <2>3, <2>5, <2>7, <2>8, EntsStep DEF InScan
<1>2. CASE ReaddirDone
  <2>1. ents' = ents /\ pc' = "stat" /\ pend = {}
    BY <1>2 DEF ReaddirDone
  <2>2. ListInv'
    BY <1>0, <2>1 DEF IInv, ListInv, ReadExact, ReadNothing, InScan, Fresh, ReadSoFar, Children
  <2>3. EntInv'
    BY <1>0, <2>1 DEF IInv, EntInv, InScan, Fresh, Alive
  <2> QED
    BY <1>0, <2>1, <2>2, <2>3, EntsStep, EntriesOk DEF InScan
<1> QED
  BY <1>1, <1>2

\* The stat loop: one entry gets its metadata, or none does.
LEMMA StatEntryKeeps ==
    ASSUME TInv, IInv, pc \in {"stat", "hash"}, pc' \in {"stat", "hash"},
           UNCHANGED <<fsVars, db, fds, cur, out>>,
           NEW p \in DOMAIN ents, NEW e \in Entry, ents' = [ents EXCEPT ![p] = e],
           e.isdir = ents[p].isdir, e.fd = ents[p].fd, EntryOk(p, e),
           Fresh(p, e.dt) => Alive,
           e.dt < 0 => e.dt = ents[p].dt \/ kind[p] # "dir"
    PROVE  IInv'
<1> USE DEF fsVars
<1>0. /\ InScan /\ InScan' /\ DOMAIN ents' = DOMAIN ents /\ DOMAIN ents \subseteq Children(cur)
      /\ \A q \in DOMAIN ents : ents'[q] = IF q = p THEN e ELSE ents[q]
      /\ e.dt \in Int
  BY DEF InScan, IInv, ShapeInv, TInv, TypeOK, Entry, DirTime, not_a_dir, NoInode
<1>1. \A q \in DOMAIN ents' : EntryOk(q, ents'[q])
  BY <1>0, EntriesOk
<1>2. ListInv'
  BY <1>0 DEF IInv, ListInv, ReadExact, ReadNothing, Fresh, ReadSoFar, Children
<1>3. EntInv'
  BY <1>0 DEF IInv, EntInv, Fresh, Alive, NoInode
<1> QED
  BY <1>0, <1>1, <1>2, <1>3, EntsStep

\* The stat loop with the digests keeps the invariant.
LEMMA StatKeeps ==
    ASSUME TInv, IInv, Stat \/ Hash \/ StatLoopDone PROVE IInv'
<1> USE DEF fsVars
<1>0. /\ UNCHANGED <<kind, stamp, ino, content, now, db, fds, cur, out>>
      /\ pc \in {"stat", "hash"} /\ pend \subseteq DOMAIN ents
      /\ InScan /\ DOMAIN ents \subseteq Children(cur) /\ DOMAIN ents \subseteq Path
  BY DEF Stat, Hash, StatLoopDone, InScan, IInv, ShapeInv, TInv, TypeOK
<1>1. ASSUME ents' = ents, pc' \in {"stat", "open"}, pc' = "open" => pend' = DOMAIN ents
      PROVE  IInv'
  <2>1. ListInv'
    BY <1>0, <1>1 DEF IInv, ListInv, ReadExact, ReadNothing, InScan, Fresh, ReadSoFar, Children
  <2>2. EntInv'
    BY <1>0, <1>1 DEF IInv, EntInv, InScan, Fresh, Alive, NoInode
  <2> QED
    BY <1>0, <1>1, <2>1, <2>2, EntsStep, EntriesOk DEF InScan
<1>2. CASE Stat
  <2>1. PICK p \in First(pend) : StatFails(p) \/ StatDir(p) \/ StatSameHash(p) \/ StatToHash(p)
    BY <1>2 DEF Stat
  <2>2. p \in DOMAIN ents /\ p \in Node /\ ents[p] \in Entry /\ stamp[p] \in Nat
        /\ stamp[p] <= now /\ Statted(p) \in Entry /\ EntryOk(p, ents[p]) /\ pc = "stat"
    BY <1>0, <1>2, <2>1, FirstIn, StattedType, EntriesOk DEF TInv, TypeOK, Node, IInv, FsInv, Stat
  <2>3. /\ Statted(p).isdir = ents[p].isdir /\ Statted(p).fd = ents[p].fd
        /\ Statted(p).prev = ents[p].prev /\ Statted(p).dbm = ents[p].dbm
        /\ Statted(p).meta = [stamp |-> stamp[p], hash |-> NoHash]
        /\ Statted(p).dt = IF kind[p] = "dir" THEN get_dirtime_from_stat(stamp[p]) ELSE -1
    BY <2>2 DEF Statted, Entry, not_a_dir
  <2>4. get_dirtime_from_stat(stamp[p]) \in Nat /\ get_dirtime_from_stat(stamp[p]) <= now
    BY <2>2, DirTimeType DEF TInv, TypeOK
  <2>5. EntryOk(p, Statted(p))
    <3>1. HashOk(p, Statted(p).meta)
      BY <2>3 DEF HashOk
    <3> QED
      BY <2>2, <2>3, <2>4, <3>1 DEF EntryOk, TInv, TypeOK
  <2>6. CASE StatFails(p)
    BY <1>1, <2>2, <2>6 DEF StatFails
  <2>7. CASE StatDir(p)
    <3>1. ents' = [ents EXCEPT ![p] = Statted(p)] /\ pc' = "stat" /\ Alive
      BY <2>7 DEF StatDir, StatDone
    <3>2. Statted(p).dt >= 0 /\ Statted(p).dt \in Int
      BY <2>3, <2>4, <2>7 DEF StatDir
    <3>3. Statted(p).dt < 0 => Statted(p).dt = ents[p].dt \/ kind[p] # "dir"
      BY <3>2
    <3> QED
      BY <1>0, <2>2, <2>3, <2>5, <3>1, <3>3, StatEntryKeeps
  <2>8. CASE StatSameHash(p)
    <3> DEFINE e == [Statted(p) EXCEPT !.meta.hash = ents[p].prev.hash]
    <3>1. /\ ents' = [ents EXCEPT ![p] = e] /\ pc' = "stat" /\ Alive /\ kind[p] = "file"
          /\ ents[p].prev.stamp = stamp[p]
      BY <2>8 DEF StatSameHash, StatDone, reuse_previous_hash
    <3>2. /\ e \in Entry /\ e.isdir = ents[p].isdir /\ e.fd = ents[p].fd /\ e.dt = -1
          /\ e.prev = ents[p].prev /\ e.dbm = ents[p].dbm
          /\ e.meta.stamp = stamp[p] /\ e.meta.hash = ents[p].prev.hash
      BY <2>2, <2>3, <3>1 DEF Entry, Metadata
    <3>3. EntryOk(p, e)
      <4>1. HashOk(p, e.meta)
        BY <2>2, <3>1, <3>2 DEF EntryOk, HashOk
      <4> QED
        BY <2>2, <3>2, <4>1 DEF EntryOk, TInv, TypeOK
    <3>4. ~Fresh(p, e.dt) /\ (e.dt < 0 => kind[p] # "dir")
      BY <3>1, <3>2 DEF Fresh
    <3> HIDE DEF e
    <3> QED
      BY <1>0, <2>2, <3>1, <3>2, <3>3, <3>4, StatEntryKeeps
  <2>9. CASE StatToHash(p)
    <3>1. ents' = [ents EXCEPT ![p] = Statted(p)] /\ pc' = "hash" /\ kind[p] = "file"
      BY <2>9 DEF StatToHash
    <3>2. ~Fresh(p, Statted(p).dt) /\ (Statted(p).dt < 0 => kind[p] # "dir")
      BY <3>1 DEF Fresh
    <3> QED
      BY <1>0, <2>2, <2>3, <2>5, <3>1, <3>2, StatEntryKeeps
  <2> QED
    BY <2>1, <2>6, <2>7, <2>8, <2>9
<1>3. CASE Hash
  <2>1. PICK p \in First(pend) :
           \E h \in {NoHash} \cup (IF Alive /\ kind[p] = "file" THEN {content[p]} ELSE {}) :
               StatDone(p, [ents[p] EXCEPT !.meta.hash = h])
    BY <1>3 DEF Hash
  <2>2. PICK h \in {NoHash} \cup (IF Alive /\ kind[p] = "file" THEN {content[p]} ELSE {}) :
           StatDone(p, [ents[p] EXCEPT !.meta.hash = h])
    BY <2>1
  <2> DEFINE e == [ents[p] EXCEPT !.meta.hash = h]
  <2>3. p \in DOMAIN ents /\ ents[p] \in Entry /\ EntryOk(p, ents[p]) /\ p \in Node
        /\ content[p] \in Content \cup {0}
    BY <1>0, FirstIn, EntriesOk DEF TInv, TypeOK, Node
  <2>4. /\ e \in Entry /\ e.isdir = ents[p].isdir /\ e.fd = ents[p].fd /\ e.dt = ents[p].dt
        /\ e.prev = ents[p].prev /\ e.dbm = ents[p].dbm
        /\ e.meta.stamp = ents[p].meta.stamp /\ e.meta.hash = h
    BY <2>2, <2>3 DEF Entry, Metadata, NoHash
  <2>5. EntryOk(p, e)
    <3>1. HashOk(p, e.meta)
      BY <2>2, <2>4 DEF HashOk
    <3> QED
      BY <2>3, <2>4, <3>1 DEF EntryOk
  <2>6. Fresh(p, e.dt) => Alive
    BY <1>0, <1>3, <2>3, <2>4 DEF IInv, EntInv, Hash, NoInode
  <2>7. ents' = [ents EXCEPT ![p] = e] /\ pc' = "stat"
    BY <2>2 DEF StatDone
  <2> HIDE DEF e
  <2> QED
    BY <1>0, <2>3, <2>4, <2>5, <2>6, <2>7, StatEntryKeeps
<1>4. CASE StatLoopDone
  BY <1>1, <1>4 DEF StatLoopDone
<1> QED
  BY <1>2, <1>3, <1>4

\* The open loop: one entry gets its final time and, perhaps, a descriptor.
LEMMA OpenEntryKeeps ==
    ASSUME TInv, IInv, pc = "open", pc' = "open", UNCHANGED <<fsVars, db, fds, cur, out>>,
           NEW p \in DOMAIN ents, NEW e \in Entry, ents' = [ents EXCEPT ![p] = e],
           pend' = pend \ {p}, e.isdir = ents[p].isdir, EntryOk(p, e),
           e.fd # NoInode => e.isdir /\ p \notin PruneNames,
           Fresh(p, e.dt) => e.fd # NoInode /\ e.fd = ino[p],
           ~e.isdir => e.dt = not_a_dir,
           e.isdir => e.dt >= 0
    PROVE  IInv'
<1> USE DEF fsVars
<1>0. /\ InScan /\ InScan' /\ DOMAIN ents' = DOMAIN ents /\ DOMAIN ents \subseteq Children(cur)
      /\ \A q \in DOMAIN ents : ents'[q] = IF q = p THEN e ELSE ents[q]
      /\ e.dt \in Int
  BY DEF InScan, IInv, ShapeInv, TInv, TypeOK, Entry, DirTime, not_a_dir, NoInode
<1>1. \A q \in DOMAIN ents' : EntryOk(q, ents'[q])
  BY <1>0, EntriesOk
<1>2. ListInv'
  BY <1>0 DEF IInv, ListInv, ReadExact, ReadNothing, Fresh, ReadSoFar, Children
<1>3. EntInv'
  BY <1>0 DEF IInv, EntInv, Fresh, Alive
<1> QED
  BY <1>0, <1>1, <1>2, <1>3, EntsStep

\* The open loop keeps the invariant.
LEMMA OpenKeeps ==
    ASSUME TInv, IInv, Open PROVE IInv'
<1> USE DEF fsVars
<1>0. /\ UNCHANGED <<kind, stamp, ino, content, now, db, fds, cur, out>>
      /\ pc = "open" /\ pc' = "open" /\ pend \subseteq DOMAIN ents
      /\ InScan /\ InScan' /\ DOMAIN ents \subseteq Children(cur) /\ DOMAIN ents \subseteq Path
  BY DEF Open, InScan, IInv, ShapeInv, TInv, TypeOK
<1>1. PICK p \in First(pend) : /\ OpenNothing(p) \/ OpenFails(p) \/ OpenDirectory(p)
                               /\ pend' = pend \ {p}
  BY DEF Open
<1>2. p \in DOMAIN ents /\ p \in Node /\ ents[p] \in Entry /\ EntryOk(p, ents[p])
      /\ stamp[p] \in Nat /\ stamp[p] <= now /\ ino[p] # NoInode /\ now \in Nat
  BY <1>0, <1>1, FirstIn, EntriesOk DEF TInv, TypeOK, Node, IInv, FsInv
<1>3. CASE OpenNothing(p)
  <2> DEFINE e == [ents[p] EXCEPT !.dt = not_a_dir]
  <2>1. ents' = [ents EXCEPT ![p] = e] /\ ~ents[p].isdir
    BY <1>2, <1>3 DEF OpenNothing
  <2>2. /\ e \in Entry /\ e.dt = -1 /\ e.isdir = ents[p].isdir /\ e.fd = ents[p].fd
        /\ e.meta = ents[p].meta /\ e.prev = ents[p].prev /\ e.dbm = ents[p].dbm
    BY <1>2 DEF Entry, DirTime, not_a_dir, NoInode
  <2> HIDE DEF e
  <2>3. EntryOk(p, e)
    BY <1>2, <2>2 DEF EntryOk
  <2>4. ~Fresh(p, e.dt) /\ e.fd = NoInode
    BY <1>2, <2>1, <2>2 DEF Fresh, IInv, EntInv
  <2> QED
    BY <1>0, <1>1, <1>2, <2>1, <2>2, <2>3, <2>4, OpenEntryKeeps DEF not_a_dir
<1>4. CASE OpenFails(p)
  <2>1. /\ ents' = ents /\ ents[p].isdir
        /\ p \in PruneNames \/ ~(Alive /\ kind[p] = "dir") \/ "open" \in Faults
    BY <1>4 DEF OpenFails
  <2>2. ListInv'
    BY <1>0, <2>1 DEF IInv, ListInv, ReadExact, ReadNothing, Fresh, ReadSoFar, Children
  <2>3. EntInv'
    BY <1>0, <1>1, <1>2, <2>1 DEF IInv, EntInv, Fresh, Alive
  <2> QED
    BY <1>0, <2>1, <2>2, <2>3, EntsStep, EntriesOk
<1>5. CASE OpenDirectory(p)
  <2> DEFINE t == get_dirtime_from_stat(stamp[p])
             e == [ents[p] EXCEPT !.dt = t, !.fd = ino[p]]
  <2>0. t \in Nat /\ t <= now /\ ino[p] \in Nat
    BY <1>2, DirTimeType DEF TInv, TypeOK
  <2>1. ents' = [ents EXCEPT ![p] = e] /\ ents[p].isdir /\ p \notin PruneNames
    BY <1>2, <1>5 DEF OpenDirectory
  <2> HIDE DEF t
  <2>2. /\ e \in Entry /\ e.dt = t /\ e.isdir = ents[p].isdir /\ e.fd = ino[p]
        /\ e.meta = ents[p].meta /\ e.prev = ents[p].prev /\ e.dbm = ents[p].dbm
    <3>1. t \in DirTime
      BY <2>0 DEF DirTime, not_a_dir, NoInode
    <3>2. e \in Entry
      BY <1>2, <2>0, <3>1 DEF Entry
    <3> QED
      BY <1>2, <2>0, <3>1 DEF Entry
  <2> HIDE DEF e
  <2>3. EntryOk(p, e)
    BY <1>2, <2>0, <2>2 DEF EntryOk
  <2>4. e.fd # NoInode /\ e.dt >= 0
    BY <1>2, <2>0, <2>2 DEF NoInode
  <2> QED
    BY <1>0, <1>1, <1>2, <2>1, <2>2, <2>3, <2>4, OpenEntryKeeps
<1> QED
  BY <1>1, <1>3, <1>4, <1>5

\* Adding the entries and recursing keeps the invariant.
LEMMA AddKeeps ==
    ASSUME TInv, IInv, Add PROVE IInv'
<1> USE DEF fsVars
<1> DEFINE sub == Subdirs
<1>0. /\ UNCHANGED <<kind, stamp, ino, content, now, db, cur>>
      /\ pc = "open" /\ pend = {} /\ pc' = "enter" /\ InScan /\ ~InScan' /\ DOMAIN ents' = {}
      /\ cur \in DOMAIN fds /\ DOMAIN ents \subseteq Children(cur) /\ DOMAIN ents \subseteq Path
      /\ DOMAIN fds \subseteq Node /\ DOMAIN out \subseteq Path
  BY EmptyFacts DEF Add, InScan, IInv, ShapeInv, TInv, TypeOK
<1>1. /\ DOMAIN out' = DOMAIN out \cup DOMAIN ents
      /\ \A p \in DOMAIN ents : out'[p].dt = ents[p].dt /\ out'[p].meta = ents[p].meta
      /\ \A p \in DOMAIN out \ DOMAIN ents : out'[p] = out[p]
  BY DEF Add
<1>2. /\ DOMAIN fds' = (DOMAIN fds \ {cur}) \cup sub
      /\ \A n \in sub : /\ fds'[n].dt = ents[n].dt /\ fds'[n].dbm = ents[n].dbm
                        /\ fds'[n].ino = ents[n].fd
      /\ \A n \in DOMAIN fds' \ sub : fds'[n] = fds[n]
  BY DEF Add, Subdirs
<1>3. /\ DOMAIN ents \cap DOMAIN out = {}
      /\ \A p \in DOMAIN ents : p \in Path /\ Parent[p] = cur
      /\ cur \in Path => cur \in DOMAIN out /\ out[cur].dt = fds[cur].dt
      /\ \A n \in DOMAIN fds : Children(n) \cap DOMAIN out = {}
  BY <1>0 DEF IInv, ShapeInv, Children
<1>4. \A p \in sub : p \in DOMAIN ents /\ p \notin PruneNames /\ ents[p].fd # NoInode
  BY DEF IInv, EntInv, Subdirs
<1>5. cur \notin DOMAIN ents
  BY <1>3, ParentType
<1> HIDE DEF sub
<1>6. FsInv' /\ TimeInv'
  <2>1. FsInv'
    BY <1>0 DEF IInv, FsInv
  <2>2. TimeInv'
    BY <1>0, <1>1, <1>2, <1>3, <1>4 DEF IInv, TimeInv
  <2> QED
    BY <2>1, <2>2
<1>7. ShapeInv'
  <2>1. \A p \in DOMAIN out' : Parent[p] \in Path => Parent[p] \in DOMAIN out'
    BY <1>1, <1>3 DEF IInv, ShapeInv
  <2>2. \A n \in DOMAIN fds' : Children(n) \cap DOMAIN out' = {}
    <3>1. ASSUME NEW n \in DOMAIN fds \ {cur} PROVE Children(n) \cap DOMAIN out' = {}
      BY <1>1, <1>3 DEF Children
    <3>2. ASSUME NEW n \in sub PROVE Children(n) \cap DOMAIN out' = {}
      <4>1. n \in Path /\ n \notin DOMAIN out /\ n # cur
        BY <1>3, <1>4, <1>5
      <4>2. \A q \in DOMAIN out : Parent[q] # n
        BY <4>1 DEF IInv, ShapeInv
      <4>3. \A q \in DOMAIN ents : Parent[q] # n
        BY <1>3, <4>1
      <4> QED
        BY <1>1, <4>2, <4>3 DEF Children
    <3> QED
      BY <1>2, <3>1, <3>2
  <2>3. \A n \in DOMAIN fds' \cap Path :
            n \in DOMAIN out' /\ out'[n].dt = fds'[n].dt /\ n \notin PruneNames
    <3>1. ASSUME NEW n \in sub PROVE n \in DOMAIN out' /\ out'[n].dt = fds'[n].dt /\ n \notin PruneNames
      BY <1>1, <1>2, <1>4
    <3>2. ASSUME NEW n \in (DOMAIN fds' \cap Path) \ sub
          PROVE n \in DOMAIN out' /\ out'[n].dt = fds'[n].dt /\ n \notin PruneNames
      BY <1>1, <1>2, <1>3 DEF IInv, ShapeInv
    <3> QED
      BY <3>1, <3>2
  <2> QED
    BY <1>0, <2>1, <2>2, <2>3 DEF ShapeInv, Children, InScan
<1>8. OldInv'
  BY <1>0, <1>2, <1>4 DEF IInv, OldInv
<1>9. ListInv' /\ EntInv'
  BY <1>0 DEF ListInv, EntInv, InScan
<1>10. FdInv'
  BY <1>0, <1>2, <1>4 DEF IInv, FdInv, EntInv, Fresh
<1>11. OutInv'
  <2> SUFFICES ASSUME NEW d \in Scanned \cap DOMAIN out', Fresh(d, out'[d].dt), d \notin DOMAIN fds'
               PROVE  Whole(d, out') \/ Bare(d, out')
    BY <1>0 DEF OutInv, Whole, Bare, Fresh, Listing, Children
  <2>1. CASE d \in DOMAIN ents
    <3>1. ~ents[d].isdir \/ ents[d].fd = NoInode
      BY <1>2, <2>1 DEF sub, Subdirs
    <3>2. ~ents[d].isdir => ents[d].dt = -1
      BY <1>0, <2>1 DEF IInv, EntInv, not_a_dir
    <3>3. ents[d].fd = NoInode => (~Fresh(d, ents[d].dt) \/ "open" \in Faults)
      BY <1>0, <2>1 DEF IInv, EntInv, Scanned
    <3>4. "open" \in Faults
      BY <1>1, <2>1, <3>1, <3>2, <3>3 DEF Fresh
    <3>5. \A q \in DOMAIN out' : Parent[q] # d
      BY <1>1, <1>3, <1>5, <2>1 DEF IInv, ShapeInv
    <3> QED
      BY <3>4, <3>5 DEF Bare, Children
  <2>2. CASE d = cur
    <3>1. d \in Path /\ out'[d].dt = fds[cur].dt
      BY <1>1, <1>3, <1>5, <2>2 DEF Scanned
    <3>2. ReadExact \/ ReadNothing
      BY <1>0, <2>2, <3>1 DEF IInv, ListInv
    <3>3. \A p \in DOMAIN ents : ~ents[p].isdir => ents[p].dt = -1
      BY <1>0 DEF IInv, EntInv, not_a_dir
    <3>4. Children(cur) \cap DOMAIN out = {}
      BY <1>0, <1>3
    <3>5. ReadNothing => Bare(d, out')
      BY <1>1, <2>2, <3>4 DEF ReadNothing, Bare
    <3>6. ASSUME ReadExact PROVE Whole(d, out')
      <4>1. /\ \A p \in Children(cur) : p \in DOMAIN ents <=> kind[p] # "none"
            /\ \A p \in DOMAIN ents : ents[p].isdir <=> kind[p] = "dir"
            /\ \A p \in DOMAIN ents : ents[p].isdir => ents[p].dt >= 0
        BY <1>0, <3>6 DEF ReadExact, ReadSoFar
      <4>2. Children(d) \cap DOMAIN out' = Listing(d)
        BY <1>0, <1>1, <2>2, <3>4, <4>1 DEF Listing
      <4>3. \A p \in Listing(d) : p \in DOMAIN ents
        BY <2>2, <4>1 DEF Listing
      <4> QED
        BY <1>1, <3>3, <4>1, <4>2, <4>3 DEF Whole
    <3> QED
      BY <3>2, <3>5, <3>6
  <2>3. CASE d \in DOMAIN out \ DOMAIN ents /\ d # cur
    <3>1. d \notin DOMAIN fds /\ out'[d] = out[d]
      BY <1>1, <1>2, <2>3
    <3>2. Whole(d, out) \/ Bare(d, out)
      BY <2>3, <3>1 DEF IInv, OutInv
    <3>3. \A p \in Children(d) : p \notin DOMAIN ents
      BY <1>3, <2>3 DEF Children
    <3>4. Children(d) \cap DOMAIN out' = Children(d) \cap DOMAIN out
      BY <1>1, <3>3
    <3>5. \A p \in Children(d) \cap DOMAIN out : out'[p] = out[p]
      BY <1>1, <3>3
    <3> QED
      BY <3>2, <3>4, <3>5 DEF Whole, Bare
  <2> QED
    BY <1>1, <2>1, <2>2, <2>3
<1>12. StoredInv'
  BY <1>0 DEF IInv, StoredInv, Whole, Bare, Fresh, Listing, Children
<1>13. HashInv'
  BY <1>0, <1>1, <1>3 DEF IInv, HashInv, HashOk
<1> QED
  BY <1>6, <1>7, <1>8, <1>9, <1>10, <1>11, <1>12, <1>13 DEF IInv

\* Publishing the new database, or dying before that, keeps the invariant.
LEMMA EndKeeps ==
    ASSUME TInv, IInv, Finish \/ Abort PROVE IInv'
<1> USE DEF fsVars
<1>0. /\ UNCHANGED <<kind, stamp, ino, content, now>> /\ pc' = "idle" /\ ~InScan'
      /\ DOMAIN fds' = {} /\ DOMAIN ents' = {} /\ DOMAIN out' = {}
      /\ \/ db' = db
         \/ db'.rec = out /\ DOMAIN fds = {}
  BY EmptyFacts DEF Finish, Abort, EndRun, Finished, InScan
<1> USE DEF IInv
<1>1. FsInv' /\ TimeInv'
  BY <1>0 DEF FsInv, TimeInv
<1>2. ShapeInv' /\ OldInv'
  BY <1>0 DEF ShapeInv, OldInv, InScan
<1>3. ListInv' /\ EntInv' /\ FdInv' /\ OutInv'
  BY <1>0 DEF ListInv, EntInv, FdInv, OutInv, InScan
<1>4. StoredInv'
  <2>1. CASE db' = db
    BY <1>0, <2>1 DEF StoredInv, Whole, Bare, Fresh, Listing, Children
  <2>2. CASE db'.rec = out /\ DOMAIN fds = {}
    BY <1>0, <2>2 DEF OutInv, StoredInv, Whole, Bare, Fresh, Listing, Children
  <2> QED
    BY <1>0, <2>1, <2>2
<1>5. HashInv'
  BY <1>0 DEF HashInv, HashOk
<1> QED
  BY <1>1, <1>2, <1>3, <1>4, <1>5

\* A machine on which updatedb has not run yet satisfies the invariant.
LEMMA InitInv == Init => IInv
<1> SUFFICES ASSUME Init PROVE IInv
  OBVIOUS
<1>1. /\ DOMAIN db.rec = {} /\ DOMAIN fds = {} /\ DOMAIN ents = {} /\ DOMAIN out = {}
      /\ pc = "idle"
  BY EmptyFacts DEF Init
<1>2. FsInv
  BY ClockAssumption DEF Init, FsInv
<1>3. TimeInv /\ ShapeInv /\ OldInv
  BY <1>1 DEF TimeInv, ShapeInv, OldInv, InScan
<1>4. ListInv /\ FdInv /\ EntInv /\ OutInv /\ StoredInv /\ HashInv
  BY <1>1 DEF ListInv, FdInv, EntInv, OutInv, StoredInv, HashInv, InScan
<1> QED
  BY <1>2, <1>3, <1>4 DEF IInv

\* Every step keeps the invariant.
LEMMA NextKeeps ==
    ASSUME FineClock, TInv, IInv, [Next]_vars
    PROVE  IInv'
<1>1. CASE FileSystem
  BY <1>1, FileSystemCareful, CarefulKeeps DEF IInv
<1>2. CASE Scan
  BY <1>2, StartKeeps, EnterKeeps, ReaddirKeeps, StatKeeps, OpenKeeps, AddKeeps, EndKeeps
     DEF Scan
<1>3. CASE Abort
  BY <1>3, EndKeeps
<1>4. CASE UNCHANGED vars
  BY <1>4 DEF vars, fsVars, runVars, IInv, FsInv, TimeInv, ShapeInv, OldInv, ListInv, FdInv,
              EntInv, OutInv, StoredInv, HashInv, HashOk, InScan, Fresh, ReadSoFar,
              ReadExact, ReadNothing, Whole, Bare, Alive, Listing, Children
<1> QED
  BY <1>1, <1>2, <1>3, <1>4 DEF Next

\* If stamps tell changes apart, the invariant holds throughout.
LEMMA Inductive == FineClock => (Spec => [](TInv /\ IInv))
<1> SUFFICES ASSUME FineClock PROVE Spec => [](TInv /\ IInv)
  OBVIOUS
<1>1. Init => TInv /\ IInv
  BY TypeInit, InitInv
<1>2. TInv /\ IInv /\ [Next]_vars => TInv' /\ IInv'
  BY NextKeeps, TypeFileSystem, TypeScan, TypeStutter DEF Next
<1> QED
  BY <1>1, <1>2, PTL DEF Spec

\* Where directories that are there can be opened, no stored listing is bare.
LEMMA StoredExact == (StoredInv /\ "open" \notin Faults) => IncrementalSound
  BY DEF StoredInv, IncrementalSound, Fresh, Whole, Bare

\* Reusing a listing of the old database is sound for every tree, every order
\* of changes and scan steps, crashes and damaged old databases included, if
\* stamps tell changes apart and directories that are there can be opened.
THEOREM IncrementalSoundness ==
    (FineClock /\ "open" \notin Faults) => (Spec => []IncrementalSound)
<1> SUFFICES ASSUME FineClock, "open" \notin Faults PROVE Spec => []IncrementalSound
  OBVIOUS
<1>1. IInv => IncrementalSound
  BY StoredExact DEF IInv
<1> QED
  BY <1>1, Inductive, PTL

\* Where opening a directory may fail as well, at any time and for any
\* directory, the stored listing of a directory that still has its stored time
\* is all of its listing or none of it: a failure in one run never leaves a
\* later run, which takes the listing over, with a part of it.
THEOREM ListingWhole == FineClock => (Spec => []ListingAllOrNothing)
<1> SUFFICES ASSUME FineClock PROVE Spec => []ListingAllOrNothing
  OBVIOUS
<1>1. IInv => ListingAllOrNothing
  BY DEF IInv, StoredInv, ListingAllOrNothing, Fresh, Whole, Bare
<1> QED
  BY <1>1, Inductive, PTL

\* A digest in the database is the file's digest for as long as stat() returns
\* what was stored with it, however many runs have handed it on without reading
\* the file and whatever failed during them, if stamps tell changes apart.
THEOREM HashSoundness == FineClock => (Spec => []HashSound)
<1> SUFFICES ASSUME FineClock PROVE Spec => []HashSound
  OBVIOUS
<1>1. IInv => HashSound
  BY DEF IInv, HashInv, HashOk, HashSound
<1> QED
  BY <1>1, Inductive, PTL

-----------------------------------------------------------------------------
(* A quiet run.                                                            *)

Quiet == ~dirty /\ pc # "idle"

\* The metadata and the directory time that stat() returns now.
MetaRight(p, m) == m.stamp = stamp[p] /\ (kind[p] = "dir" => m.hash = NoHash)
TimeRight(p, t) == IF kind[p] = "dir" THEN t \in {0, stamp[p]} ELSE t = not_a_dir

\* The directories to scan are there, and open.
QFds == \A n \in DOMAIN fds :
            /\ kind[n] = "dir" /\ fds[n].ino = ino[n] /\ fds[n].dt \in {0, stamp[n]}
            /\ n # Root => InScope[n]

\* What has been read of the listing of cur, which is not pruned, is right.
QList == InScan =>
    /\ cur # Root => cur \in Scanned
    /\ \A p \in ReadSoFar : p \in DOMAIN ents <=> kind[p] # "none"
    /\ \A p \in DOMAIN ents : ents[p].isdir <=> kind[p] = "dir"

\* An entry the stat loop has done is right, and one the open loop has done open.
QStat ==
    /\ pc \in {"stat", "hash", "open"} => \A p \in DOMAIN ents : pc = "open" \/ p \notin pend =>
           MetaRight(p, ents[p].meta) /\ TimeRight(p, ents[p].dt)
    /\ pc = "hash" => \A p \in First(pend) :
           /\ kind[p] = "file" /\ MetaRight(p, ents[p].meta) /\ TimeRight(p, ents[p].dt)
    /\ pc = "open" => \A p \in DOMAIN ents \ pend :
           kind[p] = "dir" /\ p \notin PruneNames => ents[p].fd = ino[p]

\* The new database is right, and complete for the directories that were scanned.
QOut ==
    /\ \A p \in DOMAIN out :
           /\ kind[p] # "none" /\ InScope[p]
           /\ MetaRight(p, out[p].meta) /\ TimeRight(p, out[p].dt)
    /\ \A d \in {Root} \cup (Scanned \cap DOMAIN out) :
           kind[d] = "dir" => d \in DOMAIN fds \/ Listing(d) \subseteq DOMAIN out

QInv == Quiet => QFds /\ QList /\ QStat /\ QOut

-----------------------------------------------------------------------------
(* The history of a run.                                                   *)

\* Stamps tell a directory that was opened from a file in its place later.
KindInv ==
    /\ \A n \in Node : stamp[n] > 0
    /\ \A p \in DOMAIN db.rec : Children(p) \cap DOMAIN db.rec # {}
           /\ db.rec[p].meta.stamp = stamp[p] => kind[p] = "dir"
    /\ \A p \in DOMAIN out : p \in DOMAIN fds \/ Children(p) \cap DOMAIN out # {} =>
           (out[p].meta.stamp = stamp[p] => kind[p] = "dir")
    /\ \A p \in DOMAIN ents : ents[p].fd # NoInode =>
           (ents[p].meta.stamp = stamp[p] => kind[p] = "dir")

\* Only directories that are scanned have entries.
ScopeInv ==
    /\ InScan => cur \in Scanned \cup {Root}
    /\ \A p \in DOMAIN db.rec : Parent[p] \in {Root} \cup (Scanned \cap DOMAIN db.rec)
    /\ \A p \in DOMAIN out : Parent[p] \in {Root} \cup Scanned

\* The run has a sink for its events and a readable old database.
Recording == pc # "idle" /\ ~baseline /\ ~olderr

EventsAt(p) == {e \in events : e.path = p}
Removed(p) == [kind |-> "REMOVED", path |-> p, old |-> db.rec[p].meta, new |-> NoMetadata]

\* The events of a path with the metadata m in the new database.
EventsFor(p, m) ==
    IF p \notin DOMAIN db.rec
    THEN {[kind |-> "ADDED", path |-> p, old |-> NoMetadata, new |-> m]}
    ELSE IF m # db.rec[p].meta
    THEN {[kind |-> "MODIFIED", path |-> p, old |-> db.rec[p].meta, new |-> m]}
    ELSE {}
Told(p, m) == EventsAt(p) = EventsFor(p, m) \/ (EventsAt(p) = {} /\ m = NoMetadata)

\* Entries know what the old database has of them.
HEnts == InScan =>
    /\ dbent = Children(cur) \cap DOMAIN db.rec
    /\ \A p \in DOMAIN ents :
           /\ ents[p].prev = MetaIn(db.rec, p) /\ (ents[p].existed <=> p \in DOMAIN db.rec)
           /\ IF pc = "readdir" \/ (pc \in {"stat", "hash"} /\ p \in pend)
              THEN /\ EventsAt(p) = {}
                   /\ (pc = "hash" /\ p \in First(pend)) \/ ents[p].meta = NoMetadata
              ELSE Told(p, ents[p].meta)

HOut == \A p \in DOMAIN out : Told(p, out[p].meta)

\* Other events are about what is gone from a directory that was scanned.
HGone == \A e \in events :
    \/ e.path \in DOMAIN out \cup DOMAIN ents
    \/ /\ e = Removed(e.path) /\ e.path \in DOMAIN db.rec
       /\ Parent[e.path] \in ({Root} \cup DOMAIN out) \ DOMAIN fds

\* In a quiet run nothing goes without an event.
HQuiet == ~dirty =>
    \A d \in {Root} \cup (Scanned \cap DOMAIN out) : kind[d] = "dir" =>
        \/ d \in DOMAIN fds
        \/ \A p \in Children(d) \cap DOMAIN db.rec : p \in DOMAIN out \/ Removed(p) \in events

KInv == KindInv /\ ScopeInv
HInv == Recording => HEnts /\ HOut /\ HGone /\ HQuiet

-----------------------------------------------------------------------------
(* The two recursive functions of the properties exist.                    *)

\* The directories that contain p.
Above(p) ==
    {q \in Node : \A S \in SUBSET Node :
         Parent[p] \in S /\ (\A s \in S \cap Path : Parent[s] \in S) => q \in S}

LEMMA AboveRoot ==
    ASSUME NEW p \in Path, Parent[p] = Root
    PROVE  Above(p) = {Root}
<1>1. Root \in Above(p)
  BY DEF Above, Node
<1>2. {Root} \in SUBSET Node /\ {Root} \cap Path = {}
  BY TreeAssumption DEF Node
<1>3. \A q \in Above(p) : q \in {Root}
  BY <1>2 DEF Above
<1> QED BY <1>1, <1>3

LEMMA AbovePath ==
    ASSUME NEW p \in Path, Parent[p] \in Path
    PROVE  Above(p) = {Parent[p]} \cup Above(Parent[p])
<1> DEFINE q == Parent[p]
           S == {q} \cup Above(q)
<1>1. S \subseteq Above(p)
  BY DEF Above, Node
<1>2. S \in SUBSET Node
  BY DEF Above, Node
<1>3. ASSUME NEW s \in S \cap Path PROVE Parent[s] \in S
  <2>1. Parent[s] \in Node /\ Parent[q] \in Node
    BY ParentType
  <2>2. CASE s = q
    BY <2>1, <2>2 DEF Above
  <2>3. CASE s \in Above(q)
    BY <2>1, <2>3 DEF Above
  <2> QED BY <2>2, <2>3
<1>4. q \in S
  OBVIOUS
<1> HIDE DEF S
<1>5. \A r \in Above(p) : r \in S
  BY <1>2, <1>3, <1>4 DEF Above
<1> QED BY <1>1, <1>5 DEF S

\* What keeps scan() from a path is its directory, or what keeps it from that.
LEMMA ScopeUnfold ==
    ASSUME NEW p \in Path
    PROVE  InScope[p] <=> (Parent[p] = Root \/ (Parent[p] \in Scanned /\ InScope[Parent[p]]))
<1> DEFINE F(f) == [x \in Path |-> Parent[x] = Root \/ (Parent[x] \in Scanned /\ f[Parent[x]])]
           g == [x \in Path |-> Above(x) \cap Path \subseteq Scanned]
<1>1. ASSUME NEW x \in Path
      PROVE  g[x] = (Parent[x] = Root \/ (Parent[x] \in Scanned /\ g[Parent[x]]))
  <2>0. Root \notin Path /\ Root \notin Scanned /\ Scanned \subseteq Path
    BY TreeAssumption DEF Scanned
  <2>1. CASE Parent[x] = Root
    BY <2>0, <2>1, AboveRoot
  <2>2. CASE Parent[x] \in Path
    <3>1. Above(x) = {Parent[x]} \cup Above(Parent[x])
      BY <2>2, AbovePath
    <3> QED BY <2>0, <2>2, <3>1
  <2> QED BY <2>1, <2>2, ParentType DEF Node
<1>2. g = F(g)
  BY <1>1, Zenon
<1> HIDE DEF g
<1>3. InScope = CHOOSE f : f = F(f)
  BY DEF InScope
<1>4. InScope = F(InScope)
  BY <1>2, <1>3, Zenon
<1> QED BY <1>4, Zenon

-----------------------------------------------------------------------------
(* A quiet run, step by step.                                              *)

LEMMA QuietStart ==
    ASSUME TInv, IInv, Start PROVE QInv'
<1> USE DEF fsVars
<1>1. /\ pc' = "enter" /\ DOMAIN fds' = {Root} /\ fds'[Root].ino = ino[Root]
      /\ fds'[Root].dt \in {0, stamp[Root]} /\ DOMAIN out' = {}
      /\ UNCHANGED <<kind, stamp, ino>>
  BY EmptyFacts DEF Start, unknown_dir_time
<1>2. kind[Root] = "dir"
  BY DEF IInv, FsInv
<1>3. QFds'
  BY <1>1, <1>2 DEF QFds
<1>4. QList' /\ QStat'
  BY <1>1 DEF QList, QStat, InScan
<1>5. QOut'
  BY <1>1 DEF QOut
<1> QED BY <1>3, <1>4, <1>5 DEF QInv

\* Nothing changes in a quiet run but the clock.
LEMMA QuietFileSystem ==
    ASSUME QInv, FileSystem PROVE QInv'
<1>1. CASE dirty'
  BY <1>1 DEF QInv, Quiet
<1>2. CASE Tick
  BY <1>2 DEF Tick, runVars, QInv, Quiet, QFds, QList, QStat, QOut, InScan, ReadSoFar,
              MetaRight, TimeRight, Listing
<1> QED BY <1>1, <1>2 DEF FileSystem, Create, Remove, Modify, Change

\* What a step within a directory leaves alone.
LEMMA QuietFrame ==
    ASSUME QFds, QOut, UNCHANGED <<kind, stamp, ino, fds, out>>
    PROVE  QFds' /\ QOut'
  BY DEF QFds, QOut, MetaRight, TimeRight, Listing

LEMMA QuietAlive ==
    ASSUME TInv, IInv, QFds, InScan
    PROVE  Alive /\ cur \in DOMAIN fds
  BY DEF IInv, ShapeInv, QFds, Alive

LEMMA QuietEnter ==
    ASSUME TInv, IInv, QInv, "open" \notin Faults, Enter PROVE QInv'
<1> USE DEF fsVars
<1> SUFFICES ASSUME Quiet' PROVE QFds' /\ QList' /\ QStat' /\ QOut'
  BY DEF QInv
<1>0. /\ UNCHANGED <<kind, stamp, ino, content, now, db, out, dirty>> /\ pc = "enter"
      /\ QFds /\ QOut
  BY DEF Enter, QInv, Quiet
<1>1. PICK d \in First(DOMAIN fds) : EnterPruned(d) \/ EnterUnchanged(d) \/ EnterChanged(d)
  BY DEF Enter
<1>2. d \in DOMAIN fds /\ d \in Node /\ Children(d) \subseteq Path
  BY <1>0, <1>1, FirstIn DEF TInv, TypeOK, Children
<1>3. CASE EnterPruned(d)
  <2>1. /\ DOMAIN fds' = DOMAIN fds \ {d} /\ \A n \in DOMAIN fds' : fds'[n] = fds[n]
        /\ pc' = "enter" /\ d \notin Scanned /\ d # Root
    BY <1>0, <1>3, TreeAssumption DEF EnterPruned, SkipDir, Scanned
  <2>2. QFds'
    BY <1>0, <2>1 DEF QFds
  <2>3. QList' /\ QStat'
    BY <2>1 DEF QList, QStat, InScan
  <2>4. QOut'
    BY <1>0, <2>1 DEF QOut, MetaRight, TimeRight, Listing
  <2> QED BY <2>2, <2>3, <2>4
<1>4. ASSUME d \notin PrunePaths PROVE d # Root => d \in Scanned
  BY <1>2, <1>4 DEF Scanned, IInv, ShapeInv, Node
<1>5. CASE EnterUnchanged(d)
  <2>1. /\ cur' = d /\ fds' = fds /\ pc' = "stat" /\ ~olderr' /\ d \notin PrunePaths
        /\ ents' = [p \in dbent' |-> FromDb(p)] /\ DOMAIN ents' = dbent' /\ pend' = dbent'
        /\ fds[d].dbm > 0 /\ fds[d].dt = fds[d].dbm
    BY <1>5 DEF EnterUnchanged, Unchanged
  <2>2. dbent' = Children(d) \cap DOMAIN db.rec
    BY <1>2, <1>5, <2>1, ReadOldType DEF EnterUnchanged
  <2>3. d \in DOMAIN db.rec /\ fds[d].dt = db.rec[d].dt /\ d \in Scanned
    BY <1>2, <1>4, <2>1, TreeAssumption DEF IInv, OldInv, TInv, TypeOK
  <2>4. kind[d] = "dir" /\ db.rec[d].dt > 0 /\ db.rec[d].dt = stamp[d]
    BY <1>0, <1>2, <2>1, <2>3 DEF QFds
  <2>5. /\ Children(d) \cap DOMAIN db.rec = Listing(d)
        /\ \A p \in Listing(d) : db.rec[p].dt >= 0 <=> kind[p] = "dir"
    BY <2>3, <2>4, StoredExact DEF IInv, IncrementalSound
  <2>6. \A p \in DOMAIN ents' : ents'[p].isdir <=> db.rec[p].dt >= 0
    BY <2>1 DEF FromDb
  <2>7. QList'
    BY <1>0, <2>1, <2>2, <2>3, <2>5, <2>6 DEF QList, ReadSoFar, Listing, Children
  <2>8. QStat'
    BY <2>1 DEF QStat
  <2> QED BY <1>0, <2>1, <2>7, <2>8, QuietFrame
<1>6. CASE EnterChanged(d)
  <2>1. /\ cur' = d /\ fds' = fds /\ pc' = "readdir" /\ d \notin PrunePaths
        /\ DOMAIN ents' = {} /\ pend' = Children(d)
    BY <1>6, EmptyFacts DEF EnterChanged
  <2>2. QList'
    BY <1>4, <2>1 DEF QList, ReadSoFar, Children
  <2>3. QStat'
    BY <2>1 DEF QStat
  <2> QED BY <1>0, <2>1, <2>2, <2>3, QuietFrame
<1> QED BY <1>1, <1>3, <1>5, <1>6

LEMMA QuietReaddir ==
    ASSUME TInv, IInv, QInv, Readdir \/ ReaddirDone PROVE QInv'
<1> USE DEF fsVars
<1> SUFFICES ASSUME Quiet' PROVE QFds' /\ QList' /\ QStat' /\ QOut'
  BY DEF QInv
<1>0. /\ UNCHANGED <<kind, stamp, ino, content, now, db, fds, cur, out, dirty>>
      /\ pc = "readdir" /\ InScan /\ QFds /\ QOut /\ QList
  BY DEF Readdir, ReaddirDone, QInv, Quiet, InScan
<1>1. Alive /\ pend \subseteq Children(cur) /\ DOMAIN ents \subseteq Children(cur)
      /\ Children(cur) \subseteq Path
  BY <1>0, QuietAlive DEF IInv, ShapeInv, Children
<1>2. CASE Readdir
  <2>1. PICK p \in First(pend) :
           /\ pend' = pend \ {p} /\ pc' = pc
           /\ ents' = IF Alive /\ kind[p] # "none"
                      THEN [q \in DOMAIN ents \cup {p} |->
                                IF q = p THEN FromReaddir(p) ELSE ents[q]]
                      ELSE ents
    BY <1>2 DEF Readdir
  <2>2. p \in pend /\ p \notin DOMAIN ents
    BY <1>0, <2>1, FirstIn DEF IInv, ShapeInv
  <2>3. FromReaddir(p).isdir <=> kind[p] = "dir"
    BY DEF FromReaddir
  <2>4. /\ \A q \in Children(cur) \ (pend \ {p}) : q \in DOMAIN ents' <=> kind[q] # "none"
        /\ \A q \in DOMAIN ents' : ents'[q].isdir <=> kind[q] = "dir"
    BY <1>0, <1>1, <2>1, <2>2, <2>3 DEF QList, ReadSoFar
  <2>5. QList'
    BY <1>0, <2>1, <2>4 DEF QList, ReadSoFar, Children
  <2>6. QStat'
    BY <1>0, <2>1 DEF QStat
  <2> QED BY <1>0, <2>5, <2>6, QuietFrame
<1>3. CASE ReaddirDone
  <2>1. pc' = "stat" /\ pend = {} /\ pend' = DOMAIN ents /\ ents' = ents
    BY <1>3 DEF ReaddirDone
  <2>2. QList'
    BY <1>0, <2>1 DEF QList, ReadSoFar, Children
  <2>3. QStat'
    BY <2>1 DEF QStat
  <2> QED BY <1>0, <2>2, <2>3, QuietFrame
<1> QED BY <1>2, <1>3

\* The loop over a sorted vector has one next element.
LEMMA FirstOnly ==
    ASSUME NEW S \in SUBSET Path, NEW p \in First(S), NEW q \in First(S)
    PROVE  p = q
<1>1. p \in Path /\ q \in Path /\ Rank[p] <= Rank[q] /\ Rank[q] <= Rank[p]
  BY DEF First
<1>2. Rank[p] \in Nat /\ Rank[q] \in Nat
  BY <1>1, TreeAssumption
<1>3. Rank[p] = Rank[q]
  BY <1>1, <1>2
<1> QED BY <1>1, <1>3, TreeAssumption

\* A stat() in a quiet run returns what is there.
LEMMA StattedRight ==
    ASSUME TInv, NEW p \in DOMAIN ents
    PROVE  /\ MetaRight(p, Statted(p).meta) /\ TimeRight(p, Statted(p).dt)
           /\ Statted(p).isdir = ents[p].isdir
<1>1. p \in Node /\ stamp[p] \in Nat /\ ents[p] \in Entry
  BY DEF TInv, TypeOK, Node
<1>2. /\ Statted(p).meta = [stamp |-> stamp[p], hash |-> NoHash]
      /\ Statted(p).dt = (IF kind[p] = "dir" THEN get_dirtime_from_stat(stamp[p]) ELSE not_a_dir)
      /\ Statted(p).isdir = ents[p].isdir
  BY <1>1 DEF Statted, Entry
<1> QED BY <1>1, <1>2, DirTimeType DEF MetaRight, TimeRight

\* The stat loop: an entry is filled in.
LEMMA QuietEntry ==
    ASSUME TInv, IInv, QFds, QOut, QList, QStat, pc \in {"stat", "hash"}, NEW p \in First(pend), NEW e,
           ents' = [ents EXCEPT ![p] = e], e.isdir = ents[p].isdir, e.fd = ents[p].fd,
           MetaRight(p, e.meta), TimeRight(p, e.dt),
           \/ pc' = "stat" /\ pend' = pend \ {p}
           \/ pc' = "hash" /\ pend' = pend /\ kind[p] = "file",
           UNCHANGED <<kind, stamp, ino, fds, cur, out>>
    PROVE  QFds' /\ QList' /\ QStat' /\ QOut'
<1>0. p \in pend /\ pend \subseteq DOMAIN ents /\ DOMAIN ents \subseteq Path /\ DOMAIN ents' = DOMAIN ents
      /\ \A q \in DOMAIN ents : ents'[q] = IF q = p THEN e ELSE ents[q]
  BY FirstIn DEF TInv, TypeOK
<1>1. InScan /\ InScan'
  BY DEF InScan
<1>2. QList'
  BY <1>0, <1>1 DEF QList, ReadSoFar, Children
<1>3. \A q \in First(pend) : q = p
  BY <1>0, FirstOnly
<1>4. QStat'
  <2>1. \A q \in DOMAIN ents : q \notin pend' \/ q = p =>
            MetaRight(q, ents'[q].meta) /\ TimeRight(q, ents'[q].dt)
    BY <1>0 DEF QStat
  <2>2. pc' = "hash" => pend' = pend /\ kind[p] = "file" /\ \A q \in First(pend') : q = p
    BY <1>3
  <2> QED BY <1>0, <2>1, <2>2 DEF QStat, MetaRight, TimeRight, First
<1> QED BY <1>2, <1>4, QuietFrame

LEMMA QuietStat ==
    ASSUME TInv, IInv, QInv, Stat \/ Hash \/ StatLoopDone PROVE QInv'
<1> USE DEF fsVars
<1> SUFFICES ASSUME Quiet' PROVE QFds' /\ QList' /\ QStat' /\ QOut'
  BY DEF QInv
<1>0. /\ UNCHANGED <<kind, stamp, ino, content, now, db, fds, cur, out, dirty>>
      /\ pc \in {"stat", "hash"} /\ InScan /\ QFds /\ QOut /\ QList /\ QStat
      /\ pend \subseteq DOMAIN ents /\ DOMAIN ents \subseteq Path
  BY DEF Stat, Hash, StatLoopDone, QInv, Quiet, InScan, TInv, TypeOK
<1>1. Alive /\ DOMAIN ents \subseteq Children(cur)
  BY <1>0, QuietAlive DEF IInv, ShapeInv
<1>2. CASE Stat
  <2>1. PICK p \in First(pend) : StatFails(p) \/ StatDir(p) \/ StatSameHash(p) \/ StatToHash(p)
    BY <1>2 DEF Stat
  <2>2. p \in pend /\ p \in DOMAIN ents /\ kind[p] # "none" /\ ents[p] \in Entry
    BY <1>0, <1>1, <1>2, FirstIn DEF Stat, QList, ReadSoFar, TInv, TypeOK
  <2>3. /\ MetaRight(p, Statted(p).meta) /\ TimeRight(p, Statted(p).dt)
        /\ Statted(p).isdir = ents[p].isdir /\ Statted(p).fd = ents[p].fd
        /\ Statted(p) \in Entry
    BY <2>2, StattedRight, StattedType DEF Statted, TInv, Entry
  <2>4. ~StatFails(p)
    BY <1>1, <2>2 DEF StatFails
  <2>5. CASE StatDir(p)
    <3>1. ents' = [ents EXCEPT ![p] = Statted(p)] /\ pc' = "stat" /\ pend' = pend \ {p}
      BY <2>5 DEF StatDir, StatDone
    <3> QED BY <1>0, <2>1, <2>3, <3>1, QuietEntry
  <2>6. CASE StatSameHash(p)
    <3> DEFINE e == [Statted(p) EXCEPT !.meta.hash = ents[p].prev.hash]
    <3>1. ents' = [ents EXCEPT ![p] = e] /\ pc' = "stat" /\ pend' = pend \ {p} /\ kind[p] = "file"
      BY <2>6 DEF StatSameHash, StatDone
    <3>2. e.isdir = ents[p].isdir /\ e.fd = ents[p].fd /\ e.dt = Statted(p).dt
          /\ e.meta.stamp = Statted(p).meta.stamp
      BY <2>3 DEF Entry, Metadata
    <3>3. MetaRight(p, e.meta) /\ TimeRight(p, e.dt)
      BY <2>3, <3>1, <3>2 DEF MetaRight
    <3> HIDE DEF e
    <3> QED BY <1>0, <2>1, <3>1, <3>2, <3>3, QuietEntry
  <2>7. CASE StatToHash(p)
    <3>1. ents' = [ents EXCEPT ![p] = Statted(p)] /\ pc' = "hash" /\ pend' = pend /\ kind[p] = "file"
      BY <2>7 DEF StatToHash
    <3> QED BY <1>0, <2>1, <2>3, <3>1, QuietEntry
  <2> QED BY <2>1, <2>4, <2>5, <2>6, <2>7
<1>3. CASE Hash
  <2>1. PICK p \in First(pend) :
           \E h \in {NoHash} \cup (IF Alive /\ kind[p] = "file" THEN {content[p]} ELSE {}) :
               StatDone(p, [ents[p] EXCEPT !.meta.hash = h])
    BY <1>3 DEF Hash
  <2>2. PICK h \in {NoHash} \cup (IF Alive /\ kind[p] = "file" THEN {content[p]} ELSE {}) :
           StatDone(p, [ents[p] EXCEPT !.meta.hash = h])
    BY <2>1
  <2> DEFINE e == [ents[p] EXCEPT !.meta.hash = h]
  <2>3. p \in DOMAIN ents /\ ents[p] \in Entry
    BY <1>0, FirstIn DEF TInv, TypeOK
  <2>4. kind[p] = "file" /\ MetaRight(p, ents[p].meta) /\ TimeRight(p, ents[p].dt)
    BY <1>0, <1>3 DEF QStat, Hash
  <2>5. /\ e.isdir = ents[p].isdir /\ e.fd = ents[p].fd /\ e.dt = ents[p].dt
        /\ e.meta.stamp = ents[p].meta.stamp
    BY <2>3 DEF Entry, Metadata
  <2>6. ents' = [ents EXCEPT ![p] = e] /\ pc' = "stat" /\ pend' = pend \ {p}
    BY <2>2 DEF StatDone
  <2>7. MetaRight(p, e.meta) /\ TimeRight(p, e.dt)
    BY <2>4, <2>5 DEF MetaRight
  <2> HIDE DEF e
  <2> QED BY <1>0, <2>5, <2>6, <2>7, QuietEntry
<1>4. CASE StatLoopDone
  <2>1. pc = "stat" /\ pc' = "open" /\ pend = {} /\ pend' = DOMAIN ents /\ ents' = ents
    BY <1>4 DEF StatLoopDone
  <2>2. QList'
    BY <1>0, <2>1 DEF QList, ReadSoFar, Children
  <2>3. QStat'
    BY <1>0, <2>1 DEF QStat, MetaRight, TimeRight
  <2> QED BY <1>0, <2>2, <2>3, QuietFrame
<1> QED BY <1>2, <1>3, <1>4

LEMMA QuietOpen ==
    ASSUME TInv, IInv, QInv, "open" \notin Faults, Open PROVE QInv'
<1> USE DEF fsVars
<1> SUFFICES ASSUME Quiet' PROVE QFds' /\ QList' /\ QStat' /\ QOut'
  BY DEF QInv
<1>0. /\ UNCHANGED <<kind, stamp, ino, content, now, db, fds, cur, out, dirty>>
      /\ pc = "open" /\ pc' = "open" /\ InScan /\ QFds /\ QOut /\ QList /\ QStat
      /\ pend \subseteq DOMAIN ents /\ DOMAIN ents \subseteq Path
  BY DEF Open, QInv, Quiet, InScan, TInv, TypeOK
<1>1. Alive
  BY <1>0, QuietAlive
<1>2. PICK p \in First(pend) : /\ OpenNothing(p) \/ OpenFails(p) \/ OpenDirectory(p)
                               /\ pend' = pend \ {p}
  BY DEF Open
<1>3. p \in DOMAIN ents /\ ents[p] \in Entry /\ (ents[p].isdir <=> kind[p] = "dir")
      /\ p \in Node /\ stamp[p] \in Nat
  BY <1>0, <1>2, FirstIn DEF TInv, TypeOK, QList, Node
<1>4. ASSUME NEW e, ents' = [ents EXCEPT ![p] = e], e.isdir = ents[p].isdir,
             e.meta = ents[p].meta, TimeRight(p, e.dt),
             kind[p] = "dir" /\ p \notin PruneNames => e.fd = ino[p]
      PROVE  QFds' /\ QList' /\ QStat' /\ QOut'
  <2>1. DOMAIN ents' = DOMAIN ents /\ \A q \in DOMAIN ents : ents'[q] = IF q = p THEN e ELSE ents[q]
    BY <1>3, <1>4 DEF TInv, TypeOK
  <2>2. QList'
    BY <1>0, <1>4, <2>1 DEF QList, ReadSoFar, InScan, Children
  <2>3. QStat'
    BY <1>0, <1>2, <1>4, <2>1 DEF QStat, MetaRight, TimeRight
  <2> QED BY <1>0, <2>2, <2>3, QuietFrame
<1>5. CASE OpenNothing(p)
  <2> DEFINE e == [ents[p] EXCEPT !.dt = not_a_dir]
  <2>1. ents' = [ents EXCEPT ![p] = e] /\ kind[p] # "dir"
    BY <1>3, <1>5 DEF OpenNothing
  <2>2. e.isdir = ents[p].isdir /\ e.meta = ents[p].meta /\ e.dt = not_a_dir
    BY <1>3 DEF Entry
  <2>3. TimeRight(p, e.dt)
    BY <2>1, <2>2 DEF TimeRight
  <2> HIDE DEF e
  <2> QED BY <1>4, <2>1, <2>2, <2>3
<1>6. CASE OpenFails(p)
  <2>1. ents' = ents /\ p \in PruneNames
    BY <1>1, <1>3, <1>6 DEF OpenFails
  <2>2. QList'
    BY <1>0, <2>1 DEF QList, ReadSoFar, InScan, Children
  <2>3. QStat'
    BY <1>0, <1>2, <2>1 DEF QStat, MetaRight, TimeRight
  <2> QED BY <1>0, <2>2, <2>3, QuietFrame
<1>7. CASE OpenDirectory(p)
  <2> DEFINE t == get_dirtime_from_stat(stamp[p])
             e == [ents[p] EXCEPT !.dt = t, !.fd = ino[p]]
  <2>1. ents' = [ents EXCEPT ![p] = e] /\ kind[p] = "dir"
    BY <1>3, <1>7 DEF OpenDirectory
  <2>2. t \in {0, stamp[p]}
    BY <1>3, DirTimeType
  <2> HIDE DEF t
  <2>3. e.isdir = ents[p].isdir /\ e.meta = ents[p].meta /\ e.dt = t /\ e.fd = ino[p]
    BY <1>3 DEF Entry
  <2>4. TimeRight(p, e.dt)
    BY <2>1, <2>2, <2>3 DEF TimeRight
  <2> HIDE DEF e
  <2> QED BY <1>4, <2>1, <2>3, <2>4
<1> QED BY <1>2, <1>5, <1>6, <1>7

\* The entries of a directory are in scope if the directory is scanned.
LEMMA EntriesInScope ==
    ASSUME TInv, IInv, QFds, QList, InScan, NEW p \in DOMAIN ents
    PROVE  InScope[p]
<1>1. p \in Path /\ Parent[p] = cur /\ cur \in DOMAIN fds
  BY DEF IInv, ShapeInv, Children
<1>2. cur # Root => cur \in Scanned /\ InScope[cur]
  BY <1>1 DEF QList, QFds
<1> QED BY <1>1, <1>2, ScopeUnfold

LEMMA QuietAdd ==
    ASSUME TInv, IInv, QInv, Add PROVE QInv'
<1> USE DEF fsVars
<1> SUFFICES ASSUME Quiet' PROVE QFds' /\ QList' /\ QStat' /\ QOut'
  BY DEF QInv
<1>0. /\ UNCHANGED <<kind, stamp, ino, content, now, db, cur, dirty>>
      /\ pc = "open" /\ pc' = "enter" /\ pend = {} /\ InScan /\ QFds /\ QOut /\ QList /\ QStat
      /\ DOMAIN ents \subseteq Path /\ DOMAIN ents \subseteq Children(cur) /\ cur \in DOMAIN fds
  BY DEF Add, QInv, Quiet, InScan, TInv, TypeOK, IInv, ShapeInv
<1>1. /\ DOMAIN out' = DOMAIN out \cup DOMAIN ents
      /\ \A p \in DOMAIN ents : out'[p].dt = ents[p].dt /\ out'[p].meta = ents[p].meta
      /\ \A p \in DOMAIN out \ DOMAIN ents : out'[p] = out[p]
  BY DEF Add
<1>2. /\ DOMAIN fds' = (DOMAIN fds \ {cur}) \cup Subdirs
      /\ \A n \in Subdirs : fds'[n].dt = ents[n].dt /\ fds'[n].ino = ents[n].fd
      /\ \A n \in DOMAIN fds' \ Subdirs : fds'[n] = fds[n]
  BY DEF Add, Subdirs
<1>3. \A p \in DOMAIN ents :
          /\ InScope[p] /\ kind[p] # "none" /\ MetaRight(p, ents[p].meta) /\ TimeRight(p, ents[p].dt)
          /\ ents[p].isdir <=> kind[p] = "dir"
          /\ kind[p] = "dir" /\ p \notin PruneNames => ents[p].fd = ino[p]
  BY <1>0, EntriesInScope DEF QList, QStat, ReadSoFar
<1>4. \A p \in DOMAIN ents : ents[p].fd # NoInode => p \notin PruneNames
  BY DEF IInv, EntInv
<1>5. \A p \in Subdirs : p \in DOMAIN ents /\ kind[p] = "dir" /\ ents[p].fd = ino[p]
  BY <1>3, <1>4 DEF Subdirs
<1>6. \A p \in DOMAIN ents : kind[p] = "dir" /\ p \notin PruneNames => p \in Subdirs
  BY <1>0, <1>3 DEF Subdirs, TInv, TypeOK, Node
<1>7. Listing(cur) \subseteq DOMAIN ents
  BY <1>0 DEF QList, ReadSoFar, Listing
<1> HIDE DEF QList
<1>8. QFds'
  BY <1>0, <1>2, <1>3, <1>5 DEF QFds, TimeRight
<1>9. QList' /\ QStat'
  BY <1>0 DEF QList, QStat, InScan
<1>10. QOut'
  <2>1. \A p \in DOMAIN out' :
           /\ kind[p] # "none" /\ InScope[p]
           /\ MetaRight(p, out'[p].meta) /\ TimeRight(p, out'[p].dt)
    BY <1>0, <1>1, <1>3 DEF QOut
  <2>2. ASSUME NEW d \in {Root} \cup (Scanned \cap DOMAIN out'), kind[d] = "dir", d \notin DOMAIN fds'
        PROVE  Listing(d) \subseteq DOMAIN out'
    <3>1. CASE d = cur
      BY <1>1, <1>7, <3>1
    <3>2. CASE d \in DOMAIN ents
      BY <1>0, <1>2, <1>6, <2>2, <3>2, TreeAssumption DEF Scanned
    <3>3. CASE d # cur /\ d \notin DOMAIN ents
      BY <1>0, <1>1, <1>2, <2>2, <3>3 DEF QOut
    <3> QED BY <3>1, <3>2, <3>3
  <2> QED BY <1>0, <2>1, <2>2 DEF QOut, MetaRight, TimeRight, Listing
<1> QED BY <1>8, <1>9, <1>10

LEMMA QuietEnd ==
    ASSUME Finish \/ Abort PROVE QInv'
  BY DEF Finish, Abort, EndRun, QInv, Quiet

LEMMA QuietInit == Init => QInv
  BY DEF Init, QInv, Quiet

LEMMA QuietNext ==
    ASSUME FineClock, "open" \notin Faults, TInv, IInv, QInv, [Next]_vars
    PROVE  QInv'
<1>1. CASE FileSystem
  BY <1>1, QuietFileSystem
<1>2. CASE Scan
  BY <1>2, QuietStart, QuietEnter, QuietReaddir, QuietStat, QuietOpen, QuietAdd, QuietEnd DEF Scan
<1>3. CASE Abort
  BY <1>3, QuietEnd
<1>4. CASE UNCHANGED vars
  BY <1>4 DEF vars, fsVars, runVars, QInv, Quiet, QFds, QList, QStat, QOut, InScan, ReadSoFar,
              MetaRight, TimeRight, Listing, First
<1> QED BY <1>1, <1>2, <1>3, <1>4 DEF Next

\* Induction over the tree, from the scan root down.
LEMMA PathInduction ==
    ASSUME NEW S \in SUBSET Path,
           \A p \in Path : (Parent[p] = Root \/ Parent[p] \in S) => p \in S
    PROVE  S = Path
<1> SUFFICES ASSUME Path \ S # {} PROVE FALSE
  OBVIOUS
<1> DEFINE R == {Rank[p] : p \in Path \ S}
<1>1. R \in SUBSET Nat /\ R # {}
  BY TreeAssumption
<1> HIDE DEF R
<1>2. PICK n \in R : \A m \in R : n <= m
  BY <1>1, LeastElement
<1>3. PICK p \in Path \ S : n = Rank[p]
  BY <1>2 DEF R
<1>4. Parent[p] \in Path \ S
  BY <1>3, ParentType DEF Node
<1>5. Rank[Parent[p]] \in R
  BY <1>4 DEF R
<1>6. Rank[p] \in Nat /\ Rank[Parent[p]] \in Nat /\ Rank[Parent[p]] < Rank[p]
  BY <1>3, <1>4, TreeAssumption
<1> QED BY <1>2, <1>3, <1>5, <1>6

\* The invariant at the end of a run is the property.
LEMMA QuietResult ==
    ASSUME TInv, IInv, QInv PROVE QuietRunExact
<1> SUFFICES ASSUME Finished, ~dirty PROVE Describes(out)
  BY DEF QuietRunExact
<1>0. QOut /\ DOMAIN fds = {} /\ DOMAIN out \subseteq Path
  BY DEF QInv, Quiet, Finished, TInv, TypeOK
<1>1. ASSUME NEW p \in DOMAIN out
      PROVE  /\ out[p].dt >= 0 <=> kind[p] = "dir"
             /\ out[p].meta.stamp = stamp[p]
             /\ out[p].meta.hash \in {NoHash, content[p]}
  <2>1. MetaRight(p, out[p].meta) /\ TimeRight(p, out[p].dt) /\ kind[p] # "none"
    BY <1>0 DEF QOut
  <2>2. HashOk(p, out[p].meta) /\ p \in Node /\ stamp[p] \in Nat
    BY <1>0 DEF IInv, HashInv, TInv, TypeOK, Node
  <2>3. kind[p] \in {"none", "file", "dir"}
    BY <2>2 DEF TInv, TypeOK
  <2>4. out[p].dt >= 0 <=> kind[p] = "dir"
    BY <2>1, <2>2 DEF TimeRight, not_a_dir
  <2> QED BY <2>1, <2>2, <2>3, <2>4 DEF MetaRight, HashOk
<1> DEFINE S == {p \in Path : kind[p] # "none" /\ InScope[p] => p \in DOMAIN out}
<1>2. ASSUME NEW p \in Path, Parent[p] = Root \/ Parent[p] \in S PROVE p \in S
  <2> SUFFICES ASSUME kind[p] # "none", InScope[p] PROVE p \in DOMAIN out
    OBVIOUS
  <2> DEFINE d == Parent[p]
  <2>1. kind[d] = "dir" /\ p \in Listing(d)
    BY DEF IInv, FsInv, Listing, Children
  <2>2. d = Root \/ (d \in Scanned /\ InScope[d])
    BY ScopeUnfold
  <2>3. d \in {Root} \cup (Scanned \cap DOMAIN out)
    BY <1>2, <2>1, <2>2
  <2>4. Listing(d) \subseteq DOMAIN out
    BY <1>0, <2>1, <2>3 DEF QOut
  <2> QED BY <2>1, <2>4
<1>3. S = Path
  <2> HIDE DEF S
  <2>1. S \in SUBSET Path
    BY DEF S
  <2> QED BY <1>2, <2>1, PathInduction
<1>4. DOMAIN out = {p \in Path : kind[p] # "none" /\ InScope[p]}
  BY <1>0, <1>3 DEF QOut
<1> QED BY <1>1, <1>4 DEF Describes

\* A run of updatedb during which nothing changes produces a database that
\* describes the file system, whatever the earlier runs met and however much of
\* the old database it took over.
THEOREM QuietRuns ==
    (FineClock /\ "open" \notin Faults) => (Spec => []QuietRunExact)
<1> SUFFICES ASSUME FineClock, "open" \notin Faults PROVE Spec => []QuietRunExact
  OBVIOUS
<1>1. Init => TInv /\ IInv /\ QInv
  BY TypeInit, InitInv, QuietInit
<1>2. TInv /\ IInv /\ QInv /\ [Next]_vars => TInv' /\ IInv' /\ QInv'
  BY NextKeeps, QuietNext, TypeFileSystem, TypeScan, TypeStutter DEF Next
<1>3. TInv /\ IInv /\ QInv => QuietRunExact
  BY QuietResult
<1> QED
  BY <1>1, <1>2, <1>3, PTL DEF Spec

-----------------------------------------------------------------------------
(* The kinds and the scope of what is recorded, step by step.              *)

\* A change of the file system does not make a stamp read earlier current.
LEMMA StampBack ==
    ASSUME TInv, Careful, NEW p \in Node, NEW t \in Nat, t <= now,
           t = stamp[p] => kind[p] = "dir"
    PROVE  t = stamp'[p] => kind'[p] = "dir"
<1>1. now \in Nat /\ stamp[p] \in Nat
  BY DEF TInv, TypeOK
<1> QED BY <1>1 DEF Careful

LEMMA KindFileSystem ==
    ASSUME TInv, IInv, KInv, FineClock, FileSystem PROVE KInv'
<1>1. Careful
  BY FileSystemCareful DEF IInv
<1>2. UNCHANGED <<db, pc, fds, cur, ents, out>>
  BY <1>1 DEF Careful
<1>3. ScopeInv'
  BY <1>2 DEF KInv, ScopeInv, InScan
<1>4. \A n \in Node : stamp'[n] > 0
  <2>1. stamp' \in [Node -> Nat] /\ now \in Nat
    BY TypeFileSystem DEF TInv, TypeOK
  <2> QED BY <1>1, <2>1 DEF Careful, KInv, KindInv
<1>5. /\ \A p \in DOMAIN db.rec : p \in Node /\ db.rec[p].meta.stamp \in Nat /\ db.rec[p].meta.stamp <= now
      /\ \A p \in DOMAIN out : p \in Node /\ out[p].meta.stamp \in Nat /\ out[p].meta.stamp <= now
      /\ \A p \in DOMAIN ents : p \in Node /\ ents[p].meta.stamp \in Nat /\ ents[p].meta.stamp <= now
  BY DEF TInv, TypeOK, Node, Record, Entry, Metadata, IInv, TimeInv
<1>6. \A p \in DOMAIN db.rec : Children(p) \cap DOMAIN db.rec # {}
           /\ db.rec[p].meta.stamp = stamp'[p] => kind'[p] = "dir"
  BY <1>1, <1>5, StampBack DEF KInv, KindInv
<1>7. \A p \in DOMAIN out : p \in DOMAIN fds \/ Children(p) \cap DOMAIN out # {} =>
           (out[p].meta.stamp = stamp'[p] => kind'[p] = "dir")
  BY <1>1, <1>5, StampBack DEF KInv, KindInv
<1>8. \A p \in DOMAIN ents : ents[p].fd # NoInode =>
           (ents[p].meta.stamp = stamp'[p] => kind'[p] = "dir")
  BY <1>1, <1>5, StampBack DEF KInv, KindInv
<1>9. KindInv'
  BY <1>2, <1>4, <1>6, <1>7, <1>8 DEF KindInv, Children
<1> QED BY <1>3, <1>9 DEF KInv

LEMMA KindEnter ==
    ASSUME TInv, IInv, KInv, Start \/ Enter PROVE KInv'
<1> USE DEF fsVars, KInv
<1>1. CASE Start
  <2>1. /\ UNCHANGED <<kind, stamp, db, ents>> /\ DOMAIN out' = {} /\ pc' = "enter" /\ DOMAIN ents = {}
    BY <1>1, EmptyFacts DEF Start, IInv, ShapeInv, InScan
  <2> QED BY <2>1 DEF KindInv, ScopeInv, InScan, Children
<1>2. CASE Enter
  <2>0. UNCHANGED <<kind, stamp, db, out>> /\ pc = "enter" /\ DOMAIN ents = {}
    BY <1>2 DEF Enter, IInv, ShapeInv, InScan
  <2>1. PICK d \in First(DOMAIN fds) : EnterPruned(d) \/ EnterUnchanged(d) \/ EnterChanged(d)
    BY <1>2 DEF Enter
  <2>2. d \in DOMAIN fds /\ d \in Node
    BY <2>1, FirstIn DEF TInv, TypeOK
  <2>3. DOMAIN fds' \subseteq DOMAIN fds
    BY <2>1 DEF EnterPruned, EnterUnchanged, EnterChanged, SkipDir
  <2>4. \A p \in DOMAIN ents' : ents'[p].fd = NoInode
    BY <2>0, <2>1, EmptyFacts DEF EnterPruned, EnterUnchanged, EnterChanged, SkipDir, FromDb
  <2>5. KindInv'
    BY <2>0, <2>3, <2>4 DEF KindInv, Children
  <2>6. InScan' => cur' = d /\ d \notin PrunePaths
    BY <2>0, <2>1 DEF EnterPruned, EnterUnchanged, EnterChanged, SkipDir, InScan
  <2>7. ScopeInv'
    BY <2>0, <2>2, <2>6 DEF ScopeInv, Scanned, IInv, ShapeInv, Node
  <2> QED BY <2>5, <2>7
<1> QED BY <1>1, <1>2

\* Steps within a directory, but for opening.
LEMMA KindWithin ==
    ASSUME TInv, IInv, KInv, Readdir \/ ReaddirDone \/ Stat \/ Hash \/ StatLoopDone
    PROVE  KInv'
<1> USE DEF fsVars, KInv
<1>0. /\ UNCHANGED <<kind, stamp, db, fds, cur, out>> /\ InScan
      /\ DOMAIN ents \subseteq Path
  BY DEF Readdir, ReaddirDone, Stat, Hash, StatLoopDone, InScan, TInv, TypeOK
<1>1. \A p \in DOMAIN ents : ents[p].fd = NoInode /\ ents[p] \in Entry
  BY DEF IInv, EntInv, Readdir, ReaddirDone, Stat, Hash, StatLoopDone, TInv, TypeOK
<1>2. \A p \in DOMAIN ents' : ents'[p].fd = NoInode
  <2>1. CASE Readdir
    BY <1>1, <2>1 DEF Readdir, FromReaddir
  <2>2. CASE ReaddirDone \/ StatLoopDone
    BY <1>1, <2>2 DEF ReaddirDone, StatLoopDone
  <2>3. ASSUME NEW p \in First(pend), NEW e, e.fd = ents[p].fd, ents' = [ents EXCEPT ![p] = e],
               pend \subseteq DOMAIN ents
        PROVE  \A q \in DOMAIN ents' : ents'[q].fd = NoInode
    <3>1. DOMAIN ents' = DOMAIN ents /\ \A q \in DOMAIN ents : ents'[q] = IF q = p THEN e ELSE ents[q]
      BY <2>3 DEF TInv, TypeOK
    <3> QED BY <1>1, <2>3, <3>1, FirstIn
  <2>4. CASE Stat
    <3>1. PICK p \in First(pend) : StatFails(p) \/ StatDir(p) \/ StatSameHash(p) \/ StatToHash(p)
      BY <2>4 DEF Stat
    <3>2. p \in DOMAIN ents /\ pend \subseteq DOMAIN ents /\ ents[p] \in Entry /\ Statted(p) \in Entry
          /\ Statted(p).fd = ents[p].fd
      BY <1>1, <2>4, <3>1, FirstIn, StattedType DEF Stat, TInv, Statted, Entry
    <3>3. CASE StatFails(p)
      BY <1>1, <3>3 DEF StatFails
    <3>4. CASE StatDir(p) \/ StatToHash(p)
      BY <2>3, <3>2, <3>4 DEF StatDir, StatToHash, StatDone
    <3>5. CASE StatSameHash(p)
      <4> DEFINE e == [Statted(p) EXCEPT !.meta.hash = ents[p].prev.hash]
      <4>1. e.fd = ents[p].fd
        BY <3>2 DEF Entry
      <4>2. ents' = [ents EXCEPT ![p] = e]
        BY <3>5 DEF StatSameHash, StatDone
      <4> HIDE DEF e
      <4> QED BY <2>3, <3>2, <4>1, <4>2
    <3> QED BY <3>1, <3>3, <3>4, <3>5
  <2>5. CASE Hash
    <3>0. PICK p \in First(pend) : \E h : StatDone(p, [ents[p] EXCEPT !.meta.hash = h])
      BY <2>5 DEF Hash
    <3>1. PICK h : StatDone(p, [ents[p] EXCEPT !.meta.hash = h])
      BY <3>0
    <3>2. p \in DOMAIN ents /\ pend \subseteq DOMAIN ents /\ ents[p] \in Entry
      BY <1>1, <2>5, <3>0, FirstIn DEF Hash, TInv
    <3> DEFINE e == [ents[p] EXCEPT !.meta.hash = h]
    <3>3. e.fd = ents[p].fd
      BY <3>2 DEF Entry
    <3>4. ents' = [ents EXCEPT ![p] = e]
      BY <3>1 DEF StatDone
    <3> HIDE DEF e
    <3> QED BY <2>3, <3>2, <3>3, <3>4
  <2> QED BY <2>1, <2>2, <2>4, <2>5
<1>3. KindInv'
  BY <1>0, <1>2 DEF KindInv, Children
<1>4. ScopeInv'
  BY <1>0 DEF ScopeInv
<1> QED BY <1>3, <1>4

LEMMA KindOpen ==
    ASSUME TInv, IInv, KInv, Open PROVE KInv'
<1> USE DEF fsVars, KInv
<1>0. UNCHANGED <<kind, stamp, ino, db, pc, fds, cur, out>> /\ pend \subseteq DOMAIN ents
  BY DEF Open, TInv
<1>1. PICK p \in First(pend) : OpenNothing(p) \/ OpenFails(p) \/ OpenDirectory(p)
  BY DEF Open
<1>2. p \in DOMAIN ents /\ ents[p] \in Entry
  BY <1>0, <1>1, FirstIn DEF TInv, TypeOK
<1>3. DOMAIN ents' = DOMAIN ents /\ \A q \in DOMAIN ents : q # p => ents'[q] = ents[q]
  BY <1>1 DEF OpenNothing, OpenFails, OpenDirectory, TInv, TypeOK
<1>4. ents'[p].meta = ents[p].meta /\ (ents'[p].fd = ents[p].fd \/ kind[p] = "dir")
  <2>1. CASE OpenNothing(p)
    BY <1>2, <2>1 DEF OpenNothing, Entry, TInv, TypeOK
  <2>2. CASE OpenFails(p)
    BY <2>2 DEF OpenFails
  <2>3. CASE OpenDirectory(p)
    <3> DEFINE e == [ents[p] EXCEPT !.dt = get_dirtime_from_stat(stamp[p]), !.fd = ino[p]]
    <3>1. ents' = [ents EXCEPT ![p] = e] /\ kind[p] = "dir"
      BY <2>3 DEF OpenDirectory
    <3>2. e.meta = ents[p].meta
      BY <1>2 DEF Entry
    <3> HIDE DEF e
    <3> QED BY <1>2, <3>1, <3>2 DEF TInv, TypeOK
  <2> QED BY <1>1, <2>1, <2>2, <2>3
<1>5. KindInv'
  BY <1>0, <1>3, <1>4 DEF KindInv, Children
<1>6. ScopeInv'
  BY <1>0 DEF ScopeInv, InScan
<1> QED BY <1>5, <1>6

\* Add() brings new paths, below the directory that was scanned.
LEMMA NewPaths ==
    ASSUME TInv, IInv, Add
    PROVE  /\ InScan /\ cur \in DOMAIN fds /\ DOMAIN ents \subseteq Children(cur)
           /\ DOMAIN ents \cap (DOMAIN out \cup {Root, cur}) = {}
           /\ \A p \in DOMAIN ents : Children(p) \cap (DOMAIN out \cup DOMAIN ents) = {}
           /\ DOMAIN out' = DOMAIN out \cup DOMAIN ents
           /\ DOMAIN fds' = (DOMAIN fds \ {cur}) \cup Subdirs /\ Subdirs \subseteq DOMAIN ents
           /\ \A p \in DOMAIN ents : out'[p].meta = ents[p].meta
           /\ \A p \in DOMAIN out : out'[p] = out[p]
           /\ cur \in {Root} \cup DOMAIN out
<1>1. InScan /\ cur \in DOMAIN fds /\ DOMAIN ents \subseteq Children(cur) /\ DOMAIN ents \subseteq Path
      /\ Children(cur) \cap DOMAIN out = {} /\ DOMAIN out \subseteq Path
  BY DEF Add, InScan, IInv, ShapeInv, TInv, TypeOK
<1>2. DOMAIN ents \cap (DOMAIN out \cup {Root, cur}) = {}
  BY <1>1, ParentType, TreeAssumption DEF Children
<1>3. ASSUME NEW p \in DOMAIN ents, NEW c \in Children(p) \cap (DOMAIN out \cup DOMAIN ents)
      PROVE  FALSE
  <2>1. c \in DOMAIN out => p \in DOMAIN out
    BY <1>1 DEF Children, IInv, ShapeInv
  <2>2. c \in DOMAIN ents => p = cur
    BY <1>1 DEF Children
  <2> QED BY <1>2, <2>1, <2>2
<1>4. /\ DOMAIN out' = DOMAIN out \cup DOMAIN ents
      /\ \A p \in DOMAIN ents : out'[p].meta = ents[p].meta
      /\ \A p \in DOMAIN out \ DOMAIN ents : out'[p] = out[p]
  BY DEF Add
<1>5. DOMAIN fds' = (DOMAIN fds \ {cur}) \cup Subdirs /\ Subdirs \subseteq DOMAIN ents
  BY DEF Add, Subdirs
<1>6. cur \in {Root} \cup DOMAIN out
  BY <1>1 DEF IInv, ShapeInv, TInv, TypeOK, Node
<1> QED BY <1>1, <1>2, <1>3, <1>4, <1>5, <1>6

LEMMA KindAdd ==
    ASSUME TInv, IInv, KInv, Add PROVE KInv'
<1> USE DEF fsVars, KInv
<1>0. UNCHANGED <<kind, stamp, db>> /\ pc' = "enter" /\ DOMAIN ents' = {}
  BY EmptyFacts DEF Add
<1>1. ASSUME NEW p \in DOMAIN out', p \in DOMAIN fds' \/ Children(p) \cap DOMAIN out' # {},
             out'[p].meta.stamp = stamp[p]
      PROVE  kind[p] = "dir"
  <2>1. CASE p \in DOMAIN ents
    <3>1. Children(p) \cap DOMAIN out' = {} /\ p \notin DOMAIN out /\ out'[p].meta = ents[p].meta
      BY <2>1, NewPaths
    <3>2. p \in DOMAIN fds => p \in DOMAIN out
      BY <2>1 DEF TInv, TypeOK, IInv, ShapeInv
    <3>3. p \in Subdirs
      BY <1>1, <3>1, <3>2, NewPaths
    <3> QED BY <1>1, <2>1, <3>1, <3>3 DEF Subdirs, KindInv
  <2>2. CASE p \in DOMAIN out \ DOMAIN ents
    <3>1. p \in DOMAIN fds \/ Children(p) \cap DOMAIN out # {}
      <4>1. CASE p \in DOMAIN fds'
        BY <2>2, <4>1, NewPaths
      <4>2. CASE Children(p) \cap DOMAIN ents # {}
        BY <4>2, NewPaths DEF Children
      <4> QED BY <1>1, <4>1, <4>2, NewPaths
    <3> QED BY <1>1, <2>2, <3>1, NewPaths DEF KindInv
  <2> QED BY <1>1, <2>1, <2>2, NewPaths
<1>2. KindInv'
  BY <1>0, <1>1 DEF KindInv, Children
<1>3. \A p \in DOMAIN out' : Parent[p] \in {Root} \cup Scanned
  BY NewPaths DEF ScopeInv, Children
<1>4. ScopeInv'
  BY <1>0, <1>3 DEF ScopeInv, InScan
<1> QED BY <1>2, <1>4

LEMMA KindEnd ==
    ASSUME TInv, IInv, KInv, Finish \/ Abort PROVE KInv'
<1> USE DEF fsVars, KInv
<1>1. UNCHANGED <<kind, stamp>> /\ pc' = "idle" /\ DOMAIN out' = {} /\ DOMAIN ents' = {}
  BY EmptyFacts DEF Finish, Abort, EndRun
<1>2. CASE Abort
  BY <1>1, <1>2 DEF Abort, KindInv, ScopeInv, InScan, Children
<1>3. CASE Finish
  <2>1. db'.rec = out
    BY <1>3 DEF Finish
  <2>2. KindInv'
    BY <1>1, <2>1 DEF KindInv, Children
  <2>3. \A p \in DOMAIN out : Parent[p] \in {Root} \cup (Scanned \cap DOMAIN out)
    BY DEF ScopeInv, IInv, ShapeInv, Scanned
  <2>4. ScopeInv'
    BY <1>1, <2>1, <2>3 DEF ScopeInv, InScan
  <2> QED BY <2>2, <2>4
<1> QED BY <1>2, <1>3

LEMMA KindInit == Init => KInv
  BY EmptyFacts DEF Init, KInv, KindInv, ScopeInv, InScan

LEMMA KindNext ==
    ASSUME FineClock, TInv, IInv, KInv, [Next]_vars PROVE KInv'
<1>1. CASE FileSystem
  BY <1>1, KindFileSystem
<1>2. CASE Scan
  BY <1>2, KindEnter, KindWithin, KindOpen, KindAdd, KindEnd DEF Scan
<1>3. CASE Abort
  BY <1>3, KindEnd
<1>4. CASE UNCHANGED vars
  BY <1>4 DEF vars, fsVars, runVars, KInv, KindInv, ScopeInv, InScan, Children
<1> QED BY <1>1, <1>2, <1>3, <1>4 DEF Next

-----------------------------------------------------------------------------
(* The history of a run, step by step.                                     *)

\* Nothing has been said of the entries of a directory that is still open.
LEMMA Unheard ==
    ASSUME TInv, IInv, HGone, NEW d \in DOMAIN fds, NEW p \in Children(d), p \notin DOMAIN ents
    PROVE  EventsAt(p) = {}
<1>1. p \notin DOMAIN out /\ Parent[p] = d
  BY DEF IInv, ShapeInv, Children
<1> QED BY <1>1 DEF HGone, EventsAt

LEMMA HistStart ==
    ASSUME Start PROVE HInv'
<1>1. /\ DOMAIN out' = {} /\ events' = {} /\ pc' = "enter" /\ DOMAIN fds' = {Root}
  BY EmptyFacts DEF Start
<1> QED BY <1>1 DEF HInv, HEnts, HOut, HGone, HQuiet, InScan

LEMMA HistFileSystem ==
    ASSUME HInv, FileSystem PROVE HInv'
<1>1. UNCHANGED <<db, pc, baseline, olderr, fds, cur, ents, dbent, pend, out, events>>
  BY DEF FileSystem, Create, Remove, Modify, Tick, Change, runVars
<1>2. dirty' \/ UNCHANGED <<dirty, kind>>
  BY DEF FileSystem, Create, Remove, Modify, Tick, Change
<1> SUFFICES ASSUME Recording' PROVE HEnts' /\ HOut' /\ HGone' /\ HQuiet'
  BY DEF HInv
<1>3. HEnts /\ HOut /\ HGone /\ HQuiet
  BY <1>1 DEF HInv, Recording
<1>4. HEnts'
  BY <1>1, <1>3 DEF HEnts, InScan, Children, MetaIn, EventsAt, EventsFor, Told, First
<1>5. HOut'
  BY <1>1, <1>3 DEF HOut, EventsAt, EventsFor, Told
<1>6. HGone'
  BY <1>1, <1>3 DEF HGone, Removed
<1>7. HQuiet'
  BY <1>1, <1>2, <1>3 DEF HQuiet, Removed, Children
<1> QED BY <1>4, <1>5, <1>6, <1>7

LEMMA HistEnter ==
    ASSUME TInv, IInv, HInv, "open" \notin Faults, Enter PROVE HInv'
<1> USE DEF fsVars
<1> SUFFICES ASSUME Recording' PROVE HEnts' /\ HOut' /\ HGone' /\ HQuiet'
  BY DEF HInv
<1>0. /\ UNCHANGED <<kind, db, baseline, out, events, dirty>> /\ pc = "enter" /\ DOMAIN ents = {}
  BY DEF Enter, IInv, ShapeInv, InScan
<1>1. PICK d \in First(DOMAIN fds) : EnterPruned(d) \/ EnterUnchanged(d) \/ EnterChanged(d)
  BY DEF Enter
<1>2. d \in DOMAIN fds /\ d \in Node
  BY <1>1, FirstIn DEF TInv, TypeOK
<1>3. ~olderr /\ (ReadOld(d) => dbent' = Children(d) \cap DOMAIN db.rec)
  BY <1>1, <1>2, ReadOldType DEF EnterPruned, EnterUnchanged, EnterChanged, Recording
<1>4. HEnts /\ HOut /\ HGone /\ HQuiet
  BY <1>0, <1>3 DEF HInv, Recording
<1>5. \A p \in Children(d) : EventsAt(p) = {}
  BY <1>0, <1>2, <1>4, Unheard
<1>6. DOMAIN fds' \subseteq DOMAIN fds /\ (fds' = fds \/ (DOMAIN fds' = DOMAIN fds \ {d} /\ d \in PrunePaths))
  BY <1>1 DEF EnterPruned, EnterUnchanged, EnterChanged, SkipDir
<1>7. HEnts'
  <2>1. CASE EnterPruned(d)
    BY <1>0, <2>1 DEF EnterPruned, SkipDir, HEnts, InScan
  <2>2. CASE EnterUnchanged(d)
    <3>1. /\ dbent' = Children(d) \cap DOMAIN db.rec /\ cur' = d /\ pend' = dbent' /\ pc' = "stat"
          /\ ents' = [p \in dbent' |-> FromDb(p)] /\ DOMAIN ents' = dbent'
      BY <1>3, <2>2 DEF EnterUnchanged
    <3>2. \A p \in DOMAIN ents' :
             /\ ents'[p].prev = MetaIn(db.rec, p) /\ ents'[p].existed /\ p \in DOMAIN db.rec
             /\ ents'[p].meta = NoMetadata /\ {e \in events : e.path = p} = {} /\ p \in pend'
      BY <1>5, <3>1 DEF FromDb, MetaIn, EventsAt
    <3>3. dbent' = Children(cur') \cap DOMAIN db.rec
      BY <3>1
    <3> HIDE DEF MetaIn
    <3> QED BY <1>0, <3>1, <3>2, <3>3 DEF HEnts, EventsAt, Children, MetaIn
  <2>3. CASE EnterChanged(d)
    <3>1. dbent' = Children(d) \cap DOMAIN db.rec /\ cur' = d /\ DOMAIN ents' = {}
      BY <1>3, <2>3, EmptyFacts DEF EnterChanged
    <3> QED BY <1>0, <3>1 DEF HEnts, Children
  <2> QED BY <1>1, <2>1, <2>2, <2>3
<1>8. HOut'
  BY <1>0, <1>4 DEF HOut, EventsAt, EventsFor, Told
<1>9. HGone'
  BY <1>0, <1>4, <1>6 DEF HGone, Removed
<1>10. HQuiet'
  BY <1>0, <1>4, <1>6, TreeAssumption DEF HQuiet, Removed, Children, Scanned
<1> QED BY <1>7, <1>8, <1>9, <1>10

\* What a step within a directory leaves alone.
LEMMA HistFrame ==
    ASSUME HOut, HGone, HQuiet, UNCHANGED <<kind, db, fds, out, dirty, cur>>,
           DOMAIN ents \subseteq DOMAIN ents', events \subseteq events',
           \A e \in events' \ events : e.path \in DOMAIN ents',
           \A e \in events' \ events : e.path \notin DOMAIN out
    PROVE  HOut' /\ HGone' /\ HQuiet'
<1>1. \A p \in DOMAIN out : {e \in events' : e.path = p} = {e \in events : e.path = p}
  OBVIOUS
<1>2. HOut'
  BY <1>1 DEF HOut, EventsAt, EventsFor, Told
<1>3. HGone'
  BY DEF HGone, Removed
<1>4. HQuiet'
  BY DEF HQuiet, Removed, Children
<1> QED BY <1>2, <1>3, <1>4

LEMMA HistReaddir ==
    ASSUME TInv, IInv, HInv, Readdir \/ ReaddirDone PROVE HInv'
<1> USE DEF fsVars
<1> SUFFICES ASSUME Recording' PROVE HEnts' /\ HOut' /\ HGone' /\ HQuiet'
  BY DEF HInv
<1>0. /\ UNCHANGED <<kind, db, baseline, olderr, fds, cur, dbent, out, events, dirty>>
      /\ pc = "readdir" /\ InScan
  BY DEF Readdir, ReaddirDone, InScan
<1>1. HEnts /\ HOut /\ HGone /\ HQuiet
  BY <1>0 DEF HInv, Recording
<1>2. /\ cur \in DOMAIN fds /\ pend \subseteq Children(cur) /\ pend \cap DOMAIN ents = {}
      /\ dbent = Children(cur) \cap DOMAIN db.rec
  BY <1>0, <1>1 DEF IInv, ShapeInv, HEnts
<1>3. CASE Readdir
  <2>1. PICK p \in First(pend) :
           /\ pend' = pend \ {p} /\ pc' = pc
           /\ ents' = IF Alive /\ kind[p] # "none"
                      THEN [q \in DOMAIN ents \cup {p} |->
                                IF q = p THEN FromReaddir(p) ELSE ents[q]]
                      ELSE ents
    BY <1>3 DEF Readdir
  <2>2. p \in Children(cur) /\ p \notin DOMAIN ents /\ EventsAt(p) = {}
    BY <1>1, <1>2, <2>1, FirstIn, Unheard
  <2>3. /\ FromReaddir(p).prev = MetaIn(db.rec, p) /\ FromReaddir(p).meta = NoMetadata
        /\ FromReaddir(p).existed <=> p \in DOMAIN db.rec
    BY <1>2, <2>2 DEF FromReaddir, MetaIn
  <2>4. DOMAIN ents \subseteq DOMAIN ents'
    BY <2>1
  <2>5. \A q \in DOMAIN ents' : ents'[q] = IF q = p THEN FromReaddir(p) ELSE ents[q]
    BY <2>1, <2>2
  <2>6. \A q \in DOMAIN ents' : q = p \/ q \in DOMAIN ents
    BY <2>1
  <2>7. \A q \in DOMAIN ents' :
           /\ ents'[q].prev = MetaIn(db.rec, q) /\ (ents'[q].existed <=> q \in DOMAIN db.rec)
           /\ EventsAt(q) = {} /\ ents'[q].meta = NoMetadata
    BY <1>0, <1>1, <2>2, <2>3, <2>5, <2>6 DEF HEnts
  <2>8. HEnts'
    BY <1>0, <1>2, <2>1, <2>7 DEF HEnts, Children, MetaIn, EventsAt
  <2> QED BY <1>0, <1>1, <2>4, <2>8, HistFrame
<1>4. CASE ReaddirDone
  <2>1. pc' = "stat" /\ pend' = DOMAIN ents /\ ents' = ents
    BY <1>4 DEF ReaddirDone
  <2>2. HEnts'
    BY <1>0, <1>1, <2>1 DEF HEnts, Children, MetaIn, EventsAt
  <2> QED BY <1>0, <1>1, <2>1, <2>2, HistFrame
<1> QED BY <1>3, <1>4

\* What record_history_event() says of an entry is what there is to say.
LEMMA HistoryTold ==
    ASSUME ~baseline, NEW p \in Path, NEW e, e.prev = MetaIn(db.rec, p), e.existed <=> p \in DOMAIN db.rec
    PROVE  HistoryOf(p, e) = EventsFor(p, e.meta)
  BY DEF HistoryOf, EventsFor, MetaIn

\* The stat loop finishes with an entry.
LEMMA HistEntry ==
    ASSUME TInv, IInv, HInv, Recording', pc \in {"stat", "hash"}, NEW p \in First(pend), NEW e,
           StatDone(p, e), e.prev = ents[p].prev, e.existed = ents[p].existed,
           UNCHANGED <<kind, db, baseline, olderr, fds, cur, dbent, out, dirty>>
    PROVE  HEnts' /\ HOut' /\ HGone' /\ HQuiet'
<1>0. HEnts /\ HOut /\ HGone /\ HQuiet /\ InScan /\ ~baseline
  BY DEF HInv, Recording, InScan
<1>1. p \in pend /\ pend \subseteq DOMAIN ents /\ DOMAIN ents \subseteq Path /\ cur \in DOMAIN fds
      /\ DOMAIN ents \subseteq Children(cur)
  BY <1>0, FirstIn DEF TInv, TypeOK, IInv, ShapeInv
<1>2. /\ DOMAIN ents' = DOMAIN ents /\ \A q \in DOMAIN ents : ents'[q] = IF q = p THEN e ELSE ents[q]
      /\ events' = events \cup HistoryOf(p, e) /\ pend' = pend \ {p} /\ pc' = "stat"
  BY <1>1 DEF StatDone, TInv, TypeOK
<1>3. HistoryOf(p, e) = EventsFor(p, e.meta)
  BY <1>0, <1>1, HistoryTold DEF HEnts
<1>4. \A x \in EventsFor(p, e.meta) : x.path = p
  BY DEF EventsFor
<1>5. EventsAt(p) = {}
  BY <1>0, <1>1 DEF HEnts
<1>6. {x \in events' : x.path = p} = EventsFor(p, e.meta)
  BY <1>2, <1>3, <1>4, <1>5 DEF EventsAt
<1>7. \A q \in DOMAIN ents : q # p => {x \in events' : x.path = q} = EventsAt(q)
  BY <1>2, <1>3, <1>4 DEF EventsAt
<1>8. ASSUME NEW q \in DOMAIN ents, q \in pend'
      PROVE  EventsAt(q) = {} /\ ents'[q].meta = NoMetadata /\ q # p
  <2>1. q \in pend /\ q # p /\ q \notin First(pend)
    BY <1>1, <1>2, <1>8, FirstOnly
  <2> QED BY <1>0, <1>2, <2>1 DEF HEnts
<1>9. ASSUME NEW q \in DOMAIN ents, q \notin pend', q # p
      PROVE  Told(q, ents[q].meta) /\ ents'[q] = ents[q]
  <2>1. q \notin pend
    BY <1>2, <1>9
  <2> QED BY <1>0, <1>2, <1>9, <2>1 DEF HEnts
<1>10. \A q \in DOMAIN ents : ents'[q].prev = MetaIn(db.rec, q) /\ (ents'[q].existed <=> q \in DOMAIN db.rec)
  BY <1>0, <1>1, <1>2 DEF HEnts
<1>11. \A q \in DOMAIN ents :
          IF q \in pend' THEN {x \in events' : x.path = q} = {} /\ ents'[q].meta = NoMetadata
          ELSE \/ {x \in events' : x.path = q} = EventsFor(q, ents'[q].meta)
               \/ {x \in events' : x.path = q} = {} /\ ents'[q].meta = NoMetadata
  <2>1. ASSUME NEW q \in DOMAIN ents, q \in pend'
        PROVE  {x \in events' : x.path = q} = {} /\ ents'[q].meta = NoMetadata
    BY <1>7, <1>8, <2>1
  <2>2. ASSUME NEW q \in DOMAIN ents, q \notin pend'
        PROVE  \/ {x \in events' : x.path = q} = EventsFor(q, ents'[q].meta)
               \/ {x \in events' : x.path = q} = {} /\ ents'[q].meta = NoMetadata
    <3>1. CASE q = p
      BY <1>1, <1>2, <1>6, <3>1
    <3>2. CASE q # p
      BY <1>7, <1>9, <2>2, <3>2 DEF Told
    <3> QED BY <3>1, <3>2
  <2> QED BY <2>1, <2>2
<1>12. HEnts'
  BY <1>0, <1>2, <1>10, <1>11 DEF HEnts, Children, MetaIn, EventsAt, EventsFor, Told, InScan
<1>13. \A x \in events' \ events : x.path \in DOMAIN ents' /\ x.path \notin DOMAIN out
  BY <1>1, <1>2, <1>3, <1>4 DEF IInv, ShapeInv
<1> QED BY <1>0, <1>2, <1>12, <1>13, HistFrame

LEMMA HistStat ==
    ASSUME TInv, IInv, HInv, Stat \/ Hash \/ StatLoopDone PROVE HInv'
<1> USE DEF fsVars
<1> SUFFICES ASSUME Recording' PROVE HEnts' /\ HOut' /\ HGone' /\ HQuiet'
  BY DEF HInv
<1>0. /\ UNCHANGED <<kind, db, baseline, olderr, fds, cur, dbent, out, dirty>>
      /\ pc \in {"stat", "hash"} /\ InScan /\ pend \subseteq DOMAIN ents
  BY DEF Stat, Hash, StatLoopDone, InScan, TInv
<1>1. HEnts /\ HOut /\ HGone /\ HQuiet
  BY <1>0 DEF HInv, Recording, InScan
<1>2. CASE Stat
  <2>1. PICK p \in First(pend) : StatFails(p) \/ StatDir(p) \/ StatSameHash(p) \/ StatToHash(p)
    BY <1>2 DEF Stat
  <2>2. p \in pend /\ p \in DOMAIN ents /\ ents[p] \in Entry /\ Statted(p) \in Entry /\ pc = "stat"
    BY <1>0, <1>2, <2>1, FirstIn, StattedType DEF Stat, TInv, TypeOK
  <2>3. Statted(p).prev = ents[p].prev /\ Statted(p).existed = ents[p].existed
    BY <2>2 DEF Statted, Entry
  <2>4. CASE StatFails(p)
    <3>1. pend' = pend \ {p} /\ pc' = pc /\ ents' = ents /\ events' = events
      BY <2>4 DEF StatFails
    <3>2. EventsAt(p) = {} /\ ents[p].meta = NoMetadata
      BY <1>0, <1>1, <2>2 DEF HEnts
    <3>3. HEnts'
      BY <1>0, <1>1, <2>2, <3>1, <3>2 DEF HEnts, Children, MetaIn, EventsAt, EventsFor, Told
    <3> QED BY <1>0, <1>1, <3>1, <3>3, HistFrame
  <2>5. CASE StatDir(p)
    BY <1>0, <2>3, <2>5, HistEntry DEF StatDir
  <2>6. CASE StatSameHash(p)
    <3> DEFINE e == [Statted(p) EXCEPT !.meta.hash = ents[p].prev.hash]
    <3>1. e.prev = ents[p].prev /\ e.existed = ents[p].existed
      BY <2>2, <2>3 DEF Entry
    <3>2. StatDone(p, e)
      BY <2>6 DEF StatSameHash
    <3> HIDE DEF e
    <3> QED BY <1>0, <3>1, <3>2, HistEntry
  <2>7. CASE StatToHash(p)
    <3>1. /\ DOMAIN ents' = DOMAIN ents /\ \A q \in DOMAIN ents : ents'[q] = IF q = p THEN Statted(p) ELSE ents[q]
          /\ pend' = pend /\ pc' = "hash" /\ events' = events
      BY <2>2, <2>7 DEF StatToHash, TInv, TypeOK
    <3>2. HEnts'
      BY <1>0, <1>1, <2>1, <2>2, <2>3, <3>1 DEF HEnts, Children, MetaIn, EventsAt, EventsFor, Told, InScan, First
    <3> QED BY <1>0, <1>1, <3>1, <3>2, HistFrame
  <2> QED BY <2>1, <2>4, <2>5, <2>6, <2>7
<1>3. CASE Hash
  <2>0. PICK p \in First(pend) : \E h : StatDone(p, [ents[p] EXCEPT !.meta.hash = h])
    BY <1>3 DEF Hash
  <2>1. PICK h : StatDone(p, [ents[p] EXCEPT !.meta.hash = h])
    BY <2>0
  <2>2. ents[p] \in Entry
    BY <1>0, <2>1, FirstIn DEF TInv, TypeOK
  <2> DEFINE e == [ents[p] EXCEPT !.meta.hash = h]
  <2>3. e.prev = ents[p].prev /\ e.existed = ents[p].existed
    BY <2>2 DEF Entry
  <2>4. StatDone(p, e)
    BY <2>1
  <2> HIDE DEF e
  <2> QED BY <1>0, <2>3, <2>4, HistEntry
<1>4. CASE StatLoopDone
  <2>1. pc = "stat" /\ pc' = "open" /\ pend = {} /\ ents' = ents /\ events' = events
    BY <1>4 DEF StatLoopDone
  <2>2. HEnts'
    BY <1>0, <1>1, <2>1 DEF HEnts, Children, MetaIn, EventsAt, EventsFor, Told
  <2> QED BY <1>0, <1>1, <2>1, <2>2, HistFrame
<1> QED BY <1>2, <1>3, <1>4

LEMMA HistOpen ==
    ASSUME TInv, IInv, HInv, Open PROVE HInv'
<1> USE DEF fsVars
<1> SUFFICES ASSUME Recording' PROVE HEnts' /\ HOut' /\ HGone' /\ HQuiet'
  BY DEF HInv
<1>0. /\ UNCHANGED <<kind, db, pc, baseline, olderr, fds, cur, dbent, out, events, dirty>>
      /\ pc = "open" /\ InScan /\ pend \subseteq DOMAIN ents
  BY DEF Open, InScan, TInv
<1>1. HEnts /\ HOut /\ HGone /\ HQuiet
  BY <1>0 DEF HInv, Recording
<1>2. PICK p \in First(pend) : OpenNothing(p) \/ OpenFails(p) \/ OpenDirectory(p)
  BY DEF Open
<1>3. p \in DOMAIN ents /\ ents[p] \in Entry
  BY <1>0, <1>2, FirstIn DEF TInv, TypeOK
<1>4. DOMAIN ents' = DOMAIN ents /\ \A q \in DOMAIN ents : q # p => ents'[q] = ents[q]
  BY <1>2 DEF OpenNothing, OpenFails, OpenDirectory, TInv, TypeOK
<1>5. ents'[p].meta = ents[p].meta /\ ents'[p].prev = ents[p].prev /\ ents'[p].existed = ents[p].existed
  <2>1. ASSUME NEW e, ents' = [ents EXCEPT ![p] = e], e.meta = ents[p].meta,
               e.prev = ents[p].prev, e.existed = ents[p].existed
        PROVE  ents'[p].meta = ents[p].meta /\ ents'[p].prev = ents[p].prev /\ ents'[p].existed = ents[p].existed
    BY <1>3, <2>1 DEF TInv, TypeOK
  <2>2. CASE OpenNothing(p)
    <3> DEFINE e == [ents[p] EXCEPT !.dt = not_a_dir]
    <3>1. ents' = [ents EXCEPT ![p] = e]
      BY <2>2 DEF OpenNothing
    <3>2. e.meta = ents[p].meta /\ e.prev = ents[p].prev /\ e.existed = ents[p].existed
      BY <1>3 DEF Entry
    <3> HIDE DEF e
    <3> QED BY <2>1, <3>1, <3>2
  <2>3. CASE OpenFails(p)
    BY <2>3 DEF OpenFails
  <2>4. CASE OpenDirectory(p)
    <3> DEFINE e == [ents[p] EXCEPT !.dt = get_dirtime_from_stat(stamp[p]), !.fd = ino[p]]
    <3>1. ents' = [ents EXCEPT ![p] = e]
      BY <2>4 DEF OpenDirectory
    <3>2. e.meta = ents[p].meta /\ e.prev = ents[p].prev /\ e.existed = ents[p].existed
      BY <1>3 DEF Entry
    <3> HIDE DEF e
    <3> QED BY <2>1, <3>1, <3>2
  <2> QED BY <1>2, <2>2, <2>3, <2>4
<1>6. \A q \in DOMAIN ents : ents'[q].meta = ents[q].meta /\ ents'[q].prev = ents[q].prev
                             /\ ents'[q].existed = ents[q].existed
  BY <1>4, <1>5
<1>7. HEnts'
  BY <1>0, <1>1, <1>4, <1>6 DEF HEnts, Children, MetaIn, EventsAt, EventsFor, Told
<1> QED BY <1>0, <1>1, <1>4, <1>7, HistFrame

LEMMA HistAdd ==
    ASSUME TInv, IInv, QInv, HInv, Add PROVE HInv'
<1> USE DEF fsVars
<1> SUFFICES ASSUME Recording' PROVE HEnts' /\ HOut' /\ HGone' /\ HQuiet'
  BY DEF HInv
<1>0. /\ UNCHANGED <<kind, db, baseline, olderr, cur, dirty>> /\ pc = "open" /\ pend = {}
      /\ pc' = "enter" /\ DOMAIN ents' = {} /\ InScan /\ DOMAIN ents \subseteq Path
  BY EmptyFacts DEF Add, InScan, TInv, TypeOK
<1>1. HEnts /\ HOut /\ HGone /\ HQuiet /\ ~baseline
  BY <1>0 DEF HInv, Recording
<1>2. Unmatched = (Children(cur) \cap DOMAIN db.rec) \ DOMAIN ents
  BY <1>0, <1>1 DEF HEnts, Unmatched
<1>3. events' = events \cup {Removed(p) : p \in Unmatched}
  BY <1>1 DEF Add, Removed
<1>4. \A p \in DOMAIN db.rec : Removed(p).path = p
  BY DEF Removed
<1>5. \A p \in DOMAIN ents \cup DOMAIN out : {x \in events' : x.path = p} = {x \in events : x.path = p}
  <2>1. \A p \in DOMAIN ents \cup DOMAIN out : p \notin Unmatched
    BY <1>2, NewPaths DEF IInv, ShapeInv
  <2> QED BY <1>2, <1>3, <1>4, <2>1
<1>6. HEnts'
  BY <1>0 DEF HEnts, InScan
<1>7. HOut'
  <2>1. \A p \in DOMAIN ents : Told(p, ents[p].meta)
    BY <1>0, <1>1 DEF HEnts
  <2>2. ASSUME NEW p \in DOMAIN out'
        PROVE  \/ {x \in events : x.path = p} = EventsFor(p, out'[p].meta)
               \/ {x \in events : x.path = p} = {} /\ out'[p].meta = NoMetadata
    <3>1. CASE p \in DOMAIN ents
      BY <2>1, <3>1, NewPaths DEF Told, EventsAt
    <3>2. CASE p \in DOMAIN out
      BY <1>1, <3>2, NewPaths DEF HOut, Told, EventsAt
    <3> QED BY <3>1, <3>2, NewPaths
  <2>3. ASSUME NEW p \in DOMAIN out'
        PROVE  \/ {x \in events' : x.path = p} = EventsFor(p, out'[p].meta)
               \/ {x \in events' : x.path = p} = {} /\ out'[p].meta = NoMetadata
    BY <1>5, <2>2, NewPaths
  <2> QED BY <1>0, <2>3 DEF HOut, Told, EventsAt, EventsFor
<1>8. HGone'
  <2>1. ASSUME NEW e \in events', e.path \notin DOMAIN out'
        PROVE  /\ e = Removed(e.path) /\ e.path \in DOMAIN db.rec
               /\ Parent[e.path] \in ({Root} \cup DOMAIN out') \ DOMAIN fds'
    <3>1. CASE e \in events
      <4>1. /\ e = Removed(e.path) /\ e.path \in DOMAIN db.rec
            /\ Parent[e.path] \in ({Root} \cup DOMAIN out) \ DOMAIN fds
        BY <1>1, <2>1, <3>1, NewPaths DEF HGone
      <4> QED BY <4>1, NewPaths
    <3>2. CASE e \notin events
      <4>1. PICK p \in Unmatched : e = Removed(p)
        BY <1>3, <2>1, <3>2
      <4>2. p \in DOMAIN db.rec /\ Parent[p] = cur /\ e.path = p
        BY <1>2, <1>4, <4>1 DEF Children
      <4>3. cur \in ({Root} \cup DOMAIN out') \ DOMAIN fds'
        BY NewPaths
      <4> QED BY <4>1, <4>2, <4>3
    <3> QED BY <3>1, <3>2
  <2> QED BY <1>0, <2>1 DEF HGone, Removed
<1>9. HQuiet'
  <2> SUFFICES ASSUME ~dirty,
                      NEW d \in {Root} \cup (Scanned \cap DOMAIN out'), kind[d] = "dir", d \notin DOMAIN fds',
                      NEW p \in Children(d) \cap DOMAIN db.rec
               PROVE  p \in DOMAIN out' \/ Removed(p) \in events'
    BY <1>0 DEF HQuiet, Children, Removed
  <2>0. QList /\ QStat
    BY <1>0 DEF QInv, Quiet
  <2>1. CASE d = cur
    BY <1>2, <1>3, <2>1, NewPaths
  <2>2. CASE d \in DOMAIN ents
    <3>1. ents[d].isdir /\ d \notin PruneNames /\ d \in Node
      BY <1>0, <2>0, <2>2, NewPaths, TreeAssumption DEF QList, Scanned, Node
    <3>2. ents[d].fd = ino[d] /\ ino[d] # NoInode
      BY <1>0, <2>0, <2>2, <3>1 DEF QStat, TInv, TypeOK
    <3> QED BY <2>2, <3>1, <3>2, NewPaths DEF Subdirs
  <2>3. CASE d # cur /\ d \notin DOMAIN ents
    BY <1>1, <1>3, <2>3, NewPaths DEF HQuiet
  <2> QED BY <2>1, <2>2, <2>3
<1> QED BY <1>6, <1>7, <1>8, <1>9

LEMMA HistEnd ==
    ASSUME Finish \/ Abort PROVE HInv'
  BY DEF Finish, Abort, EndRun, HInv, Recording

LEMMA HistInit == Init => HInv
  BY DEF Init, HInv, Recording

LEMMA HistNext ==
    ASSUME "open" \notin Faults, TInv, IInv, QInv, HInv, [Next]_vars PROVE HInv'
<1>1. CASE FileSystem
  BY <1>1, HistFileSystem
<1>2. CASE Scan
  BY <1>2, HistStart, HistEnter, HistReaddir, HistStat, HistOpen, HistAdd, HistEnd DEF Scan
<1>3. CASE Abort
  BY <1>3, HistEnd
<1>4. CASE UNCHANGED vars
  BY <1>4 DEF vars, fsVars, runVars, HInv, HEnts, HOut, HGone, HQuiet, Recording, InScan, Children,
              MetaIn, EventsAt, EventsFor, Told, First, Removed
<1> QED BY <1>1, <1>2, <1>3, <1>4 DEF Next

\* The recursive function of the property exists.
LEMMA ExplainedUnfold ==
    ASSUME NEW p \in Path
    PROVE  Explained[p] <=>
               \/ p \in Reported("REMOVED")
               \/ p \in Reported("MODIFIED") /\ kind[p] # "dir"
               \/ Parent[p] # Root /\ Explained[Parent[p]]
<1> DEFINE Base(x) == x \in Reported("REMOVED") \/ (x \in Reported("MODIFIED") /\ kind[x] # "dir")
           F(f) == [x \in Path |-> \/ x \in Reported("REMOVED")
                                   \/ x \in Reported("MODIFIED") /\ kind[x] # "dir"
                                   \/ Parent[x] # Root /\ f[Parent[x]]]
           g == [x \in Path |-> Base(x) \/ \E y \in Above(x) \cap Path : Base(y)]
<1>1. ASSUME NEW x \in Path
      PROVE  g[x] = (\/ x \in Reported("REMOVED")
                     \/ x \in Reported("MODIFIED") /\ kind[x] # "dir"
                     \/ Parent[x] # Root /\ g[Parent[x]])
  <2>b. \A y : Base(y) \in BOOLEAN
    OBVIOUS
  <2> HIDE DEF Base
  <2>0. Root \notin Path
    BY TreeAssumption
  <2>1. CASE Parent[x] = Root
    <3>1. Above(x) \cap Path = {}
      BY <2>0, <2>1, AboveRoot
    <3>2. g[x] = Base(x)
      BY <2>b, <3>1
    <3> QED BY <2>1, <3>2 DEF Base
  <2>2. CASE Parent[x] \in Path
    <3>1. Above(x) = {Parent[x]} \cup Above(Parent[x])
      BY <2>2, AbovePath
    <3>2. g[x] = (Base(x) \/ g[Parent[x]])
      BY <2>2, <3>1
    <3> QED BY <2>0, <2>2, <3>2 DEF Base
  <2> QED BY <2>1, <2>2, ParentType DEF Node
<1>2. g = F(g)
  BY <1>1, Zenon
<1> HIDE DEF g
<1>3. Explained = CHOOSE f : f = F(f)
  BY DEF Explained
<1>4. Explained = F(Explained)
  BY <1>2, <1>3, Zenon
<1> QED BY <1>4, Zenon

\* The invariant at the end of a run is the property.
LEMMA HistResult ==
    ASSUME TInv, IInv, QInv, KInv, HInv PROVE HistoryExplains
<1> SUFFICES ASSUME Finished, ~baseline, ~olderr
             PROVE  /\ \A e \in events :
                           /\ e.old = MetaIn(db.rec, e.path) /\ e.new = MetaIn(out, e.path)
                           /\ e.kind = "REMOVED" <=> e.path \notin DOMAIN out
                           /\ e.kind = "ADDED" <=> e.path \notin DOMAIN db.rec
                    /\ \A p \in DOMAIN out :
                           (out[p].meta # NoMetadata /\ out[p].meta # MetaIn(db.rec, p)) =>
                               p \in Reported("ADDED") \cup Reported("MODIFIED")
                    /\ ~dirty => \A p \in DOMAIN db.rec \ DOMAIN out : Explained[p]
  BY DEF HistoryExplains
<1>0. /\ HOut /\ HGone /\ HQuiet /\ DOMAIN ents = {} /\ DOMAIN fds = {}
      /\ DOMAIN out \subseteq Path /\ DOMAIN db.rec \subseteq Path
  BY DEF HInv, Recording, Finished, IInv, ShapeInv, InScan, TInv, TypeOK
<1>1. ASSUME NEW e \in events
      PROVE  /\ e.old = MetaIn(db.rec, e.path) /\ e.new = MetaIn(out, e.path)
             /\ e.kind = "REMOVED" <=> e.path \notin DOMAIN out
             /\ e.kind = "ADDED" <=> e.path \notin DOMAIN db.rec
  <2>1. CASE e.path \in DOMAIN out
    <3>1. e \in EventsFor(e.path, out[e.path].meta)
      BY <1>0, <2>1 DEF HOut, Told, EventsAt
    <3> QED BY <2>1, <3>1 DEF EventsFor, MetaIn
  <2>2. CASE e.path \notin DOMAIN out
    <3>1. e = Removed(e.path) /\ e.path \in DOMAIN db.rec
      BY <1>0, <2>2 DEF HGone
    <3>2. e.kind = "REMOVED" /\ e.old = db.rec[e.path].meta /\ e.new = NoMetadata
      BY <3>1 DEF Removed
    <3> QED BY <2>2, <3>1, <3>2 DEF MetaIn
  <2> QED BY <2>1, <2>2
<1>2. ASSUME NEW p \in DOMAIN out, out[p].meta # NoMetadata, out[p].meta # MetaIn(db.rec, p)
      PROVE  /\ p \in Reported("ADDED") \cup Reported("MODIFIED")
             /\ p \in DOMAIN db.rec => p \in Reported("MODIFIED")
  <2>1. EventsAt(p) = EventsFor(p, out[p].meta)
    BY <1>0, <1>2 DEF HOut, Told
  <2>2. CASE p \in DOMAIN db.rec
    <3>1. [kind |-> "MODIFIED", path |-> p, old |-> db.rec[p].meta, new |-> out[p].meta] \in EventsAt(p)
      BY <1>2, <2>1, <2>2 DEF EventsFor, MetaIn
    <3> QED BY <3>1 DEF EventsAt, Reported
  <2>3. CASE p \notin DOMAIN db.rec
    <3>1. [kind |-> "ADDED", path |-> p, old |-> NoMetadata, new |-> out[p].meta] \in EventsAt(p)
      BY <2>1, <2>3 DEF EventsFor
    <3> QED BY <2>3, <3>1 DEF EventsAt, Reported
  <2> QED BY <2>2, <2>3
<1>3. ASSUME ~dirty, NEW r \in DOMAIN db.rec \ DOMAIN out PROVE Explained[r]
  <2> DEFINE S == {p \in Path : p \in DOMAIN db.rec \ DOMAIN out => Explained[p]}
  <2>0. QOut
    BY <1>3 DEF QInv, Quiet, Finished
  <2>1. ASSUME NEW p \in Path, Parent[p] = Root \/ Parent[p] \in S PROVE p \in S
    <3> SUFFICES ASSUME p \in DOMAIN db.rec \ DOMAIN out PROVE Explained[p]
      OBVIOUS
    <3> DEFINE q == Parent[p]
    <3>1. q \in {Root} \cup (Scanned \cap DOMAIN db.rec) /\ p \in Children(q)
      BY DEF KInv, ScopeInv, Children
    <3>2. CASE q \in {Root} \cup DOMAIN out /\ kind[q] = "dir"
      <4>1. Removed(p) \in events
        BY <1>0, <1>3, <3>1, <3>2 DEF HQuiet
      <4>2. p \in Reported("REMOVED")
        BY <4>1 DEF Reported, Removed
      <4> QED BY <4>2, ExplainedUnfold
    <3>3. CASE q # Root /\ q \notin DOMAIN out
      <4>1. Explained[q]
        BY <2>1, <3>1, <3>3
      <4> QED BY <3>3, <4>1, ExplainedUnfold
    <3>4. CASE q # Root /\ q \in DOMAIN out /\ kind[q] # "dir"
      <4>1. q \in DOMAIN db.rec /\ q \in Node /\ q \in Path
        BY <1>0, <3>1, <3>4 DEF Node
      <4>2. out[q].meta.stamp = stamp[q] /\ stamp[q] > 0 /\ stamp[q] \in Nat
        BY <2>0, <3>4, <4>1 DEF QOut, MetaRight, KInv, KindInv, TInv, TypeOK
      <4>3. db.rec[q].meta.stamp # stamp[q]
        BY <3>1, <3>4, <4>1 DEF KInv, KindInv
      <4>4. out[q].meta # NoMetadata
        BY <4>2 DEF NoMetadata
      <4>5. out[q].meta # MetaIn(db.rec, q)
        BY <4>1, <4>2, <4>3 DEF MetaIn
      <4>6. q \in Reported("MODIFIED")
        BY <1>2, <3>4, <4>1, <4>4, <4>5
      <4>7. Explained[q]
        BY <3>4, <4>1, <4>6, ExplainedUnfold
      <4> QED BY <3>4, <4>7, ExplainedUnfold
    <3>5. kind[Root] = "dir"
      BY DEF IInv, FsInv
    <3> QED BY <3>1, <3>2, <3>3, <3>4, <3>5
  <2>2. S = Path
    <3> HIDE DEF S
    <3>1. S \in SUBSET Path
      BY DEF S
    <3> QED BY <2>1, <3>1, PathInduction
  <2> QED BY <1>0, <2>2
<1> QED BY <1>1, <1>2, <1>3

\* The events a run records lead from the old database to the new one, for every
\* tree and every schedule: each matches both databases at the path it names,
\* metadata that changed has an event, and after a quiet run what is gone was
\* reported or lies below something that was.
THEOREM HistoryLeads ==
    (FineClock /\ "open" \notin Faults) => (Spec => []HistoryExplains)
<1> SUFFICES ASSUME FineClock, "open" \notin Faults PROVE Spec => []HistoryExplains
  OBVIOUS
<1>1. Init => TInv /\ IInv /\ QInv /\ KInv /\ HInv
  BY TypeInit, InitInv, QuietInit, KindInit, HistInit
<1>2. TInv /\ IInv /\ QInv /\ KInv /\ HInv /\ [Next]_vars => TInv' /\ IInv' /\ QInv' /\ KInv' /\ HInv'
  BY NextKeeps, QuietNext, KindNext, HistNext, TypeFileSystem, TypeScan, TypeStutter DEF Next
<1>3. TInv /\ IInv /\ QInv /\ KInv /\ HInv => HistoryExplains
  BY HistResult
<1> QED
  BY <1>1, <1>2, <1>3, PTL DEF Spec
=============================================================================
