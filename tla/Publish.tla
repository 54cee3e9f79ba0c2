------------------------------- MODULE Publish -------------------------------
(***************************************************************************)
(* The life of the database file: updatedb processes, which take no lock,  *)
(* each read the database under the name, write a new one to a temporary   *)
(* file and put it under the name, while a flocate process opens and reads *)
(* it.  A process may be killed anywhere.  Of the writes to the file only  *)
(* those of the blocks of names are checked; when one fails the process    *)
(* ends as if it had been killed.  Each run of updatedb makes one file, so *)
(* a run's number names its file (inode) too.                              *)
(*                                                                         *)
(* The history that a database carries is modelled event by event; the     *)
(* rest of it is either all there or cut short.                            *)
(***************************************************************************)
EXTENDS Integers, Sequences, FiniteSets

CONSTANTS
    Procs,      \* the updatedb processes that may run at the same time
    Readers,    \* the flocate processes
    Depths,     \* the values HISTORY_DEPTH may have in the runs of each process
    MaxRuns,    \* bound: the runs of updatedb
    MaxChanges, \* bound: the changes a run records
    MaxDamaged, \* bound: the files to which a write fails
    TmpFile,    \* whether the file system knows O_TMPFILE: a subset of BOOLEAN
    Faults      \* which may happen: "kill", "setup", "rename", "link"

ASSUME PublishAssumption ==
    /\ Depths \in [Procs -> SUBSET Nat]
    /\ MaxRuns \in Nat
    /\ MaxChanges \in Nat
    /\ MaxDamaged \in Nat
    /\ TmpFile \subseteq BOOLEAN

VARIABLES
    o_tmpfile,  \* the file system knows O_TMPFILE
    name,       \* the file under conf_output
    temps,      \* files under a name made by mkstemp()
    file,       \* the contents of each file
    run,        \* runs started so far
    pc, mine, base, depth, baseline,  \* of each updatedb process
    published,  \* history: the files that have been under the name
    lost,       \* history: a run has died after it took the name away
    aborted,    \* history: a run has died reading the old database
    rpc, rfd,   \* of each flocate process
    refused     \* history: the last file that it could not use

dirVars == <<name, temps, published, lost>>
procVars == <<pc, mine, base, depth, baseline, run>>
readerVars == <<rpc, rfd, refused>>
vars == <<o_tmpfile, dirVars, file, procVars, aborted, readerVars>>

None == -1
Foreign == 0       \* a file that updatedb did not write
Runs == 1..MaxRuns
Files == {Foreign} \cup Runs

(***************************************************************************)
(* History events.  A change knows, for the properties only, its run.      *)
(***************************************************************************)
Marker(r) == [kind |-> "RunMarker", run |-> r, baseline |-> FALSE]
BaselineMarker(r) == [kind |-> "RunMarker", run |-> r, baseline |-> TRUE]
Change(r) == [kind |-> "Change", run |-> r, baseline |-> FALSE]
Event == [kind : {"RunMarker", "Change"}, run : Runs, baseline : BOOLEAN]
IsMarker(e) == e.kind = "RunMarker"

\* Header "absent": not on disk; "broken": version -1; "final": version 2.
\* lineage, own and damaged are there for the properties: the runs that led to
\* this database, the events of its run, and whether a write to it failed.
Blank == [header |-> "absent", body |-> "cut", conf |-> 0,
          history |-> <<>>, lineage |-> <<>>, own |-> <<>>, damaged |-> FALSE]

Init ==
    /\ o_tmpfile \in TmpFile
    /\ name \in {None, Foreign}
    /\ temps = {}
    /\ file = [f \in Files |-> IF f = Foreign THEN [Blank EXCEPT !.header = "foreign"] ELSE Blank]
    /\ run = 0
    /\ pc = [p \in Procs |-> "idle"]
    /\ mine = [p \in Procs |-> None]
    /\ base = [p \in Procs |-> None]
    /\ depth = [p \in Procs |-> 0]
    /\ baseline = [p \in Procs |-> FALSE]
    /\ published = {} /\ lost = FALSE /\ aborted = FALSE
    /\ rpc = [r \in Readers |-> "idle"]
    /\ rfd = [r \in Readers |-> None]
    /\ refused = [r \in Readers |-> None]

(***************************************************************************)
(* updatedb                                                                *)
(***************************************************************************)

\* ExistingDB::ExistingDB leaves error unset.  The configuration block, which
\* holds the depth, is the last thing in the file.
Usable(f, d) ==
    /\ f # None
    /\ file[f].header = "final"
    /\ file[f].body = "whole"
    /\ file[f].conf = d

\* open(conf_output) and ExistingDB.
OpenOld(p) ==
    /\ pc[p] = "idle" /\ run < MaxRuns
    /\ run' = run + 1
    /\ mine' = [mine EXCEPT ![p] = run + 1]
    /\ base' = [base EXCEPT ![p] = name]
    /\ \E d \in Depths[p] :
         /\ depth' = [depth EXCEPT ![p] = d]
         /\ baseline' = [baseline EXCEPT ![p] = ~Usable(name, d)]
    /\ pc' = [pc EXCEPT ![p] = "create"]
    /\ UNCHANGED <<o_tmpfile, dirVars, file, aborted, readerVars>>

\* Mutant of Gone: the process ends and still counts as the writer of its file.
GoneWriting(p) ==
    /\ pc' = [pc EXCEPT ![p] = "idle"]
    /\ UNCHANGED <<mine, base, depth, baseline, run>>

\* The process is gone, and so is its file unless it has a name.
Gone(p) ==
    /\ pc' = [pc EXCEPT ![p] = "idle"]
    /\ mine' = [mine EXCEPT ![p] = None]
    /\ base' = [base EXCEPT ![p] = None]
    /\ depth' = [depth EXCEPT ![p] = 0]
    /\ baseline' = [baseline EXCEPT ![p] = FALSE]
    /\ UNCHANGED run

Unnamed(f) == file' = [file EXCEPT ![f] = Blank]

Abandon(p) == IF mine[p] \in temps THEN UNCHANGED file ELSE Unnamed(mine[p])

\* Mutant of Create: the output file is opened in place.
CreateInPlace(p) ==
    /\ pc[p] = "create"
    /\ pc' = [pc EXCEPT ![p] = "scan"]
    /\ name' = mine[p]
    /\ file' = [file EXCEPT ![mine[p]].conf = depth[p]]
    /\ UNCHANGED <<o_tmpfile, temps, published, lost, mine, base, depth, baseline, run,
                   aborted, readerVars>>

\* Mutant of Create: the old database is removed before the new one is written.
CreateRemovesOld(p) ==
    /\ pc[p] = "create"
    /\ pc' = [pc EXCEPT ![p] = "scan"]
    /\ name' = None
    /\ temps' = IF o_tmpfile THEN temps ELSE temps \cup {mine[p]}
    /\ file' = [file EXCEPT ![mine[p]].conf = depth[p]]
    /\ UNCHANGED <<o_tmpfile, published, lost, mine, base, depth, baseline, run,
                   aborted, readerVars>>

\* DatabaseBuilder's constructor: the header is still in the stdio buffer.
Create(p) ==
    /\ pc[p] = "create"
    /\ pc' = [pc EXCEPT ![p] = "scan"]
    /\ temps' = IF o_tmpfile THEN temps ELSE temps \cup {mine[p]}
    /\ file' = [file EXCEPT ![mine[p]].conf = depth[p]]
    /\ UNCHANGED <<o_tmpfile, name, published, lost, mine, base, depth, baseline, run,
                   aborted, readerVars>>

\* mkstemp() fails, or after it fchmod(), fchown(), fdopen() or the opening of
\* the scan root: exit(1).
SetupFails(p) ==
    /\ "setup" \in Faults
    /\ pc[p] = "create"
    /\ Gone(p)
    /\ temps' \in IF o_tmpfile THEN {temps} ELSE {temps, temps \cup {mine[p]}}
    /\ UNCHANGED <<o_tmpfile, name, published, lost, file, aborted, readerVars>>

\* What read_history_events finds.  Without a header on disk, hdr holds
\* whatever was on the stack, or another program's bytes: the length may be
\* one that no vector can have, and then the process aborts.
HistoryRead(f) ==
    CASE f = None \/ file[f].header \in {"absent", "foreign"} -> {"nothing", "abort"}
      [] f # None /\ file[f].header = "broken" -> {"nothing"}
      [] f # None /\ file[f].header = "final" /\ file[f].body = "whole" -> {"all"}
      [] f # None /\ file[f].header = "final" /\ file[f].body = "cut" -> {"nothing", "all"}

decode_history_stream(events) ==
    IF events # <<>> /\ ~IsMarker(events[1])
      THEN <<Marker(events[1].run)>> \o events
      ELSE events

run_starts(events) == {i \in 1..Len(events) : i = 1 \/ IsMarker(events[i])}

\* Mutant of trim_history_runs: one run too many is kept.
TrimOneLate(events, max_runs) ==
    IF max_runs <= 0 THEN <<>>
    ELSE IF Cardinality(run_starts(events)) <= max_runs + 1 THEN events
    ELSE LET keep_index == CHOOSE i \in run_starts(events) :
                 Cardinality({j \in run_starts(events) : j > i}) = max_runs
         IN  SubSeq(events, keep_index, Len(events))

trim_history_runs(events, max_runs) ==
    IF max_runs <= 0 THEN <<>>
    ELSE IF Cardinality(run_starts(events)) <= max_runs THEN events
    ELSE LET keep_index == CHOOSE i \in run_starts(events) :
                 Cardinality({j \in run_starts(events) : j >= i}) = max_runs
         IN  SubSeq(events, keep_index, Len(events))

\* The history that main() hands to the builder.
NewHistory(previous, own, d) ==
    IF d > 1 THEN trim_history_runs(previous \o own, d)
             ELSE trim_history_runs(own, d)

OwnEvents(p, changes) ==
    <<IF baseline[p] THEN BaselineMarker(mine[p]) ELSE Marker(mine[p])>>
      \o [i \in 1..changes |-> Change(mine[p])]

\* scan(), and the history of this run put after the old one.
Scan(p) ==
    /\ pc[p] = "scan"
    /\ \E changes \in 0..(IF baseline[p] THEN 0 ELSE MaxChanges) :
       \E found \in HistoryRead(base[p]) \ (IF depth[p] > 1 THEN {} ELSE {"abort"}) :
         \/ /\ found = "abort"
            /\ Gone(p)
            /\ aborted' = TRUE
            /\ Abandon(p)
         \/ /\ found # "abort"
            /\ LET old == IF found = "all" THEN file[base[p]] ELSE Blank
                   own == OwnEvents(p, changes)
               IN  file' = [file EXCEPT
                     ![mine[p]].history = NewHistory(decode_history_stream(old.history), own, depth[p]),
                     ![mine[p]].lineage = Append(old.lineage, mine[p]),
                     ![mine[p]].own = own]
            /\ pc' = [pc EXCEPT ![p] = "body"]
            /\ UNCHANGED <<mine, base, depth, baseline, run, aborted>>
    /\ UNCHANGED <<o_tmpfile, dirVars, readerVars>>

WriteMayFail(p) == Cardinality({f \in Files : file[f].damaged} \ {mine[p]}) < MaxDamaged

\* All of the file but its final header; the first header goes out with it.
WriteBody(p) ==
    /\ pc[p] = "body"
    /\ pc' = [pc EXCEPT ![p] = "header"]
    /\ \/ file' = [file EXCEPT ![mine[p]].header = "broken", ![mine[p]].body = "whole"]
       \/ /\ WriteMayFail(p)
          /\ \E h \in {"absent", "broken"} :
               file' = [file EXCEPT ![mine[p]].header = h, ![mine[p]].damaged = TRUE]
    /\ UNCHANGED <<o_tmpfile, dirVars, mine, base, depth, baseline, run, aborted, readerVars>>

\* Mutant of WriteHeader: the first header is never replaced.
WriteHeaderForgotten(p) ==
    /\ pc[p] = "header"
    /\ pc' = [pc EXCEPT ![p] = "publish"]
    /\ UNCHANGED <<o_tmpfile, dirVars, file, mine, base, depth, baseline, run, aborted, readerVars>>

\* The header with version 2, and fflush().
WriteHeader(p) ==
    /\ pc[p] = "header"
    /\ pc' = [pc EXCEPT ![p] = "publish"]
    /\ \/ file' = [file EXCEPT ![mine[p]].header = "final"]
       \/ /\ WriteMayFail(p)
          /\ file' = [file EXCEPT ![mine[p]].damaged = TRUE]
    /\ UNCHANGED <<o_tmpfile, dirVars, mine, base, depth, baseline, run, aborted, readerVars>>

\* Mutant of Rename: the temporary file is linked like an unnamed one.
RenameByUnlink(p) ==
    /\ pc[p] = "publish" /\ ~o_tmpfile
    /\ name' = None
    /\ pc' = [pc EXCEPT ![p] = "linkat"]
    /\ UNCHANGED <<o_tmpfile, temps, published, lost, file, mine, base, depth, baseline, run,
                   aborted, readerVars>>

Rename(p) ==
    /\ pc[p] = "publish" /\ ~o_tmpfile
    /\ name' = mine[p]
    /\ temps' = temps \ {mine[p]}
    /\ published' = published \cup {mine[p]}
    /\ Gone(p)
    /\ UNCHANGED <<o_tmpfile, lost, file, aborted, readerVars>>

RenameFails(p) ==
    /\ "rename" \in Faults
    /\ pc[p] = "publish" /\ ~o_tmpfile
    /\ Gone(p)
    /\ UNCHANGED <<o_tmpfile, dirVars, file, aborted, readerVars>>

Unlink(p) ==
    /\ pc[p] = "publish" /\ o_tmpfile
    /\ name' = None
    /\ pc' = [pc EXCEPT ![p] = "linkat"]
    /\ UNCHANGED <<o_tmpfile, temps, published, lost, file, mine, base, depth, baseline, run,
                   aborted, readerVars>>

\* Mutant of Linkat: linkat() fails and nobody notices.
LinkatUnchecked(p) ==
    /\ pc[p] = "linkat"
    /\ Gone(p)
    /\ Unnamed(mine[p])
    /\ UNCHANGED <<o_tmpfile, dirVars, aborted, readerVars>>

\* linkat() fails with EEXIST when another run has been faster: exit(1).
Linkat(p) ==
    /\ pc[p] = "linkat"
    /\ Gone(p)
    /\ IF name = None
         THEN /\ name' = mine[p]
              /\ published' = published \cup {mine[p]}
              /\ lost' = FALSE
              /\ UNCHANGED file
         ELSE /\ Unnamed(mine[p])
              /\ UNCHANGED <<name, published, lost>>
    /\ UNCHANGED <<o_tmpfile, temps, aborted, readerVars>>

\* linkat() fails for another reason (no /proc, no space): exit(1).
LinkatFails(p) ==
    /\ "link" \in Faults
    /\ pc[p] = "linkat"
    /\ Gone(p)
    /\ lost' = (lost \/ name = None)
    /\ Unnamed(mine[p])
    /\ UNCHANGED <<o_tmpfile, name, temps, published, aborted, readerVars>>

Kill(p) ==
    /\ "kill" \in Faults
    /\ pc[p] # "idle"
    /\ Gone(p)
    /\ lost' = (lost \/ (pc[p] = "linkat" /\ name = None))
    /\ Abandon(p)
    /\ UNCHANGED <<o_tmpfile, name, temps, published, aborted, readerVars>>

(***************************************************************************)
(* flocate                                                                 *)
(***************************************************************************)

\* Without a file, flocate exits and somebody tries again.
ReaderOpen(r) ==
    /\ rpc[r] = "idle" /\ name # None
    /\ rfd' = [rfd EXCEPT ![r] = name]
    /\ rpc' = [rpc EXCEPT ![r] = "header"]
    /\ UNCHANGED <<o_tmpfile, dirVars, file, procVars, aborted, refused>>

ReaderDone(r, ok) ==
    /\ rpc' = [rpc EXCEPT ![r] = "idle"]
    /\ rfd' = [rfd EXCEPT ![r] = None]
    /\ refused' = IF ok THEN refused ELSE [refused EXCEPT ![r] = rfd[r]]

\* Corpus::Corpus.
ReaderHeader(r) ==
    /\ rpc[r] = "header"
    /\ \/ /\ file[rfd[r]].header = "final"
          /\ rpc' = [rpc EXCEPT ![r] = "search"]
          /\ UNCHANGED <<rfd, refused>>
       \/ file[rfd[r]].header # "final" /\ ReaderDone(r, FALSE)
    /\ UNCHANGED <<o_tmpfile, dirVars, file, procVars, aborted>>

\* The search itself; what is not there is a short read.
ReaderSearch(r) ==
    /\ rpc[r] = "search"
    /\ ReaderDone(r, file[rfd[r]].body = "whole")
    /\ UNCHANGED <<o_tmpfile, dirVars, file, procVars, aborted>>

Step(p) ==
    \/ Create(p) \/ Scan(p) \/ WriteBody(p) \/ WriteHeader(p)
    \/ Rename(p) \/ Unlink(p) \/ Linkat(p)

Fault(p) == SetupFails(p) \/ RenameFails(p) \/ LinkatFails(p) \/ Kill(p)

Next ==
    \/ \E p \in Procs : OpenOld(p) \/ Step(p) \/ Fault(p)
    \/ \E r \in Readers : ReaderOpen(r) \/ ReaderHeader(r) \/ ReaderSearch(r)

Spec == Init /\ [][Next]_vars

\* A process that has started is scheduled until it ends; when one starts, and
\* when somebody searches, is up to timers and users.
FairSpec == Spec /\ \A p \in Procs : WF_vars(Step(p))

(***************************************************************************)
(* Properties                                                              *)
(***************************************************************************)

Contents == [header : {"absent", "broken", "final", "foreign"}, body : {"whole", "cut"},
             conf : Nat, history : Seq(Event), lineage : Seq(Runs), own : Seq(Event),
             damaged : BOOLEAN]

\* Every variable has its type, and an updatedb process has a file of its own
\* exactly while it runs.
TypeOK ==
    /\ o_tmpfile \in BOOLEAN
    /\ name \in {None} \cup Files
    /\ temps \subseteq Runs
    /\ file \in [Files -> Contents]
    /\ run \in 0..MaxRuns
    /\ pc \in [Procs -> {"idle", "create", "scan", "body", "header", "publish", "linkat"}]
    /\ mine \in [Procs -> {None} \cup Runs]
    /\ base \in [Procs -> {None} \cup Files]
    /\ depth \in [Procs -> Nat]
    /\ baseline \in [Procs -> BOOLEAN]
    /\ published \subseteq Runs
    /\ lost \in BOOLEAN /\ aborted \in BOOLEAN
    /\ rpc \in [Readers -> {"idle", "header", "search"}]
    /\ rfd \in [Readers -> {None} \cup Files]
    /\ refused \in [Readers -> {None} \cup Files]
    /\ \A p \in Procs : pc[p] = "idle" <=> mine[p] = None

\* However runs overlap and die, what is under the name is the whole of what
\* one run wrote, marked final: finish_corpus names the file only after the
\* last flush.  (A write that fails is not noticed, so its file is excepted.)
PublishedComplete ==
    name \in Runs /\ ~file[name].damaged => file[name].header = "final" /\ file[name].body = "whole"

\* A search that got the file open is never disturbed by the runs that replace
\* it meanwhile: it is refused or cut short only by a foreign file or by one
\* that a failed write has damaged.
ReaderUndisturbed ==
    \A r \in Readers : refused[r] \in Runs => file[refused[r]].damaged

\* Once a database has been published the name is missing only while some run
\* is between unlink() and linkat(), or if one died there.
NameKept ==
    published # {} /\ name = None => lost \/ \E p \in Procs : pc[p] = "linkat"

\* Whether a database still holds the events of the i-th run of its lineage: no
\* run since has found them to be older than its own depth.
Survives(lineage, i) == \A j \in i..Len(lineage) : j - i < file[lineage[j]].conf

\* What the first k runs of a lineage have left, and what all of them have.
Told(lineage) ==
    LET told[k \in 0..Len(lineage)] ==
            IF k = 0 THEN <<>>
            ELSE told[k - 1] \o (IF Survives(lineage, k) THEN file[lineage[k]].own ELSE <<>>)
    IN  told[Len(lineage)]

\* The history of a published database is, whatever depths the runs had and
\* wherever runs were killed, exactly the marker and the changes of every
\* surviving run of its lineage, in order: none split, none lost, none twice.
HistoryFaithful == \A f \in published : file[f].history = Told(file[f].lineage)

\* Whoever opens the name sees one complete database after the other, each
\* grown from one that was published before; with rename() there is no moment
\* without.
Abstract == INSTANCE DatabaseFile WITH
    Run <- Runs,
    db <- IF name \in Runs THEN file[name].lineage ELSE <<>>,
    past <- {file[f].lineage : f \in published},
    withdrawing <- o_tmpfile
Refines == Abstract!Spec

\* A name that unlink() has taken away comes back, unless the run dies first.
NameReturns == \A p \in Procs : pc[p] = "linkat" ~> name # None \/ lost

\* A run without a previous database "only records a marker" and succeeds.
BaselineRunSucceeds == ~aborted

=============================================================================
