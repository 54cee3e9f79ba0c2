---------------------------- MODULE DatabaseFile ----------------------------
(***************************************************************************)
(* What publication promises whoever opens the database by its name.       *)
(* There is one complete database or none.  A database is the sequence of  *)
(* runs that led to it: each one adds a run to a database that was         *)
(* published before, or starts anew.  It is replaced in one step; only     *)
(* where the file system lacks an atomic way to do so may the name be      *)
(* withdrawn first.                                                        *)
(***************************************************************************)
EXTENDS Sequences

CONSTANT Run  \* the runs that may publish

VARIABLES
    db,          \* the lineage of the database under the name, or NoDb
    past,        \* the databases published so far
    withdrawing  \* the name may be withdrawn before it is given again

vars == <<db, past, withdrawing>>

NoDb == <<>>

Init == db = NoDb /\ past = {} /\ withdrawing \in BOOLEAN

Replace(base, r) ==
    /\ db' = Append(base, r)
    /\ past' = past \cup {db'}
    /\ UNCHANGED withdrawing

Withdraw ==
    /\ withdrawing
    /\ db' = NoDb
    /\ UNCHANGED <<past, withdrawing>>

Next == Withdraw \/ \E base \in past \cup {NoDb}, r \in Run : Replace(base, r)

Spec == Init /\ [][Next]_vars
=============================================================================
