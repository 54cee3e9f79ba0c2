----------------------------- MODULE Serializer -----------------------------
(***************************************************************************)
(* The Serializer of flocate: results arrive in any order, each with its   *)
(* sequence number and the number of sequence numbers it stands for, and   *)
(* are printed in order until the limit is reached.                        *)
(*                                                                         *)
(* A message is the sequence number of the candidate whose name it is, or  *)
(* NoMsg for the empty string.                                             *)
(***************************************************************************)
EXTENDS Integers, Sequences

CONSTANT Options   \* the values of --limit and --count that a search may have

ASSUME OptionsAssumption == Options \subseteq [limit : Nat \ {0}, only_count : BOOLEAN]

VARIABLES
    opt,         \* limit_matches and only_count
    next_seq,    \* the sequence number to print next
    pending,     \* elements that came too early
    printed,     \* what has been written to stdout
    limit_left,
    exited       \* apply_limit() has ended the process

serializerVars == <<opt, next_seq, pending, printed, limit_left, exited>>

NoMsg == -1
Element == [seq : Nat, skip : Nat \ {0}, msg : Nat \cup {NoMsg}]

SerializerInit ==
    /\ opt \in Options
    /\ next_seq = 0 /\ pending = {} /\ printed = <<>>
    /\ limit_left = opt.limit
    /\ exited = FALSE

\* Mutant of apply_limit: one match too many.
ApplyLimitLate ==
    /\ limit_left' = limit_left - 1
    /\ exited' = (limit_left' < 0)

apply_limit ==
    /\ limit_left' = limit_left - 1
    /\ exited' = (limit_left' <= 0)

\* Prints e, whose turn it is, unless it is empty, and moves on.  exit() comes
\* before next_seq moves.
PrintNow(e) ==
    /\ IF e.msg = NoMsg
       THEN UNCHANGED <<printed, limit_left, exited>>
       ELSE printed' = Append(printed, e.msg) /\ apply_limit
    /\ next_seq' = IF exited' THEN next_seq ELSE next_seq + e.skip

\* Serializer::print(e), up to the loop over the delayed elements.
PrintCounted(e) ==
    /\ opt.only_count
    /\ IF e.msg = NoMsg THEN UNCHANGED <<limit_left, exited>> ELSE apply_limit
    /\ UNCHANGED <<opt, next_seq, pending, printed>>

PrintLater(e) ==
    /\ ~opt.only_count /\ e.seq # next_seq
    /\ pending' = pending \cup {e}
    /\ UNCHANGED <<opt, next_seq, printed, limit_left, exited>>

PrintInTurn(e) ==
    /\ ~opt.only_count /\ e.seq = next_seq
    /\ PrintNow(e)
    /\ UNCHANGED <<opt, pending>>

SerializerPrint(e) == PrintCounted(e) \/ PrintLater(e) \/ PrintInTurn(e)

\* The loop over the delayed elements: one iteration, on pending.top().
Top == {e \in pending : \A f \in pending : e.seq <= f.seq}
CanDrain == \E e \in Top : e.seq = next_seq
Drain ==
    \E e \in Top :
        /\ e.seq = next_seq
        /\ PrintNow(e)
        /\ pending' = pending \ {e}
        /\ UNCHANGED opt
=============================================================================
