---------------------------- MODULE MCLinearScan ----------------------------
(* A small instance of LinearScan: every placement of matches is an initial  *)
(* state, with and without --count, with a limit that is and is not reached. *)
EXTENDS LinearScan

SmallOptions == {[limit |-> 2, only_count |-> FALSE], [limit |-> 9, only_count |-> FALSE],
                 [limit |-> 2, only_count |-> TRUE]}
SmallHits == {<<>>, <<TRUE>>, <<FALSE, TRUE>>}
=============================================================================
