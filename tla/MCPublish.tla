------------------------------ MODULE MCPublish ------------------------------
(***************************************************************************)
(* Publish on a small instance.                                            *)
(***************************************************************************)
EXTENDS Publish

CONSTANTS p1, p2, r1
Single == {p1}
NoReader == {}
OneReader == {r1}
Pair == {p1, p2}
SingleDepths == [p \in Single |-> {2}]
\* One configuration is used with a history of two runs, the other without a history.
PairDepths == [p \in Pair |-> IF p = p1 THEN {2} ELSE {1}]
=============================================================================
