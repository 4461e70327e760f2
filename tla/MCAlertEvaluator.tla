-------------------------- MODULE MCAlertEvaluator --------------------------
(***************************************************************************)
(* Small instances of AlertEvaluator for TLC.                              *)
(***************************************************************************)
EXTENDS AlertEvaluator

CONSTANTS r1, r2, c1, c2

OneRule == {r1}
TwoRules == {r1, r2}
OneReplica == {c1}
TwoReplicas == {c1, c2}
None == {}
=============================================================================
