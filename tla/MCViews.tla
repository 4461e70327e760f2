------------------------------ MODULE MCViews ------------------------------
(***************************************************************************)
(* Small instances of the three views: one event of the tail does not     *)
(* match its filter and one message cannot be decoded; five stored events  *)
(* of two levels come in pages of two, for a list of at most three.        *)
(***************************************************************************)
EXTENDS Views

CONSTANTS info, warn

SomeMatch == 1..MaxEvents \ {2}
OneBad == {3}

TwoLevels == {info, warn}
FiveLogs == [e \in 1..5 |-> IF e = 4 THEN warn ELSE info]
OneBound == {3}
=============================================================================
