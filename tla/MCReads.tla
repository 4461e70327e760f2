------------------------------ MODULE MCReads ------------------------------
(***************************************************************************)
(* Small instances: days of two ticks for the tiers; ranges over six       *)
(* ticks, two to the second, in two slots for the panel.                   *)
(***************************************************************************)
EXTENDS Reads

CONSTANTS q1, q2

Instants == {1, 2}

TwoQueries == {q1, q2}
SixTicks == 0..5
QuickRanges == {2, 5}
AbsoluteTimes == {0, 5}
=============================================================================
