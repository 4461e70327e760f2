------------------------------ MODULE MCGates ------------------------------
(***************************************************************************)
(* Two requests with one key; a limited tenant and an exempt one.          *)
(***************************************************************************)
EXTENDS Gates, TLC

CONSTANTS p1, p2, t1, free

TwoRequests == {p1, p2}
RequestSymmetry == Permutations(Req)
OneOfEach == {t1, free}
Exempt == {free}
=============================================================================
