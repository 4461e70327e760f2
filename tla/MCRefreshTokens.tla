-------------------------- MODULE MCRefreshTokens --------------------------
(***************************************************************************)
(* Small instances of RefreshTokens.                                       *)
(***************************************************************************)
EXTENDS RefreshTokens, TLC

CONSTANTS p1, p2

TwoRequests == {p1, p2}
RequestSymmetry == Permutations(Req)
=============================================================================
