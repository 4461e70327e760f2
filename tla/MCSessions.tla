----------------------------- MODULE MCSessions -----------------------------
(***************************************************************************)
(* A browser with one request at a time, and two browsers signing in with  *)
(* two Google accounts of one address.                                     *)
(***************************************************************************)
EXTENDS Sessions, TLC

CONSTANTS p1, t1, t2, e1, g1, g2, b1, b2, c1, c2

OneRequest == {p1}
TwoTenants == {t1, t2}
OneEmail == {e1}
TwoAccounts == {g1, g2}
SameAddress == [a \in TwoAccounts |-> e1]
TwoBrowsers == {b1, b2}
TwoCallbacks == {c1, c2}
SignInSymmetry == Permutations(TwoAccounts) \cup Permutations(TwoBrowsers)
                    \cup Permutations(TwoCallbacks) \cup Permutations(TwoTenants)
=============================================================================
