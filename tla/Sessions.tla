------------------------------ MODULE Sessions ------------------------------
(***************************************************************************)
(* How a browser gets a session (SignIn) and how it keeps and loses it     *)
(* (WebSession over RefreshTokens).  The two meet in one row: the refresh  *)
(* token that mintSession stores is the root of a family, which WebSession *)
(* starts with a login.  They share no other state, so each is explored    *)
(* with the other at rest.                                                 *)
(***************************************************************************)
EXTENDS WebSession, SignIn

VARIABLE part   \* which of the two

SessionsInit == WebInit /\ SignInInit /\ part \in {"signIn", "web"}

SessionsNext ==
  /\ \/ part = "signIn" /\ SignInNext /\ UNCHANGED webAllVars
     \/ part = "web" /\ WebNext /\ UNCHANGED signInVars
  /\ UNCHANGED part

SessionsSpec == SessionsInit /\ [][SessionsNext]_<<webAllVars, signInVars, part>>
=============================================================================
