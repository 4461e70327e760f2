------------------------------- MODULE Gates -------------------------------
(***************************************************************************)
(* The two gates a request to ingest-service passes: the authentication of *)
(* its key (KeyAuth), then the rate limit of the key's tenant              *)
(* (RateLimiter).  They share no state but the clock of each, so each is   *)
(* explored with the other at rest.                                        *)
(***************************************************************************)
EXTENDS KeyAuth, RateLimiter

VARIABLE gate   \* which of the two

GatesInit == Init /\ LimiterInit /\ gate \in {"key", "limit"}

GatesNext ==
  /\ \/ gate = "key" /\ Next /\ UNCHANGED limiterVars
     \/ gate = "limit" /\ LimiterNext /\ UNCHANGED vars
  /\ UNCHANGED gate

GatesSpec == GatesInit /\ [][GatesNext]_<<vars, limiterVars, gate>>
=============================================================================
