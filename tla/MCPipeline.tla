----------------------------- MODULE MCPipeline -----------------------------
(***************************************************************************)
(* A small instance of Pipeline for TLC.                                   *)
(***************************************************************************)
EXTENDS Pipeline, TLC

CONSTANTS e1, e2, k1

\* k1 submits a batch of a good event and of one that the processor cannot
\* normalize, through a publisher that does not have the handler's validation.
GoodThenPoison == k1 :> <<e1, e2>>
=============================================================================
