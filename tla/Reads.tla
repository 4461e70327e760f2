-------------------------------- MODULE Reads --------------------------------
(***************************************************************************)
(* What query-service reads on request: a page of a search over both tiers *)
(* (TieredSearch) and the aggregates of a dashboard's panel, up to the     *)
(* series the panel draws (PanelData).  Neither writes and they share no   *)
(* state, so each is explored with the other at rest.                      *)
(***************************************************************************)
EXTENDS TieredSearch, PanelData

VARIABLE endpoint   \* which of the two

readsVars == <<tvars, panelVars, endpoint>>

ReadsInit ==
  /\ endpoint \in {"search", "panel"}
  /\ SearchInit
  /\ IF endpoint = "panel" THEN PanelInit ELSE PanelFrom(Nothing)

ReadsNext ==
  /\ \/ endpoint = "search" /\ (Search \/ Underneath) /\ UNCHANGED panelVars
     \/ endpoint = "panel" /\ PanelNext /\ UNCHANGED tvars
  /\ UNCHANGED endpoint

ReadsSpec == ReadsInit /\ [][ReadsNext]_readsVars
=============================================================================
