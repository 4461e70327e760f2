-------------------------------- MODULE Views --------------------------------
(***************************************************************************)
(* The ways a user looks at logs in the explorer: the live tail, whose    *)
(* server end is TailStream and whose browser end is LogTail, and the      *)
(* search.  The explorer shows tail or search, never both, and shares no   *)
(* state with the goroutines of a connection, so each is explored with the *)
(* others at rest.                                                         *)
(***************************************************************************)
EXTENDS TailStream, LogTail, LogSearch

VARIABLE view   \* which of the three

ViewsInit ==
  /\ view \in {"stream", "tail", "search"}
  /\ StreamInit /\ TailFrom(view = "tail")
  /\ IF view = "search" THEN SearchInit ELSE SearchFrom(EMPTY_SEARCH_FILTERS)

viewsVars == <<streamVars, tailVars, searchVars, view>>

OnStream(A) == view = "stream" /\ A /\ UNCHANGED <<tailVars, searchVars, view>>
OnTail(A) == view = "tail" /\ A /\ UNCHANGED <<streamVars, searchVars, view>>
OnSearch(A) == view = "search" /\ A /\ UNCHANGED <<streamVars, tailVars, view>>

ViewsNext == OnStream(StreamNext) \/ OnTail(TailNext) \/ OnSearch(SearchNext)

\* StreamFairness, TailFairness and SearchFairness, each for the view that is
\* its own.  A behaviour keeps its view, so fairness to a disjunction of
\* actions of different views is fairness to each of them.
ViewsFairness ==
  /\ WF_viewsVars(OnStream(BusReceive) \/ OnTail(TimerFires) \/ OnSearch(SearchServed))
  /\ WF_viewsVars(OnStream(BusEnd) \/ OnTail(FlushTick) \/ OnSearch(SearchAnswered))
  /\ WF_viewsVars(OnStream(PumpReceive) \/ OnTail(ConnectionDecides))
  /\ WF_viewsVars(OnStream(PumpDrop)) /\ WF_viewsVars(OnStream(PumpEnd))
  /\ WF_viewsVars(OnStream(Swap)) /\ WF_viewsVars(OnStream(Sink)) /\ WF_viewsVars(OnStream(Tick))
  /\ SF_viewsVars(OnStream(Take)) /\ SF_viewsVars(OnStream(StreamEventsReturn))

ViewsSpec == ViewsInit /\ [][ViewsNext]_viewsVars /\ ViewsFairness
=============================================================================
