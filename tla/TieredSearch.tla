---------------------------- MODULE TieredSearch ----------------------------
(***************************************************************************)
(* One search through the query-service's TieredSearcher while Retention   *)
(* goes on underneath: the query is routed by its window relative to       *)
(* hotCutoff = now - hotDays * 24h, read from one tier, or split at a      *)
(* freshly computed cutoff and read from both, and the halves are merged.  *)
(* The clock moves, partitions are dropped and prefixes purged between the *)
(* routing, the hot read and the cold read.  A search changes nothing, so  *)
(* one search per behaviour stands for all of them.                        *)
(*                                                                         *)
(* Postgres is asked for from <= ts < to; the cold tier is asked by DAY    *)
(* (buildColdQuery's dt BETWEEN) and has no predicate on ts.  The filters  *)
(* other than the window are left out: every event matches them.           *)
(* COLD_SEARCH_ENABLED is on; off, every search is a HotOnly.              *)
(***************************************************************************)
EXTENDS Retention

CONSTANTS
    QueryHotDays,  \* the query-service's own hot horizon
    Limit,         \* the page size
    Bound,         \* the instants a window may start or end at
    MaxDelay       \* bound, in ticks, on how long a search takes

\* The two services read their horizon from their own environment; routing
\* is only right if the worker keeps at least what the router believes.
ASSUME TieredAssumption ==
    /\ Tenant # {}
    /\ QueryHotDays \in 1 .. HotDays
    /\ Limit \in Nat \ {0} /\ Bound \subseteq Int
    /\ MaxDelay \in 0 .. PerDay

VARIABLES
    at,      \* the search's place: idle, hot, cold, union, read_hot, read_cold, done
    win,     \* the query: its tenant and its window
    cut,     \* the cutoff it was routed or split with
    page,    \* rows fetched so far, the answer once done
    split,   \* unionSearch has split it
    failed,  \* the tiers whose read failed
    had      \* history: the events this search has to find, with their tier

svars == <<at, win, cut, split, page, failed, had>>
tvars == <<vars, svars>>

Open == MaxTime + Fwd + 1  \* a bound the query leaves out (the zero time)
Window == [tenant : Tenant, from : Bound \cup {Open}, to : Bound \cup {Open}]
NoQuery == [tenant |-> CHOOSE t \in Tenant : TRUE, from |-> Open, to |-> Open]
Row(e, tier) == [event |-> e, tier |-> tier]
Rows(S, tier) == {Row(e, tier) : e \in S}

-----------------------------------------------------------------------------
hotCutoff == now - QueryHotDays * PerDay

InWindow(e, w) ==
    /\ e.tenant = w.tenant
    /\ w.from = Open \/ e.ts >= w.from
    /\ w.to = Open \/ e.ts < w.to

\* The bounds are tested as classifyTier does: an open one passes neither test.
classifyTier(w) ==
    IF w.from = Open /\ w.to = Open THEN "hot"
    ELSE IF w.to # Open /\ w.to <= hotCutoff THEN "cold"
    ELSE IF w.from # Open /\ w.from >= hotCutoff THEN "hot"
    ELSE "union"

\* Some n newest rows of S (ORDER BY ts DESC LIMIT n), ties in any order.
Newest(S, n) ==
    {T \in SUBSET S :
       /\ Cardinality(T) <= n
       /\ T # S => Cardinality(T) = n
       /\ \A x \in T, y \in S \ T : x.event.ts >= y.event.ts}

\* logstore.Search: buildSearch's half-open window.
HotRows(w) == Newest(Rows({e \in hot : InWindow(e, w)}, "hot"), Limit)

ColdRowsOpenEnd(w) ==
    Newest(Rows({e \in cold :
              /\ e.tenant = w.tenant
              /\ w.from = Open \/ Day(e.ts) >= Day(w.from)
              /\ w.to = Open \/ Day(e.ts) < Day(w.to)}, "cold"), Limit)

\* coldstore.Search: buildColdQuery's whole days, From's to To's.
ColdRows(w) ==
    Newest(Rows({e \in cold :
              /\ e.tenant = w.tenant
              /\ w.from = Open \/ Day(e.ts) >= Day(w.from)
              /\ w.to = Open \/ Day(e.ts) <= Day(w.to)}, "cold"), Limit)

HotHalfWhole(w) == w

HotHalf(w) == [w EXCEPT !.from = cut]
ColdHalf(w) == [w EXCEPT !.to = cut]

\* Cold rows have no id and so are never deduplicated, and the ids of hot
\* rows are unique: the union keeps every row, then is trimmed to the page.
Merge(S) == Newest(S, Limit)

\* What a search must find: the events in its window that the tier it asks
\* for them holds when it settles on its cutoff.
Findable(w, tier) ==
    {Row(e, tier) : e \in {e \in IF tier = "hot" THEN hot ELSE cold : InWindow(e, w)}}

-----------------------------------------------------------------------------
SearchInit ==
    /\ Init
    /\ at = "idle" /\ win = NoQuery /\ cut = 0 /\ split = FALSE
    /\ page = {} /\ failed = {} /\ had = {}

Route(w) ==
    /\ at = "idle"
    /\ win' = w
    /\ at' = classifyTier(w) /\ cut' = hotCutoff
    /\ had' = IF at' = "union" THEN {} ELSE Findable(w, at')
    /\ UNCHANGED <<vars, split, page, failed>>

\* A search of one tier: its error is the answer's.
HotOnly(ok) ==
    /\ at = "hot"
    /\ page' \in IF ok THEN HotRows(win) ELSE {{}}
    /\ failed' = IF ok THEN {} ELSE {"hot"}
    /\ at' = "done"
    /\ UNCHANGED <<vars, win, cut, split, had>>

ColdOnly(ok) ==
    /\ at = "cold"
    /\ page' \in IF ok THEN ColdRows(win) ELSE {{}}
    /\ failed' = IF ok THEN {} ELSE {"cold"}
    /\ at' = "done"
    /\ UNCHANGED <<vars, win, cut, split, had>>

\* unionSearch computes its cutoff anew.
Split ==
    /\ at = "union"
    /\ at' = "read_hot" /\ cut' = hotCutoff /\ split' = TRUE
    /\ had' = Findable([win EXCEPT !.from = cut'], "hot")
              \cup {r \in Findable(win, "cold") : r.event.ts < cut'}
    /\ UNCHANGED <<vars, win, page, failed>>

ReadHotHalf(ok) ==
    /\ at = "read_hot"
    /\ page' \in IF ok THEN HotRows(HotHalf(win)) ELSE {{}}
    /\ failed' = IF ok THEN {} ELSE {"hot"}
    /\ at' = "read_cold"
    /\ UNCHANGED <<vars, win, cut, split, had>>

\* One failed tier is logged and the other's rows are the answer.
ReadColdHalf(ok) ==
    /\ at = "read_cold"
    /\ \E rows \in IF ok THEN ColdRows(ColdHalf(win)) ELSE {{}} :
         page' \in Merge(page \cup rows)
    /\ failed' = IF ok THEN failed ELSE failed \cup {"cold"}
    /\ at' = "done"
    /\ UNCHANGED <<vars, win, cut, split, had>>

Search ==
    \/ \E w \in Window : Route(w)
    \/ Split
    \/ \E ok \in BOOLEAN : HotOnly(ok) \/ ColdOnly(ok) \/ ReadHotHalf(ok) \/ ReadColdHalf(ok)

\* A search takes at most MaxDelay from the cutoff it settled on.
InTime == at \in {"idle", "done"} \/ now < cut + QueryHotDays * PerDay + MaxDelay

Underneath ==
    /\ at # "done"
    /\ Next /\ (now' # now => InTime)
    /\ UNCHANGED svars

SearchSpec == SearchInit /\ [][Search \/ Underneath]_tvars

-----------------------------------------------------------------------------
SearchTypeOK ==
    /\ at \in {"idle", "hot", "cold", "union", "read_hot", "read_cold", "done"}
    /\ win \in Window /\ cut \in Int /\ split \in BOOLEAN
    /\ page \subseteq Rows(accepted, "hot") \cup Rows(accepted, "cold")
    /\ Cardinality(page) <= Limit
    /\ failed \subseteq {"hot", "cold"}
    /\ had \subseteq Rows(accepted, "hot") \cup Rows(accepted, "cold")

Answers(e) == \E r \in page : r.event = e

(* A search loses nothing between the tiers: when it answers, every event  *)
(* its tiers held when it settled on a cutoff is in the page -- unless the *)
(* page is full of rows at least as new, the tier that had it failed, or   *)
(* the event is gone.  For a hot-only search gone means dropped from       *)
(* Postgres as midnight passed; a split search still finds such an event   *)
(* in the cold tier, because its cold half covers the whole cutoff day.    *)
NothingLostBetweenTiers ==
    at = "done" =>
      \A r \in had :
        \/ Answers(r.event)
        \/ r.tier \in failed
        \/ Cardinality(page) = Limit /\ \A x \in page : x.event.ts >= r.event.ts
        \/ r.tier = "cold" /\ r.event \notin cold
        \/ r.tier = "hot" /\ r.event \notin hot /\
             (~split \/ r.event \notin cold \/ "cold" \in failed)

(* The overlap of the tiers is one day: an event is answered twice, once   *)
(* from Postgres and once from the cold tier, only if it is of the cutoff's*)
(* own day.                                                                *)
TwiceOnlyOnTheCutoffDay ==
    at = "done" =>
      \A e \in accepted : {Row(e, "hot"), Row(e, "cold")} \subseteq page => Day(e.ts) = Day(cut)

(* What unionSearch's comment says of the split: "cold half = [q.From,     *)
(* hotCutoff)".                                                            *)
ColdHalfEndsAtCutoff ==
    at = "done" /\ split => \A r \in page : r.tier = "cold" => r.event.ts < cut
=============================================================================
