----------------------------- MODULE Retention -----------------------------
(***************************************************************************)
(* Where a stored log event lives and for how long.  Postgres keeps the    *)
(* hot copy in one partition of log_events per day, with a default         *)
(* partition for every ts no daily partition covers (migration 000010); S3 *)
(* keeps the cold copy the processor tees, one prefix per tenant and day   *)
(* (pkg/coldstore).  Three actors change that, none aware of the others:   *)
(*                                                                         *)
(*  - ingest, whose ts is the client's and is stored unclamped;            *)
(*  - the scheduled app.ensure_log_events_partitions job;                  *)
(*  - the retention-worker, whose cycle drops hot partitions, then reads   *)
(*    the tenants' policies and purges their cold prefixes one by one,     *)
(*    while administrators keep changing those policies.                   *)
(*                                                                         *)
(* Time is counted in ticks, PerDay of them to a UTC day.                  *)
(***************************************************************************)
EXTENDS Integers, FiniteSets

CONSTANTS
    Tenant,      \* tenant ids, in uuid order
    Healthy,     \* tenants whose S3 calls do not fail for ever
    PerDay,      \* ticks in a day
    Ahead,       \* p_days_ahead of the ensure job (7)
    HotDays,     \* the worker's HOT_RETENTION_DAYS (30)
    ColdDays,    \* the cold_days an administrator may store
    Back, Fwd,   \* how far, in ticks, a client's ts may lie from now
    MaxEvents,   \* bound on the events ingested
    MaxChanges,  \* bound on the policy changes and worker restarts
    MaxTime      \* bound on the clock

ASSUME RetentionAssumption ==
    /\ Tenant \subseteq Nat /\ Healthy \subseteq Tenant
    /\ PerDay \in Nat \ {0} /\ Ahead \in Nat /\ HotDays \in Nat \ {0}
    /\ Back \in Nat /\ Fwd \in Nat
    \* retention_policies: hot_days BETWEEN 1 AND 90, cold_days >= hot_days
    /\ ColdDays \subseteq Nat \ {0}
    /\ MaxEvents \in Nat /\ MaxChanges \in Nat /\ MaxTime \in Nat

VARIABLES
    now,
    parts,     \* the days that have a daily partition
    daily,     \* rows in daily partitions
    dflt,      \* rows in log_events_default
    cold,      \* events whose Parquet object is in S3
    teed,      \* history: events Archive was called for
    policy,    \* retention_policies: tenant -> cold_days, 0 for no row
    changes,   \* policy changes and restarts so far
    step,      \* the worker's place in RunCycle
    todo,      \* policies read by ListAll, not swept yet
    wday,      \* RunCycle's `today`
    doomed,    \* keys PurgeExpiredPrefixes has collected
    dropErr,   \* history: this cycle's hot drop failed
    result,    \* what the last cycle returned
    accepted,  \* history: every event persisted
    terms      \* history: tenant -> policies in force since this cycle's ListAll

store  == <<parts, daily, dflt>>
worker == <<step, todo, wday, doomed, dropErr, result>>
vars   == <<now, store, cold, teed, policy, changes, worker, accepted, terms>>

Event == [tenant : Tenant, ts : Int]
Day(t) == t \div PerDay
Today == Day(now)
hot == daily \cup dflt

Init ==
    /\ now = 0
    \* the bootstrap call at the end of migration 000010
    /\ parts = 0 .. Ahead
    /\ daily = {} /\ dflt = {} /\ cold = {} /\ teed = {} /\ accepted = {}
    /\ policy \in [Tenant -> ColdDays \cup {0}] /\ changes = 0
    /\ step = "idle" /\ todo = {} /\ wday = 0 /\ doomed = {}
    /\ dropErr = FALSE /\ result = "none"
    /\ terms = [t \in Tenant |-> {}]

Tick ==
    /\ now < MaxTime
    /\ now' = now + 1
    /\ UNCHANGED <<store, cold, teed, policy, changes, worker, accepted, terms>>

-----------------------------------------------------------------------------
(* Ingest: logstore.Append routes the row by its ts, Archive files the     *)
(* event under the ts's own day.                                           *)

Append(e) ==
    /\ Cardinality(accepted) < MaxEvents
    /\ e \notin accepted
    /\ accepted' = accepted \cup {e}
    /\ IF Day(e.ts) \in parts
       THEN daily' = daily \cup {e} /\ UNCHANGED dflt
       ELSE dflt' = dflt \cup {e} /\ UNCHANGED daily
    /\ UNCHANGED <<now, parts, cold, teed, policy, changes, worker, terms>>

\* The tee runs after the insert and is best effort: it may fail for good.
Archive(e, ok) ==
    /\ e \in accepted \ teed
    /\ teed' = teed \cup {e}
    /\ cold' = IF ok THEN cold \cup {e} ELSE cold
    /\ UNCHANGED <<now, store, policy, changes, worker, accepted, terms>>

\* app.ensure_log_events_partitions, one transaction: a partition over rows
\* the default already holds cannot be created, and then none is.
EnsurePartitions ==
    LET missing == (Today .. Today + Ahead) \ parts IN
    /\ missing # {}
    /\ \A e \in dflt : Day(e.ts) \notin missing
    /\ parts' = parts \cup missing
    /\ UNCHANGED <<now, daily, dflt, cold, teed, policy, changes, worker, accepted, terms>>

\* PUT /retention: RetentionRepository.upsert.
Upsert(t, n) ==
    /\ changes < MaxChanges
    /\ n # policy[t]
    /\ policy' = [policy EXCEPT ![t] = n]
    /\ terms' = IF step \in {"today", "purge", "delete"}
                THEN [terms EXCEPT ![t] = @ \cup {n}] ELSE terms
    /\ changes' = changes + 1
    /\ UNCHANGED <<now, store, cold, teed, worker, accepted>>

-----------------------------------------------------------------------------
(* Retainer.RunCycle.                                                      *)

\* The locals of a cycle end with it.
Return(res) ==
    /\ step' = "idle" /\ result' = res /\ dropErr' = FALSE
    /\ todo' = {} /\ wday' = 0 /\ doomed' = {}
    /\ terms' = [t \in Tenant |-> {}]

Start ==
    /\ step = "idle"
    /\ step' = "drop" /\ result' = "none"
    /\ UNCHANGED <<now, store, cold, teed, policy, changes, todo, wday, doomed, dropErr, accepted, terms>>

DropLoose(ok) ==
    /\ step = "drop"
    /\ step' = "list" /\ dropErr' = ~ok
    /\ parts' = IF ok THEN {d \in parts : d > Today - HotDays} ELSE parts
    /\ daily' = {e \in daily : Day(e.ts) \in parts'}
    /\ UNCHANGED <<now, dflt, cold, teed, policy, changes, todo, wday, doomed, result, accepted, terms>>

\* A failed drop is logged and the cycle goes on.
DropOlderThan(ok) ==
    /\ step = "drop"
    /\ step' = "list" /\ dropErr' = ~ok
    /\ parts' = IF ok THEN {d \in parts : d >= Today - HotDays} ELSE parts
    /\ daily' = {e \in daily : Day(e.ts) \in parts'}
    /\ UNCHANGED <<now, dflt, cold, teed, policy, changes, todo, wday, doomed, result, accepted, terms>>

ListAll(ok) ==
    /\ step = "list"
    /\ IF ok
       THEN /\ step' = "today"
            /\ todo' = {[tenant |-> t, days |-> policy[t]] : t \in {u \in Tenant : policy[u] # 0}}
            /\ terms' = [t \in Tenant |-> {policy[t]}]
            /\ UNCHANGED <<now, store, cold, teed, policy, changes, wday, doomed, dropErr, result, accepted>>
       ELSE /\ Return("error")
            /\ UNCHANGED <<now, store, cold, teed, policy, changes, accepted>>

ReadClock ==
    /\ step = "today"
    /\ step' = "purge" /\ wday' = Today
    /\ UNCHANGED <<now, store, cold, teed, policy, changes, todo, doomed, dropErr, result, accepted, terms>>

ExpiredAnyTenant(p) == {e \in cold : Day(e.ts) < wday - p.days}

\* The keys under the tenant's prefix with dt before the cutoff.
Expired(p) == {e \in cold : e.tenant = p.tenant /\ Day(e.ts) < wday - p.days}

\* ListAll orders the policies by tenant_id, and the loop follows.
IsNext(p) == p \in todo /\ \A q \in todo : p.tenant <= q.tenant

CollectAborts(p) ==
    /\ step = "purge" /\ IsNext(p)
    /\ doomed' \in {{}, Expired(p)}
    /\ step' = IF doomed' = {} THEN "purge" ELSE "delete"
    /\ todo' = IF doomed' = {} THEN {} ELSE todo \ {p}
    /\ UNCHANGED <<now, store, cold, teed, policy, changes, wday, dropErr, result, accepted, terms>>

\* PurgeExpiredPrefixes up to deleteBatched: list the prefix and collect the
\* keys.  A listing error, like an empty list, ends this tenant's purge and
\* the sweep goes on.
Collect(p) ==
    /\ step = "purge" /\ IsNext(p)
    /\ doomed' \in {{}, Expired(p)}
    /\ step' = IF doomed' = {} THEN "purge" ELSE "delete"
    /\ todo' = todo \ {p}
    /\ UNCHANGED <<now, store, cold, teed, policy, changes, wday, dropErr, result, accepted, terms>>

\* deleteBatched: any part of the keys may be gone when it returns an error.
Delete(gone) ==
    /\ step = "delete" /\ gone \subseteq doomed
    /\ cold' = cold \ gone
    /\ doomed' = {} /\ step' = "purge"
    /\ UNCHANGED <<now, store, teed, policy, changes, todo, wday, dropErr, result, accepted, terms>>

Finish ==
    /\ step = "purge" /\ todo = {}
    /\ Return("nil")
    /\ UNCHANGED <<now, store, cold, teed, policy, changes, accepted>>

\* The worker is stopped, or dies, and starts again with an empty memory.
Restart ==
    /\ step # "idle" /\ changes < MaxChanges
    /\ Return("none")
    /\ changes' = changes + 1
    /\ UNCHANGED <<now, store, cold, teed, policy, accepted>>

Cycle ==
    \/ Start \/ ReadClock \/ Finish
    \/ \E ok \in BOOLEAN : DropOlderThan(ok) \/ ListAll(ok)
    \/ \E p \in todo : Collect(p)
    \/ \E gone \in SUBSET doomed : Delete(gone)

Next ==
    \/ Tick \/ EnsurePartitions \/ Cycle \/ Restart
    \/ \E t \in Tenant, ts \in now - Back .. now + Fwd : Append([tenant |-> t, ts |-> ts])
    \/ \E e \in accepted, ok \in BOOLEAN : Archive(e, ok)
    \/ \E t \in Tenant, n \in ColdDays : Upsert(t, n)

Spec == Init /\ [][Next]_vars

-----------------------------------------------------------------------------
(* Fairness.  Run loops for ever, so a cycle goes on once started; each of *)
(* its calls fails now and then but not for ever -- except that the S3     *)
(* calls for a tenant outside Healthy may fail every time.                 *)
SpecF ==
    /\ Spec
    /\ WF_vars(Cycle)
    /\ SF_vars(DropOlderThan(TRUE)) /\ SF_vars(ListAll(TRUE))
    /\ \A t \in Healthy :
         /\ \A n \in ColdDays : LET p == [tenant |-> t, days |-> n] IN
              SF_vars(Collect(p) /\ doomed' = Expired(p))
         /\ SF_vars(Delete(doomed) /\ \A e \in doomed : e.tenant = t)

-----------------------------------------------------------------------------
TypeOK ==
    /\ now \in Nat /\ parts \subseteq Int
    /\ daily \subseteq Event /\ dflt \subseteq Event /\ daily \cap dflt = {}
    /\ cold \subseteq teed /\ teed \subseteq accepted /\ accepted \subseteq Event
    /\ policy \in [Tenant -> ColdDays \cup {0}] /\ changes \in 0 .. MaxChanges
    /\ step \in {"idle", "drop", "list", "today", "purge", "delete"}
    /\ todo \subseteq [tenant : Tenant, days : ColdDays]
    /\ wday \in Nat /\ doomed \subseteq accepted
    /\ dropErr \in BOOLEAN /\ result \in {"none", "nil", "error"}
    /\ terms \in [Tenant -> SUBSET (ColdDays \cup {0})]

(* Within the hot horizon nothing leaves Postgres: an event persisted by   *)
(* Append is still in log_events for as long as its day is at most HotDays *)
(* old, whichever partition it was routed to and whenever the ensure job   *)
(* and DropOlderThan ran relative to its arrival.                          *)
KeptHot ==
    \A e \in accepted : Day(e.ts) >= Today - HotDays => e \in hot

(* A cold object is deleted only on its own tenant's terms: at the moment  *)
(* deleteBatched removes it, its day is past the cold_days of a policy     *)
(* that was in force for that tenant at some point since the cycle read    *)
(* the policies -- though policies change and midnight passes during the   *)
(* sweep.                                                                  *)
OnItsTenantsTerms ==
    [][\A e \in cold \ cold' :
         \E n \in terms[e.tenant] \ {0} : Day(e.ts) < Today - n]_vars

(* Hot data does not outlive its horizon in the daily partitions: through  *)
(* failed drops, failed cycles and restarts, there is again and again a    *)
(* moment when no daily partition older than the horizon holds a row.  And *)
(* a tenant's expired cold objects are purged, even when every S3 call for *)
(* some other tenant fails ("one bad tenant must not stall the rest"):     *)
(* again and again the tenant has none that its policy says is expired.    *)
ExpiredGoes ==
    /\ []<>(\A e \in daily : Day(e.ts) >= Today - HotDays)
    /\ \A t \in Healthy :
         []<>(policy[t] # 0 =>
                \A e \in cold : e.tenant = t => Day(e.ts) >= Today - policy[t])

(* What migration 000010 says of the default partition: rows in it never   *)
(* stand in the way of a partition the ensure job has to create.           *)
DefaultNeverBlocks ==
    \A e \in dflt : Day(e.ts) \notin (Today .. Today + Ahead) \ parts

(* What RunCycle's comment says of its result: a cycle whose hot drop      *)
(* failed returns an error.                                                *)
DropFailureIsHard ==
    [][result' = "nil" /\ step = "purge" /\ step' = "idle" => ~dropErr]_vars
=============================================================================
