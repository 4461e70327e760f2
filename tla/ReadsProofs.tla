---------------------------- MODULE ReadsProofs ----------------------------
(***************************************************************************)
(* What is stored and what is read of it, for any number of tenants,       *)
(* events, days and loads: Retention's KeptHot and OnItsTenantsTerms,      *)
(* TieredSearch's NothingLostBetweenTiers and TwiceOnlyOnTheCutoffDay over *)
(* it, and PanelData's PanelShowsWhatIsAsked and SeriesAddsUp.             *)
(***************************************************************************)
EXTENDS Reads, FiniteSetTheorems, WellFoundedInduction, TLAPS

\* Most steps are first-order: Zenon proves every leaf that names no other prover.
USE ZenonT(30)

-----------------------------------------------------------------------------
(* Days *)

\* The day of an instant, by its two ends.
LEMMA DayBounds ==
  ASSUME NEW t \in Int
  PROVE  Day(t) \in Int /\ Day(t) * PerDay <= t /\ t < Day(t) * PerDay + PerDay
<1>1. PICK b \in Nat \ {0} : b = PerDay
  BY RetentionAssumption
<1>2. t \div b \in Int /\ b * (t \div b) <= t /\ t < b * (t \div b) + b
  BY SMTT(30)
<1>3. PICK q \in Int : q = t \div b
  BY <1>2
<1>4. b * q = q * b
  BY SMTT(30)
<1> QED BY <1>1, <1>2, <1>3, <1>4 DEF Day

\* If n days after the day of s begin later than t, t is of an earlier day.
LEMMA DayBefore ==
  ASSUME NEW t \in Int, NEW d \in Int, t < d * PerDay
  PROVE  Day(t) < d
<1>1. PICK b \in Nat \ {0}, q \in Int : b = PerDay /\ q = Day(t)
  BY RetentionAssumption, DayBounds
<1>2. q * b <= t /\ t < d * b
  BY <1>1, DayBounds
<1>3. ASSUME d <= q PROVE FALSE
  <2>1. d * b <= q * b
    BY SMTT(30), <1>3
  <2> QED BY SMTT(30), <2>1, <1>2
<1> QED BY SMTT(30), <1>1, <1>3

\* Later instants are not of earlier days.
LEMMA DayMonotone ==
  ASSUME NEW s \in Int, NEW t \in Int, s <= t
  PROVE  Day(s) <= Day(t)
<1>1. PICK b \in Nat \ {0}, q \in Int : b = PerDay /\ q = Day(t)
  BY RetentionAssumption, DayBounds
<1>2. s < (q + 1) * b
  <2>1. t < q * b + b /\ (q + 1) * b = q * b + b
    BY SMTT(30), <1>1, DayBounds
  <2> QED BY SMTT(30), <2>1
<1>3. Day(s) < q + 1 /\ Day(s) \in Int
  BY SMTT(30), <1>1, <1>2, DayBefore, DayBounds
<1> QED BY SMTT(30), <1>1, <1>3

-----------------------------------------------------------------------------
(* Retention *)

\* Every row of a daily partition is of a day that has one, and nothing the
\* hot horizon covers has left log_events; whatever the worker has read of
\* the policies and collected to delete is on terms in force since its cycle
\* read them.
StoreInv ==
  /\ now <= MaxTime /\ IsFiniteSet(accepted)
  /\ daily \subseteq accepted /\ dflt \subseteq accepted
  /\ \A e \in daily : Day(e.ts) \in parts
  /\ KeptHot

WorkerInv ==
  /\ \A p \in todo : p.days \in terms[p.tenant] \ {0}
  /\ \A e \in doomed : \E n \in terms[e.tenant] \ {0} : Day(e.ts) < wday - n
  /\ step # "delete" => doomed = {}
  /\ wday <= Today

RetentionInv == TypeOK /\ StoreInv /\ WorkerInv

\* An empty store, a worker at rest.
LEMMA RetentionInvInit == Init => RetentionInv
<1> SUFFICES ASSUME Init PROVE RetentionInv
  OBVIOUS
<1>1. TypeOK
  <2>1. now \in Nat /\ parts \subseteq Int /\ changes \in 0 .. MaxChanges /\ wday \in Nat
    BY SMTT(30), RetentionAssumption DEF Init
  <2>2. /\ policy \in [Tenant -> ColdDays \cup {0}]
        /\ terms \in [Tenant -> SUBSET (ColdDays \cup {0})]
    BY DEF Init
  <2> QED BY <2>1, <2>2 DEF Init, TypeOK
<1>2. StoreInv
  BY SMTT(30), RetentionAssumption, FS_EmptySet DEF Init, StoreInv, KeptHot
<1>3. WorkerInv
  <2>1. Today = 0
    BY SMTT(30), RetentionAssumption DEF Init, Today, Day
  <2> QED BY SMTT(30), <2>1 DEF Init, WorkerInv
<1> QED BY <1>1, <1>2, <1>3 DEF RetentionInv

\* A step of anything but the store leaves the store's invariant alone.
LEMMA StoreUntouched ==
  ASSUME RetentionInv, UNCHANGED <<now, store, accepted>>
  PROVE  StoreInv'
  BY DEF RetentionInv, StoreInv, KeptHot, hot, Today, store

\* A step of anything but the worker, the policies and the clock leaves what
\* is known of the worker alone.
LEMMA WorkerUntouched ==
  ASSUME RetentionInv, UNCHANGED <<now, terms, step, todo, wday, doomed>>
  PROVE  WorkerInv'
  BY DEF RetentionInv, WorkerInv, Today

\* The clock: the horizon moves forward, so less is promised.
LEMMA TickKeeps ==
  ASSUME RetentionInv, Tick
  PROVE  RetentionInv'
<1>0. now \in Nat /\ now' = now + 1 /\ now < MaxTime /\ MaxTime \in Nat /\ HotDays \in Nat
  BY RetentionAssumption DEF Tick, RetentionInv, TypeOK
<1>1. TypeOK'
  BY SMTT(30), <1>0 DEF Tick, RetentionInv, TypeOK, store, worker
<1>2. Today \in Int /\ Today' \in Int /\ Today <= Today'
  BY SMTT(30), <1>0, DayMonotone, DayBounds DEF Today
<1>3. KeptHot'
  <2> SUFFICES ASSUME NEW e \in accepted, Day(e.ts) >= Today' - HotDays PROVE e \in hot
    BY DEF Tick, KeptHot, hot, store
  <2>1. Day(e.ts) \in Int
    BY DayBounds DEF RetentionInv, TypeOK, Event
  <2>2. Day(e.ts) >= Today - HotDays
    BY SMTT(30), <2>1, <1>0, <1>2
  <2> QED BY <2>2 DEF RetentionInv, StoreInv, KeptHot
<1>4. StoreInv'
  BY SMTT(30), <1>0, <1>3 DEF Tick, RetentionInv, StoreInv, store
<1>5. WorkerInv'
  <2>1. wday \in Int
    BY SMTT(30) DEF RetentionInv, TypeOK
  <2>2. wday <= Today'
    BY SMTT(30), <2>1, <1>2 DEF RetentionInv, WorkerInv
  <2> QED BY <2>2 DEF Tick, RetentionInv, WorkerInv, worker, Today
<1> QED BY <1>1, <1>4, <1>5 DEF RetentionInv

\* Append: the row goes where the partitions route it, and that is in
\* log_events (migration 000010, logstore.Append).
LEMMA AppendKeeps ==
  ASSUME RetentionInv, NEW e \in Event, Append(e)
  PROVE  RetentionInv'
<1>1. TypeOK'
  BY DEF Append, RetentionInv, TypeOK, StoreInv, worker
<1>2. IsFiniteSet(accepted')
  BY FS_AddElement DEF Append, RetentionInv, StoreInv
<1>3. KeptHot'
  BY DEF Append, RetentionInv, StoreInv, KeptHot, hot, Today
<1>4. StoreInv'
  BY <1>2, <1>3 DEF Append, RetentionInv, StoreInv
<1>5. WorkerInv'
  BY WorkerUntouched DEF Append, worker
<1> QED BY <1>1, <1>4, <1>5 DEF RetentionInv

\* Archive, the ensure job and a change of a policy.  The ensure job only adds
\* partitions; a policy that changes during a sweep adds to the terms.
LEMMA ArchiveKeeps ==
  ASSUME RetentionInv, NEW e \in accepted, NEW ok \in BOOLEAN, Archive(e, ok)
  PROVE  RetentionInv'
<1>1. TypeOK'
  BY DEF Archive, RetentionInv, TypeOK, store, worker
<1> QED BY <1>1, StoreUntouched, WorkerUntouched DEF Archive, RetentionInv, worker

\* The ensure job adds partitions and moves no row.
LEMMA EnsureKeeps ==
  ASSUME RetentionInv, EnsurePartitions
  PROVE  RetentionInv'
<1>1. Today \in Int /\ Ahead \in Nat
  BY SMTT(30), DayBounds, RetentionAssumption DEF Today, RetentionInv, TypeOK
<1>2. TypeOK'
  BY SMTT(30), <1>1 DEF EnsurePartitions, RetentionInv, TypeOK, worker
<1>3. StoreInv'
  BY DEF EnsurePartitions, RetentionInv, StoreInv, KeptHot, hot, Today
<1> QED BY <1>2, <1>3, WorkerUntouched DEF EnsurePartitions, RetentionInv, worker

\* A policy that changes during a sweep adds to the terms it may act on.
LEMMA UpsertKeeps ==
  ASSUME RetentionInv, NEW t \in Tenant, NEW n \in ColdDays, Upsert(t, n)
  PROVE  RetentionInv'
<1>1. TypeOK'
  <2>1. changes' \in 0 .. MaxChanges
    BY SMTT(30), RetentionAssumption DEF Upsert, RetentionInv, TypeOK
  <2>2. terms' \in [Tenant -> SUBSET (ColdDays \cup {0})]
    BY DEF Upsert, RetentionInv, TypeOK
  <2>3. policy' \in [Tenant -> ColdDays \cup {0}]
    BY DEF Upsert, RetentionInv, TypeOK
  <2> QED BY <2>1, <2>2, <2>3 DEF Upsert, RetentionInv, TypeOK, store, worker
<1>2. \A u \in Tenant : terms[u] \subseteq terms'[u]
  BY DEF Upsert, RetentionInv, TypeOK
<1>3. UNCHANGED <<now, step, todo, wday, doomed>> /\ todo \subseteq [tenant : Tenant, days : ColdDays]
      /\ doomed \subseteq Event
  BY DEF Upsert, worker, RetentionInv, TypeOK
<1>4. WorkerInv'
  BY <1>2, <1>3 DEF RetentionInv, WorkerInv, Today, Event
<1> QED BY <1>1, <1>4, StoreUntouched DEF Upsert, RetentionInv

\* A cycle that ends, or dies, leaves nothing of its locals.
LEMMA ReturnKeeps ==
  ASSUME RetentionInv, NEW res \in {"none", "nil", "error"}, Return(res),
         UNCHANGED <<now, store, cold, teed, policy, accepted>>, changes' \in 0 .. MaxChanges
  PROVE  RetentionInv'
<1>1. Today \in Int /\ 0 <= Today
  <2>1. now \in Nat /\ 0 \in Int /\ Day(0) = 0
    BY SMTT(30), RetentionAssumption DEF RetentionInv, TypeOK, Day
  <2> QED BY SMTT(30), <2>1, DayMonotone, DayBounds DEF Today
<1>2. TypeOK'
  <2>1. terms' \in [Tenant -> SUBSET (ColdDays \cup {0})]
    BY DEF Return
  <2> QED BY <2>1 DEF Return, RetentionInv, TypeOK, store
<1>3. WorkerInv'
  BY <1>1 DEF Return, WorkerInv, Today
<1> QED BY <1>2, <1>3, StoreUntouched DEF RetentionInv

\* DropOlderThan removes the partitions before the horizon, and with them only
\* rows of days before it (000016_retention_worker.up.sql:32-59).
LEMMA DropKeeps ==
  ASSUME RetentionInv, NEW ok \in BOOLEAN, DropOlderThan(ok)
  PROVE  RetentionInv'
<1>0. /\ Today \in Int /\ HotDays \in Nat
      /\ \A e \in accepted : Day(e.ts) \in Int
  BY SMTT(30), DayBounds, RetentionAssumption DEF Today, RetentionInv, TypeOK, Event
<1>1. TypeOK'
  BY DEF DropOlderThan, RetentionInv, TypeOK
<1>2. KeptHot'
  <2> SUFFICES ASSUME NEW e \in accepted, Day(e.ts) >= Today - HotDays PROVE e \in hot'
    BY DEF DropOlderThan, KeptHot, Today
  <2>1. e \in daily \/ e \in dflt
    BY DEF RetentionInv, StoreInv, KeptHot, hot
  <2>2. e \in daily => Day(e.ts) \in parts'
    BY DEF DropOlderThan, RetentionInv, StoreInv
  <2> QED BY <2>1, <2>2 DEF DropOlderThan, hot
<1>3. StoreInv'
  BY <1>2 DEF DropOlderThan, RetentionInv, StoreInv
<1>4. WorkerInv'
  BY DEF DropOlderThan, RetentionInv, WorkerInv, Today
<1> QED BY <1>1, <1>3, <1>4 DEF RetentionInv

\* ListAll reads the terms it will act on.
LEMMA ListAllKeeps ==
  ASSUME RetentionInv, NEW ok \in BOOLEAN, ListAll(ok)
  PROVE  RetentionInv'
<1>1. CASE ~ok
  <2>1. Return("error") /\ UNCHANGED <<now, store, cold, teed, policy, changes, accepted>>
    BY <1>1 DEF ListAll
  <2>2. changes' \in 0 .. MaxChanges
    BY <2>1 DEF RetentionInv, TypeOK
  <2> QED BY <2>1, <2>2, ReturnKeeps
<1>2. CASE ok
  <2>1. /\ step = "list" /\ step' = "today"
        /\ todo' = {[tenant |-> t, days |-> policy[t]] : t \in {u \in Tenant : policy[u] # 0}}
        /\ terms' = [t \in Tenant |-> {policy[t]}]
        /\ UNCHANGED <<now, store, cold, teed, policy, changes, wday, doomed, dropErr, result, accepted>>
    BY <1>2 DEF ListAll
  <2>2. policy \in [Tenant -> ColdDays \cup {0}] /\ doomed = {}
    BY <2>1 DEF RetentionInv, TypeOK, WorkerInv
  <2>3. /\ todo' \subseteq [tenant : Tenant, days : ColdDays]
        /\ terms' \in [Tenant -> SUBSET (ColdDays \cup {0})]
    BY SMTT(30), <2>1, <2>2
  <2>4. TypeOK'
    BY <2>1, <2>3 DEF RetentionInv, TypeOK, store
  <2>5. \A p \in todo' : p.days \in terms'[p.tenant] \ {0}
    BY SMTT(30), <2>1, <2>2
  <2>6. WorkerInv'
    BY <2>1, <2>2, <2>5 DEF RetentionInv, WorkerInv, Today
  <2> QED BY <2>1, <2>4, <2>6, StoreUntouched DEF RetentionInv
<1> QED BY <1>1, <1>2

\* The keys collected under a tenant's prefix are past a policy in force for
\* that tenant (coldpurger.go:66-119).
LEMMA CollectKeeps ==
  ASSUME RetentionInv, NEW p \in todo, Collect(p)
  PROVE  RetentionInv'
<1>1. /\ doomed' \subseteq cold
      /\ \A e \in doomed' : e.tenant = p.tenant /\ Day(e.ts) < wday - p.days
      /\ doomed' # {} => step' = "delete"
      /\ step' \in {"purge", "delete"}
      /\ todo' = todo \ {p}
      /\ UNCHANGED <<now, store, cold, teed, policy, changes, wday, dropErr, result, accepted, terms>>
  BY DEF Collect, Expired
<1>2. TypeOK'
  BY <1>1 DEF RetentionInv, TypeOK, store
<1>3. p.days \in terms[p.tenant] \ {0}
  BY DEF RetentionInv, WorkerInv
<1>4. WorkerInv'
  BY <1>1, <1>3 DEF RetentionInv, WorkerInv, Today
<1> QED BY <1>1, <1>2, <1>4, StoreUntouched DEF RetentionInv

\* The other steps of a cycle, and a restart.
LEMMA CycleKeeps ==
  ASSUME RetentionInv, Cycle \/ Restart
  PROVE  RetentionInv'
<1>1. CASE Start
  <2>1. TypeOK'
    BY <1>1 DEF Start, RetentionInv, TypeOK, store
  <2>2. WorkerInv'
    BY <1>1 DEF Start, RetentionInv, WorkerInv, Today
  <2> QED BY <1>1, <2>1, <2>2, StoreUntouched DEF Start, RetentionInv
<1>2. CASE ReadClock
  <2>0. Today \in Nat /\ wday' = Today
    <3>1. now \in Nat /\ 0 \in Int /\ Day(0) = 0
      BY SMTT(30), RetentionAssumption DEF RetentionInv, TypeOK, Day
    <3> QED BY SMTT(30), <1>2, <3>1, DayMonotone, DayBounds DEF ReadClock, Today
  <2>1. TypeOK'
    BY <1>2, <2>0 DEF ReadClock, RetentionInv, TypeOK, store
  <2>2. doomed = {} /\ doomed' = {}
    BY <1>2 DEF ReadClock, RetentionInv, WorkerInv
  <2>3. WorkerInv'
    BY SMTT(30), <1>2, <2>0, <2>2 DEF ReadClock, RetentionInv, WorkerInv, Today
  <2> QED BY <1>2, <2>1, <2>3, StoreUntouched DEF ReadClock, RetentionInv
<1>3. CASE Finish
  <2>1. Return("nil") /\ UNCHANGED <<now, store, cold, teed, policy, changes, accepted>>
    BY <1>3 DEF Finish
  <2>2. changes' \in 0 .. MaxChanges
    BY <2>1 DEF RetentionInv, TypeOK
  <2> QED BY <2>1, <2>2, ReturnKeeps
<1>4. CASE Restart
  <2>1. Return("none") /\ UNCHANGED <<now, store, cold, teed, policy, accepted>>
    BY <1>4 DEF Restart
  <2>2. changes' \in 0 .. MaxChanges
    BY SMTT(30), <1>4, RetentionAssumption DEF Restart, RetentionInv, TypeOK
  <2> QED BY <2>1, <2>2, ReturnKeeps
<1>5. ASSUME NEW gone \in SUBSET doomed, Delete(gone) PROVE RetentionInv'
  <2>1. TypeOK'
    BY <1>5 DEF Delete, RetentionInv, TypeOK, store
  <2>2. WorkerInv'
    BY <1>5 DEF Delete, RetentionInv, WorkerInv, Today
  <2> QED BY <1>5, <2>1, <2>2, StoreUntouched DEF Delete, RetentionInv
<1> QED BY <1>1, <1>2, <1>3, <1>4, <1>5, DropKeeps, ListAllKeeps, CollectKeeps DEF Cycle

\* Every step keeps the invariant.
LEMMA RetentionInvNext == RetentionInv /\ [Next]_vars => RetentionInv'
<1> SUFFICES ASSUME RetentionInv, [Next]_vars PROVE RetentionInv'
  OBVIOUS
<1>1. ASSUME NEW t \in Tenant, NEW ts \in now - Back .. now + Fwd, Append([tenant |-> t, ts |-> ts])
      PROVE  RetentionInv'
  <2>1. [tenant |-> t, ts |-> ts] \in Event
    BY SMTT(30), RetentionAssumption DEF Event, RetentionInv, TypeOK
  <2> QED BY <1>1, <2>1, AppendKeeps
<1>2. CASE UNCHANGED vars
  <2>1. TypeOK'
    BY <1>2 DEF vars, store, worker, RetentionInv, TypeOK
  <2> QED BY <1>2, <2>1, StoreUntouched, WorkerUntouched DEF vars, worker, RetentionInv
<1> QED BY <1>1, <1>2, TickKeeps, EnsureKeeps, CycleKeeps, ArchiveKeeps, UpsertKeeps DEF Next

\* The invariant holds of every reachable state.
LEMMA RetentionInvAlways == Spec => []RetentionInv
  BY RetentionInvInit, RetentionInvNext, PTL DEF Spec

\* KeptHot, for every horizon, partition lead and client clock: an accepted
\* event stays in log_events for as long as its day is within the horizon
\* (migration 000010, logstore.go:54-92, migration 000016:32-59).
THEOREM KeptHotHolds == Spec => []KeptHot
<1>1. RetentionInv => KeptHot
  BY DEF RetentionInv, StoreInv
<1> QED BY <1>1, RetentionInvAlways, PTL

\* OnItsTenantsTerms, for every number of tenants and policy changes: a cold
\* object goes only when its day is past the cold_days of a policy in force
\* for its own tenant since the cycle read the policies (retainer.go:146-202, coldpurger.go:66-162).
THEOREM OnItsTenantsTermsHolds == Spec => OnItsTenantsTerms
<1>1. RetentionInv /\ [Next]_vars =>
        [\A e \in cold \ cold' : \E n \in terms[e.tenant] \ {0} : Day(e.ts) < Today - n]_vars
  <2> SUFFICES ASSUME RetentionInv, Next, NEW e \in cold \ cold'
               PROVE  \E n \in terms[e.tenant] \ {0} : Day(e.ts) < Today - n
    OBVIOUS
  <2>1. PICK gone \in SUBSET doomed : Delete(gone)
    BY DEF Next, Tick, EnsurePartitions, Cycle, Restart, Append, Archive, Upsert, Start, ReadClock,
           Finish, DropOlderThan, ListAll, Collect, Delete
  <2>2. e \in doomed
    BY <2>1 DEF Delete
  <2>3. PICK n \in terms[e.tenant] \ {0} : Day(e.ts) < wday - n
    BY <2>2 DEF RetentionInv, WorkerInv
  <2>4. n \in Nat /\ Day(e.ts) \in Int /\ wday \in Int /\ Today \in Int /\ wday <= Today
    <3>1. e \in Event /\ terms \in [Tenant -> SUBSET (ColdDays \cup {0})] /\ now \in Nat /\ wday \in Nat
      BY <2>2 DEF RetentionInv, TypeOK
    <3>2. n \in Nat
      BY <3>1, RetentionAssumption DEF Event
    <3> QED BY SMTT(30), <3>1, <3>2, DayBounds DEF Event, Today, RetentionInv, WorkerInv
  <2> QED BY SMTT(30), <2>3, <2>4
<1> QED BY <1>1, RetentionInvAlways, PTL DEF Spec, OnItsTenantsTerms

-----------------------------------------------------------------------------
(* The n newest rows of a set *)

\* A row that ORDER BY ts DESC LIMIT n leaves out was pushed out by n rows at
\* least as new.
LEMMA NewestKeeps ==
  ASSUME NEW S, NEW n, NEW T \in Newest(S, n), NEW x \in S
  PROVE  x \in T \/ (Cardinality(T) = n /\ \A y \in T : y.event.ts >= x.event.ts)
  BY DEF Newest

\* The same through a second trim, of a union (mergeTieredResults): a row that
\* is in one of the trimmed halves, or was pushed out of it, is in the page or
\* pushed out of it.
LEMMA NewestOfUnion ==
  ASSUME NEW U, IsFiniteSet(U), NEW A, IsFiniteSet(A), NEW n \in Nat,
         NEW T \in Newest(A \cup U, n), NEW x, x.event.ts \in Int,
         x \in U \/ (Cardinality(U) = n /\ \A y \in U : y.event.ts >= x.event.ts),
         \A y \in U \cup A : y.event.ts \in Int
  PROVE  x \in T \/ (Cardinality(T) = n /\ \A y \in T : y.event.ts >= x.event.ts)
<1>0. T \subseteq A \cup U /\ Cardinality(T) <= n
  BY DEF Newest
<1>1. IsFiniteSet(A \cup U)
  BY FS_Union
<1>2. IsFiniteSet(T) /\ Cardinality(T) \in Nat
  BY <1>0, <1>1, FS_Subset, FS_CardinalityType
<1>3. CASE x \in U
  BY SMTT(30), <1>3, NewestKeeps
<1>4. CASE x \notin U
  <2>1. Cardinality(U) = n /\ \A y \in U : y.event.ts >= x.event.ts
    BY <1>4
  <2>2. U \subseteq T => T = U
    <3> SUFFICES ASSUME U \subseteq T PROVE T = U
      OBVIOUS
    <3>1. Cardinality(U) <= Cardinality(T) /\ (Cardinality(T) = Cardinality(U) => T = U)
      BY <1>2, FS_Subset
    <3> QED BY SMTT(30), <3>1, <2>1, <1>0, <1>2
  <2>3. CASE U \subseteq T
    BY <2>1, <2>2, <2>3
  <2>4. CASE ~(U \subseteq T)
    <3>1. PICK z \in U : z \notin T
      BY <2>4
    <3>2. Cardinality(T) = n /\ \A y \in T : y.event.ts >= z.event.ts
      BY SMTT(30), <3>1, NewestKeeps
    <3>3. z.event.ts >= x.event.ts /\ z.event.ts \in Int
      BY <3>1, <2>1
    <3>4. ASSUME NEW y \in T PROVE y.event.ts >= x.event.ts
      <4>1. y.event.ts \in Int /\ y.event.ts >= z.event.ts
        BY <3>2, <1>0
      <4> QED BY SMTT(30), <4>1, <3>3
    <3> QED BY <3>2, <3>4
  <2> QED BY <2>3, <2>4
<1> QED BY <1>3, <1>4

\* The rows of a finite set of events are finitely many.
LEMMA RowsFinite ==
  ASSUME NEW S, IsFiniteSet(S), NEW tier
  PROVE  IsFiniteSet(Rows(S, tier))
<1> DEFINE f == [e \in S |-> Row(e, tier)]
<1>1. f \in Surjection(S, Rows(S, tier))
  BY DEF Surjection, Rows
<1> QED BY <1>1, FS_Surjection

-----------------------------------------------------------------------------
(* TieredSearch *)

\* The search has not taken longer than MaxDelay from its cutoff.
Timed ==
  /\ cut + QueryHotDays * PerDay <= now
  /\ now <= cut + QueryHotDays * PerDay + MaxDelay

\* What a split search has to find, and in which half.
HalfOf(r) ==
  \/ r.tier = "hot" /\ InWindow(r.event, HotHalf(win))
  \/ r.tier = "cold" /\ InWindow(r.event, win) /\ r.event.ts < cut

\* What the hot half has made of a row it had to find.
HotHalfDone(r) ==
  \/ r \in page
  \/ "hot" \in failed
  \/ Cardinality(page) = Limit /\ \A x \in page : x.event.ts >= r.event.ts
  \/ r.event \notin hot

\* The search, by where it stands.
PlaceInv ==
  /\ at \in {"idle", "hot", "cold", "union"} => ~split
  /\ at \in {"hot", "cold"} => \A r \in had : r.tier = at /\ InWindow(r.event, win)
  /\ at \in {"union", "read_hot", "read_cold"} => win.from = Open \/ win.from < cut
  /\ at \in {"read_hot", "read_cold"} => split /\ \A r \in had : HalfOf(r)
  /\ at = "read_cold" =>
       /\ page \subseteq Rows({e \in accepted : InWindow(e, HotHalf(win))}, "hot")
       /\ \A r \in had : r.tier = "hot" => HotHalfDone(r)

SearchInv ==
  /\ RetentionInv
  /\ at \in {"idle", "hot", "cold", "union", "read_hot", "read_cold", "done"}
  /\ win \in Window /\ cut \in Int
  /\ at \in {"hot", "cold", "union", "read_hot", "read_cold"} => Timed
  /\ had \subseteq Rows(accepted, "hot") \cup Rows(accepted, "cold")
  /\ PlaceInv
  /\ NothingLostBetweenTiers /\ TwiceOnlyOnTheCutoffDay

\* The numbers of a search.
LEMMA SearchNumbers ==
  /\ QueryHotDays \in Nat /\ QueryHotDays <= HotDays /\ HotDays \in Nat /\ PerDay \in Nat \ {0}
  /\ QueryHotDays * PerDay \in Nat /\ MaxDelay \in Nat /\ MaxDelay <= PerDay
  /\ Open \in Int /\ MaxTime < Open /\ MaxTime \in Nat /\ Limit \in Nat
<1>1. /\ QueryHotDays \in Nat /\ QueryHotDays <= HotDays /\ HotDays \in Nat /\ PerDay \in Nat \ {0}
      /\ MaxDelay \in Nat /\ MaxDelay <= PerDay /\ Limit \in Nat
  BY SMTT(30), RetentionAssumption, TieredAssumption
<1>2. QueryHotDays * PerDay \in Nat
  BY SMTT(30), <1>1
<1>3. Open \in Int /\ MaxTime < Open /\ MaxTime \in Nat
  BY SMTT(30), RetentionAssumption DEF Open
<1> QED BY <1>1, <1>2, <1>3

\* A fresh cutoff is in time, and is no instant a query leaves open.
LEMMA FreshCutoff ==
  ASSUME RetentionInv
  PROVE  /\ hotCutoff \in Int /\ hotCutoff < Open
         /\ hotCutoff + QueryHotDays * PerDay = now /\ now \in Nat
<1>1. now \in Nat /\ now <= MaxTime
  BY DEF RetentionInv, TypeOK, StoreInv
<1>2. PICK h \in Nat : h = QueryHotDays * PerDay
  BY SearchNumbers
<1> QED BY SMTT(30), <1>1, <1>2, SearchNumbers DEF hotCutoff

\* An event that has left Postgres while a split search was under way is of the
\* cutoff's day at the latest: the cold half, which reads that whole day, has
\* it (tiered_search.go:193-223).
LEMMA GoneIsCold ==
  ASSUME RetentionInv, cut \in Int, Timed, NEW e \in accepted, e \notin hot
  PROVE  Day(e.ts) <= Day(cut)
<1>0. e.ts \in Int /\ now \in Int
  BY SMTT(30) DEF RetentionInv, TypeOK, Event
<1>1. PICK b \in Nat \ {0}, q \in Nat, c \in Int, d \in Int :
        b = PerDay /\ q = QueryHotDays /\ c = Day(cut) /\ d = Day(e.ts)
  BY <1>0, SearchNumbers, DayBounds
<1>2. Today \in Int /\ d < Today - q
  <2>1. Today \in Int /\ ~(d >= Today - HotDays)
    BY <1>0, <1>1, DayBounds DEF RetentionInv, StoreInv, KeptHot, Today
  <2> QED BY SMTT(30), <2>1, <1>1, SearchNumbers
<1>3. now < (c + q + 2) * b
  <2>1. cut < c * b + b
    BY <1>1, DayBounds
  <2>2. now <= cut + q * b + b
    <3>1. PICK h \in Nat : h = q * b
      BY SMTT(30), <1>1
    <3>2. now <= cut + h + MaxDelay
      BY <1>1, <3>1 DEF Timed
    <3> QED BY SMTT(30), <3>1, <3>2, <1>0, <1>1, SearchNumbers
  <2>3. (c + q + 2) * b = c * b + q * b + b + b /\ c * b \in Int /\ q * b \in Int
    BY SMTT(30)
  <2> QED BY SMTT(30), <2>1, <2>2, <2>3, <1>0
<1>4. Today < c + q + 2
  BY SMTT(30), <1>0, <1>1, <1>3, DayBefore DEF Today
<1> QED BY SMTT(30), <1>1, <1>2, <1>4

\* No search yet.
LEMMA SearchInvInit == SearchInit => SearchInv
<1> SUFFICES ASSUME SearchInit PROVE SearchInv
  OBVIOUS
<1>1. RetentionInv
  BY RetentionInvInit DEF SearchInit
<1>2. win \in Window
  <2>1. Tenant # {}
    BY TieredAssumption
  <2> QED BY <2>1 DEF SearchInit, NoQuery, Window
<1>3. at = "idle" /\ ~split /\ had = {} /\ cut \in Int
  BY SMTT(30) DEF SearchInit
<1>4. PlaceInv
  BY <1>3 DEF PlaceInv
<1>5. NothingLostBetweenTiers /\ TwiceOnlyOnTheCutoffDay
  BY <1>3 DEF NothingLostBetweenTiers, TwiceOnlyOnTheCutoffDay
<1> QED BY <1>1, <1>2, <1>3, <1>4, <1>5 DEF SearchInv

\* What goes on underneath never brings an event back into Postgres.
LEMMA GoneStaysGone ==
  ASSUME RetentionInv, Next
  PROVE  /\ accepted \subseteq accepted'
         /\ \A e \in accepted \ hot : e \notin hot'
         /\ now' = now \/ now' = now + 1
  BY DEF Next, Tick, EnsurePartitions, Cycle, Restart, Append, Archive, Upsert, Start, ReadClock,
         Finish, DropOlderThan, ListAll, Collect, Delete, hot, store, RetentionInv, StoreInv

\* A row of an event keeps being one as more events arrive.
LEMMA RowsGrow ==
  ASSUME NEW S, NEW T, S \subseteq T, NEW tier
  PROVE  Rows(S, tier) \subseteq Rows(T, tier)
  BY DEF Rows

\* The clock, the store and the worker leave what is known of a search alone:
\* only time and what is gone matter to it, and the search is in time.
LEMMA UnderneathKeeps ==
  ASSUME SearchInv, Underneath
  PROVE  SearchInv'
<1>1. RetentionInv'
  BY RetentionInvNext DEF SearchInv, Underneath
<1>2. /\ accepted \subseteq accepted'
      /\ \A e \in accepted \ hot : e \notin hot'
      /\ now' = now \/ now' = now + 1
  BY GoneStaysGone DEF SearchInv, Underneath
<1>3. /\ at' = at /\ win' = win /\ cut' = cut /\ split' = split /\ page' = page
      /\ failed' = failed /\ had' = had /\ at # "done"
  BY DEF Underneath, svars
<1>4. at \in {"hot", "cold", "union", "read_hot", "read_cold"} => Timed'
  <2> SUFFICES ASSUME at \in {"hot", "cold", "union", "read_hot", "read_cold"} PROVE Timed'
    OBVIOUS
  <2>1. PICK h \in Nat : h = QueryHotDays * PerDay
    BY SearchNumbers
  <2>2. cut + h <= now /\ now <= cut + h + MaxDelay /\ cut \in Int /\ now \in Nat
    BY <2>1 DEF SearchInv, Timed, RetentionInv, TypeOK
  <2>3. now' = now + 1 => now < cut + h + MaxDelay
    BY SMTT(30), <2>1, <2>2 DEF Underneath, InTime
  <2>4. cut' + h <= now' /\ now' <= cut' + h + MaxDelay
    BY SMTT(30), <1>2, <1>3, <2>2, <2>3, SearchNumbers
  <2> QED BY <2>1, <2>4 DEF Timed
<1>5. had' \subseteq Rows(accepted', "hot") \cup Rows(accepted', "cold")
  BY <1>2, <1>3, RowsGrow DEF SearchInv
<1>6. ASSUME at = "read_cold"
      PROVE  /\ page' \subseteq Rows({e \in accepted' : InWindow(e, HotHalf(win)')}, "hot")
             /\ \A r \in had' : r.tier = "hot" => HotHalfDone(r)'
  <2>1. page' \subseteq Rows({e \in accepted' : InWindow(e, HotHalf(win)')}, "hot")
    <3>1. {e \in accepted : InWindow(e, HotHalf(win))} \subseteq {e \in accepted' : InWindow(e, HotHalf(win)')}
      BY <1>2, <1>3 DEF HotHalf
    <3>2. page \subseteq Rows({e \in accepted : InWindow(e, HotHalf(win))}, "hot")
      BY <1>6 DEF SearchInv, PlaceInv
    <3> QED BY <3>1, <3>2, <1>3, RowsGrow
  <2>2. ASSUME NEW r \in had, r.tier = "hot" PROVE HotHalfDone(r)'
    <3>1. r.event \in accepted
      BY SMTT(30) DEF SearchInv, Rows, Row
    <3>2. HotHalfDone(r)
      BY <1>6, <2>2 DEF SearchInv, PlaceInv
    <3> QED BY <3>1, <3>2, <1>2, <1>3 DEF HotHalfDone
  <2> QED BY <1>3, <2>1, <2>2
<1>7. PlaceInv'
  BY <1>3, <1>6 DEF SearchInv, PlaceInv, HalfOf, HotHalf, InWindow, Open
<1> QED BY <1>1, <1>3, <1>4, <1>5, <1>7
        DEF SearchInv, NothingLostBetweenTiers, TwiceOnlyOnTheCutoffDay, Window, Open

\* The types of a window and of a row that a search has to find.
LEMMA WindowTypes ==
  ASSUME SearchInv
  PROVE  /\ win.from \in Int /\ win.to \in Int /\ cut \in Int
         /\ \A e \in accepted : e.ts \in Int
         /\ hot \subseteq accepted /\ cold \subseteq accepted /\ IsFiniteSet(accepted)
         /\ \A r \in had : r = Row(r.event, r.tier) /\ r.event \in accepted
<1>1. win.from \in Int /\ win.to \in Int /\ cut \in Int
  BY SearchNumbers, TieredAssumption DEF SearchInv, Window
<1>2. \A e \in accepted : e.ts \in Int
  BY DEF SearchInv, RetentionInv, TypeOK, Event
<1>3. hot \subseteq accepted /\ cold \subseteq accepted /\ IsFiniteSet(accepted)
  BY DEF SearchInv, RetentionInv, TypeOK, StoreInv, hot
<1>4. \A r \in had : r = Row(r.event, r.tier) /\ r.event \in accepted
  BY SMTT(30) DEF SearchInv, Rows, Row
<1> QED BY <1>1, <1>2, <1>3, <1>4

\* A query is routed: a window that the router calls a union begins before the
\* cutoff (tiered_search.go:141-191).
LEMMA RouteKeeps ==
  ASSUME SearchInv, NEW w \in Window, Route(w)
  PROVE  SearchInv'
<1>1. RetentionInv /\ RetentionInv'
  BY RetentionInvNext DEF SearchInv, Route
<1>2. /\ UNCHANGED vars /\ win' = w /\ cut' = hotCutoff /\ at' = classifyTier(w)
      /\ had' = IF at' = "union" THEN {} ELSE Findable(w, at')
      /\ at = "idle" /\ split' = split
  BY DEF Route
<1>3. UNCHANGED <<now, accepted, hot, cold>>
  BY <1>2 DEF vars, store, hot
<1>4. at' \in {"hot", "cold", "union"}
  BY <1>2 DEF classifyTier
<1>5. at' = "union" => w.from = Open \/ w.from < hotCutoff
  <2>1. hotCutoff \in Int /\ w.from \in Int
    BY <1>1, FreshCutoff, SearchNumbers, TieredAssumption DEF Window
  <2> QED BY SMTT(30), <1>2, <2>1 DEF classifyTier
<1>6. cut' \in Int /\ Timed'
  BY SMTT(30), <1>1, <1>2, <1>3, FreshCutoff, SearchNumbers DEF Timed
<1>7. hot \subseteq accepted /\ cold \subseteq accepted
  BY WindowTypes
<1>8. /\ had' \subseteq Rows(accepted', "hot") \cup Rows(accepted', "cold")
      /\ at' \in {"hot", "cold"} => \A r \in had' : r.tier = at' /\ InWindow(r.event, w)
  BY SMTT(30), <1>2, <1>3, <1>4, <1>7 DEF Findable, Rows, Row
<1>9. ~split
  BY <1>2 DEF SearchInv, PlaceInv
<1>10. PlaceInv'
  BY <1>2, <1>4, <1>5, <1>8, <1>9 DEF PlaceInv, InWindow, Open
<1> QED BY <1>1, <1>2, <1>4, <1>6, <1>8, <1>10
        DEF SearchInv, NothingLostBetweenTiers, TwiceOnlyOnTheCutoffDay, Window, Open

\* A search of the hot tier alone: what it had to find it finds, unless it was
\* pushed out of the page or has been dropped (tiered_search.go:129-133).
LEMMA HotOnlyKeeps ==
  ASSUME SearchInv, NEW ok \in BOOLEAN, HotOnly(ok)
  PROVE  SearchInv'
<1>1. RetentionInv'
  BY RetentionInvNext DEF SearchInv, HotOnly
<1>2. /\ UNCHANGED <<vars, win, cut, split, had>> /\ at = "hot" /\ at' = "done"
      /\ page' \in IF ok THEN HotRows(win) ELSE {{}}
      /\ failed' = IF ok THEN {} ELSE {"hot"}
  BY DEF HotOnly
<1>3. UNCHANGED <<now, accepted, hot, cold>>
  BY <1>2 DEF vars, store, hot
<1>4. ~split /\ \A r \in had : r.tier = "hot" /\ InWindow(r.event, win)
  BY <1>2 DEF SearchInv, PlaceInv
<1>5. NothingLostBetweenTiers'
  <2> SUFFICES ASSUME NEW r \in had
               PROVE  \/ \E x \in page' : x.event = r.event
                      \/ r.tier \in failed'
                      \/ Cardinality(page') = Limit /\ \A x \in page' : x.event.ts >= r.event.ts
                      \/ r.tier = "hot" /\ r.event \notin hot
    BY <1>2, <1>3, <1>4 DEF NothingLostBetweenTiers, Answers
  <2>1. CASE ok /\ r.event \in hot
    <3> DEFINE S == Rows({e \in hot : InWindow(e, win)}, "hot")
    <3>1. page' \in Newest(S, Limit)
      BY <1>2, <2>1 DEF HotRows
    <3>2. r \in S
      BY <1>4, <2>1, WindowTypes DEF Rows
    <3> QED BY <3>1, <3>2, NewestKeeps
  <2> QED BY <1>2, <1>4, <2>1
<1>6. TwiceOnlyOnTheCutoffDay'
  <2>1. \A x \in page' : x.tier = "hot"
    BY SMTT(30), <1>2 DEF HotRows, Newest, Rows, Row
  <2> QED BY <2>1 DEF TwiceOnlyOnTheCutoffDay, Row
<1> QED BY <1>1, <1>2, <1>3, <1>5, <1>6 DEF SearchInv, PlaceInv, Window, Open

\* A search of the cold tier alone, which reads whole days and so more than the
\* window (coldstore/query.go:32-102).
LEMMA ColdOnlyKeeps ==
  ASSUME SearchInv, NEW ok \in BOOLEAN, ColdOnly(ok)
  PROVE  SearchInv'
<1>1. RetentionInv'
  BY RetentionInvNext DEF SearchInv, ColdOnly
<1>2. /\ UNCHANGED <<vars, win, cut, split, had>> /\ at = "cold" /\ at' = "done"
      /\ page' \in IF ok THEN ColdRows(win) ELSE {{}}
      /\ failed' = IF ok THEN {} ELSE {"cold"}
  BY DEF ColdOnly
<1>3. UNCHANGED <<now, accepted, hot, cold>>
  BY <1>2 DEF vars, store, hot
<1>4. \A r \in had : r.tier = "cold" /\ InWindow(r.event, win)
  BY <1>2 DEF SearchInv, PlaceInv
<1>5. NothingLostBetweenTiers'
  <2> SUFFICES ASSUME NEW r \in had
               PROVE  \/ \E x \in page' : x.event = r.event
                      \/ r.tier \in failed'
                      \/ Cardinality(page') = Limit /\ \A x \in page' : x.event.ts >= r.event.ts
                      \/ r.tier = "cold" /\ r.event \notin cold
    BY <1>2, <1>3, <1>4 DEF NothingLostBetweenTiers, Answers
  <2>1. CASE ok /\ r.event \in cold
    <3> DEFINE S == Rows({e \in cold :
                       /\ e.tenant = win.tenant
                       /\ win.from = Open \/ Day(e.ts) >= Day(win.from)
                       /\ win.to = Open \/ Day(e.ts) <= Day(win.to)}, "cold")
    <3>1. page' \in Newest(S, Limit)
      BY <1>2, <2>1 DEF ColdRows
    <3>2. InWindow(r.event, win) /\ r.event.ts \in Int /\ win.from \in Int /\ win.to \in Int
      BY <1>4, WindowTypes
    <3>3. win.from = Open \/ Day(r.event.ts) >= Day(win.from)
      BY <3>2, DayMonotone, DayBounds DEF InWindow
    <3>4. win.to = Open \/ Day(r.event.ts) <= Day(win.to)
      BY SMTT(30), <3>2, DayMonotone DEF InWindow
    <3>5. r \in S
      BY <1>4, <2>1, <3>2, <3>3, <3>4, WindowTypes DEF Rows, InWindow
    <3> QED BY <3>1, <3>5, NewestKeeps
  <2> QED BY <1>2, <1>4, <2>1
<1>6. TwiceOnlyOnTheCutoffDay'
  <2>1. \A x \in page' : x.tier = "cold"
    <3>1. CASE ok
      <4>1. page' \in ColdRows(win)
        BY <1>2, <3>1
      <4> QED BY SMTT(30), <4>1 DEF ColdRows, Newest, Rows, Row
    <3>2. CASE ~ok
      BY <1>2, <3>2
    <3> QED BY <3>1, <3>2
  <2> QED BY <2>1 DEF TwiceOnlyOnTheCutoffDay, Row
<1> QED BY <1>1, <1>2, <1>3, <1>5, <1>6 DEF SearchInv, PlaceInv, Window, Open

\* unionSearch settles on a fresh cutoff, no earlier than the router's.
LEMMA SplitKeeps ==
  ASSUME SearchInv, Split
  PROVE  SearchInv'
<1>1. RetentionInv /\ RetentionInv'
  BY RetentionInvNext DEF SearchInv, Split
<1>2. /\ UNCHANGED <<vars, win, page, failed>> /\ at = "union" /\ at' = "read_hot"
      /\ cut' = hotCutoff /\ split' = TRUE
      /\ had' = Findable([win EXCEPT !.from = cut'], "hot")
                \cup {r \in Findable(win, "cold") : r.event.ts < cut'}
  BY DEF Split
<1>3. UNCHANGED <<now, accepted, hot, cold>>
  BY <1>2 DEF vars, store, hot
<1>4. cut' \in Int /\ Timed'
  BY SMTT(30), <1>1, <1>2, <1>3, FreshCutoff, SearchNumbers DEF Timed
<1>5. win.from = Open \/ win.from < cut'
  <2>1. PICK h \in Nat : h = QueryHotDays * PerDay
    BY SearchNumbers
  <2>2. cut + h <= now /\ cut' + h = now /\ now \in Nat
    BY <1>1, <1>2, <2>1, FreshCutoff DEF SearchInv, Timed
  <2>3. win.from = Open \/ win.from < cut
    BY <1>2 DEF SearchInv, PlaceInv
  <2>4. win.from \in Int /\ cut \in Int
    BY WindowTypes
  <2>5. cut <= cut'
    BY SMTT(30), <2>1, <2>2, <2>4, <1>4
  <2> QED BY SMTT(30), <2>3, <2>4, <2>5, <1>4
<1>6. hot \subseteq accepted /\ cold \subseteq accepted
  BY WindowTypes
<1>7. /\ had' \subseteq Rows(accepted', "hot") \cup Rows(accepted', "cold")
  BY <1>2, <1>3, <1>6 DEF Findable, Rows, Row
<1>8. \A r \in had' : HalfOf(r)'
  BY SMTT(30), <1>2 DEF HalfOf, HotHalf, Findable, Row
<1>9. PlaceInv'
  BY <1>2, <1>5, <1>8 DEF PlaceInv, Open
<1> QED BY <1>1, <1>2, <1>4, <1>7, <1>9
        DEF SearchInv, NothingLostBetweenTiers, TwiceOnlyOnTheCutoffDay, Window, Open

\* The hot half.
LEMMA ReadHotHalfKeeps ==
  ASSUME SearchInv, NEW ok \in BOOLEAN, ReadHotHalf(ok)
  PROVE  SearchInv'
<1>1. RetentionInv'
  BY RetentionInvNext DEF SearchInv, ReadHotHalf
<1>2. /\ UNCHANGED <<vars, win, cut, split, had>> /\ at = "read_hot" /\ at' = "read_cold"
      /\ page' \in IF ok THEN HotRows(HotHalf(win)) ELSE {{}}
      /\ failed' = IF ok THEN {} ELSE {"hot"}
  BY DEF ReadHotHalf
<1>3. UNCHANGED <<now, accepted, hot, cold>>
  BY <1>2 DEF vars, store, hot
<1>4. HotHalf(win)' = HotHalf(win)
  BY <1>2 DEF HotHalf
<1>5. page' \subseteq Rows({e \in accepted : InWindow(e, HotHalf(win))}, "hot")
  <2> DEFINE S == {e \in hot : InWindow(e, HotHalf(win))}
  <2>1. page' \subseteq Rows(S, "hot")
    BY <1>2 DEF HotRows, Newest
  <2>2. S \subseteq {e \in accepted : InWindow(e, HotHalf(win))}
    BY WindowTypes
  <2> QED BY <2>1, <2>2, RowsGrow
<1>6. ASSUME NEW r \in had, r.tier = "hot" PROVE HotHalfDone(r)'
  <2>1. CASE ok /\ r.event \in hot
    <3> DEFINE S == Rows({e \in hot : InWindow(e, HotHalf(win))}, "hot")
    <3>1. page' \in Newest(S, Limit)
      BY <1>2, <2>1 DEF HotRows
    <3>2. InWindow(r.event, HotHalf(win))
      BY <1>2, <1>6 DEF SearchInv, PlaceInv, HalfOf
    <3>3. r \in S
      BY <1>6, <2>1, <3>2, WindowTypes DEF Rows
    <3> QED BY <3>1, <3>3, NewestKeeps DEF HotHalfDone
  <2> QED BY <1>2, <1>3, <2>1 DEF HotHalfDone
<1>7. \A r \in had : HalfOf(r)'
  BY <1>2, <1>4 DEF SearchInv, PlaceInv, HalfOf
<1>8. PlaceInv'
  BY <1>2, <1>3, <1>4, <1>5, <1>6, <1>7 DEF SearchInv, PlaceInv, Open
<1>9. Timed'
  BY <1>2, <1>3 DEF SearchInv, Timed
<1> QED BY <1>1, <1>2, <1>3, <1>8, <1>9
        DEF SearchInv, NothingLostBetweenTiers, TwiceOnlyOnTheCutoffDay, Window, Open

\* The events the cold half reads: those of the whole cutoff day included.
ColdHalfEvents ==
  {e \in cold : /\ e.tenant = win.tenant
                /\ win.from = Open \/ Day(e.ts) >= Day(win.from)
                /\ cut = Open \/ Day(e.ts) <= Day(cut)}

\* What a split search had to find and the cold tier still has is among them,
\* also what has meanwhile gone from Postgres.
LEMMA ColdHalfHas ==
  ASSUME SearchInv, at = "read_cold", NEW r \in had, r.event \in cold,
         r.tier = "cold" \/ r.event \notin hot
  PROVE  Row(r.event, "cold") \in Rows(ColdHalfEvents, "cold")
<1>0. /\ r.event.ts \in Int /\ win.from \in Int /\ win.to \in Int /\ cut \in Int
      /\ r.event \in accepted
  BY WindowTypes
<1>1. HalfOf(r) /\ (win.from = Open \/ win.from < cut) /\ Timed /\ RetentionInv
  BY DEF SearchInv, PlaceInv
<1>2. CASE r.tier = "cold"
  <2>1. InWindow(r.event, win) /\ r.event.ts < cut
    BY <1>1, <1>2 DEF HalfOf
  <2>2. Day(r.event.ts) <= Day(cut)
    BY SMTT(30), <2>1, <1>0, DayMonotone
  <2>3. win.from = Open \/ Day(r.event.ts) >= Day(win.from)
    BY <2>1, <1>0, DayMonotone, DayBounds DEF InWindow
  <2> QED BY <2>1, <2>2, <2>3 DEF Rows, ColdHalfEvents, InWindow
<1>3. CASE r.tier # "cold"
  <2>1. InWindow(r.event, HotHalf(win)) /\ r.event \notin hot
    BY <1>1, <1>3 DEF HalfOf
  <2>2. Day(r.event.ts) <= Day(cut)
    BY <1>0, <1>1, <2>1, GoneIsCold
  <2>3. r.event.tenant = win.tenant /\ (cut = Open \/ r.event.ts >= cut)
    BY <2>1 DEF InWindow, HotHalf, SearchInv, Window
  <2>4. cut < Open
    <3>1. PICK h \in Nat : h = QueryHotDays * PerDay
      BY SearchNumbers
    <3>2. cut + h <= now /\ now \in Nat /\ now <= MaxTime
      BY <1>1, <3>1 DEF Timed, RetentionInv, TypeOK, StoreInv
    <3> QED BY SMTT(30), <3>2, <1>0, SearchNumbers
  <2>5. win.from = Open \/ win.from <= r.event.ts
    BY SMTT(30), <1>0, <1>1, <2>3, <2>4, SearchNumbers
  <2>6. win.from = Open \/ Day(r.event.ts) >= Day(win.from)
    BY <2>5, <1>0, DayMonotone, DayBounds
  <2> QED BY <2>2, <2>3, <2>6 DEF Rows, ColdHalfEvents
<1> QED BY <1>2, <1>3

\* The cold half and the merge: together with the hot half they account for
\* everything the search had to find, and an event comes twice only if it is
\* of the day both halves read (tiered_search.go:226-309).
LEMMA ReadColdHalfKeeps ==
  ASSUME SearchInv, NEW ok \in BOOLEAN, ReadColdHalf(ok)
  PROVE  SearchInv'
<1>1. RetentionInv'
  BY RetentionInvNext DEF SearchInv, ReadColdHalf
<1>2. /\ UNCHANGED <<vars, win, cut, split, had>> /\ at = "read_cold" /\ at' = "done"
      /\ failed' = IF ok THEN failed ELSE failed \cup {"cold"}
  BY DEF ReadColdHalf
<1>3. UNCHANGED <<now, accepted, hot, cold>>
  BY <1>2 DEF vars, store, hot
<1>4. PICK rows \in IF ok THEN ColdRows(ColdHalf(win)) ELSE {{}} : page' \in Newest(page \cup rows, Limit)
  BY DEF ReadColdHalf, Merge
<1> DEFINE S == Rows(ColdHalfEvents, "cold")
           H == Rows({e \in accepted : InWindow(e, HotHalf(win))}, "hot")
<1>5. ok => rows \in Newest(S, Limit)
  <2>1. /\ ColdHalf(win).tenant = win.tenant /\ ColdHalf(win).from = win.from
        /\ ColdHalf(win).to = cut
    BY DEF ColdHalf, SearchInv, Window
  <2> QED BY <1>4, <2>1 DEF ColdRows, ColdHalfEvents
<1>6. rows \subseteq S /\ page \subseteq H
  BY <1>2, <1>4, <1>5 DEF Newest, SearchInv, PlaceInv
<1>7. IsFiniteSet(rows) /\ IsFiniteSet(page)
  <2>1. ColdHalfEvents \subseteq accepted /\ IsFiniteSet(accepted)
    BY WindowTypes DEF ColdHalfEvents
  <2>2. IsFiniteSet(S)
    BY <2>1, FS_Subset, RowsFinite
  <2>3. IsFiniteSet(H)
    BY <2>1, FS_Subset, RowsFinite
  <2> QED BY <2>2, <2>3, <1>6, FS_Subset
<1>8. \A y \in page \cup rows : y.event.ts \in Int
  BY SMTT(30), <1>6, WindowTypes DEF Rows, Row, ColdHalfEvents
<1>9. NothingLostBetweenTiers'
  <2> DEFINE Full(x) == Cardinality(page') = Limit /\ \A y \in page' : y.event.ts >= x.event.ts
  <2> SUFFICES ASSUME NEW r \in had
               PROVE  \/ \E x \in page' : x.event = r.event
                      \/ r.tier \in failed'
                      \/ Full(r)
                      \/ r.tier = "cold" /\ r.event \notin cold
                      \/ r.tier = "hot" /\ r.event \notin hot /\ (r.event \notin cold \/ "cold" \in failed')
    BY <1>2, <1>3 DEF NothingLostBetweenTiers, Answers
  <2>0. r.tier \in {"hot", "cold"} /\ r.event.ts \in Int /\ Limit \in Nat
    BY <1>2, WindowTypes, SearchNumbers DEF SearchInv, PlaceInv, HalfOf
  <2>1. CASE ok /\ r.event \in cold /\ (r.tier = "cold" \/ r.event \notin hot)
    <3>1. PICK x : x = Row(r.event, "cold")
      OBVIOUS
    <3>2. x \in S /\ x.event = r.event
      BY <1>2, <2>1, <3>1, ColdHalfHas DEF Row
    <3>3. x \in rows \/ (Cardinality(rows) = Limit /\ \A y \in rows : y.event.ts >= x.event.ts)
      BY <1>5, <2>1, <3>2, NewestKeeps
    <3>4. x \in page' \/ Full(x)
      <4>1. x.event.ts \in Int
        BY <2>0, <3>2
      <4> QED BY SMTT(30), <1>4, <1>7, <1>8, <2>0, <4>1, <3>3, NewestOfUnion
    <3> QED BY <3>2, <3>4
  <2>2. CASE r.tier = "hot" /\ (r \in page
                \/ (Cardinality(page) = Limit /\ \A y \in page : y.event.ts >= r.event.ts))
    <3>1. page \cup rows = rows \cup page
      OBVIOUS
    <3>2. r \in page' \/ Full(r)
      BY SMTT(30), <1>4, <1>7, <1>8, <2>0, <2>2, <3>1, NewestOfUnion
    <3> QED BY <3>2
  <2>3. CASE r.tier = "hot" /\ "hot" \in failed
    BY <1>2, <2>3
  <2>4. r.tier = "hot" => HotHalfDone(r)
    BY <1>2 DEF SearchInv, PlaceInv
  <2> QED BY <1>2, <2>0, <2>1, <2>2, <2>3, <2>4 DEF HotHalfDone
<1>10. TwiceOnlyOnTheCutoffDay'
  <2> SUFFICES ASSUME NEW e \in accepted, Row(e, "hot") \in page', Row(e, "cold") \in page'
               PROVE  Day(e.ts) = Day(cut)
    BY <1>2, <1>3 DEF TwiceOnlyOnTheCutoffDay
  <2>1. page' \subseteq H \cup S
    BY <1>4, <1>6 DEF Newest
  <2>2. e \in ColdHalfEvents /\ InWindow(e, HotHalf(win))
    BY <2>1 DEF Rows, Row
  <2>3. cut < Open /\ cut \in Int /\ e.ts \in Int
    <3>1. PICK h \in Nat : h = QueryHotDays * PerDay
      BY SearchNumbers
    <3>2. cut + h <= now /\ now \in Nat /\ now <= MaxTime
      BY <1>2, <3>1 DEF SearchInv, Timed, RetentionInv, TypeOK, StoreInv
    <3>3. cut \in Int /\ e.ts \in Int
      BY WindowTypes
    <3> QED BY SMTT(30), <3>2, <3>3, SearchNumbers
  <2>4. cut = Open \/ e.ts >= cut
    BY <2>2 DEF InWindow, HotHalf, SearchInv, Window
  <2>5. cut = Open \/ Day(e.ts) <= Day(cut)
    BY <2>2 DEF ColdHalfEvents
  <2>6. Day(cut) <= Day(e.ts)
    BY SMTT(30), <2>3, <2>4, DayMonotone, SearchNumbers
  <2> QED BY SMTT(30), <2>3, <2>5, <2>6, DayBounds, SearchNumbers
<1> QED BY <1>1, <1>2, <1>3, <1>9, <1>10 DEF SearchInv, PlaceInv, Window, Open

\* Every step of the search and of what goes on underneath keeps the invariant.
LEMMA SearchInvNext == SearchInv /\ [Search \/ Underneath]_tvars => SearchInv'
<1> SUFFICES ASSUME SearchInv, [Search \/ Underneath]_tvars PROVE SearchInv'
  OBVIOUS
<1>1. CASE UNCHANGED tvars
  <2>1. RetentionInv'
    BY <1>1, RetentionInvNext DEF SearchInv, tvars
  <2>2. UNCHANGED svars /\ UNCHANGED <<now, accepted, hot, cold>>
    BY <1>1 DEF tvars, svars, vars, store, hot
  <2> QED BY <2>1, <2>2
          DEF SearchInv, svars, Timed, PlaceInv, HalfOf, HotHalf, HotHalfDone, NothingLostBetweenTiers,
              TwiceOnlyOnTheCutoffDay, Answers
<1> QED BY <1>1, UnderneathKeeps, RouteKeeps, SplitKeeps, HotOnlyKeeps, ColdOnlyKeeps, ReadHotHalfKeeps,
           ReadColdHalfKeeps DEF Search

\* The invariant holds of every reachable state.
LEMMA SearchInvAlways == SearchSpec => []SearchInv
  BY SearchInvInit, SearchInvNext, PTL DEF SearchSpec

\* NothingLostBetweenTiers, for every page size, horizon and store: a search
\* through the tiered router answers every event its tiers held when it
\* settled on its cutoff, or says why not (tiered_search.go:104-309).
THEOREM NothingLostHolds == SearchSpec => []NothingLostBetweenTiers
<1>1. SearchInv => NothingLostBetweenTiers
  BY DEF SearchInv
<1> QED BY <1>1, SearchInvAlways, PTL

\* TwiceOnlyOnTheCutoffDay, for the same: the halves of a split search overlap
\* in one day (tiered_search.go:193-300, coldstore/query.go:32-102).
THEOREM TwiceOnlyHolds == SearchSpec => []TwiceOnlyOnTheCutoffDay
<1>1. SearchInv => TwiceOnlyOnTheCutoffDay
  BY DEF SearchInv
<1> QED BY <1>1, SearchInvAlways, PTL

-----------------------------------------------------------------------------
(* PanelData *)

\* A record of a load and the panel's state have their fields.
IsLoad(l) ==
  l = [of |-> l.of, cancelled |-> l.cancelled, at |-> l.at, total |-> l.total,
       buckets |-> l.buckets, read |-> l.read]

IsPanel(p) ==
  p = [state |-> p.state, series |-> p.series, totalCount |-> p.totalCount, of |-> p.of, read |-> p.read]

\* A load whose effect has not been cleaned up is the load of what is asked
\* now, and a load that is done holds events of its own query.
LoadInv(l) ==
  /\ IsLoad(l)
  /\ ~l.cancelled => l.of = asked
  /\ l.at = "done" => \A e \in l.read : e.query = l.of.query

PanelInv ==
  /\ \E n \in Nat : DOMAIN loads = 1..n
  /\ loads = [i \in DOMAIN loads |-> loads[i]]
  /\ \A i \in DOMAIN loads : LoadInv(loads[i])
  /\ IsPanel(panel) /\ PanelShowsWhatIsAsked

PanelSpec == PanelInit /\ [][PanelNext]_panelVars

\* A panel that begins, with whatever range the page has.
LEMMA PanelInvFrom ==
  ASSUME NEW of, PanelFrom(of)
  PROVE  PanelInv
<1>1. loads = [i \in {1} |-> Load(asked)] /\ panel = Blank
  BY DEF PanelFrom
<1>2. DOMAIN loads = 1..1
  BY SMTT(30), <1>1
<1>3. LoadInv(Load(asked))
  BY DEF LoadInv, IsLoad, Load
<1>4. IsPanel(panel) /\ panel.state # "default"
  BY <1>1 DEF IsPanel, Blank
<1> QED BY <1>1, <1>2, <1>3, <1>4 DEF PanelInv, PanelShowsWhatIsAsked

\* A step of one load, the others and the question left alone.
LEMMA LoadSteps ==
  ASSUME PanelInv, NEW i \in DOMAIN loads, NEW l, Step(i, l), asked' = asked, LoadInv(l),
         IsPanel(panel'), PanelShowsWhatIsAsked'
  PROVE  PanelInv'
<1>1. loads' = [loads EXCEPT ![i] = l]
  BY DEF Step
<1>2. DOMAIN loads' = DOMAIN loads /\ loads' = [j \in DOMAIN loads |-> IF j = i THEN l ELSE loads[j]]
  BY <1>1 DEF PanelInv
<1>3. \A j \in DOMAIN loads' : LoadInv(loads'[j])
  BY <1>2 DEF PanelInv
<1>4. \A j \in DOMAIN loads' : LoadInv(loads[j])'
  BY <1>3 DEF LoadInv
<1> QED BY <1>2, <1>4 DEF PanelInv

\* The loads when the effect runs again: a new one, and those before it,
\* cleaned up (use-panel-data.ts:40-72).
LEMMA EffectLoads ==
  ASSUME PanelInv, NEW of, usePanelData(of)
  PROVE  /\ \E n \in Nat : DOMAIN loads' = 1..n
         /\ loads' = [i \in DOMAIN loads' |-> loads'[i]]
         /\ \A i \in DOMAIN loads' :
              \/ loads'[i] = [of |-> of, cancelled |-> FALSE, at |-> "sent", total |-> 0, buckets |-> {}, read |-> {}]
              \/ /\ i \in DOMAIN loads
                 /\ loads'[i] = [of |-> loads[i].of, cancelled |-> TRUE, at |-> loads[i].at,
                                 total |-> loads[i].total, buckets |-> loads[i].buckets, read |-> loads[i].read]
<1>1. PICK n \in Nat : DOMAIN loads = 1..n
  BY DEF PanelInv
<1>2. Cardinality(DOMAIN Cleanup(loads)) = n /\ DOMAIN Cleanup(loads) = 1..n
  <2>1. DOMAIN Cleanup(loads) = 1..n
    BY <1>1 DEF Cleanup
  <2>2. Cardinality(1..n) = n
    BY SMTT(30), FS_Interval
  <2> QED BY <2>1, <2>2
<1>3. loads' = [i \in 1..(n + 1) |-> IF i = n + 1 THEN Load(of) ELSE Cleanup(loads)[i]]
  BY <1>2 DEF usePanelData
<1>4. ASSUME NEW i \in 1..(n + 1), i = n + 1
      PROVE  loads'[i] = [of |-> of, cancelled |-> FALSE, at |-> "sent", total |-> 0, buckets |-> {}, read |-> {}]
  BY <1>3, <1>4 DEF Load
<1>5. ASSUME NEW i \in 1..(n + 1), i # n + 1
      PROVE  /\ i \in DOMAIN loads
             /\ loads'[i] = [of |-> loads[i].of, cancelled |-> TRUE, at |-> loads[i].at,
                             total |-> loads[i].total, buckets |-> loads[i].buckets, read |-> loads[i].read]
  <2>1. i \in 1..n
    BY SMTT(30), <1>5
  <2>2. loads'[i] = [loads[i] EXCEPT !.cancelled = TRUE]
    BY <1>1, <1>3, <1>5, <2>1 DEF Cleanup
  <2>3. IsLoad(loads[i])
    BY <1>1, <2>1 DEF PanelInv, LoadInv
  <2> QED BY <1>1, <2>1, <2>2, <2>3 DEF IsLoad
<1>6. DOMAIN loads' = 1..(n + 1) /\ n + 1 \in Nat /\ loads' = [i \in DOMAIN loads' |-> loads'[i]]
  BY SMTT(30), <1>3
<1> QED BY <1>4, <1>5, <1>6

\* The panel shows no data until the new load is answered.
LEMMA EffectKeeps ==
  ASSUME PanelInv, NEW of, usePanelData(of)
  PROVE  PanelInv'
<1>1. asked' = of
  BY DEF usePanelData
<1>2. ASSUME NEW i \in DOMAIN loads',
             loads'[i] = [of |-> of, cancelled |-> FALSE, at |-> "sent", total |-> 0, buckets |-> {}, read |-> {}]
      PROVE  LoadInv(loads[i])'
  <2>1. /\ loads'[i].of = of /\ loads'[i].at = "sent" /\ loads'[i].cancelled = FALSE
        /\ loads'[i].total = 0 /\ loads'[i].buckets = {} /\ loads'[i].read = {}
    BY SMTT(30), <1>2
  <2>2. IsLoad(loads'[i])
    BY <1>2, <2>1 DEF IsLoad
  <2> QED BY <1>1, <2>1, <2>2 DEF LoadInv
<1>3. ASSUME NEW i \in DOMAIN loads', i \in DOMAIN loads,
             loads'[i] = [of |-> loads[i].of, cancelled |-> TRUE, at |-> loads[i].at,
                          total |-> loads[i].total, buckets |-> loads[i].buckets, read |-> loads[i].read]
      PROVE  LoadInv(loads[i])'
  <2>1. LoadInv(loads[i])
    BY <1>3 DEF PanelInv
  <2>2. /\ loads'[i].of = loads[i].of /\ loads'[i].at = loads[i].at /\ loads'[i].cancelled = TRUE
        /\ loads'[i].total = loads[i].total /\ loads'[i].buckets = loads[i].buckets
        /\ loads'[i].read = loads[i].read
    BY SMTT(30), <1>3
  <2>3. IsLoad(loads'[i])
    BY <1>3, <2>2 DEF IsLoad
  <2> QED BY SMTT(30), <2>1, <2>2, <2>3 DEF LoadInv
<1>4. \A i \in DOMAIN loads' : LoadInv(loads[i])'
  BY <1>2, <1>3, EffectLoads
<1>5. (\E n \in Nat : DOMAIN loads' = 1..n) /\ loads' = [i \in DOMAIN loads' |-> loads'[i]]
  BY EffectLoads
<1>6. IsPanel(panel') /\ panel'.state = "loading"
  <2>1. panel' = [panel EXCEPT !.state = "loading"] /\ IsPanel(panel)
    BY DEF usePanelData, PanelInv
  <2>2. panel' = [state |-> "loading", series |-> panel.series, totalCount |-> panel.totalCount,
                  of |-> panel.of, read |-> panel.read]
    BY <2>1 DEF IsPanel
  <2> QED BY <2>2 DEF IsPanel
<1> QED BY <1>4, <1>5, <1>6 DEF PanelInv, PanelShowsWhatIsAsked

\* What the count of a load sets in it, field by field (panelstore.go:91-108).
LEMMA CountedFields ==
  ASSUME NEW l, IsLoad(l), NEW c
  PROVE  [l EXCEPT !.at = "counted", !.total = c] =
           [of |-> l.of, cancelled |-> l.cancelled, at |-> "counted", total |-> c,
            buckets |-> l.buckets, read |-> l.read]
<1>1. PICK counted : counted = [l EXCEPT !.at = "counted"]
  OBVIOUS
<1>2. counted = [of |-> l.of, cancelled |-> l.cancelled, at |-> "counted", total |-> l.total,
                 buckets |-> l.buckets, read |-> l.read]
  BY <1>1 DEF IsLoad
<1>3. [l EXCEPT !.at = "counted", !.total = c] = [counted EXCEPT !.total = c]
  BY <1>1
<1> QED BY SMTT(30), <1>2, <1>3

\* What the buckets of a load set in it, field by field (panel.go:83-139).
LEMMA DoneFields ==
  ASSUME NEW l, IsLoad(l), NEW b, NEW m
  PROVE  [l EXCEPT !.at = "done", !.buckets = b, !.read = m] =
           [of |-> l.of, cancelled |-> l.cancelled, at |-> "done", total |-> l.total,
            buckets |-> b, read |-> m]
<1>1. PICK done : done = [l EXCEPT !.at = "done"]
  OBVIOUS
<1>2. done = [of |-> l.of, cancelled |-> l.cancelled, at |-> "done", total |-> l.total,
              buckets |-> l.buckets, read |-> l.read]
  BY <1>1 DEF IsLoad
<1>3. PICK bucketed : bucketed = [done EXCEPT !.buckets = b]
  OBVIOUS
<1>4. bucketed = [of |-> l.of, cancelled |-> l.cancelled, at |-> "done", total |-> l.total,
                  buckets |-> b, read |-> l.read]
  BY <1>2, <1>3
<1>5. [l EXCEPT !.at = "done", !.buckets = b, !.read = m] = [bucketed EXCEPT !.read = m]
  BY <1>1, <1>3
<1> QED BY SMTT(30), <1>4, <1>5

\* The server's part of a load, and its answer: one that is not cancelled is
\* the answer to what is asked now (use-panel-data.ts:55-67).
LEMMA LoadKeeps ==
  ASSUME PanelInv, NEW i \in DOMAIN loads,
         Count(i) \/ Buckets(i) \/ DataFails(i) \/ Outcome(i) \/ LoadRejected(i)
  PROVE  PanelInv'
<1>0. LoadInv(loads[i]) /\ IsPanel(panel) /\ PanelShowsWhatIsAsked
  BY DEF PanelInv
<1>1. ASSUME panel' = panel, asked' = asked PROVE IsPanel(panel') /\ PanelShowsWhatIsAsked'
  BY <1>0, <1>1 DEF PanelShowsWhatIsAsked
<1>2. LoadInv(Over)
  <2>1. Over = [of |-> Nothing, cancelled |-> TRUE, at |-> "over", total |-> 0, buckets |-> {}, read |-> {}]
    BY DEF Over
  <2> QED BY <2>1 DEF LoadInv, IsLoad
<1>3. CASE Count(i)
  <2>1. PICK c : c = Cardinality(Matches(loads[i].of))
    OBVIOUS
  <2>2. Step(i, [loads[i] EXCEPT !.at = "counted", !.total = c]) /\ UNCHANGED <<asked, panel>>
    BY <1>3, <2>1 DEF Count
  <2>3. [loads[i] EXCEPT !.at = "counted", !.total = c] =
          [of |-> loads[i].of, cancelled |-> loads[i].cancelled, at |-> "counted", total |-> c,
           buckets |-> loads[i].buckets, read |-> loads[i].read]
    BY <1>0, CountedFields DEF LoadInv
  <2>4. LoadInv([loads[i] EXCEPT !.at = "counted", !.total = c])
    BY <2>3, <1>0 DEF LoadInv, IsLoad
  <2> QED BY <2>2, <2>4, <1>1, LoadSteps
<1>4. CASE Buckets(i)
  <2>0. IsLoad(loads[i])
    BY <1>0 DEF LoadInv
  <2>1. PICK b, m : b = TimeSeries(loads[i].of) /\ m = Matches(loads[i].of)
    OBVIOUS
  <2>2. Step(i, [loads[i] EXCEPT !.at = "done", !.buckets = b, !.read = m]) /\ UNCHANGED <<asked, panel>>
    BY <1>4, <2>1 DEF Buckets
  <2>3. [loads[i] EXCEPT !.at = "done", !.buckets = b, !.read = m] =
          [of |-> loads[i].of, cancelled |-> loads[i].cancelled, at |-> "done", total |-> loads[i].total,
           buckets |-> b, read |-> m]
    BY <2>0, DoneFields
  <2>4. \A e \in m : e.query = loads[i].of.query
    BY <2>1 DEF Matches
  <2>5. LoadInv([loads[i] EXCEPT !.at = "done", !.buckets = b, !.read = m])
    BY <2>3, <2>4, <1>0 DEF LoadInv, IsLoad
  <2> QED BY <2>2, <2>5, <1>1, LoadSteps
<1>5. CASE DataFails(i)
  <2>1. Step(i, [loads[i] EXCEPT !.at = "failed"]) /\ UNCHANGED <<asked, panel>>
    BY <1>5 DEF DataFails
  <2>2. [loads[i] EXCEPT !.at = "failed"] =
          [of |-> loads[i].of, cancelled |-> loads[i].cancelled, at |-> "failed", total |-> loads[i].total,
           buckets |-> loads[i].buckets, read |-> loads[i].read]
    BY SMTT(30), <1>0 DEF LoadInv, IsLoad
  <2>3. LoadInv([loads[i] EXCEPT !.at = "failed"])
    BY <2>2, <1>0 DEF LoadInv, IsLoad
  <2> QED BY <2>1, <2>3, <1>1, LoadSteps
<1>6. CASE LoadRejected(i)
  BY <1>1, <1>2, <1>6, LoadSteps DEF LoadRejected
<1>7. CASE Outcome(i)
  <2>1. Step(i, Over) /\ asked' = asked
    BY <1>7 DEF Outcome
  <2>2. CASE loads[i].cancelled
    <3>1. panel' = panel
      BY <1>7, <2>2 DEF Outcome
    <3> QED BY <3>1, <2>1, <1>1, <1>2, LoadSteps
  <2>3. CASE ~loads[i].cancelled /\ loads[i].at = "failed"
    <3>1. panel' = [panel EXCEPT !.state = "error"]
      BY <1>7, <2>3 DEF Outcome
    <3>2. panel' = [state |-> "error", series |-> panel.series, totalCount |-> panel.totalCount,
                    of |-> panel.of, read |-> panel.read]
      BY <3>1, <1>0 DEF IsPanel
    <3>3. IsPanel(panel') /\ PanelShowsWhatIsAsked'
      BY <3>2 DEF IsPanel, PanelShowsWhatIsAsked
    <3> QED BY <3>3, <2>1, <1>2, LoadSteps
  <2>4. CASE ~loads[i].cancelled /\ loads[i].at = "done"
    <3>1. panel' = [state |-> "default", series |-> gapFillBuckets(loads[i].of, loads[i].buckets),
                    totalCount |-> loads[i].total, of |-> {loads[i].of}, read |-> loads[i].read]
      BY <1>7, <2>4 DEF Outcome
    <3>2. loads[i].of = asked /\ \A e \in loads[i].read : e.query = loads[i].of.query
      BY <1>0, <2>4 DEF LoadInv
    <3>3. IsPanel(panel') /\ PanelShowsWhatIsAsked'
      BY <3>1, <3>2, <2>1 DEF IsPanel, PanelShowsWhatIsAsked
    <3> QED BY <3>3, <2>1, <1>2, LoadSteps
  <2> QED BY <1>7, <2>2, <2>3, <2>4 DEF Outcome
<1> QED BY <1>3, <1>4, <1>5, <1>6, <1>7

\* Every step of the panel keeps the invariant.
LEMMA PanelInvNext == PanelInv /\ [PanelNext]_panelVars => PanelInv'
<1> SUFFICES ASSUME PanelInv, [PanelNext]_panelVars PROVE PanelInv'
  OBVIOUS
<1>1. ASSUME UNCHANGED <<asked, panel, loads>> PROVE PanelInv'
  BY <1>1 DEF PanelInv, LoadInv, PanelShowsWhatIsAsked
<1>2. CASE LineStored
  BY <1>1, <1>2 DEF LineStored
<1>3. CASE UNCHANGED panelVars
  BY <1>1, <1>3 DEF panelVars
<1>4. CASE applyPreset \/ applyAbsolute \/ PanelEdited
  BY <1>4, EffectKeeps DEF applyPreset, applyAbsolute, PanelEdited
<1> QED BY <1>2, <1>3, <1>4, LoadKeeps DEF PanelNext

\* PanelShowsWhatIsAsked, for any number of loads, ranges and saved queries: a
\* panel shows the answer to what is asked of it now, in whatever order the
\* answers come (use-panel-data.ts:50-72).
THEOREM PanelShowsWhatIsAskedHolds == PanelSpec => []PanelShowsWhatIsAsked
<1>1. PanelInit => PanelInv
  BY PanelInvFrom DEF PanelInit
<1>2. PanelInv => PanelShowsWhatIsAsked
  BY DEF PanelInv
<1> QED BY <1>1, <1>2, PanelInvNext, PTL DEF PanelSpec

-----------------------------------------------------------------------------
(* Sums over a finite set *)

\* MapThenSumSet takes its sum from the function that solves this equation.
Pick(U) == CHOOSE x \in U : TRUE
Solves(h, f, T) == h = [U \in SUBSET T |-> IF U = {} THEN 0 ELSE f[Pick(U)] + h[U \ {Pick(U)}]]

\* The recursive function a sum is taken from.
LEMMA SumIs ==
  ASSUME NEW f
  PROVE  SumOf(f) = (CHOOSE h : Solves(h, f, DOMAIN f))[DOMAIN f]
BY DEF SumOf, MapThenSumSet, MapThenFoldSet, Solves, Pick

\* Induction over a finite set: a collection of its subsets has a minimal one.
LEMMA MinimalSubset ==
  ASSUME NEW S, IsFiniteSet(S), NEW B \in SUBSET (SUBSET S), NEW X \in B
  PROVE  \E T \in B : \A U \in B : U \subseteq T => U = T
<1>1. SUBSET S = FiniteSubsetsOf(S)
  BY FS_Subset DEF FiniteSubsetsOf
<1>2. IsWellFoundedOn(StrictSubsetOrdering(S), SUBSET S)
  BY <1>1, FS_StrictSubsetOrderingWellFounded
<1>3. PICK T \in B : \A U \in B : ~(<<U, T>> \in StrictSubsetOrdering(S))
  BY <1>2, WFMin
<1> QED BY <1>3 DEF StrictSubsetOrdering

\* The element a sum takes first.
LEMMA PickIs ==
  ASSUME NEW U, U # {}
  PROVE  Pick(U) \in U
BY DEF Pick

\* Two solutions agree where both are defined.
LEMMA SolutionsAgree ==
  ASSUME NEW S, IsFiniteSet(S), NEW f, NEW V \in SUBSET S, NEW W \in SUBSET S,
         NEW h, Solves(h, f, V), NEW k, Solves(k, f, W), NEW U, U \subseteq V, U \subseteq W
  PROVE  h[U] = k[U]
<1> SUFFICES ASSUME h[U] # k[U] PROVE FALSE
  OBVIOUS
<1>1. PICK B : B = {X \in SUBSET S : X \subseteq V /\ X \subseteq W /\ h[X] # k[X]}
  OBVIOUS
<1>2. B \in SUBSET (SUBSET S) /\ \E X : X \in B
  BY <1>1
<1>3. PICK T \in B : \A X \in B : X \subseteq T => X = T
  BY ONLY SMTT(30), IsFiniteSet(S), <1>2, MinimalSubset
<1>4. T \subseteq V /\ T \subseteq W /\ h[T] # k[T] /\ T \in SUBSET S
  BY <1>1, <1>3
<1>5. h[T] = IF T = {} THEN 0 ELSE f[Pick(T)] + h[T \ {Pick(T)}]
  BY <1>4 DEF Solves
<1>6. k[T] = IF T = {} THEN 0 ELSE f[Pick(T)] + k[T \ {Pick(T)}]
  BY <1>4 DEF Solves
<1>7. T # {}
  BY <1>4, <1>5, <1>6
<1>8. PICK R : R = T \ {Pick(T)}
  OBVIOUS
<1>9. R \subseteq T /\ R # T
  BY <1>7, <1>8, PickIs
<1>10. R \notin B
  BY <1>3, <1>9
<1>11. h[R] = k[R]
  BY <1>1, <1>4, <1>9, <1>10
<1> QED BY <1>4, <1>5, <1>6, <1>7, <1>8, <1>11

\* The equation of the sum has a solution over every part of a finite set.
LEMMA SolutionExists ==
  ASSUME NEW S, IsFiniteSet(S), NEW f
  PROVE  \E h : Solves(h, f, S)
<1> SUFFICES ASSUME ~\E h : Solves(h, f, S) PROVE FALSE
  OBVIOUS
<1>1. PICK B : B = {X \in SUBSET S : ~\E h : Solves(h, f, X)}
  OBVIOUS
<1>2. B \in SUBSET (SUBSET S) /\ \E X : X \in B
  BY <1>1
<1>3. PICK T \in B : \A X \in B : X \subseteq T => X = T
  BY ONLY SMTT(30), IsFiniteSet(S), <1>2, MinimalSubset
<1>4. T \in SUBSET S /\ ~\E h : Solves(h, f, T)
  BY <1>1, <1>3
<1>5. PICK sol : sol = [X \in SUBSET T |-> CHOOSE h : Solves(h, f, X)]
  OBVIOUS
<1>6. ASSUME NEW X \in SUBSET T, X # T
      PROVE  Solves(sol[X], f, X)
  <2>1. X \notin B
    BY <1>3, <1>6
  <2>2. \E h : Solves(h, f, X)
    BY <1>1, <1>4, <2>1
  <2>3. Solves(CHOOSE h : Solves(h, f, X), f, X)
    BY <2>2
  <2> QED BY <1>5, <2>3
<1>7. PICK g : g = [U \in SUBSET T |-> IF U = {} THEN 0 ELSE f[Pick(U)] + sol[U \ {Pick(U)}][U \ {Pick(U)}]]
  OBVIOUS
<1>8. ASSUME NEW X \in SUBSET T, X # T
      PROVE  g[X] = sol[X][X]
  <2>1. Solves(sol[X], f, X)
    BY <1>6, <1>8
  <2>2. sol[X][X] = IF X = {} THEN 0 ELSE f[Pick(X)] + sol[X][X \ {Pick(X)}]
    BY <2>1 DEF Solves
  <2>3. CASE X = {}
    BY <1>7, <2>2, <2>3
  <2>4. CASE X # {}
    <3>1. PICK R : R = X \ {Pick(X)}
      OBVIOUS
    <3>2. R \subseteq X /\ R \in SUBSET T /\ R # T
      BY <2>4, <3>1, PickIs
    <3>3. Solves(sol[R], f, R)
      BY <1>6, <3>2
    <3>4. R \in SUBSET S /\ X \in SUBSET S
      BY <1>4, <3>2
    <3>5. sol[X][R] = sol[R][R]
      <4>1. PICK h, k : h = sol[X] /\ k = sol[R]
        OBVIOUS
      <4>2. Solves(h, f, X) /\ Solves(k, f, R)
        BY <2>1, <3>3, <4>1
      <4>3. h[R] = k[R]
        BY ONLY SMTT(30), IsFiniteSet(S), <3>2, <3>4, <4>2, SolutionsAgree
      <4> QED BY <4>1, <4>3
    <3> QED BY <1>7, <2>2, <2>4, <3>1, <3>5
  <2> QED BY <2>3, <2>4
<1>9. ASSUME NEW U \in SUBSET T
      PROVE  g[U] = IF U = {} THEN 0 ELSE f[Pick(U)] + g[U \ {Pick(U)}]
  <2>1. CASE U = {}
    BY <1>7, <2>1
  <2>2. CASE U # {}
    <3>1. PICK R : R = U \ {Pick(U)}
      OBVIOUS
    <3>2. R \in SUBSET T /\ R # T
      BY <2>2, <3>1, PickIs
    <3>3. g[R] = sol[R][R]
      BY <1>8, <3>2
    <3> QED BY <1>7, <2>2, <3>1, <3>3
  <2> QED BY <2>1, <2>2
<1>10. Solves(g, f, T)
  <2>1. g = [U \in SUBSET T |-> g[U]]
    BY <1>7
  <2>2. [U \in SUBSET T |-> g[U]] = [U \in SUBSET T |-> IF U = {} THEN 0 ELSE f[Pick(U)] + g[U \ {Pick(U)}]]
    BY <1>9
  <2> QED BY <2>1, <2>2 DEF Solves
<1> QED BY <1>4, <1>10

\* A sum of the sizes of disjoint sets is the size of their union.
LEMMA SumOfSizes ==
  ASSUME NEW S, IsFiniteSet(S), NEW part, \A x \in S : IsFiniteSet(part[x]),
         \A x, y \in S : x # y => part[x] \cap part[y] = {},
         NEW f, f = [x \in S |-> Cardinality(part[x])]
  PROVE  SumOf(f) = Cardinality(UNION {part[x] : x \in S})
<1>1. PICK h : Solves(h, f, S) /\ SumOf(f) = h[S]
  <2>1. DOMAIN f = S
    OBVIOUS
  <2>2. Solves(CHOOSE h : Solves(h, f, S), f, S)
    BY SolutionExists
  <2> QED BY <2>1, <2>2, SumIs
<1> DEFINE All(U) == UNION {part[x] : x \in U}
<1>2. ASSUME NEW U \in SUBSET S
      PROVE  h[U] = IF U = {} THEN 0 ELSE f[Pick(U)] + h[U \ {Pick(U)}]
  BY <1>1 DEF Solves
<1>3. SUFFICES ASSUME h[S] # Cardinality(All(S)) \/ ~IsFiniteSet(All(S)) PROVE FALSE
  BY <1>1
<1>4. PICK B : B = {X \in SUBSET S : h[X] # Cardinality(All(X)) \/ ~IsFiniteSet(All(X))}
  OBVIOUS
<1>5. B \in SUBSET (SUBSET S) /\ \E X : X \in B
  BY <1>3, <1>4
<1>6. PICK T \in B : \A X \in B : X \subseteq T => X = T
  BY ONLY SMTT(30), IsFiniteSet(S), <1>5, MinimalSubset
<1>7. T \in SUBSET S /\ (h[T] # Cardinality(All(T)) \/ ~IsFiniteSet(All(T)))
  BY <1>4, <1>6
<1>8. T # {}
  <2> SUFFICES ASSUME T = {} PROVE FALSE
    OBVIOUS
  <2>1. All(T) = {} /\ h[T] = 0
    BY <1>2, <1>7
  <2> QED BY <1>7, <2>1, FS_EmptySet
<1>9. PICK x, R : x = Pick(T) /\ R = T \ {x}
  OBVIOUS
<1>10. x \in T /\ x \in S /\ R \in SUBSET S /\ R \subseteq T /\ R # T
  BY <1>7, <1>8, <1>9, PickIs
<1>11. h[R] = Cardinality(All(R)) /\ IsFiniteSet(All(R))
  BY <1>4, <1>6, <1>10
<1>12. All(T) = part[x] \cup All(R)
  BY <1>9, <1>10
<1>13. part[x] \cap All(R) = {}
  <2>1. \A y \in R : y \in S /\ y # x
    BY <1>9, <1>10
  <2>2. \A y \in R : \A e : e \in part[y] => e \notin part[x]
    BY <1>10, <2>1
  <2> QED BY <2>2
<1>14. IsFiniteSet(part[x]) /\ f[x] = Cardinality(part[x])
  BY <1>10
<1>15. PICK P, A : P = part[x] /\ A = All(R)
  OBVIOUS
<1>16. IsFiniteSet(P \cup A) /\ Cardinality(P \cup A) = Cardinality(P) + Cardinality(A) - Cardinality(P \cap A)
  BY <1>11, <1>14, <1>15, FS_Union
<1>17. Cardinality(P \cap A) = 0
  BY <1>13, <1>15, FS_EmptySet
<1>18. Cardinality(P) \in Nat /\ Cardinality(A) \in Nat
  BY <1>11, <1>14, <1>15, FS_CardinalityType
<1>19. Cardinality(P \cup A) = Cardinality(P) + Cardinality(A)
  BY SMTT(30), <1>16, <1>17, <1>18
<1>20. h[T] = f[x] + h[R]
  BY <1>2, <1>7, <1>8, <1>9
<1>21. All(T) = P \cup A /\ h[T] = Cardinality(P) + Cardinality(A)
  BY <1>11, <1>12, <1>14, <1>15, <1>20
<1> QED BY <1>7, <1>16, <1>19, <1>21

-----------------------------------------------------------------------------
(* The series of a panel *)

\* The numbers of a panel are positive.
LEMMA PanelNumbers ==
  Second \in Nat \ {0} /\ Slots \in Nat \ {0} /\ Second * Slots \in Nat \ {0}
<1>1. \A a, b \in Nat \ {0} : a * b \in Nat \ {0}
  BY SMTT(30)
<1> QED BY <1>1, PanelAssumption

\* A bucket starts in the range, and not after the events in it.
LEMMA BucketBounds ==
  ASSUME NEW of, of.from \in Nat, of.to \in Nat, NEW ts \in Nat, of.from <= ts, ts < of.to
  PROVE  bucketStart(of, ts) \in Nat /\ of.from <= bucketStart(of, ts) /\ bucketStart(of, ts) <= ts
<1>1. PICK a \in Nat, b \in Nat, d \in Nat \ {0} : a = of.from /\ b = of.to /\ d = Second * Slots
  BY PanelNumbers
<1>2. a <= ts /\ ts < b
  BY <1>1
<1>3. PICK c \in Nat : c = b - a + d - 1 /\ d <= c
  BY SMTT(30), <1>2
<1>4. c \div d \in Nat \ {0}
  BY SMTT(30), <1>3
<1>5. bucketSize(of) = c \div d
  BY <1>1, <1>3 DEF bucketSize
<1>6. PICK w \in Nat \ {0} : w = bucketSize(of) * Second
  <2>1. PICK q \in Nat \ {0}, p \in Nat \ {0} : q = bucketSize(of) /\ p = Second
    BY <1>4, <1>5, PanelNumbers
  <2>2. q * p \in Nat \ {0}
    BY SMTT(30)
  <2> QED BY <2>1, <2>2
<1>7. PICK x \in Nat : x = ts - a
  BY SMTT(30), <1>2
<1>8. x \div w \in Nat /\ w * (x \div w) <= x
  BY SMTT(30)
<1>9. PICK q \in Nat : q = x \div w
  BY <1>8
<1>10. q * w <= x /\ q * w \in Nat
  BY SMTT(30), <1>8, <1>9
<1>11. bucketStart(of, ts) = a + q * w
  BY <1>1, <1>6, <1>7, <1>9 DEF bucketStart
<1>12. PICK y \in Nat : y = q * w
  BY <1>10
<1>13. bucketStart(of, ts) = a + y /\ y <= x
  BY <1>10, <1>11, <1>12
<1> QED BY SMTT(30), <1>1, <1>7, <1>13

\* Every bucket of a range falls in a slot (panel-data.ts:105-141).
LEMMA HasSlot ==
  ASSUME NEW of, of.from \in Nat, of.to \in Nat, NEW start \in Nat, of.from <= start, start < of.to
  PROVE  \E i \in 1..Slots : InSlot(of, i - 1, start)
<1>1. PICK n \in Nat \ {0}, w \in Nat \ {0}, x \in Nat :
        n = Slots /\ w = of.to - of.from /\ x = start - of.from /\ x < w
  <2>1. of.to - of.from \in Nat \ {0} /\ start - of.from \in Nat /\ start - of.from < of.to - of.from
    BY SMTT(30)
  <2> QED BY <2>1, PanelNumbers
<1>2. PICK y \in Nat : y = x * n
  <2>1. x * n \in Nat
    BY SMTT(30)
  <2> QED BY <2>1
<1>3. y < w * n
  BY SMTT(30), <1>1, <1>2
<1>4. y \div w \in Nat /\ w * (y \div w) <= y /\ y < w * (y \div w) + w
  BY SMTT(30)
<1>5. PICK k \in Nat : k = y \div w
  BY <1>4
<1>6. k * w <= y /\ y < (k + 1) * w
  <2>1. w * k = k * w /\ (k + 1) * w = w * k + w
    BY SMTT(30)
  <2> QED BY <1>4, <1>5, <2>1
<1>7. k < n
  <2> SUFFICES ASSUME n <= k PROVE FALSE
    BY SMTT(30)
  <2>1. n * w <= k * w /\ n * w = w * n
    BY SMTT(30)
  <2>2. PICK p \in Nat, q \in Nat : p = n * w /\ q = k * w
    <3>1. n * w \in Nat /\ k * w \in Nat
      BY SMTT(30)
    <3> QED BY <3>1
  <2>3. p <= q /\ q <= y /\ y < p
    BY <1>3, <1>6, <2>1, <2>2
  <2> QED BY SMTT(30), <2>3
<1>8. k + 1 \in 1..n /\ (k + 1) - 1 = k
  BY SMTT(30), <1>7
<1>9. InSlot(of, k, start)
  BY <1>1, <1>2, <1>6 DEF InSlot
<1> QED BY <1>1, <1>8, <1>9

\* No bucket falls in two slots (panel-data.ts:105-141).
LEMMA OneSlot ==
  ASSUME NEW of, of.from \in Nat, of.to \in Nat, of.from < of.to, NEW start \in Nat, of.from <= start,
         NEW i \in Nat, NEW j \in Nat, InSlot(of, i, start), InSlot(of, j, start)
  PROVE  i = j
<1>1. PICK n \in Nat \ {0}, w \in Nat \ {0}, x \in Nat : n = Slots /\ w = of.to - of.from /\ x = start - of.from
  <2>1. of.to - of.from \in Nat \ {0} /\ start - of.from \in Nat
    BY SMTT(30)
  <2> QED BY <2>1, PanelNumbers
<1>2. i * w <= x * n /\ x * n < (i + 1) * w /\ j * w <= x * n /\ x * n < (j + 1) * w
  BY <1>1 DEF InSlot
<1>3. \A a, b \in Nat : a + 1 <= b => (a + 1) * w <= b * w
  BY SMTT(30)
<1>4. PICK y \in Nat : y = x * n
  <2>1. x * n \in Nat
    BY SMTT(30)
  <2> QED BY <2>1
<1>5. ~(i + 1 <= j)
  <2> SUFFICES ASSUME i + 1 <= j PROVE FALSE
    OBVIOUS
  <2>1. (i + 1) * w <= j * w
    BY <1>3
  <2>2. PICK p \in Nat, q \in Nat : p = (i + 1) * w /\ q = j * w
    <3>1. (i + 1) * w \in Nat /\ j * w \in Nat
      BY SMTT(30)
    <3> QED BY <3>1
  <2>3. p <= q /\ q <= y /\ y < p
    BY <1>2, <1>4, <2>1, <2>2
  <2> QED BY SMTT(30), <2>3
<1>6. ~(j + 1 <= i)
  <2> SUFFICES ASSUME j + 1 <= i PROVE FALSE
    OBVIOUS
  <2>1. (j + 1) * w <= i * w
    BY <1>3
  <2>2. PICK p \in Nat, q \in Nat : p = (j + 1) * w /\ q = i * w
    <3>1. (j + 1) * w \in Nat /\ i * w \in Nat
      BY SMTT(30)
    <3> QED BY <3>1
  <2>3. p <= q /\ q <= y /\ y < p
    BY <1>2, <1>4, <2>1, <2>2
  <2> QED BY SMTT(30), <2>3
<1> QED BY SMTT(30), <1>5, <1>6

\* The buckets of a set of events, as TimeSeries makes them of the events that match.
Bucketed(of, R) ==
  {[start |-> s, count |-> Cardinality({l \in R : bucketStart(of, l.ts) = s})] :
     s \in {bucketStart(of, l.ts) : l \in R}}

\* A range, and events of it.
IsRange(of) == of.from \in Nat /\ of.to \in Nat /\ of.from < of.to
Ranged(of, R) == IsFiniteSet(R) /\ \A l \in R : l.ts \in Nat /\ of.from <= l.ts /\ l.ts < of.to

\* The events whose bucket falls in a slot, and in one of the first slots.
PartOf(of, R, i) == {l \in R : InSlot(of, i - 1, bucketStart(of, l.ts))}
FirstParts(of, R, n) == {l \in R : \E i \in 1..n : InSlot(of, i - 1, bucketStart(of, l.ts))}

\* There are finitely many buckets, one for each start, and it counts the events that start it.
LEMMA BucketsOf ==
  ASSUME NEW of, NEW R, Ranged(of, R)
  PROVE  /\ IsFiniteSet(Bucketed(of, R))
         /\ \A b \in Bucketed(of, R) : b.count = Cardinality({l \in R : bucketStart(of, l.ts) = b.start})
         /\ \A b, c \in Bucketed(of, R) : b.start = c.start => b = c
         /\ \A l \in R : \E b \in Bucketed(of, R) : b.start = bucketStart(of, l.ts)
<1>1. PICK bucket : bucket = [l \in R |-> [start |-> bucketStart(of, l.ts),
                     count |-> Cardinality({e \in R : bucketStart(of, e.ts) = bucketStart(of, l.ts)})]]
  OBVIOUS
<1>2. Bucketed(of, R) = {bucket[l] : l \in R}
  BY <1>1 DEF Bucketed
<1>3. bucket \in Surjection(R, Bucketed(of, R))
  BY <1>1, <1>2 DEF Surjection
<1>4. IsFiniteSet(Bucketed(of, R))
  BY <1>3, FS_Surjection DEF Ranged
<1>5. \A b \in Bucketed(of, R) : \E s :
        b = [start |-> s, count |-> Cardinality({l \in R : bucketStart(of, l.ts) = s})]
  BY DEF Bucketed
<1>6. ASSUME NEW b \in Bucketed(of, R)
      PROVE  b = [start |-> b.start, count |-> Cardinality({l \in R : bucketStart(of, l.ts) = b.start})]
  <2>1. PICK s, c : c = Cardinality({l \in R : bucketStart(of, l.ts) = s}) /\ b = [start |-> s, count |-> c]
    BY <1>5
  <2>2. b.start = s
    BY <2>1
  <2> QED BY <2>1, <2>2
<1>7. ASSUME NEW b \in Bucketed(of, R)
      PROVE  b.count = Cardinality({l \in R : bucketStart(of, l.ts) = b.start})
  <2>1. PICK s, c : s = b.start /\ c = Cardinality({l \in R : bucketStart(of, l.ts) = b.start})
    OBVIOUS
  <2>2. b = [start |-> s, count |-> c]
    BY <1>6, <2>1
  <2>3. b.count = c
    BY <2>2
  <2> QED BY <2>1, <2>3
<1>8. ASSUME NEW b \in Bucketed(of, R), NEW c \in Bucketed(of, R), b.start = c.start PROVE b = c
  BY <1>6, <1>8
<1>9. ASSUME NEW l \in R PROVE \E b \in Bucketed(of, R) : b.start = bucketStart(of, l.ts)
  <2>1. bucket[l] \in Bucketed(of, R)
    BY <1>2
  <2>2. bucket[l].start = bucketStart(of, l.ts)
    BY <1>1
  <2> QED BY <2>1, <2>2
<1> QED BY <1>4, <1>7, <1>8, <1>9

\* A slot of the series counts the events whose buckets fall in it.
LEMMA SlotSums ==
  ASSUME NEW of, NEW R, Ranged(of, R), NEW i \in 1..Slots
  PROVE  gapFillBuckets(of, Bucketed(of, R))[i] = Cardinality(PartOf(of, R, i))
<1>1. PICK S : S = {b \in Bucketed(of, R) : InSlot(of, i - 1, b.start)}
  OBVIOUS
<1>2. IsFiniteSet(S)
  BY <1>1, BucketsOf, FS_Subset
<1>3. PICK part : part = [b \in S |-> {l \in R : bucketStart(of, l.ts) = b.start}]
  OBVIOUS
<1>4. \A b \in S : IsFiniteSet(part[b])
  BY <1>3, FS_Subset DEF Ranged
<1>5. \A b, c \in S : b # c => part[b] \cap part[c] = {}
  <2> SUFFICES ASSUME NEW b \in S, NEW c \in S, NEW l \in part[b] \cap part[c] PROVE b = c
    OBVIOUS
  <2>1. b.start = c.start
    BY <1>3
  <2> QED BY <1>1, <2>1, BucketsOf
<1>6. PICK f : f = [b \in S |-> b.count]
  OBVIOUS
<1>7. f = [b \in S |-> Cardinality(part[b])]
  BY <1>1, <1>3, <1>6, BucketsOf
<1>8. SumOf(f) = Cardinality(UNION {part[b] : b \in S})
  BY ONLY SMTT(30), <1>2, <1>4, <1>5, <1>7, SumOfSizes
<1>9. UNION {part[b] : b \in S} = PartOf(of, R, i)
  <2>1. ASSUME NEW l \in PartOf(of, R, i) PROVE \E b \in S : l \in part[b]
    <3>1. PICK b \in Bucketed(of, R) : b.start = bucketStart(of, l.ts)
      BY BucketsOf DEF PartOf
    <3> QED BY <1>1, <1>3, <3>1 DEF PartOf
  <2>2. ASSUME NEW b \in S, NEW l \in part[b] PROVE l \in PartOf(of, R, i)
    BY <1>1, <1>3 DEF PartOf
  <2> QED BY <2>1, <2>2
<1>10. gapFillBuckets(of, Bucketed(of, R))[i] = SumOf(f)
  BY <1>1, <1>6 DEF gapFillBuckets
<1> QED BY <1>8, <1>9, <1>10

\* No event falls in two slots.
LEMMA PartsApart ==
  ASSUME NEW of, IsRange(of), NEW R, Ranged(of, R), NEW i \in 1..Slots, NEW j \in 1..Slots, i # j
  PROVE  PartOf(of, R, i) \cap PartOf(of, R, j) = {}
<1> SUFFICES ASSUME NEW l \in PartOf(of, R, i) \cap PartOf(of, R, j) PROVE FALSE
  OBVIOUS
<1>1. l.ts \in Nat /\ of.from <= l.ts /\ l.ts < of.to /\ of.from \in Nat /\ of.to \in Nat /\ of.from < of.to
  BY DEF PartOf, Ranged, IsRange
<1>2. PICK start : start = bucketStart(of, l.ts)
  OBVIOUS
<1>3. start \in Nat /\ of.from <= start
  BY <1>1, <1>2, BucketBounds
<1>4. InSlot(of, i - 1, start) /\ InSlot(of, j - 1, start)
  BY <1>2 DEF PartOf
<1>5. i - 1 \in Nat /\ j - 1 \in Nat /\ i - 1 # j - 1
  BY SMTT(30), PanelNumbers
<1> QED BY <1>1, <1>3, <1>4, <1>5, OneSlot

\* The first slots of the series count the events whose buckets fall in one of them.
LEMMA PrefixSums ==
  ASSUME NEW of, IsRange(of), NEW R, Ranged(of, R), NEW n \in 1..Slots, NEW s,
         s = gapFillBuckets(of, Bucketed(of, R))
  PROVE  SumOf([j \in 1..n |-> s[j]]) = Cardinality(FirstParts(of, R, n))
<1>1. PICK S : S = 1..n
  OBVIOUS
<1>0. IsFiniteSet(S)
  BY SMTT(30), <1>1, PanelNumbers, FS_Interval
<1>2. S \subseteq 1..Slots
  BY SMTT(30), <1>1, PanelNumbers
<1>3. PICK part : part = [j \in S |-> PartOf(of, R, j)]
  OBVIOUS
<1>4. \A j \in S : IsFiniteSet(part[j])
  BY <1>3, FS_Subset DEF Ranged, PartOf
<1>5. \A j, k \in S : j # k => part[j] \cap part[k] = {}
  BY <1>2, <1>3, PartsApart
<1>6. PICK f : f = [j \in S |-> s[j]]
  OBVIOUS
<1>7. f = [j \in S |-> Cardinality(part[j])]
  BY <1>2, <1>3, <1>6, SlotSums
<1>8. SumOf(f) = Cardinality(UNION {part[j] : j \in S})
  BY ONLY SMTT(30), <1>0, <1>4, <1>5, <1>7, SumOfSizes
<1>9. UNION {part[j] : j \in S} = FirstParts(of, R, n)
  <2>1. ASSUME NEW j \in S, NEW l \in part[j] PROVE l \in FirstParts(of, R, n)
    BY <1>1, <1>3, <2>1 DEF PartOf, FirstParts
  <2>2. ASSUME NEW l \in FirstParts(of, R, n) PROVE \E j \in S : l \in part[j]
    BY <1>1, <1>3 DEF PartOf, FirstParts
  <2> QED BY <2>1, <2>2
<1> QED BY <1>1, <1>6, <1>8, <1>9

\* What SeriesAddsUp says of a series, the range and the events it is made of.
Counts(s, of, R) ==
  /\ SumOf(s) = Cardinality(R)
  /\ \A i \in 1..Slots :
       SumOf([j \in 1..i |-> s[j]]) >=
         Cardinality({l \in R : (l.ts - of.from) * Slots < i * (of.to - of.from)})

\* gapFillBuckets over the server's buckets: no event is lost or counted twice, and none is in a
\* later slot than its own (panel-data.ts:105-141).
LEMMA SeriesOfEvents ==
  ASSUME NEW of, IsRange(of), NEW R, Ranged(of, R), NEW s, s = gapFillBuckets(of, Bucketed(of, R))
  PROVE  Counts(s, of, R)
<1>1. ASSUME NEW l \in R
      PROVE  \E i \in 1..Slots : InSlot(of, i - 1, bucketStart(of, l.ts))
  <2>1. l.ts \in Nat /\ of.from <= l.ts /\ l.ts < of.to /\ of.from \in Nat /\ of.to \in Nat
    BY DEF Ranged, IsRange
  <2>2. PICK start \in Nat : start = bucketStart(of, l.ts) /\ of.from <= start /\ start <= l.ts
    BY <2>1, BucketBounds
  <2>3. start < of.to
    BY SMTT(30), <2>1, <2>2
  <2> QED BY <2>1, <2>2, <2>3, HasSlot
<1>2. SumOf(s) = Cardinality(R)
  <2>1. FirstParts(of, R, Slots) = R
    BY <1>1 DEF FirstParts
  <2>2. Slots \in 1..Slots
    BY SMTT(30), PanelNumbers
  <2>3. s = [j \in 1..Slots |-> s[j]]
    BY DEF gapFillBuckets
  <2>4. PICK t : t = [j \in 1..Slots |-> s[j]]
    OBVIOUS
  <2>5. SumOf([j \in 1..Slots |-> s[j]]) = Cardinality(FirstParts(of, R, Slots))
    BY <2>2, PrefixSums
  <2>6. SumOf(t) = Cardinality(R)
    BY <2>1, <2>4, <2>5
  <2> QED BY <2>3, <2>4, <2>6
<1>3. ASSUME NEW i \in 1..Slots
      PROVE  SumOf([j \in 1..i |-> s[j]]) >=
               Cardinality({l \in R : (l.ts - of.from) * Slots < i * (of.to - of.from)})
  <2>1. PICK E : E = {l \in R : (l.ts - of.from) * Slots < i * (of.to - of.from)}
    OBVIOUS
  <2>2. ASSUME NEW l \in E PROVE l \in FirstParts(of, R, i)
    <3>1. l \in R /\ (l.ts - of.from) * Slots < i * (of.to - of.from)
      BY <2>1
    <3>2. l.ts \in Nat /\ of.from <= l.ts /\ l.ts < of.to /\ of.from \in Nat /\ of.to \in Nat
      BY <3>1 DEF Ranged, IsRange
    <3>3. PICK start \in Nat : start = bucketStart(of, l.ts) /\ of.from <= start /\ start <= l.ts
      BY <3>2, BucketBounds
    <3>4. PICK k \in 1..Slots : InSlot(of, k - 1, start)
      BY <1>1, <3>1, <3>3
    <3>5. k <= i
      <4>1. PICK n \in Nat \ {0}, w \in Nat \ {0}, x \in Nat, y \in Nat :
              n = Slots /\ w = of.to - of.from /\ x = start - of.from /\ y = l.ts - of.from /\ x <= y
        <5>1. /\ of.to - of.from \in Nat \ {0} /\ start - of.from \in Nat /\ l.ts - of.from \in Nat
              /\ start - of.from <= l.ts - of.from
          BY SMTT(30), <3>2, <3>3
        <5> QED BY <5>1, PanelNumbers
      <4>2. (k - 1) * w <= x * n /\ y * n < i * w
        BY <3>1, <3>4, <4>1 DEF InSlot
      <4>3. x * n <= y * n
        BY SMTT(30), <4>1
      <4>4. k \in Nat \ {0} /\ i \in Nat
        BY SMTT(30), PanelNumbers
      <4>5. PICK h \in Nat : h = k - 1
        BY SMTT(30), <4>4
      <4>6. i <= h => i * w <= h * w
        BY SMTT(30), <4>4
      <4>7. PICK p \in Nat, q \in Nat, a \in Nat, b \in Nat : p = i * w /\ q = h * w /\ a = x * n /\ b = y * n
        <5>1. i * w \in Nat /\ h * w \in Nat /\ x * n \in Nat /\ y * n \in Nat
          BY SMTT(30), <4>4
        <5> QED BY <5>1
      <4>8. q <= a /\ b < p /\ a <= b /\ (i <= h => p <= q)
        BY <4>2, <4>3, <4>5, <4>6, <4>7
      <4>9. ~(i <= h)
        BY SMTT(30), <4>8
      <4> QED BY SMTT(30), <4>4, <4>5, <4>9
    <3>6. k \in 1..i
      BY SMTT(30), <3>5, PanelNumbers
    <3> QED BY <3>1, <3>3, <3>4, <3>6 DEF FirstParts
  <2>3. FirstParts(of, R, i) \subseteq R /\ E \subseteq FirstParts(of, R, i)
    BY <2>2 DEF FirstParts
  <2>4. IsFiniteSet(R)
    BY DEF Ranged
  <2>5. IsFiniteSet(FirstParts(of, R, i))
    BY <2>3, <2>4, FS_Subset
  <2>6. IsFiniteSet(E) /\ Cardinality(E) <= Cardinality(FirstParts(of, R, i))
    BY ONLY SMTT(30), <2>3, <2>5, FS_Subset
  <2>7. Cardinality(FirstParts(of, R, i)) \in Nat /\ Cardinality(E) \in Nat
    BY <2>5, <2>6, FS_CardinalityType
  <2>8. Cardinality(FirstParts(of, R, i)) >= Cardinality(E)
    BY ONLY SMTT(30), <2>6, <2>7
  <2>9. SumOf([j \in 1..i |-> s[j]]) = Cardinality(FirstParts(of, R, i))
    BY PrefixSums
  <2> QED BY <2>1, <2>8, <2>9
<1> QED BY <1>2, <1>3 DEF Counts

\* What a load reads adds up: its range is one, the events are of it, and the
\* number counted before them is at most theirs.
Adds(of, R, total) == IsRange(of) /\ Ranged(of, R) /\ total \in Nat /\ total <= Cardinality(R)

Matching(L, of) == {l \in L : l.query = of.query /\ of.from <= l.ts /\ l.ts < of.to}

\* What was counted for a load is still stored, and its buckets hold what it read.
LoadAdds(L, l) ==
  /\ l.of.from \in Nat /\ l.of.to \in Nat
  /\ l.at = "counted" => Adds(l.of, Matching(L, l.of), l.total)
  /\ l.at = "done" => Adds(l.of, l.read, l.total) /\ l.buckets = Bucketed(l.of, l.read)

\* A panel that shows data shows the series of what was read.
PanelAdds(p, of) ==
  p.state = "default" =>
    Adds(of, p.read, p.totalCount) /\ p.series = gapFillBuckets(of, Bucketed(of, p.read))

IsAsked(of) ==
  of = [query |-> of.query, from |-> of.from, to |-> of.to] /\ of.from \in Nat /\ of.to \in Nat

IsStored(L) == IsFiniteSet(L) /\ \A l \in L : l.ts \in Nat

SeriesInv ==
  /\ IsStored(lines) /\ IsAsked(asked)
  /\ \A i \in DOMAIN loads : LoadAdds(lines, loads[i])
  /\ PanelAdds(panel, asked)

\* The invariant says what the panel is to show.
LEMMA SeriesInvSays == SeriesInv => SeriesAddsUp
<1> SUFFICES ASSUME SeriesInv, panel.state = "default" PROVE SeriesAddsUp
  BY DEF SeriesAddsUp
<1>1. Adds(asked, panel.read, panel.totalCount) /\ panel.series = gapFillBuckets(asked, Bucketed(asked, panel.read))
  BY DEF SeriesInv, PanelAdds
<1>2. IsRange(asked) /\ Ranged(asked, panel.read) /\ panel.totalCount <= Cardinality(panel.read)
  BY <1>1 DEF Adds
<1>3. PICK R, s : R = panel.read /\ s = panel.series
  OBVIOUS
<1>4. IsRange(asked) /\ Ranged(asked, R) /\ s = gapFillBuckets(asked, Bucketed(asked, R))
  BY <1>1, <1>2, <1>3
<1>5. Counts(s, asked, R)
  BY <1>4, SeriesOfEvents
<1> QED BY <1>2, <1>3, <1>5 DEF SeriesAddsUp, Counts

\* The events that match a question are of its range.
LEMMA MatchingRanged ==
  ASSUME NEW L, IsStored(L), NEW of
  PROVE  Ranged(of, Matching(L, of))
<1>1. Matching(L, of) \subseteq L
  BY DEF Matching
<1>2. IsFiniteSet(Matching(L, of))
  BY <1>1, FS_Subset DEF IsStored
<1> QED BY <1>2 DEF Ranged, Matching, IsStored

\* Events are only added: what was counted is still there.
LEMMA StoredMore ==
  ASSUME NEW L, NEW M, IsStored(M), L \subseteq M, NEW l, LoadAdds(L, l)
  PROVE  LoadAdds(M, l)
<1>1. ASSUME l.at = "counted" PROVE Adds(l.of, Matching(M, l.of), l.total)
  <2>1. IsRange(l.of) /\ l.total \in Nat /\ l.total <= Cardinality(Matching(L, l.of))
    BY <1>1 DEF LoadAdds, Adds
  <2>2. Ranged(l.of, Matching(M, l.of))
    BY MatchingRanged
  <2>3. Matching(L, l.of) \subseteq Matching(M, l.of) /\ IsFiniteSet(Matching(M, l.of))
    BY <2>2 DEF Matching, Ranged
  <2>4. PICK a, b : a = Cardinality(Matching(L, l.of)) /\ b = Cardinality(Matching(M, l.of))
    OBVIOUS
  <2>5. a <= b /\ a \in Nat /\ b \in Nat
    BY ONLY SMTT(30), <2>3, <2>4, FS_Subset, FS_CardinalityType
  <2>6. l.total <= b
    BY SMTT(30), <2>1, <2>4, <2>5
  <2> QED BY <2>1, <2>2, <2>4, <2>6 DEF Adds
<1> QED BY <1>1 DEF LoadAdds

\* A step of one load, with what the panel then shows.
LEMMA LoadAddsSteps ==
  ASSUME PanelInv, SeriesInv, NEW i \in DOMAIN loads, NEW l, Step(i, l), asked' = asked, lines' = lines,
         LoadAdds(lines, l), PanelAdds(panel', asked)
  PROVE  SeriesInv'
<1>1. loads' = [loads EXCEPT ![i] = l]
  BY DEF Step
<1>2. DOMAIN loads' = DOMAIN loads /\ loads' = [j \in DOMAIN loads |-> IF j = i THEN l ELSE loads[j]]
  BY <1>1 DEF PanelInv
<1>3. \A j \in DOMAIN loads' : LoadAdds(lines', loads'[j])
  BY <1>2 DEF SeriesInv
<1>4. IsStored(lines') /\ IsAsked(asked') /\ PanelAdds(panel', asked')
  BY DEF SeriesInv
<1> QED BY <1>3, <1>4 DEF SeriesInv

\* The effect runs again: nothing was counted or read for the new load yet.
LEMMA EffectAdds ==
  ASSUME PanelInv, SeriesInv, NEW of, usePanelData(of), IsAsked(of)
  PROVE  SeriesInv'
<1>1. asked' = of /\ lines' = lines
  BY DEF usePanelData
<1>2. ASSUME NEW i \in DOMAIN loads',
             loads'[i] = [of |-> of, cancelled |-> FALSE, at |-> "sent", total |-> 0, buckets |-> {}, read |-> {}]
      PROVE  LoadAdds(lines', loads'[i])
  <2>1. loads'[i].of = of /\ loads'[i].at = "sent"
    BY SMTT(30), <1>2
  <2> QED BY <2>1 DEF LoadAdds, IsAsked
<1>3. ASSUME NEW i \in DOMAIN loads', i \in DOMAIN loads,
             loads'[i] = [of |-> loads[i].of, cancelled |-> TRUE, at |-> loads[i].at,
                          total |-> loads[i].total, buckets |-> loads[i].buckets, read |-> loads[i].read]
      PROVE  LoadAdds(lines', loads'[i])
  <2>1. LoadAdds(lines, loads[i])
    BY <1>3 DEF SeriesInv
  <2>2. /\ loads'[i].of = loads[i].of /\ loads'[i].at = loads[i].at /\ loads'[i].total = loads[i].total
        /\ loads'[i].buckets = loads[i].buckets /\ loads'[i].read = loads[i].read
    BY SMTT(30), <1>3
  <2> QED BY <1>1, <2>1, <2>2 DEF LoadAdds
<1>4. \A i \in DOMAIN loads' : LoadAdds(lines', loads'[i])
  BY <1>2, <1>3, EffectLoads
<1>5. panel'.state = "loading"
  BY DEF usePanelData, PanelInv, IsPanel
<1>6. IsStored(lines') /\ IsAsked(asked') /\ PanelAdds(panel', asked')
  BY <1>1, <1>5 DEF SeriesInv, PanelAdds
<1> QED BY <1>4, <1>6 DEF SeriesInv

\* The count and the buckets of a load, and its answer (panel.go:83-139,
\* use-panel-data.ts:55-67).
LEMMA AnswerAdds ==
  ASSUME PanelInv, SeriesInv, NEW i \in DOMAIN loads,
         Count(i) \/ Buckets(i) \/ DataFails(i) \/ Outcome(i) \/ LoadRejected(i)
  PROVE  SeriesInv'
<1>0. LoadInv(loads[i]) /\ IsLoad(loads[i]) /\ IsPanel(panel)
  BY DEF PanelInv, LoadInv
<1>1. LoadAdds(lines, loads[i]) /\ PanelAdds(panel, asked) /\ IsStored(lines)
  BY DEF SeriesInv
<1>2. LoadAdds(lines, Over)
  <2>1. Over.at = "over" /\ Over.of = Nothing /\ Nothing.from = 0 /\ Nothing.to = 0
    BY DEF Over, Nothing
  <2>2. 0 \in Nat
    BY SMTT(30)
  <2> QED BY <2>1, <2>2 DEF LoadAdds
<1>3. CASE Count(i)
  <2>1. PICK c : c = Cardinality(Matching(lines, loads[i].of))
    OBVIOUS
  <2>2. Step(i, [loads[i] EXCEPT !.at = "counted", !.total = c]) /\ UNCHANGED <<asked, panel, lines>>
    BY <1>3, <2>1 DEF Count, Matches, Matching
  <2>3. PICK l : l = [of |-> loads[i].of, cancelled |-> loads[i].cancelled, at |-> "counted", total |-> c,
                      buckets |-> loads[i].buckets, read |-> loads[i].read]
    OBVIOUS
  <2>4. l = [loads[i] EXCEPT !.at = "counted", !.total = c]
    BY <1>0, <2>3, CountedFields
  <2>5. l.of = loads[i].of /\ l.at = "counted" /\ l.total = c
    BY SMTT(30), <2>3
  <2>6. IsRange(loads[i].of)
    BY <1>1, <1>3 DEF Count, parsePanelQueryOK, LoadAdds, IsRange
  <2>7. Ranged(loads[i].of, Matching(lines, loads[i].of))
    BY <1>1, MatchingRanged
  <2>8. c \in Nat
    BY <2>1, <2>7, FS_CardinalityType DEF Ranged
  <2>9. c <= c
    BY SMTT(30), <2>8
  <2>10. LoadAdds(lines, l)
    BY <1>1, <2>1, <2>5, <2>6, <2>7, <2>8, <2>9 DEF LoadAdds, Adds
  <2> QED BY <1>1, <2>2, <2>4, <2>10, LoadAddsSteps
<1>4. CASE Buckets(i)
  <2>1. PICK b, m : b = Bucketed(loads[i].of, m) /\ m = Matching(lines, loads[i].of)
    OBVIOUS
  <2>2. m = Matches(loads[i].of) /\ b = TimeSeries(loads[i].of)
    BY <2>1 DEF Matches, Matching, TimeSeries, Bucketed
  <2>3. Step(i, [loads[i] EXCEPT !.at = "done", !.buckets = b, !.read = m]) /\ UNCHANGED <<asked, panel, lines>>
    BY <1>4, <2>2 DEF Buckets
  <2>4. PICK l : l = [of |-> loads[i].of, cancelled |-> loads[i].cancelled, at |-> "done", total |-> loads[i].total,
                      buckets |-> b, read |-> m]
    OBVIOUS
  <2>5. l = [loads[i] EXCEPT !.at = "done", !.buckets = b, !.read = m]
    BY <1>0, <2>4, DoneFields
  <2>6. l.of = loads[i].of /\ l.at = "done" /\ l.total = loads[i].total /\ l.buckets = b /\ l.read = m
    BY SMTT(30), <2>4
  <2>7. Adds(loads[i].of, m, loads[i].total)
    BY <1>1, <1>4, <2>1 DEF Buckets, LoadAdds
  <2>8. LoadAdds(lines, l)
    BY <1>1, <2>1, <2>6, <2>7 DEF LoadAdds
  <2> QED BY <1>1, <2>3, <2>5, <2>8, LoadAddsSteps
<1>5. CASE DataFails(i)
  <2>1. PICK l : l = [of |-> loads[i].of, cancelled |-> loads[i].cancelled, at |-> "failed", total |-> loads[i].total,
                      buckets |-> loads[i].buckets, read |-> loads[i].read]
    OBVIOUS
  <2>2. [loads[i] EXCEPT !.at = "failed"] = l
    BY SMTT(30), <1>0, <2>1 DEF IsLoad
  <2>3. Step(i, l) /\ UNCHANGED <<asked, panel, lines>>
    BY <1>5, <2>2 DEF DataFails
  <2>4. l.of = loads[i].of /\ l.at = "failed"
    BY SMTT(30), <2>1
  <2>5. LoadAdds(lines, l)
    BY <1>1, <2>4 DEF LoadAdds
  <2> QED BY <1>1, <2>3, <2>5, LoadAddsSteps
<1>6. CASE LoadRejected(i)
  BY <1>1, <1>2, <1>6, LoadAddsSteps DEF LoadRejected
<1>7. CASE Outcome(i)
  <2>1. Step(i, Over) /\ asked' = asked /\ lines' = lines
    BY <1>7 DEF Outcome
  <2>2. CASE loads[i].cancelled
    <3>1. panel' = panel
      BY <1>7, <2>2 DEF Outcome
    <3> QED BY <3>1, <2>1, <1>1, <1>2, LoadAddsSteps
  <2>3. CASE ~loads[i].cancelled /\ loads[i].at = "failed"
    <3>1. panel' = [panel EXCEPT !.state = "error"]
      BY <1>7, <2>3 DEF Outcome
    <3>2. panel'.state = "error"
      BY <3>1, <1>0 DEF IsPanel
    <3>3. PanelAdds(panel', asked)
      BY <3>2 DEF PanelAdds
    <3> QED BY <3>3, <2>1, <1>2, LoadAddsSteps
  <2>4. CASE ~loads[i].cancelled /\ loads[i].at = "done"
    <3>1. panel' = [state |-> "default", series |-> gapFillBuckets(loads[i].of, loads[i].buckets),
                    totalCount |-> loads[i].total, of |-> {loads[i].of}, read |-> loads[i].read]
      BY <1>7, <2>4 DEF Outcome
    <3>2. /\ panel'.series = gapFillBuckets(loads[i].of, loads[i].buckets)
          /\ panel'.totalCount = loads[i].total /\ panel'.read = loads[i].read
      BY SMTT(30), <3>1
    <3>3. loads[i].of = asked
      BY <1>0, <2>4 DEF LoadInv
    <3>4. Adds(loads[i].of, loads[i].read, loads[i].total) /\ loads[i].buckets = Bucketed(loads[i].of, loads[i].read)
      BY <1>1, <2>4 DEF LoadAdds
    <3>5. PanelAdds(panel', asked)
      BY <3>2, <3>3, <3>4 DEF PanelAdds
    <3> QED BY <3>5, <2>1, <1>2, LoadAddsSteps
  <2> QED BY <1>7, <2>2, <2>3, <2>4 DEF Outcome
<1> QED BY <1>3, <1>4, <1>5, <1>6, <1>7

\* The first load of a panel, and every step of it.
LEMMA SeriesInvFrom ==
  ASSUME NEW of, IsAsked(of), PanelFrom(of)
  PROVE  SeriesInv
<1>1. asked = of /\ loads = [i \in {1} |-> Load(asked)] /\ panel = Blank /\ lines = {}
  BY DEF PanelFrom
<1>2. LoadAdds(lines, Load(of))
  <2>1. Load(of).of = of /\ Load(of).at = "sent"
    BY DEF Load
  <2> QED BY <2>1 DEF LoadAdds, IsAsked
<1>3. panel.state = "loading"
  BY <1>1 DEF Blank
<1>4. IsStored(lines)
  BY <1>1, FS_EmptySet DEF IsStored
<1> QED BY <1>1, <1>2, <1>3, <1>4 DEF SeriesInv, PanelAdds

\* Every step of a panel keeps the invariant of its series.
LEMMA SeriesInvNext == PanelInv /\ SeriesInv /\ [PanelNext]_panelVars => SeriesInv'
<1> SUFFICES ASSUME PanelInv, SeriesInv, [PanelNext]_panelVars PROVE SeriesInv'
  OBVIOUS
<1>0. IsAsked(asked) /\ Time \subseteq Nat /\ Minutes \subseteq Nat /\ Presets \subseteq Nat
  BY PanelAssumption DEF SeriesInv
<1>1. ASSUME NEW f \in Nat, NEW t \in Nat PROVE IsAsked([asked EXCEPT !.from = f, !.to = t])
  <2>1. PICK q, a, b : asked = [query |-> q, from |-> a, to |-> b]
    BY <1>0 DEF IsAsked
  <2>2. PICK r : r = [asked EXCEPT !.from = f]
    OBVIOUS
  <2>3. r = [query |-> q, from |-> f, to |-> b]
    BY SMTT(30), <2>1, <2>2
  <2>4. [asked EXCEPT !.from = f, !.to = t] = [r EXCEPT !.to = t]
    BY <2>2
  <2>5. [r EXCEPT !.to = t] = [query |-> q, from |-> f, to |-> t]
    BY SMTT(30), <2>3
  <2> QED BY <2>4, <2>5 DEF IsAsked
<1>2. CASE applyPreset
  <2>1. PICK p \in Presets, t \in Time : t >= p /\ usePanelData([asked EXCEPT !.from = t - p, !.to = t])
    BY <1>2 DEF applyPreset
  <2>2. t - p \in Nat /\ t \in Nat
    BY SMTT(30), <1>0, <2>1
  <2> QED BY <1>1, <2>1, <2>2, EffectAdds
<1>3. CASE applyAbsolute
  <2>1. PICK f \in Nat, t \in Nat : usePanelData([asked EXCEPT !.from = f, !.to = t])
    BY <1>0, <1>3 DEF applyAbsolute
  <2> QED BY <1>1, <2>1, EffectAdds
<1>4. CASE PanelEdited
  <2>1. PICK q \in Queries : usePanelData([asked EXCEPT !.query = q])
    BY <1>4 DEF PanelEdited
  <2>2. PICK r, a, b : asked = [query |-> r, from |-> a, to |-> b] /\ a \in Nat /\ b \in Nat
    BY <1>0 DEF IsAsked
  <2>3. [asked EXCEPT !.query = q] = [query |-> q, from |-> a, to |-> b]
    BY SMTT(30), <2>2
  <2>4. IsAsked([asked EXCEPT !.query = q])
    BY <2>2, <2>3 DEF IsAsked
  <2> QED BY <2>1, <2>4, EffectAdds
<1>5. CASE LineStored
  <2>1. PICK q \in Queries, t \in Time : lines' = lines \cup {[query |-> q, ts |-> t]}
    BY <1>5 DEF LineStored
  <2>2. PICK e : e = [query |-> q, ts |-> t]
    OBVIOUS
  <2>3. e.ts \in Nat /\ lines' = lines \cup {e}
    BY <1>0, <2>1, <2>2
  <2>4. IsFiniteSet(lines')
    BY <2>3, FS_AddElement DEF SeriesInv, IsStored
  <2>5. IsStored(lines') /\ lines \subseteq lines'
    BY <2>3, <2>4 DEF SeriesInv, IsStored
  <2>6. asked' = asked /\ panel' = panel /\ loads' = loads
    BY <1>5 DEF LineStored
  <2>7. \A i \in DOMAIN loads : LoadAdds(lines', loads[i])
    BY <2>5, StoredMore DEF SeriesInv
  <2> QED BY <2>5, <2>6, <2>7 DEF SeriesInv
<1>6. CASE UNCHANGED panelVars
  BY <1>6 DEF panelVars, SeriesInv
<1> QED BY <1>2, <1>3, <1>4, <1>5, <1>6, AnswerAdds DEF PanelNext

\* The first range is the URL's or the default preset's.
LEMMA SeriesInvInit == PanelInit => SeriesInv
<1> SUFFICES ASSUME NEW of \in [query : Queries, from : Minutes, to : Minutes], PanelFrom(of) PROVE SeriesInv
  BY DEF PanelInit
<1>1. of = [query |-> of.query, from |-> of.from, to |-> of.to] /\ of.from \in Minutes /\ of.to \in Minutes
  OBVIOUS
<1>2. IsAsked(of)
  BY <1>1, PanelAssumption DEF IsAsked
<1> QED BY <1>2, SeriesInvFrom

\* SeriesAddsUp, for any number of slots, any length of a range and any number
\* of events: the slots of a shown series hold every event read once, none of
\* them in a later slot than its own, and the number of the stat panel is at
\* most their sum (panelstore.go:199-209, panel-data.ts:105-141).
THEOREM SeriesAddsUpHolds == PanelSpec => []SeriesAddsUp
<1>1. PanelInit => PanelInv
  BY PanelInvFrom DEF PanelInit
<1> QED BY <1>1, SeriesInvInit, SeriesInvSays, PanelInvNext, SeriesInvNext, PTL DEF PanelSpec

-----------------------------------------------------------------------------
(* The two together *)

\* Query-service answering either: the composition implements a search over
\* Retention, and what is proved of each part holds of it.
THEOREM ReadsCompose ==
  ReadsSpec =>
    SearchSpec /\ [](NothingLostBetweenTiers /\ TwiceOnlyOnTheCutoffDay /\ PanelShowsWhatIsAsked /\ SeriesAddsUp)
<1>0. IsAsked(Nothing)
  <2>1. 0 \in Nat
    BY SMTT(30)
  <2>2. PICK q : Nothing = [query |-> q, from |-> 0, to |-> 0]
    BY DEF Nothing
  <2>3. Nothing.query = q /\ Nothing.from = 0 /\ Nothing.to = 0
    BY SMTT(30), <2>2
  <2> QED BY <2>1, <2>2, <2>3 DEF IsAsked
<1>1. ReadsInit => SearchInit /\ PanelInv /\ SeriesInv
  BY <1>0, PanelInvFrom, SeriesInvFrom, SeriesInvInit DEF ReadsInit, PanelInit
<1>2. [ReadsNext]_readsVars => [Search \/ Underneath]_tvars /\ [PanelNext]_panelVars
  BY DEF ReadsNext, readsVars, tvars, panelVars
<1>3. PanelInv => PanelShowsWhatIsAsked
  BY DEF PanelInv
<1>4. ReadsSpec => SearchSpec /\ []PanelInv /\ []SeriesInv
  BY <1>1, <1>2, PanelInvNext, SeriesInvNext, PTL DEF ReadsSpec, SearchSpec
<1> QED BY <1>3, <1>4, SeriesInvSays, NothingLostHolds, TwiceOnlyHolds, PTL
=============================================================================
