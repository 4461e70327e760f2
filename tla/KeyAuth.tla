------------------------------ MODULE KeyAuth ------------------------------
(***************************************************************************)
(* Authenticator and KeyStore of pkg/auth: requests of ingest- and         *)
(* query-service present one API key, whose validation is cached in Redis, *)
(* while its row is revoked, its tenant suspended, and time passes.  The   *)
(* right secret is presented: a wrong one is refused on every path and     *)
(* changes nothing.                                                        *)
(***************************************************************************)
EXTENDS Integers

CONSTANTS
  Req,        \* requests under way at a time
  TTL,        \* lifetime of a cache entry
  MaxDelay,   \* the longest an Authenticate takes
  ExpiresAt,  \* the key's expires_at
  MaxTime     \* bound on the clock

ASSUME KeyAuthAssumption ==
  /\ TTL \in Nat \ {0} /\ MaxDelay \in Nat
  /\ ExpiresAt \in Nat /\ MaxTime \in Nat

VARIABLES
  now,
  revokedAt,    \* api_keys.revoked_at, Never for NULL
  suspendedAt,  \* since when the tenant is not active, Never if it is
  until,        \* when the cache entry ends, 0 for no entry
  pc,           \* where the Authenticate of a request stands
  start,        \* when it began
  revoker,      \* where KeyStore.Revoke stands
  busted        \* history: when Revoke returned, having deleted the entry

vars == <<now, revokedAt, suspendedAt, until, pc, start, revoker, busted>>

\* Later than every time.
Never == MaxTime + 1

TypeOK ==
  /\ now \in 0..MaxTime
  /\ revokedAt \in 0..MaxTime \cup {Never} /\ suspendedAt \in 0..MaxTime \cup {Never}
  /\ until \in 0..(MaxTime + TTL)
  /\ pc \in [Req -> {"idle", "get", "tenant", "key", "check", "bust", "set", "ok", "rejected"}]
  /\ start \in [Req -> 0..MaxTime]
  /\ revoker \in {"idle", "del"}
  /\ busted \in 0..MaxTime \cup {Never}

Init ==
  /\ now = 0 /\ revokedAt = Never /\ suspendedAt = Never /\ until = 0
  /\ pc = [p \in Req |-> "idle"] /\ start = [p \in Req |-> 0]
  /\ revoker = "idle" /\ busted = Never

Goto(p, label) == pc' = [pc EXCEPT ![p] = label]
Running(p) == pc[p] \notin {"idle", "ok", "rejected"}
Hit == now < until

-----------------------------------------------------------------------------
(* Authenticate *)

Begin(p) ==
  /\ ~Running(p) /\ Goto(p, "get") /\ start' = [start EXCEPT ![p] = now]
  /\ UNCHANGED <<now, revokedAt, suspendedAt, until, revoker, busted>>

\* A hit is verified against the entry alone; a miss, or an error of Redis,
\* goes to Postgres.
CacheGet(p) ==
  /\ pc[p] = "get"
  /\ \/ Hit /\ Goto(p, IF now < ExpiresAt THEN "ok" ELSE "bust")
     \/ Goto(p, "tenant")
  /\ UNCHANGED <<now, revokedAt, suspendedAt, until, start, revoker, busted>>

\* The entry of an expired key is deleted, if Redis answers.
CacheBust(p) ==
  /\ pc[p] = "bust" /\ Goto(p, "rejected")
  /\ until' \in {until, 0}
  /\ UNCHANGED <<now, revokedAt, suspendedAt, start, revoker, busted>>

ResolveTenantID(p) ==
  /\ pc[p] = "tenant"
  /\ \/ suspendedAt = Never /\ Goto(p, "key")
     \/ Goto(p, "rejected")
  /\ UNCHANGED <<now, revokedAt, suspendedAt, until, start, revoker, busted>>

\* The scoped SELECT, and the checks on the row it returned.  The key's
\* expiry is compared with the clock afterwards.
ResolveKey(p) ==
  /\ pc[p] = "key"
  /\ \/ revokedAt = Never /\ Goto(p, "check")
     \/ Goto(p, "rejected")
  /\ UNCHANGED <<now, revokedAt, suspendedAt, until, start, revoker, busted>>

CheckExpiry(p) ==
  /\ pc[p] = "check" /\ Goto(p, IF now < ExpiresAt THEN "set" ELSE "rejected")
  /\ UNCHANGED <<now, revokedAt, suspendedAt, until, start, revoker, busted>>

\* The entry ends when the key does.
CacheSetToExpiry(p) ==
  /\ pc[p] = "set" /\ Goto(p, "ok")
  /\ until' \in {until, ExpiresAt}
  /\ UNCHANGED <<now, revokedAt, suspendedAt, start, revoker, busted>>

\* Failing to write the entry does not fail the request.
CacheSet(p) ==
  /\ pc[p] = "set" /\ Goto(p, "ok")
  /\ until' \in {until, now + TTL}
  /\ UNCHANGED <<now, revokedAt, suspendedAt, start, revoker, busted>>

-----------------------------------------------------------------------------
(* Revocation and suspension *)

\* KeyStore.Revoke commits the UPDATE, then deletes the entry.
Revoke ==
  /\ revoker = "idle" /\ revoker' = "del"
  /\ revokedAt' = IF revokedAt = Never THEN now ELSE revokedAt
  /\ UNCHANGED <<now, suspendedAt, until, pc, start, busted>>

RevokeDel ==
  /\ revoker = "del" /\ revoker' = "idle"
  /\ \/ until' = 0 /\ busted' = IF busted = Never THEN now ELSE busted
     \/ UNCHANGED <<until, busted>>
  /\ UNCHANGED <<now, revokedAt, suspendedAt, pc, start>>

\* ApiKeyService.revoke of the control-plane only updates the row.
ControlPlaneRevoke ==
  /\ revokedAt = Never /\ revokedAt' = now
  /\ UNCHANGED <<now, suspendedAt, until, pc, start, revoker, busted>>

SuspendTenant ==
  /\ suspendedAt = Never /\ suspendedAt' = now
  /\ UNCHANGED <<now, revokedAt, until, pc, start, revoker, busted>>

-----------------------------------------------------------------------------
\* An Authenticate takes at most MaxDelay.
Tick ==
  /\ now < MaxTime /\ now' = now + 1
  /\ \A p \in Req : Running(p) => now < start[p] + MaxDelay
  /\ UNCHANGED <<revokedAt, suspendedAt, until, pc, start, revoker, busted>>

Authenticate(p) ==
  \/ Begin(p) \/ CacheGet(p) \/ CacheBust(p) \/ ResolveTenantID(p)
  \/ ResolveKey(p) \/ CheckExpiry(p) \/ CacheSet(p)

Next ==
  \/ \E p \in Req : Authenticate(p)
  \/ Revoke \/ RevokeDel \/ ControlPlaneRevoke \/ SuspendTenant
  \/ Tick

Spec == Init /\ [][Next]_vars

-----------------------------------------------------------------------------
\* authenticator.go:13-17, store.go:30-43, 184-200: whoever revokes the key,
\* a request that begins TTL + MaxDelay later is not authenticated: an entry
\* can be written as late as the slowest Authenticate that read the row
\* before it was revoked.  The same bound holds for a suspended tenant, whose
\* status is read on a miss only.  No cache entry lets an expired key in
\* (authenticator.go:176-183).
StatusBounds ==
  \A p \in Req : pc[p] = "ok" =>
    /\ start[p] < revokedAt + TTL + MaxDelay
    /\ start[p] < suspendedAt + TTL + MaxDelay
    /\ start[p] < ExpiresAt

\* authenticator.go:13-17, "It bounds revocation propagation lag: a revoked
\* key may keep authenticating from cache for up to this long": a request
\* that begins TTL after the revocation is not authenticated.
WithinTTL == \A p \in Req : pc[p] = "ok" => start[p] < revokedAt + TTL

\* store.go:137-139, "Revoke also busts the auth cache so a revoked key stops
\* authenticating immediately (ahead of the 60s TTL)": a request that begins
\* after Revoke has deleted the entry is not authenticated.
StopsImmediately == \A p \in Req : pc[p] = "ok" => start[p] <= busted
=============================================================================
