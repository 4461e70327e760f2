---------------------------- MODULE GatesProofs ----------------------------
(***************************************************************************)
(* The two gates of ingest-service for any number of requests and tenants  *)
(* and any clocks: KeyAuth's StatusBounds, and RateLimiter's               *)
(* AdmissionBound and RefusalsFair.                                        *)
(***************************************************************************)
EXTENDS Gates, TLAPS

-----------------------------------------------------------------------------
(* The authentication of a key *)

\* What holds of a request under way: it is not older than MaxDelay, and the
\* rows it has read were good no earlier than its start.
RequestInv(p) ==
  /\ start[p] <= now
  /\ Running(p) => now <= start[p] + MaxDelay
  /\ pc[p] \in {"key", "check", "set"} => start[p] <= suspendedAt
  /\ pc[p] \in {"check", "set"} => start[p] <= revokedAt
  /\ pc[p] = "set" => start[p] < ExpiresAt
  /\ pc[p] = "ok" =>
       /\ start[p] < revokedAt + TTL + MaxDelay
       /\ start[p] < suspendedAt + TTL + MaxDelay
       /\ start[p] < ExpiresAt

\* The cache entry outlives neither the row it was read from by more than an
\* entry's lifetime and an Authenticate, nor the present by more than TTL.
EntryInv ==
  /\ until <= now + TTL
  /\ until <= revokedAt + TTL + MaxDelay
  /\ until <= suspendedAt + TTL + MaxDelay

KeyInv == TypeOK /\ EntryInv /\ \A p \in Req : RequestInv(p)

\* The initial state satisfies the invariant of Authenticator and KeyStore.
LEMMA KeyInvInit == Init => KeyInv
  BY KeyAuthAssumption
  DEF Init, KeyInv, TypeOK, EntryInv, RequestInv, Running, Never

\* Every step of an Authenticate keeps the types (authenticator.go:157-213).
LEMMA AuthenticateType ==
  ASSUME KeyInv, NEW p \in Req, Authenticate(p)
  PROVE  TypeOK'
<1>1. CASE Begin(p)
  BY <1>1 DEF Begin, KeyInv, TypeOK, Goto
<1>2. CASE CacheGet(p)
  BY <1>2 DEF CacheGet, KeyInv, TypeOK, Goto
<1>3. CASE CacheBust(p)
  BY <1>3, KeyAuthAssumption DEF CacheBust, KeyInv, TypeOK, Goto
<1>4. CASE ResolveTenantID(p)
  BY <1>4 DEF ResolveTenantID, KeyInv, TypeOK, Goto
<1>5. CASE ResolveKey(p)
  BY <1>5 DEF ResolveKey, KeyInv, TypeOK, Goto
<1>6. CASE CheckExpiry(p)
  BY <1>6 DEF CheckExpiry, KeyInv, TypeOK, Goto
<1>7. CASE CacheSet(p)
  BY <1>7, KeyAuthAssumption DEF CacheSet, KeyInv, TypeOK, Goto
<1> QED BY <1>1, <1>2, <1>3, <1>4, <1>5, <1>6, <1>7 DEF Authenticate

\* Every step of an Authenticate keeps the bounds on the cache entry: only
\* CacheSet lengthens its life, and it does so within MaxDelay of a read of
\* both rows (authenticator.go:201-213).
LEMMA AuthenticateEntry ==
  ASSUME KeyInv, NEW p \in Req, Authenticate(p)
  PROVE  EntryInv'
<1>1. CASE CacheBust(p)
  BY <1>1, KeyAuthAssumption DEF CacheBust, KeyInv, TypeOK, EntryInv, Never
<1>2. CASE CacheSet(p)
  <2>1. /\ start[p] <= suspendedAt /\ start[p] <= revokedAt
        /\ now <= start[p] + MaxDelay
    BY <1>2 DEF CacheSet, KeyInv, RequestInv, Running
  <2> QED BY <1>2, <2>1, KeyAuthAssumption DEF CacheSet, KeyInv, TypeOK, EntryInv, Never
<1>3. CASE UNCHANGED <<now, until, revokedAt, suspendedAt>>
  BY <1>3 DEF KeyInv, EntryInv
<1> QED BY <1>1, <1>2, <1>3
        DEF Authenticate, Begin, CacheGet, ResolveTenantID, ResolveKey, CheckExpiry

\* A step of an Authenticate concerns the request that takes it.
LEMMA AuthenticateOthers ==
  ASSUME KeyInv, NEW p \in Req, Authenticate(p), NEW q \in Req, q # p
  PROVE  RequestInv(q)'
<1>1. /\ pc'[q] = pc[q] /\ start'[q] = start[q]
      /\ UNCHANGED <<now, revokedAt, suspendedAt>>
  BY DEF KeyInv, TypeOK, Authenticate, Begin, CacheGet, CacheBust, ResolveTenantID,
         ResolveKey, CheckExpiry, CacheSet, Goto
<1> QED BY <1>1 DEF KeyInv, RequestInv, Running

\* A request keeps what is known of it through each of its own steps.
LEMMA AuthenticateRequest ==
  ASSUME KeyInv, NEW p \in Req, Authenticate(p)
  PROVE  RequestInv(p)'
<1>0. /\ now \in Nat /\ start[p] \in Nat /\ start[p] <= MaxTime /\ now <= MaxTime
      /\ until \in Nat /\ revokedAt \in Nat /\ suspendedAt \in Nat
      /\ pc \in [Req -> {"idle", "get", "tenant", "key", "check", "bust", "set", "ok", "rejected"}]
      /\ start \in [Req -> 0..MaxTime]
  BY KeyAuthAssumption DEF KeyInv, TypeOK, Never
<1>r. RequestInv(p) /\ EntryInv
  BY DEF KeyInv
<1>1. CASE Begin(p)
  <2>1. pc'[p] = "get" /\ start'[p] = now /\ now' = now
    BY <1>1, <1>0 DEF Begin, Goto
  <2> QED BY <2>1, <1>0, KeyAuthAssumption DEF RequestInv, Running
<1>2. CASE CacheGet(p)
  <2>0. /\ start' = start /\ now' = now /\ revokedAt' = revokedAt
        /\ suspendedAt' = suspendedAt /\ Running(p)
    BY <1>2 DEF CacheGet, Running
  <2>1. CASE Hit /\ pc'[p] = "ok" /\ now < ExpiresAt
    BY <2>0, <2>1, <1>0, <1>r, KeyAuthAssumption DEF Hit, RequestInv, EntryInv, Running
  <2>2. CASE pc'[p] \in {"bust", "tenant"}
    BY <2>0, <2>2, <1>0, <1>r DEF RequestInv, Running
  <2> QED BY <1>2, <1>0, <2>1, <2>2 DEF CacheGet, Goto
<1>3. CASE CacheBust(p)
  <2>1. /\ pc'[p] = "rejected" /\ start' = start /\ now' = now
    BY <1>3, <1>0 DEF CacheBust, Goto
  <2> QED BY <2>1, <1>r DEF RequestInv, Running
<1>4. CASE ResolveTenantID(p)
  <2>1. /\ pc'[p] = "rejected" \/ (pc'[p] = "key" /\ suspendedAt = Never)
        /\ start' = start /\ now' = now /\ suspendedAt' = suspendedAt /\ Running(p)
    BY <1>4, <1>0 DEF ResolveTenantID, Goto, Running
  <2> QED BY <2>1, <1>r, <1>0, KeyAuthAssumption DEF RequestInv, Running, Never
<1>5. CASE ResolveKey(p)
  <2>1. /\ pc'[p] = "rejected" \/ (pc'[p] = "check" /\ revokedAt = Never)
        /\ start' = start /\ now' = now /\ suspendedAt' = suspendedAt
        /\ revokedAt' = revokedAt /\ pc[p] = "key"
    BY <1>5, <1>0 DEF ResolveKey, Goto
  <2> QED BY <2>1, <1>r, <1>0, KeyAuthAssumption DEF RequestInv, Running, Never
<1>6. CASE CheckExpiry(p)
  <2>1. /\ pc'[p] = "rejected" \/ (pc'[p] = "set" /\ now < ExpiresAt)
        /\ start' = start /\ now' = now /\ suspendedAt' = suspendedAt
        /\ revokedAt' = revokedAt /\ pc[p] = "check"
    BY <1>6, <1>0 DEF CheckExpiry, Goto
  <2> QED BY <2>1, <1>r, <1>0, KeyAuthAssumption DEF RequestInv, Running
<1>7. CASE CacheSet(p)
  <2>1. /\ pc'[p] = "ok" /\ start' = start /\ now' = now /\ suspendedAt' = suspendedAt
        /\ revokedAt' = revokedAt /\ pc[p] = "set"
    BY <1>7, <1>0 DEF CacheSet, Goto
  <2> QED BY <2>1, <1>r, <1>0, KeyAuthAssumption DEF RequestInv, Running
<1> QED BY <1>1, <1>2, <1>3, <1>4, <1>5, <1>6, <1>7 DEF Authenticate

\* A revocation, whichever service makes it, and a suspension date from the
\* present, which no request under way has begun after.
LEMMA StatusKeepsInv ==
  ASSUME KeyInv, Revoke \/ RevokeDel \/ ControlPlaneRevoke \/ SuspendTenant
  PROVE  KeyInv'
<1>1. TypeOK'
  BY KeyAuthAssumption
  DEF KeyInv, TypeOK, Revoke, RevokeDel, ControlPlaneRevoke, SuspendTenant, Never
<1>2. /\ now' = now /\ pc' = pc /\ start' = start /\ until' \in {until, 0}
      /\ revokedAt' = revokedAt \/ (revokedAt = Never /\ revokedAt' = now)
      /\ suspendedAt' = suspendedAt \/ (suspendedAt = Never /\ suspendedAt' = now)
  BY DEF Revoke, RevokeDel, ControlPlaneRevoke, SuspendTenant
<1>3. EntryInv'
  BY <1>2, KeyAuthAssumption DEF KeyInv, TypeOK, EntryInv, Never
<1>4. ASSUME NEW q \in Req PROVE RequestInv(q)'
  <2>1. RequestInv(q) /\ start[q] \in Nat /\ now \in Nat /\ revokedAt \in Nat /\ suspendedAt \in Nat
    BY KeyAuthAssumption DEF KeyInv, TypeOK, Never
  <2> QED BY <1>2, <2>1, KeyAuthAssumption DEF RequestInv, Running
<1> QED BY <1>1, <1>3, <1>4 DEF KeyInv

\* Time passes no further than MaxDelay past the start of any request.
LEMMA TickKeepsInv ==
  ASSUME KeyInv, Tick
  PROVE  KeyInv'
<1>1. TypeOK'
  BY KeyAuthAssumption DEF KeyInv, TypeOK, Tick
<1>2. EntryInv'
  BY KeyAuthAssumption DEF KeyInv, TypeOK, EntryInv, Tick, Never
<1>3. ASSUME NEW q \in Req PROVE RequestInv(q)'
  <2>1. RequestInv(q) /\ start[q] \in Nat /\ now \in Nat
    BY KeyAuthAssumption DEF KeyInv, TypeOK, Never
  <2>2. /\ now' = now + 1 /\ pc' = pc /\ start' = start /\ suspendedAt' = suspendedAt
        /\ revokedAt' = revokedAt
        /\ Running(q) => now < start[q] + MaxDelay
    BY DEF Tick
  <2> QED BY <2>1, <2>2, KeyAuthAssumption DEF RequestInv, Running
<1> QED BY <1>1, <1>2, <1>3 DEF KeyInv

\* Every step of Authenticator, KeyStore and the clock keeps the invariant.
LEMMA KeyInvNext == KeyInv /\ [Next]_vars => KeyInv'
<1> SUFFICES ASSUME KeyInv, [Next]_vars PROVE KeyInv'
  OBVIOUS
<1>1. ASSUME NEW p \in Req, Authenticate(p) PROVE KeyInv'
  <2>1. \A q \in Req : RequestInv(q)'
    BY <1>1, AuthenticateRequest, AuthenticateOthers
  <2> QED BY <1>1, <2>1, AuthenticateType, AuthenticateEntry DEF KeyInv
<1>2. CASE UNCHANGED vars
  BY <1>2 DEF vars, KeyInv, TypeOK, EntryInv, RequestInv, Running
<1> QED BY <1>1, <1>2, StatusKeepsInv, TickKeepsInv DEF Next

\* The invariant implies the bound the property states.
LEMMA KeyInvImplies == KeyInv => StatusBounds
  BY DEF KeyInv, RequestInv, StatusBounds

\* StatusBounds, for every number of concurrent requests: a revoked key, a
\* key of a suspended tenant and an expired key are refused to every request
\* that begins late enough (authenticator.go:13-17, 157-213, store.go:137-200).
THEOREM StatusBoundsHolds == Spec => []StatusBounds
<1>1. Spec => []KeyInv
  BY KeyInvInit, KeyInvNext, PTL DEF Spec
<1> QED BY <1>1, KeyInvImplies, PTL

-----------------------------------------------------------------------------
(* The rate limiter *)

\* The smaller and the larger of two numbers.
LEMMA MinOfTwo ==
  ASSUME NEW a \in Int, NEW b \in Int
  PROVE  Min({a, b}) = IF a <= b THEN a ELSE b
  BY DEF Min

\* The larger of two numbers.
LEMMA MaxOfTwo ==
  ASSUME NEW a \in Int, NEW b \in Int
  PROVE  Max({a, b}) = IF a <= b THEN b ELSE a
  BY DEF Max

\* Division rounded up, as math.Ceil of the quotient: the least multiple.
LEMMA CeilDivLeast ==
  ASSUME NEW a \in Nat, NEW b \in Nat \ {0}
  PROVE  /\ CeilDiv(a, b) \in Nat
         /\ a <= CeilDiv(a, b) * b
         /\ a > 0 => (CeilDiv(a, b) - 1) * b < a
         /\ a > 0 => CeilDiv(a, b) > 0
<1> DEFINE q == (a + b - 1) \div b
<1>1. /\ a + b - 1 \in Nat /\ q \in Nat
      /\ b * q <= a + b - 1 /\ a + b - 1 < b * q + b
  OBVIOUS
<1>2. (q - 1) * b = b * q - b /\ q * b = b * q
  BY <1>1
<1>3. a > 0 => q > 0
  BY <1>1
<1> QED BY <1>1, <1>2, <1>3 DEF CeilDiv

\* What a bucket holds at a time, the cap aside.
Uncapped(b, n) == b.tokens + (n - b.ts) * Rate

\* The allowance of a tenant: what the ideal bucket holds, and the refills
\* the stale readings so far may have counted twice.
Allowance(t) == ideal[t] + Rate * Lag * stale[t]

\* What ties the bucket in Redis to the ideal one.  It holds no less than the
\* ideal one and no more than the allowance; one that is gone would have been
\* full, and one that is there is full in the allowance before it expires.
TenantInv(t) ==
  /\ 0 <= Allowance(t)
  /\ Stored(t) = Absent => Burst <= Allowance(t)
  /\ Stored(t) # Absent =>
       /\ bucket[t].ts <= clock
       /\ ideal[t] <= Uncapped(bucket[t], clock)
       /\ Burst <= Allowance(t) \/ Uncapped(bucket[t], clock) <= Allowance(t)
       /\ Burst <= Allowance(t) + (expireAt[t] - clock) * Rate

LimiterInv ==
  /\ LimiterTypeOK /\ ideal \in [Tenant -> Int] /\ ~wronged
  /\ \A t \in Tenant : TenantInv(t)

\* The lifetime PEXPIRE gives a bucket is enough to fill it (redis.go:24-26).
LEMMA TTLFills == BucketTTL \in Nat /\ Burst <= BucketTTL * Rate
<1>1. CeilDiv(Burst, Rate) \in Nat /\ Burst <= CeilDiv(Burst, Rate) * Rate
  BY LimiterAssumption, CeilDivLeast
<1>2. PICK c : c = CeilDiv(Burst, Rate)
  OBVIOUS
<1>3. (c + Slack) * Rate = c * Rate + Slack * Rate /\ Slack * Rate >= 0
  BY <1>1, <1>2, LimiterAssumption
<1> QED BY <1>1, <1>2, <1>3, LimiterAssumption DEF BucketTTL

\* What a bucket holds after the refill of a request whose reading is n.
LEMMA RefillIs ==
  ASSUME NEW b \in Bucket, NEW n \in 0..MaxClock, NEW c \in n..MaxClock, b.ts <= c
  PROVE  /\ Refill(b, n) \in 0..Burst
         /\ Refill(b, n) = Burst \/ Uncapped(b, n) <= Refill(b, n)
         /\ Refill(b, n) <= Uncapped(b, c)
<1>0. /\ b.tokens \in 0..Burst /\ b.ts \in 0..MaxClock /\ MaxClock \in Nat /\ n \in Nat
      /\ Burst \in Nat /\ Rate \in Nat
  BY LimiterAssumption DEF Bucket
<1>1. PICK d : d = Max({n - b.ts, 0})
  OBVIOUS
<1>2. d \in Nat /\ d = IF n <= b.ts THEN 0 ELSE n - b.ts
  BY <1>0, <1>1, MaxOfTwo
<1>3. d * Rate \in Nat /\ d * Rate >= (n - b.ts) * Rate /\ (n - b.ts) * Rate \in Int
  BY <1>0, <1>2
<1>4. Refill(b, n) = Min({Burst, b.tokens + d * Rate})
  BY <1>1 DEF Refill
<1>5. Refill(b, n) = IF Burst <= b.tokens + d * Rate THEN Burst ELSE b.tokens + d * Rate
  BY <1>0, <1>3, <1>4, MinOfTwo
<1>6. c - b.ts \in Nat /\ d <= c - b.ts
  BY <1>0, <1>2
<1>7. d * Rate <= (c - b.ts) * Rate /\ (c - b.ts) * Rate \in Int
  BY <1>0, <1>2, <1>6
<1> QED BY <1>0, <1>3, <1>5, <1>7 DEF Uncapped

\* The bucket is empty to begin with, and the ideal one full.
LEMMA LimiterInvInit == LimiterInit => LimiterInv
<1> SUFFICES ASSUME LimiterInit PROVE LimiterInv
  OBVIOUS
<1>1. LimiterTypeOK /\ ideal \in [Tenant -> Int] /\ ~wronged
  <2>1. /\ clock \in 0..MaxClock /\ stale \in [Tenant -> 0..MaxStale]
        /\ ideal \in [Tenant -> Int] /\ \A t \in Tenant : ideal[t] <= Burst
    BY LimiterAssumption DEF LimiterInit
  <2>2. expireAt \in [Tenant -> 0..(MaxClock + BucketTTL)]
    BY TTLFills, LimiterAssumption DEF LimiterInit
  <2>3. /\ bucket \in [Tenant -> Bucket \cup {Absent}] /\ wronged = FALSE
        /\ answer \in [Tenant -> {"none", "admitted", "throttled", "unavailable"}]
    BY DEF LimiterInit
  <2> QED BY ZenonT(30), <2>1, <2>2, <2>3 DEF LimiterTypeOK
<1>2. ASSUME NEW t \in Tenant PROVE TenantInv(t)
  <2>1. Stored(t) = Absent /\ ideal[t] = Burst /\ stale[t] = 0
    BY DEF LimiterInit, Stored
  <2>2. Rate * Lag * 0 = 0
    BY LimiterAssumption
  <2> QED BY <2>1, <2>2, LimiterAssumption DEF TenantInv, Allowance
<1> QED BY <1>1, <1>2 DEF LimiterInv

\* The types of what a request of a tenant reads.
LEMMA TenantTypes ==
  ASSUME LimiterInv, NEW t \in Tenant
  PROVE  /\ clock \in Nat /\ clock <= MaxClock
         /\ ideal[t] \in Int /\ ideal[t] <= Burst
         /\ stale[t] \in Nat /\ expireAt[t] \in Nat
         /\ Stored(t) # Absent => clock < expireAt[t] /\ Stored(t) = bucket[t] /\ bucket[t] \in Bucket
         /\ Rate * Lag * stale[t] \in Int /\ Allowance(t) \in Int
<1>1. /\ clock \in Nat /\ clock <= MaxClock /\ ideal[t] \in Int /\ ideal[t] <= Burst
      /\ stale[t] \in Nat
  BY LimiterAssumption DEF LimiterInv, LimiterTypeOK
<1>2. expireAt[t] \in Nat
  BY LimiterAssumption, TTLFills DEF LimiterInv, LimiterTypeOK
<1>3. Stored(t) # Absent => clock < expireAt[t] /\ Stored(t) = bucket[t] /\ bucket[t] \in Bucket
  BY DEF LimiterInv, LimiterTypeOK, Stored
<1>4. Rate * Lag * stale[t] \in Int /\ Allowance(t) \in Int
  BY <1>1, LimiterAssumption DEF Allowance
<1> QED BY <1>1, <1>2, <1>3, <1>4

\* The bucket the script of a request works with: a full one if there is none.
Read(t, n) == IF Stored(t) = Absent THEN [tokens |-> Burst, ts |-> n] ELSE Stored(t)

\* What the script finds in the bucket, against the ideal bucket and the
\* allowance (redis.go:33-48).
LEMMA ScriptFinds ==
  ASSUME LimiterInv, NEW t \in Tenant, NEW n \in 0..clock
  PROVE  /\ Refill(Read(t, n), n) \in 0..Burst
         /\ ideal[t] <= Refill(Read(t, n), n) + (clock - n) * Rate
         /\ Refill(Read(t, n), n) <= Allowance(t)
         /\ (clock - n) * Rate \in Nat
<1>0. /\ Burst \in Nat /\ Rate \in Nat /\ MaxClock \in Nat
      /\ clock \in Nat /\ clock <= MaxClock /\ n \in Nat /\ n <= clock
      /\ ideal[t] \in Int /\ ideal[t] <= Burst /\ Allowance(t) \in Int
  BY LimiterAssumption, TenantTypes
<1>1. TenantInv(t)
  BY DEF LimiterInv
<1>2. (clock - n) * Rate \in Nat
  BY <1>0
<1>3. CASE Stored(t) = Absent
  <2>1. Read(t, n) = [tokens |-> Burst, ts |-> n]
    BY <1>3 DEF Read
  <2>2. Read(t, n) \in Bucket /\ Read(t, n).ts <= clock /\ Read(t, n).ts = n /\ Read(t, n).tokens = Burst
    BY <2>1, <1>0 DEF Bucket
  <2>3. Uncapped(Read(t, n), n) = Burst
    BY <2>2, <1>0 DEF Uncapped
  <2>4. Refill(Read(t, n), n) = Burst
    BY <2>2, <2>3, <1>0, RefillIs
  <2> QED BY <2>4, <1>0, <1>1, <1>2, <1>3 DEF TenantInv
<1>4. CASE Stored(t) # Absent
  <2>1. Read(t, n) = bucket[t] /\ bucket[t] \in Bucket
    BY <1>4, TenantTypes DEF Read
  <2>2. PICK b \in Bucket : b = bucket[t]
    BY <2>1
  <2>3. /\ b.ts <= clock /\ ideal[t] <= Uncapped(b, clock)
        /\ Burst <= Allowance(t) \/ Uncapped(b, clock) <= Allowance(t)
    BY <1>1, <1>4, <2>2 DEF TenantInv
  <2>4. /\ Refill(b, n) \in 0..Burst /\ Refill(b, n) <= Uncapped(b, clock)
        /\ Refill(b, n) = Burst \/ Uncapped(b, n) <= Refill(b, n)
    BY <1>0, <2>3, RefillIs
  <2>5. b.tokens \in Int /\ b.ts \in Int
    BY <1>0 DEF Bucket
  <2>6. (clock - b.ts) * Rate = (n - b.ts) * Rate + (clock - n) * Rate /\ (n - b.ts) * Rate \in Int
    BY <2>5, <1>0
  <2>7. Uncapped(b, clock) = Uncapped(b, n) + (clock - n) * Rate /\ Uncapped(b, n) \in Int
    BY <2>5, <2>6, <1>0, <1>2 DEF Uncapped
  <2> QED BY <2>1, <2>2, <2>3, <2>4, <2>7, <1>0, <1>2
<1> QED BY <1>3, <1>4

\* A request that runs the script keeps the types.
LEMMA AllowType ==
  ASSUME LimiterInv, NEW t \in Tenant, NEW n \in 0..clock, Script(t, n), clock' = clock,
         stale[t] < MaxStale \/ n = clock,
         stale' = [stale EXCEPT ![t] = IF n = clock THEN @ ELSE @ + 1]
  PROVE  LimiterTypeOK' /\ ideal' \in [Tenant -> Int]
<1> DEFINE r == Refill(Read(t, n), n)
<1>0. /\ r \in 0..Burst /\ clock \in Nat /\ n \in 0..MaxClock /\ Cost \in Nat /\ Burst \in Nat
      /\ MaxClock \in Nat /\ MaxStale \in Nat
  BY LimiterAssumption, ScriptFinds, TenantTypes
<1>1. /\ bucket' = [bucket EXCEPT ![t] = [tokens |-> IF r >= Cost THEN r - Cost ELSE r, ts |-> n]]
      /\ expireAt' = [expireAt EXCEPT ![t] = clock + BucketTTL]
      /\ answer' = [answer EXCEPT ![t] = IF r >= Cost THEN "admitted" ELSE "throttled"]
      /\ ideal' = [ideal EXCEPT ![t] = IF r >= Cost THEN @ - Cost ELSE @]
      /\ wronged' \in BOOLEAN
  BY ZenonT(30) DEF Script, take, Read
<1>2. bucket' \in [Tenant -> Bucket \cup {Absent}]
  <2>1. [tokens |-> IF r >= Cost THEN r - Cost ELSE r, ts |-> n] \in Bucket
    BY <1>0 DEF Bucket
  <2> QED BY <1>1, <2>1 DEF LimiterInv, LimiterTypeOK
<1>3. expireAt' \in [Tenant -> 0..(MaxClock + BucketTTL)]
  BY <1>0, <1>1, TTLFills DEF LimiterInv, LimiterTypeOK
<1>4. ideal' \in [Tenant -> Int] /\ \A u \in Tenant : ideal'[u] <= Burst
  BY <1>0, <1>1 DEF LimiterInv, LimiterTypeOK
<1>5. stale' \in [Tenant -> 0..MaxStale]
  BY <1>0 DEF LimiterInv, LimiterTypeOK
<1>6. answer' \in [Tenant -> {"none", "admitted", "throttled", "unavailable"}] /\ clock' \in 0..MaxClock
  BY <1>1 DEF LimiterInv, LimiterTypeOK
<1> QED BY <1>1, <1>2, <1>3, <1>4, <1>5, <1>6 DEF LimiterTypeOK

\* A request that runs the script keeps the relation of its tenant's bucket to
\* the ideal one, and refuses nothing the ideal one held (redis.go:33-62).
LEMMA AllowTenant ==
  ASSUME LimiterInv, NEW t \in Tenant, NEW n \in 0..clock, Script(t, n), clock' = clock,
         clock - n <= Lag,
         stale' = [stale EXCEPT ![t] = IF n = clock THEN @ ELSE @ + 1]
  PROVE  TenantInv(t)' /\ ~wronged'
<1>r. PICK r : r = Refill(Read(t, n), n)
  OBVIOUS
<1>p. PICK paid : paid = IF r >= Cost THEN Cost ELSE 0
  OBVIOUS
<1>0. /\ r \in Int /\ 0 <= r /\ r <= Burst /\ clock \in Nat /\ clock <= MaxClock /\ n \in Nat /\ n <= clock
      /\ Cost \in Nat /\ Burst \in Nat /\ Rate \in Nat /\ Lag \in Nat
      /\ ideal[t] \in Int /\ stale[t] \in Nat /\ Allowance(t) \in Int
      /\ paid \in Nat /\ paid <= r
  BY <1>r, <1>p, LimiterAssumption, ScriptFinds, TenantTypes
<1>f. /\ ideal[t] <= r + (clock - n) * Rate /\ r <= Allowance(t)
      /\ (clock - n) * Rate \in Nat
  BY <1>r, ScriptFinds
<1>s. /\ bucket' = [bucket EXCEPT ![t] = [tokens |-> IF r >= Cost THEN r - Cost ELSE r, ts |-> n]]
      /\ expireAt' = [expireAt EXCEPT ![t] = clock + BucketTTL]
      /\ ideal' = [ideal EXCEPT ![t] = IF r >= Cost THEN @ - Cost ELSE @]
      /\ wronged' => wronged \/ (~(r >= Cost) /\ ideal[t] - Rate * (clock - n) >= Cost)
  BY ZenonT(30), <1>r DEF Script, take, Read
<1>1. /\ bucket'[t] = [tokens |-> r - paid, ts |-> n]
      /\ expireAt'[t] = clock + BucketTTL
      /\ ideal'[t] = ideal[t] - paid
      /\ stale'[t] = IF n = clock THEN stale[t] ELSE stale[t] + 1
  BY <1>0, <1>p, <1>s DEF LimiterInv, LimiterTypeOK
<1>2. ~wronged'
  <2>1. Rate * (clock - n) = (clock - n) * Rate
    BY <1>0
  <2>2. ~(r >= Cost) => ~(ideal[t] - Rate * (clock - n) >= Cost)
    BY <2>1, <1>0, <1>f
  <2> QED BY <2>2, <1>s DEF LimiterInv
<1>3. Allowance(t)' \in Int /\ Allowance(t)' >= Allowance(t) - paid + (clock - n) * Rate
  <2> DEFINE K == Rate * Lag
  <2>1. K \in Nat /\ K * stale[t] \in Nat /\ K * (stale[t] + 1) = K * stale[t] + K
    BY <1>0
  <2>2. (clock - n) * Rate <= K
    BY <1>0
  <2>3. n = clock => (clock - n) * Rate = 0
    BY <1>0
  <2>4. /\ Allowance(t)' = ideal'[t] + K * stale'[t]
        /\ Allowance(t) = ideal[t] + K * stale[t]
    BY DEF Allowance
  <2> HIDE DEF K
  <2>5. CASE n = clock
    <3>1. Allowance(t)' = ideal[t] - paid + K * stale[t]
      BY <2>4, <2>5, <1>1
    <3> QED BY <3>1, <2>1, <2>3, <2>4, <2>5, <1>0
  <2>6. CASE n # clock
    <3>1. Allowance(t)' = ideal[t] - paid + (K * stale[t] + K)
      BY <2>1, <2>4, <2>6, <1>1
    <3>2. PICK k \in Nat, m \in Nat : k = K * stale[t] /\ m = (clock - n) * Rate
      BY <2>1, <1>f
    <3> QED BY ONLY <3>1, <3>2, <2>1, <2>2, <2>4, <1>0
  <2> QED BY <2>5, <2>6
<1>4. /\ bucket'[t].ts = n /\ bucket'[t].tokens = r - paid /\ bucket'[t] # Absent
  BY <1>0, <1>1 DEF Absent
<1>5. Uncapped(bucket[t], clock)' = r - paid + (clock - n) * Rate
  BY <1>4 DEF Uncapped
<1>6. Stored(t)' # Absent
  <2>1. 0 < BucketTTL
    BY TTLFills, LimiterAssumption
  <2> QED BY <2>1, <1>0, <1>1, <1>4, TTLFills DEF Stored, Absent
<1>7. (expireAt[t] - clock)' * Rate = BucketTTL * Rate /\ BucketTTL * Rate >= Burst
      /\ BucketTTL * Rate \in Int
  BY <1>0, <1>1, TTLFills
<1>8. 0 <= Allowance(t)'
  BY <1>0, <1>3, <1>f
<1>9. TenantInv(t)'
  <2>1. ideal'[t] <= Uncapped(bucket[t], clock)'
    BY <1>0, <1>1, <1>5, <1>f
  <2>2. Uncapped(bucket[t], clock)' <= Allowance(t)'
    BY <1>0, <1>3, <1>5, <1>f
  <2>3. Burst <= Allowance(t)' + (expireAt[t] - clock)' * Rate
    BY <1>0, <1>3, <1>7, <1>8
  <2> QED BY <2>1, <2>2, <2>3, <1>0, <1>4, <1>6, <1>8 DEF TenantInv, Absent
<1> QED BY <1>2, <1>9

\* A step that leaves the bucket of a tenant, its history and the clock alone
\* keeps what is known of it.
LEMMA TenantUntouched ==
  ASSUME LimiterInv, NEW u \in Tenant, clock' = clock, bucket'[u] = bucket[u],
         expireAt'[u] = expireAt[u], stale'[u] = stale[u], ideal'[u] = ideal[u]
  PROVE  TenantInv(u)'
<1>1. /\ Stored(u)' = Stored(u) /\ Allowance(u)' = Allowance(u)
      /\ Uncapped(bucket[u], clock)' = Uncapped(bucket[u], clock)
  BY DEF Stored, Allowance, Uncapped, Absent
<1> QED BY <1>1 DEF LimiterInv, TenantInv, Absent

\* Allow keeps the invariant, whatever reading of the clock it works with.
LEMMA AllowKeepsInv ==
  ASSUME LimiterInv, NEW t \in Tenant, Allow(t)
  PROVE  LimiterInv'
<1>0. clock \in Nat /\ Lag \in Nat
  BY LimiterAssumption DEF LimiterInv, LimiterTypeOK
<1>1. PICK n \in Max({0, clock - Lag})..clock :
        /\ stale[t] < MaxStale \/ n = clock
        /\ stale' = [stale EXCEPT ![t] = IF n = clock THEN @ ELSE @ + 1]
        /\ Script(t, n)
  BY ZenonT(30) DEF Allow
<1>2. n \in 0..clock /\ clock - n <= Lag
  <2>1. 0 \in Int /\ clock - Lag \in Int
    BY ONLY SMTT(30), <1>0
  <2>2. PICK m : m = Max({0, clock - Lag})
    BY Zenon
  <2>3. m = IF 0 <= clock - Lag THEN clock - Lag ELSE 0
    BY ZenonT(30), <2>1, <2>2, MaxOfTwo
  <2>4. n \in m..clock
    BY Zenon, <1>1, <2>2
  <2> QED BY ONLY SMTT(30), <1>0, <2>3, <2>4
<1>3. clock' = clock
  BY DEF Allow
<1>4. LimiterTypeOK' /\ ideal' \in [Tenant -> Int]
  BY ZenonT(30), <1>1, <1>2, <1>3, AllowType
<1>5. TenantInv(t)' /\ ~wronged'
  BY ZenonT(30), <1>1, <1>2, <1>3, AllowTenant
<1>6. ASSUME NEW u \in Tenant, u # t PROVE TenantInv(u)'
  <2>1. /\ bucket'[u] = bucket[u] /\ expireAt'[u] = expireAt[u]
        /\ stale'[u] = stale[u] /\ ideal'[u] = ideal[u]
    BY <1>1, <1>6 DEF Script, LimiterInv, LimiterTypeOK
  <2> QED BY <2>1, <1>3, TenantUntouched
<1> QED BY <1>4, <1>5, <1>6 DEF LimiterInv

\* A tick refills both the bucket and the ideal one, so it keeps the relation
\* of the two, also when it is the tick at which the bucket expires.
LEMMA TickTenant ==
  ASSUME LimiterInv, LimiterTick, NEW t \in Tenant
  PROVE  TenantInv(t)' /\ ideal'[t] \in Int /\ ideal'[t] <= Burst
<1>0. /\ clock \in Nat /\ ideal[t] \in Int /\ ideal[t] <= Burst /\ stale[t] \in Nat /\ expireAt[t] \in Nat
      /\ Burst \in Nat /\ Rate \in Nat /\ Lag \in Nat /\ Allowance(t) \in Int
  BY LimiterAssumption, TenantTypes
<1>k. Rate * Lag * stale[t] \in Nat
  BY <1>0
<1>1. /\ clock' = clock + 1 /\ bucket' = bucket /\ expireAt' = expireAt /\ stale' = stale
      /\ ideal'[t] = Min({Burst, ideal[t] + Rate})
  BY Zenon DEF LimiterTick
<1>2. ideal'[t] = IF Burst <= ideal[t] + Rate THEN Burst ELSE ideal[t] + Rate
  <2>1. Burst \in Int /\ ideal[t] + Rate \in Int
    BY ONLY SMTT(30), <1>0
  <2> QED BY ZenonT(30), <1>1, <2>1, MinOfTwo
<1>3. /\ Allowance(t)' \in Int /\ Allowance(t)' >= Allowance(t)
      /\ Burst <= Allowance(t)' \/ Allowance(t)' = Allowance(t) + Rate
  <2>1. /\ Allowance(t)' = ideal'[t] + Rate * Lag * stale[t]
        /\ Allowance(t) = ideal[t] + Rate * Lag * stale[t]
    BY <1>1 DEF Allowance
  <2>2. PICK k \in Nat : k = Rate * Lag * stale[t]
    BY <1>k
  <2> QED BY ONLY <2>1, <2>2, <1>0, <1>2
<1>4. TenantInv(t)
  BY DEF LimiterInv
<1>5. CASE Stored(t) = Absent
  <2>1. Stored(t)' = Absent
    BY <1>0, <1>1, <1>5 DEF Stored, Absent
  <2> QED BY <2>1, <1>0, <1>2, <1>3, <1>4, <1>5 DEF TenantInv, Absent
<1>6. CASE Stored(t) # Absent
  <2>0. /\ clock < expireAt[t] /\ bucket[t].ts \in Int /\ bucket[t].tokens \in Int
    BY <1>6, TenantTypes, LimiterAssumption DEF Bucket
  <2>1. /\ (clock + 1 - bucket[t].ts) * Rate = (clock - bucket[t].ts) * Rate + Rate
        /\ (expireAt[t] - (clock + 1)) * Rate = (expireAt[t] - clock) * Rate - Rate
        /\ (clock - bucket[t].ts) * Rate \in Int /\ (expireAt[t] - clock) * Rate \in Int
    BY <1>0, <2>0
  <2>2. /\ Uncapped(bucket[t], clock)' = Uncapped(bucket[t], clock) + Rate
        /\ Uncapped(bucket[t], clock) \in Int
    <3>1. /\ Uncapped(bucket[t], clock)' = bucket[t].tokens + (clock + 1 - bucket[t].ts) * Rate
          /\ Uncapped(bucket[t], clock) = bucket[t].tokens + (clock - bucket[t].ts) * Rate
      <4>1. clock' = clock + 1 /\ bucket' = bucket
        BY <1>1
      <4>2. bucket'[t].ts = bucket[t].ts /\ bucket'[t].tokens = bucket[t].tokens
        BY <4>1
      <4>3. Uncapped(bucket[t], clock)' = bucket'[t].tokens + (clock' - bucket'[t].ts) * Rate
        BY DEF Uncapped
      <4>4. Uncapped(bucket[t], clock) = bucket[t].tokens + (clock - bucket[t].ts) * Rate
        BY DEF Uncapped
      <4>5. clock' - bucket'[t].ts = clock + 1 - bucket[t].ts
        BY <1>0, <2>0, <4>1, <4>2
      <4>6. bucket'[t].tokens + (clock' - bucket'[t].ts) * Rate = bucket[t].tokens + (clock + 1 - bucket[t].ts) * Rate
        BY ONLY <4>2, <4>5, Zenon
      <4> QED BY <4>3, <4>4, <4>6, Zenon
    <3>2. PICK x \in Int : x = (clock - bucket[t].ts) * Rate
      BY <2>1
    <3> QED BY ONLY <3>1, <3>2, <2>0, <2>1, <1>0
  <2>3. /\ ideal[t] <= Uncapped(bucket[t], clock) /\ bucket[t].ts <= clock
        /\ Burst <= Allowance(t) \/ Uncapped(bucket[t], clock) <= Allowance(t)
        /\ Burst <= Allowance(t) + (expireAt[t] - clock) * Rate /\ 0 <= Allowance(t)
    BY <1>4, <1>6 DEF TenantInv
  <2>4. /\ ideal'[t] <= Uncapped(bucket[t], clock)'
        /\ Burst <= Allowance(t)' \/ Uncapped(bucket[t], clock)' <= Allowance(t)'
    BY <1>0, <1>2, <1>3, <2>2, <2>3
  <2>5. /\ Burst <= Allowance(t)' + (expireAt[t] - (clock + 1)) * Rate
    <3>1. (expireAt[t] - (clock + 1)) * Rate >= 0
      <4>1. PICK d \in Nat : d = expireAt[t] - (clock + 1)
        BY <1>0, <2>0
      <4> QED BY <4>1, <1>0
    <3> QED BY <1>0, <1>3, <2>1, <2>3, <3>1
  <2>6. ideal'[t] \in Int /\ ideal'[t] <= Burst
    BY <1>0, <1>2
  <2>7. CASE clock + 1 < expireAt[t]
    <3>1. Stored(t)' = bucket[t]
      BY <2>7, <1>1 DEF Stored
    <3>2. Stored(t)' # Absent
      BY <3>1, <1>6 DEF Stored
    <3>3. bucket'[t].ts <= clock' /\ 0 <= Allowance(t)'
      BY <1>0, <1>1, <1>3, <2>0, <2>3
    <3>4. Burst <= Allowance(t)' + (expireAt'[t] - clock') * Rate
      BY ZenonT(30), <1>1, <2>5
    <3>5. TenantInv(t)'
      BY ZenonT(30), <3>2, <3>3, <3>4, <2>4 DEF TenantInv
    <3> QED BY ZenonT(30), <3>5, <2>6
  <2>8. CASE expireAt[t] = clock + 1
    <3>1. Stored(t)' = Absent
      BY <2>8, <1>0, <1>1 DEF Stored, Absent
    <3>2. (expireAt[t] - (clock + 1)) * Rate = 0
      BY <2>8, <1>0
    <3>3. 0 <= Allowance(t)' /\ Burst <= Allowance(t)'
      BY <3>2, <1>0, <1>3, <2>3, <2>5
    <3>4. TenantInv(t)'
      BY ZenonT(30), <3>1, <3>3 DEF TenantInv
    <3> QED BY ZenonT(30), <3>4, <2>6
  <2>9. clock + 1 < expireAt[t] \/ expireAt[t] = clock + 1
    BY <2>0, <1>0
  <2> QED BY <2>7, <2>8, <2>9
<1> QED BY <1>5, <1>6

\* Every step of the limiter keeps the invariant.
LEMMA LimiterInvNext == LimiterInv /\ [LimiterNext]_limiterVars => LimiterInv'
<1> SUFFICES ASSUME LimiterInv, [LimiterNext]_limiterVars PROVE LimiterInv'
  OBVIOUS
<1>1. CASE LimiterTick
  <2>1. \A t \in Tenant : TenantInv(t)' /\ ideal'[t] \in Int /\ ideal'[t] <= Burst
    BY <1>1, TickTenant
  <2>2. ideal' \in [Tenant -> Int]
    BY ZenonT(30), <1>1, <2>1 DEF LimiterTick
  <2>3. clock' \in 0..MaxClock
    BY <1>1, LimiterAssumption DEF LimiterTick, LimiterInv, LimiterTypeOK
  <2>4. LimiterTypeOK'
    BY ZenonT(30), <1>1, <2>1, <2>3 DEF LimiterTick, LimiterInv, LimiterTypeOK
  <2>5. ~wronged'
    BY <1>1 DEF LimiterTick, LimiterInv
  <2> QED BY <2>1, <2>2, <2>4, <2>5 DEF LimiterInv
<1>2. ASSUME UNCHANGED <<clock, bucket, expireAt, stale, ideal, wronged>>,
             answer' \in [Tenant -> {"none", "admitted", "throttled", "unavailable"}]
      PROVE  LimiterInv'
  <2>1. \A t \in Tenant : TenantInv(t)'
    BY <1>2, TenantUntouched
  <2>2. LimiterTypeOK'
    BY <1>2 DEF LimiterInv, LimiterTypeOK
  <2> QED BY <1>2, <2>1, <2>2 DEF LimiterInv
<1>3. ASSUME NEW t \in Tenant, AllowUnlimited(t) \/ AllowError(t) PROVE LimiterInv'
  BY <1>2, <1>3 DEF AllowUnlimited, AllowError, LimiterInv, LimiterTypeOK
<1>4. CASE UNCHANGED limiterVars
  BY <1>2, <1>4 DEF limiterVars, LimiterInv, LimiterTypeOK
<1> QED BY <1>1, <1>3, <1>4, AllowKeepsInv DEF LimiterNext

\* A bucket that is short of a token has it after a wait of d, if no other
\* request comes, just when d ticks refill what it is short of.
LEMMA AllowedAfter ==
  ASSUME NEW tokens \in Int, NEW ts \in Int, NEW d \in Nat
  PROVE  take([tokens |-> tokens, ts |-> ts], ts + d).allowed <=> Cost <= tokens + d * Rate
<1> DEFINE b == [tokens |-> tokens, ts |-> ts]
<1>0. Burst \in Nat /\ Cost \in Nat /\ Cost <= Burst /\ Rate \in Nat /\ d * Rate \in Int
  BY LimiterAssumption
<1>1. b.tokens = tokens /\ b.ts = ts
  OBVIOUS
<1>2. Max({ts + d - ts, 0}) = d
  BY MaxOfTwo
<1>3. Refill(b, ts + d) = Min({Burst, tokens + d * Rate})
  BY <1>1, <1>2 DEF Refill
<1>4. Refill(b, ts + d) >= Cost <=> Cost <= tokens + d * Rate
  BY <1>0, <1>3, MinOfTwo
<1>5. take(b, ts + d).allowed = (Refill(b, ts + d) >= Cost)
  BY DEF take
<1> QED BY ZenonT(30), <1>4, <1>5

\* The Retry-After of a refusal is exact (ratelimit.go:102-108).
LEMMA RetryAfterExact ==
  ASSUME NEW b \in Bucket \cup {Absent}, b.tokens < Cost
  PROVE  /\ take(b, b.ts + RetryAfter(b)).allowed
         /\ ~take(b, b.ts + (RetryAfter(b) - 1)).allowed
<1>1. PICK tokens \in Int, ts \in Int : b = [tokens |-> tokens, ts |-> ts]
  BY LimiterAssumption DEF Bucket, Absent
<1>2. tokens < Cost /\ Cost \in Nat /\ Rate \in Nat \ {0}
  BY <1>1, LimiterAssumption
<1>3. PICK d : d = RetryAfter(b)
  OBVIOUS
<1>4. d = CeilDiv(Cost - tokens, Rate)
  BY <1>1, <1>3 DEF RetryAfter
<1>5. PICK a \in Nat : a = Cost - tokens /\ a > 0
  BY <1>2
<1>6. d \in Nat /\ d > 0 /\ a <= d * Rate /\ (d - 1) * Rate < a
  BY <1>2, <1>4, <1>5, CeilDivLeast
<1>7. d - 1 \in Nat /\ d * Rate \in Int /\ (d - 1) * Rate \in Int
  BY <1>2, <1>6
<1>8. take(b, ts + d).allowed
  <2>1. Cost <= tokens + d * Rate
    BY <1>2, <1>5, <1>6, <1>7
  <2> QED BY <2>1, <1>1, <1>6, AllowedAfter
<1>9. ~take(b, ts + (d - 1)).allowed
  <2>1. ~(Cost <= tokens + (d - 1) * Rate)
    BY <1>2, <1>5, <1>6, <1>7
  <2> QED BY <2>1, <1>1, <1>7, AllowedAfter
<1> QED BY <1>1, <1>3, <1>8, <1>9

\* The invariant holds of every reachable state of the limiter.
LEMMA LimiterInvAlways == LimiterSpec => []LimiterInv
  BY LimiterInvInit, LimiterInvNext, PTL DEF LimiterSpec

\* AdmissionBound, for every rate, burst, cost, lag and lifetime slack: no
\* tenant is granted more than a burst, the refills and what the stale
\* readings add, whenever its bucket expires (redis.go:12-64).
THEOREM AdmissionBoundHolds == LimiterSpec => []AdmissionBound
<1>1. LimiterInv => AdmissionBound
  BY DEF LimiterInv, TenantInv, Allowance, AdmissionBound
<1> QED BY <1>1, LimiterInvAlways, PTL

\* RefusalsFair, for the same values: no request is refused what the ideal
\* bucket held at its reading of the clock, and the Retry-After of a refusal
\* is the least that suffices (ratelimit.go:89-108).
THEOREM RefusalsFairHolds == LimiterSpec => []RefusalsFair
<1>1. LimiterInv => RefusalsFair
  <2> SUFFICES ASSUME LimiterInv PROVE RefusalsFair
    OBVIOUS
  <2>1. ~wronged /\ bucket \in [Tenant -> Bucket \cup {Absent}]
    BY DEF LimiterInv, LimiterTypeOK
  <2> QED BY <2>1, RetryAfterExact DEF RefusalsFair
<1> QED BY <1>1, LimiterInvAlways, PTL

-----------------------------------------------------------------------------
(* The two together *)

\* A request that passes both gates: the composition implements each of them,
\* so both bounds hold of it.
THEOREM GatesCompose ==
  GatesSpec => Spec /\ LimiterSpec /\ [](StatusBounds /\ AdmissionBound /\ RefusalsFair)
<1>1. GatesInit => Init /\ LimiterInit
  BY DEF GatesInit
<1>2. [GatesNext]_<<vars, limiterVars, gate>> => [Next]_vars /\ [LimiterNext]_limiterVars
  BY DEF GatesNext, vars, limiterVars
<1>3. GatesSpec => Spec /\ LimiterSpec
  BY <1>1, <1>2, PTL DEF GatesSpec, Spec, LimiterSpec
<1> QED BY <1>3, StatusBoundsHolds, AdmissionBoundHolds, RefusalsFairHolds, PTL
=============================================================================
