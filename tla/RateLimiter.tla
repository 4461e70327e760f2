---------------------------- MODULE RateLimiter ----------------------------
(***************************************************************************)
(* The per-tenant ingest rate limiter: RateLimitMiddleware over the token  *)
(* buckets RedisLimiter keeps in Redis.  The script is one Redis command;  *)
(* the time it works with was read by an ingest replica before it, so it   *)
(* may lag behind.  Tokens are counted in the units that refill per tick.  *)
(***************************************************************************)
EXTENDS Integers, FiniteSetsExt

CONSTANTS
  Tenant,
  Unlimited,   \* tenants with an override of 0:0
  Rate,        \* units refilled per tick
  Burst,       \* units a bucket holds
  Cost,        \* units a request takes, one token
  Slack,       \* what PEXPIRE adds to the time of a full refill
  Lag,         \* how old a reading of the clock can be
  MaxStale,    \* bound on the readings that are not up to date
  MaxClock,    \* bound on the clock
  FailOpen     \* INGEST_RATE_LIMIT_FAIL_OPEN

ASSUME LimiterAssumption ==
  /\ Unlimited \subseteq Tenant
  /\ Rate \in Nat \ {0} /\ Burst \in Nat /\ Cost \in 1..Burst
  /\ Slack \in Nat /\ Lag \in Nat /\ MaxStale \in Nat /\ MaxClock \in Nat
  /\ FailOpen \in BOOLEAN

VARIABLES
  clock,
  bucket,    \* the hash of a tenant, Absent if there is none
  expireAt,  \* when Redis removes it
  answer,    \* what the last request of a tenant got
  stale,     \* stale readings used on behalf of a tenant
  ideal,     \* history: the bucket of a limiter with a perfect clock
  wronged    \* history: a tenant was refused what the ideal bucket held

limiterVars == <<clock, bucket, expireAt, answer, stale, ideal, wronged>>

CeilDiv(a, b) == (a + b - 1) \div b

\* The lifetime of a bucket: the time of a full refill, and some more.
BucketTTL == CeilDiv(Burst, Rate) + Slack

Absent == [tokens |-> -1, ts |-> 0]
Bucket == [tokens : 0..Burst, ts : 0..MaxClock]

LimiterTypeOK ==
  /\ clock \in 0..MaxClock
  /\ bucket \in [Tenant -> Bucket \cup {Absent}]
  /\ expireAt \in [Tenant -> 0..(MaxClock + BucketTTL)]
  /\ answer \in [Tenant -> {"none", "admitted", "throttled", "unavailable"}]
  /\ stale \in [Tenant -> 0..MaxStale]
  /\ \A t \in Tenant : ideal[t] <= Burst
  /\ wronged \in BOOLEAN

LimiterInit ==
  /\ clock = 0 /\ bucket = [t \in Tenant |-> Absent] /\ expireAt = [t \in Tenant |-> 0]
  /\ answer = [t \in Tenant |-> "none"] /\ stale = [t \in Tenant |-> 0]
  /\ ideal = [t \in Tenant |-> Burst] /\ wronged = FALSE

-----------------------------------------------------------------------------

Refill(b, n) == Min({Burst, b.tokens + Max({n - b.ts, 0}) * Rate})

\* A refused request takes what there is.
takeCharged(b, n) ==
  LET tokens == Refill(b, n)
  IN  [ allowed |-> tokens >= Cost,
        next    |-> [tokens |-> IF tokens >= Cost THEN tokens - Cost ELSE 0, ts |-> n] ]

\* The refill-then-take step: the tokens that remain, and whether the
\* request is allowed.
take(b, n) ==
  LET tokens == Refill(b, n)
  IN  [ allowed |-> tokens >= Cost,
        next    |-> [tokens |-> IF tokens >= Cost THEN tokens - Cost ELSE tokens, ts |-> n] ]

\* What a refused client is told to wait.
RetryAfter(b) == CeilDiv(Cost - b.tokens, Rate)

\* A bucket that has expired is as good as absent.
Stored(t) == IF clock < expireAt[t] THEN bucket[t] ELSE Absent

\* The lifetime is half of what a refill takes.
ScriptShort(t, n) ==
  LET s == Stored(t)
      r == take(IF s = Absent THEN [tokens |-> Burst, ts |-> n] ELSE s, n)
  IN  /\ bucket' = [bucket EXCEPT ![t] = r.next]
      /\ expireAt' = [expireAt EXCEPT ![t] = clock + CeilDiv(Burst, Rate) \div 2]
      /\ answer' = [answer EXCEPT ![t] = IF r.allowed THEN "admitted" ELSE "throttled"]
      /\ ideal' = [ideal EXCEPT ![t] = IF r.allowed THEN @ - Cost ELSE @]
      /\ wronged' = (wronged \/ (~r.allowed /\ ideal[t] - Rate * (clock - n) >= Cost))

\* tokenBucketScript, with the clock reading n.
Script(t, n) ==
  LET s == Stored(t)
      r == take(IF s = Absent THEN [tokens |-> Burst, ts |-> n] ELSE s, n)
  IN  /\ bucket' = [bucket EXCEPT ![t] = r.next]
      /\ expireAt' = [expireAt EXCEPT ![t] = clock + BucketTTL]
      /\ answer' = [answer EXCEPT ![t] = IF r.allowed THEN "admitted" ELSE "throttled"]
      /\ ideal' = [ideal EXCEPT ![t] = IF r.allowed THEN @ - Cost ELSE @]
      /\ wronged' = (wronged \/ (~r.allowed /\ ideal[t] - Rate * (clock - n) >= Cost))

Allow(t) ==
  /\ t \notin Unlimited
  /\ \E n \in Max({0, clock - Lag})..clock :
       /\ stale[t] < MaxStale \/ n = clock
       /\ stale' = [stale EXCEPT ![t] = IF n = clock THEN @ ELSE @ + 1]
       /\ Script(t, n)
  /\ UNCHANGED clock

AllowUnlimited(t) ==
  /\ t \in Unlimited
  /\ answer' = [answer EXCEPT ![t] = "admitted"]
  /\ UNCHANGED <<clock, bucket, expireAt, stale, ideal, wronged>>

\* Redis does not answer.
AllowError(t) ==
  /\ t \notin Unlimited
  /\ answer' = [answer EXCEPT ![t] = IF FailOpen THEN "admitted" ELSE "unavailable"]
  /\ UNCHANGED <<clock, bucket, expireAt, stale, ideal, wronged>>

LimiterTick ==
  /\ clock < MaxClock /\ clock' = clock + 1
  /\ ideal' = [t \in Tenant |-> Min({Burst, ideal[t] + Rate})]
  /\ UNCHANGED <<bucket, expireAt, answer, stale, wronged>>

LimiterNext == LimiterTick \/ \E t \in Tenant : Allow(t) \/ AllowUnlimited(t) \/ AllowError(t)

LimiterSpec == LimiterInit /\ [][LimiterNext]_limiterVars

-----------------------------------------------------------------------------
\* redis.go:12-64: over any period the limiter grants at most a burst and
\* what is refilled in that period (then the ideal bucket does not go below
\* zero), and what the stale readings give, each of them the refill of its
\* age.  A bucket that expires gives nothing.
AdmissionBound == \A t \in Tenant : ideal[t] + Rate * Lag * stale[t] >= 0

\* ratelimit.go:89-108: however the readings go back and forth, no request is
\* refused a token that the ideal bucket held at the time of its reading; and
\* after a refusal the Retry-After is the least time that suffices, if no
\* other request comes (ratelimit.go:98-106, httpx/ratelimit.go:78-87).
RefusalsFair ==
  /\ ~wronged
  /\ \A t \in Tenant :
    (answer[t] = "throttled" /\ bucket[t].tokens < Cost) =>
      LET at(d) == take(bucket[t], bucket[t].ts + d).allowed
      IN  at(RetryAfter(bucket[t])) /\ ~at(RetryAfter(bucket[t]) - 1)

\* redis.go:12-15, "a concurrent burst across many ingest replicas can never
\* over-admit".
NeverOverAdmits == \A t \in Tenant : ideal[t] >= 0
=============================================================================
