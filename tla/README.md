# A TLA+ model of logalot

logalot is a multi-tenant logging platform: Go services around RabbitMQ,
Postgres, Redis and S3, a TypeScript control-plane, and a web application with
its backend-for-frontend (BFF). This directory holds TLA+ modules translated
from that code, TLC configurations that check them on small instances, and
TLAPS proofs of the properties that matter most for every instance.

- [The system](#the-system): its parts and where they are hard to get right
- [Modules and code](#modules-and-code): what models what
- [Runs](#runs): what TLC checks, the bounds, the fairness
- [Proofs](#proofs): what TLAPS checks and along which argument
- [Disagreements](#disagreements-between-comments-and-code)
- [Not modelled](#not-modelled)

`PROJECT.json` maps every definition to the source lines it translates, lists
the hazards at their lines, and gives each checked property a mutation of the
code that breaks it.

## The system

| part | state | operations | interacts with | hard behaviour |
|---|---|---|---|---|
| ingest-service | the running `Ingest` call | parse, publish each event, wait for its confirm, answer 202 or 503 | broker, key auth, limiter | late confirm, batch that stops half way, lost answer |
| broker (`pkg/broker`, RabbitMQ) | durable queue, unacknowledged deliveries, dead letter queue | publish, confirm, deliver, ack, nack | ingest, processor | connection loss in the middle of a delivery, redelivery |
| processor | the delivery in hand, retry counters | normalize, persist, archive, tail publish, settle; SIGTERM | broker, Postgres, S3, Redis | crash between commit and ack, shutdown during retries |
| alert-evaluator | due list, snapshot of a rule, outbox rows in hand | `ListDue`, `Count`, `Transition`, `ListPending`, `Notify`, `MarkDispatched` | Postgres, mail | replicas racing on snapshots, crash between send and mark, limits |
| query-service, live tail | three goroutines, buffer, drop counter | subscribe, filter, drop, frame, tear down | Redis, browser | pump and loop interleaved, teardown from three sides |
| query-service, search | none | route by window, split, read, merge | Postgres, Athena | the store moves between routing and reading |
| retention-worker | its place in the cycle | drop partitions, list policies, purge prefixes | Postgres, S3 | failures, restarts, policies and date changing during a sweep |
| hot store | daily partitions and a default partition | route a row, ensure ahead, drop older | processor, retention | client-dated rows, order of ensure and insert |
| control-plane, sessions | `refresh_tokens` | login, refresh with rotation and reuse detection, logout | Postgres, BFF | concurrent refreshes and revocations under READ COMMITTED |
| web BFF, sessions | the browser's cookies | `getSession`, tail proxy, login, logout | control-plane | answers lost or applied out of order |
| web, live tail hook | refs, timers, `EventSource` | connect, open, error, pause, resume, clear, reconnect, flush | BFF | any order of callbacks, timers and clicks |
| API-key auth | cache entry in Redis | authenticate, cache, revoke, bust | Postgres, Redis | an entry written after the row changed |
| ingest rate limiter | a bucket per tenant in Redis | take, expire, fail open | Redis, ingest | clocks of several replicas, expiry, rounding |
| sign-in with Google, invites | OAuth states, invites, users, linked accounts, handshake cookies | start, callback, link, provision, mint; invite, revoke | Google, Redis, Postgres, browser | two callbacks, a replayed one, an admin in between |
| web, log search | filters in the URL, pages, request ids | search, load more, answer, leave | query-service | answers out of order, events stored between pages |
| dashboard panels | one load at a time, its cancellation | count, bucket, gap-fill, change range or query | query-service | loads that overtake each other, edges of buckets |
| web, dashboards, admin and alerts pages; the services behind them | dialogs, loader data, the tenant's rows | create, edit, delete, revoke, invite | control-plane | tabs on the same rows, lost answers, failed reloads |
| the rest | | encoding, layout, contracts, tokens, infrastructure | | see [Not modelled](#not-modelled) |

An event travels client → ingest-service → queue → processor → Postgres, then
S3 and the Redis tail bus; from there a search reads it in one or both tiers, a
live tail shows it, the evaluator counts it and the retention-worker removes it.
Keys, sessions and limits decide who may take part; the console's pages change the
users, keys, policies, rules and dashboards all of this runs on.

## Modules and code

| module | code | notes |
|---|---|---|
| `Broker` | `pkg/broker`, RabbitMQ (external) | A message is one published copy of an event. Queue, wire, unacknowledged deliveries per channel, dead letter queue. |
| `IngestService` | `ingest-service/internal/{app,adapters/httpx}` | `Request`, `Publish`, `Confirm`, `PublishError`, `ReplyLost`: the `Ingest` loop and a client that resubmits what it was not told is confirmed. |
| `Processor` | `processor/internal/app`, `processor/cmd`, `Broker.Consume` | `phase[c]` is where `Handle` stands in replica c. `AppendFail(c, committed)`: an error for a row that may be committed. `Shutdown`, `ConnLost`, `Crash`, `Start`. |
| `Pipeline` | the three together | Properties, fairness, inductive invariant `IInv`. |
| `DurableLog` | the promise of the ingest path | Abstract specification; `Pipeline` implements it with held ← `Held`, stored ← `Stored`, dead ← `dlq`. |
| `AlertEvaluator` | `alert-evaluator/internal/**` | One action per call of `EvaluateDue` and its failure. Timestamps are ranks, because the code only orders by them. `Environment`: rule CRUD and log volume. |
| `TailStream` | `query-service/internal/app/tail.go`, `pkg/tailbus` | The three goroutines; the pump's failed send and its count, and the loop's swap and select, are separate steps. `taken` and `told` are history: what the pump has received, and the drops announced so far. |
| `LogTail` | `apps/web/.../use-log-tail.ts` | One step per callback, timer or click, as the browser runs them; a row is its kind and its connection. |
| `RefreshTokens` | control-plane `auth-service.ts`, `refresh-token-repository.ts` | Statement by statement; an `UPDATE` sees the rows committed when it started (`snap`) and waits for row locks. |
| `WebSession` | `apps/web/src/server/{auth,tail-proxy}.ts` | Extends `RefreshTokens` with the browser's cookies and the answers on their way to it. |
| `SignIn` | control-plane `oidc-authenticator.ts` with its state store and repositories, web `server/oidc.ts` and its routes | A callback goes from await to await (`consume`, `exchange`, `email`, `link` or `provision`, `load`, `mint`), so callbacks, the admin and expiries interleave; provisioning is one step because it is one transaction. |
| `KeyAuth` | `pkg/auth/{authenticator,store}.go` | One key, its cache entry, requests at every step of `Authenticate`, `Revoke` and the control-plane's revocation, a clock. |
| `RateLimiter` | `ingest-service/internal/ratelimit`, its middleware | The script is one step; the time it is given was read earlier. `ideal` is a bucket with a perfect clock to compare with. |
| `Retention` | `retention-worker`, migrations 000010 and 000016, `pkg/coldstore` keys | Days and ticks, daily and default partition, one action per call of `RunCycle`, policies that change meanwhile. |
| `TieredSearch` | `query-service/internal/app/tiered_search.go`, `pkg/coldstore/query.go`, `pkg/logstore` window | Extends `Retention`: one search while retention goes on underneath. |
| `LogSearch` | web `use-log-search.ts`, `search-state.ts`, explorer and search bar; keyset pages of `pkg/logstore` | The hook's refs and state, the calls under way, events stored meanwhile. An event is its position in (ts, id) order. |
| `PanelData` | web `use-panel-data.ts`, `panel-data.ts`, time range picker; `panelstore.go` | The effect and its cancellation flag, the two reads of the server, bucket and slot arithmetic in ticks. |
| `Rbac` | `domain/rbac.ts`, contracts `rbac.ts` | Both matrices. |
| `ConsolePage` | what the pages share: loaders, dialogs, server functions, route guards | Tabs, calls and answers; what a user changed and what the form wrote besides. |
| `Dashboards`, `AdminPage`, `AlertRules` | the pages under `features/{dashboards,admin,alerts}` and the control-plane's services | One operator per dialog and per route, with the checks in the service's order. |
| `Views`, `Sessions`, `Gates`, `Reads`, `Console` | | Compositions: `Console` joins the pages on the rows they share; the others put components side by side that meet in one place only and explore each with the others at rest. |
| `MC*` | | Instances for TLC. |
| `PipelineProofs`, `AlertEvaluatorProofs`, `SessionsProofs`, `GatesProofs`, `ReadsProofs`, `ViewsProofs`, `ConsoleCallsProofs`, `ConsoleProofs` | | TLAPS proofs, see [Proofs](#proofs). |

Contents are abstracted to what the properties tell apart: an event is a model
value that normalizes or not, decodes or not, matches or not; a count is above
or below its threshold; a secret is the row it belongs to. Formatting, logging
and metrics are left out. Failures of calls are nondeterministic, bounded where
they would make the state space infinite.

## Runs

`tlc -config <cfg> <module>`; each passes in at most a few minutes.

| run | module, cfg | checks | states |
|---|---|---|---|
| `pipeline` | `MCPipeline`, `Pipeline.cfg` | `NoAcknowledgedLoss`, `DuplicateOnlyIfDisturbed`, `IInv`, `ImplementsDurableLog`, `EventuallySettled` | 158 k |
| `alert_race` | `MCAlertEvaluator`, `AlertEvaluator_race.cfg` | `LedgerMatchesState`, `IInv`, `FollowsLogs` | 252 k |
| `alert_sole` | `MCAlertEvaluator`, `AlertEvaluator_sole.cfg` | `NoDuplicateOnHappyPath`, `OutboxDrains` | 66 k |
| `views` | `MCViews`, `Views.cfg` | `FramesHonest`, `NothingStaysBehind` (stream); `NothingLeaks`, `ScrollbackHonest`, `Settles` (tail hook); `OneResultSet`, `SearchSettles` (search) | 142 k |
| `session_race` | `MCRefreshTokens`, `RefreshTokens_race.cfg` | `RotatedOnce`, `ActiveToRefresh`, `SurvivesOnlyRace` | 1.9 M |
| `sessions` | `MCSessions`, `Sessions.cfg` | `InviteAdmitsOne`, `SessionIsThePinnedUser`, `OwnFlowOnce` (sign-in); `KeepsItsSession`, `StaysLoggedOut` (cookies) | 603 k |
| `gates` | `MCGates`, `Gates.cfg` | `StatusBounds` (keys); `AdmissionBound`, `RefusalsFair` (limiter) | 3.3 M |
| `retention` | `MCRetention`, `Retention.cfg` | `KeptHot`, `OnItsTenantsTerms`, `ExpiredGoes` | 112 k |
| `reads` | `MCReads`, `Reads.cfg` | `NothingLostBetweenTiers`, `TwiceOnlyOnTheCutoffDay` (tiers); `PanelShowsWhatIsAsked`, `SeriesAddsUp` (panel) | 6.4 M |
| `console` | `MCConsole`, `Console.cfg` | `EditsCompose`, `StaleNeedsARace`, `OfferedIsAllowed`, `SecretStaysUp`, `CapYieldsOnlyToRaces` | 476 k |
| `retention_default` | `MCRetention`, `Retention_default.cfg` | `DefaultNeverBlocks`, which is violated | |
| `alert_source` | `MCConsole`, `Console_source.cfg` | `OneQuerySource`, which is violated | |

**What they show.**

- *Ingest path.* Whatever single crash, SIGTERM or broken connection happens
  wherever, an event a client was told is confirmed has a copy that is queued,
  in a consumer's hands, committed or dead-lettered. A second row needs a broken
  channel or an error reported for a commit. Every message the broker took leaves it, stored or dead-lettered.
- *Alerts.* However evaluators race on stale snapshots, the outbox is the exact
  history of a rule, marks never lie about a send, and once the log volume
  settles the state does. With one evaluator a second delivery needs an unmarked
  first one, and the outbox of rules whose channels work drains.
- *Live tail.* Every event the pump received is written, on its way, or counted
  in exactly one Gap; a drop is announced at most one data frame late and never
  forgotten; all goroutines end. In the browser there is one connection or one
  timer, every join of two connections is marked, and retries end.
- *Log search.* Whatever is searched, paged and answered in which order, the list
  holds events of the last search only, newest first, none twice, and none that
  was stored when its first page was read is missing above the last one shown.
  A search ends and leaves the page usable.
- *Sessions.* A token has at most one successor; a refresh needs tenant and user
  active during it; what survives a revocation of the family was rotated while
  it ran. For a browser with one request at a time, reuse detection only strikes
  after an answer was lost.
- *Sign-in.* A flow is good for one session, in the browser that started it. Who
  signs in is the user the Google account is pinned to, although two accounts of
  one address may race for that user. A consumed invite has made exactly one
  user, linked in the same transaction; a pending or revoked one has made none.
- *Keys and limits.* A revoked key or suspended tenant is refused
  `TTL + MaxDelay` later, an expired key always. The limiter grants at most a
  burst, the refill, and the refill of each stale clock reading's age; it never
  refuses what a perfect bucket held, and its Retry-After is exact.
- *Retention and search.* Nothing leaves Postgres within the horizon; a cold
  object goes only on terms its own tenant had during the sweep; expired data
  goes although another tenant's S3 calls fail for ever. A search loses nothing
  between the tiers, and only events of the cutoff's day can appear twice.
- *Panels.* A panel that shows data shows what is asked of it now. The server's
  buckets fall into the panel's slots with no event lost or counted twice, and
  the number of a stat panel is at most the sum of the series read after it.
- *Console.* Forms that write a whole layout, policy or rule may put older values
  back, but only if the row changed after the page loaded it; that takes another
  tab, the API, a second dialog before the reload, or a call that was applied and
  reported as failed. Fields that no form writes along with others are always
  safe. No button is offered that is refused for the role. A secret shown once
  is replaced only by a second issue made before the first was answered. The cap
  on outstanding invites is exceeded only by invites counted at the same time.

**Bounds and why they are enough.**

- `pipeline`: two replicas are what a redelivery race needs; prefetch 1 puts one
  delivery in each one's hands. The batch has a good event and one that does not
  normalize, so that a batch can stop in the middle and both ways to the dead
  letter queue are taken. One retry distinguishes a failed attempt from a spent
  budget. One copy of each event and one fault keep the run short; several
  copies and any number of faults are covered by the proofs. Confirmations that
  arrive late or never are not counted as faults.
- `alert_race`: one rule, as rules do not share state outside the batch limits;
  two replicas; three flips cross the threshold and come back, so that a stale
  count can meet a newer state; one failure or crash. `alert_sole`: two rules
  and a batch of one, so that the limit bites; one rule has a saved query that
  can disappear; two faults.
- `views`: six events, one of which does not match and one does not decode,
  leave four for a buffer of one: one in the loop's hands, one in the buffer, one
  dropped and one after it, as a drop announced too late needs. A ring of two, bursts of two, two retries, and connection numbers that
  are reused after three. Five stored events of two levels in pages of two, a
  list of at most three, three searches: a filter that matches across pages, a
  cap inside a page, and two searches that overtake a third.
- `session_race`: two requests, three tokens (a login and two rotations, or two
  logins and one), two changes.
- `sessions`: two tenants, browsers, callbacks and flows and two Google accounts
  of one address, so that accounts race for a user and users for an account; one
  invite, two users, and one change, expiry or failure anywhere. The proofs cover
  larger ones. The cookies: one request at a time, four tokens, two changes.
- `gates`: times are small integers with `TTL` 3 and `MaxDelay` 2, so that
  an entry can be written in the last moment before and after every change.
  The limiter: 7 units, 3 per request, 2 per tick: nothing divides evenly,
  so rounding shows; two stale readings of age up to 2.
- `retention`: two tenants of which one's S3 calls may always fail, a day per
  tick, one event that may be a day late, one policy change or restart.
- `reads`: two ticks per day, so that a cutoff falls inside a day, two events,
  page of two. The panel: six ticks, two to the second, two slots that divide no
  range evenly, two loads, two events, two queries.
- `console`: two tabs and two calls are what it takes to save over somebody
  else's change, and dialogs are opened while a call is left to make; nine screens pair the pages that share rows, for
  an admin and for a member.

Deadlock is checked in the alert runs and in `retention`. It is switched off
where the system may stop: finite batches (`pipeline`), an ended connection, an
unmounted page or the bound on searches (`views`), bounded tokens, flows or clocks
(`session_race`, `sessions`, `gates`), one search or panel (`reads`), bounded
calls (`console`). Symmetry is used only in runs without liveness, for requests,
for accounts, browsers, callbacks and tenants of the sign-in, and for tabs and the
panel ids not in use at the start, none of which the modules tell apart.

The runs list no type invariant of their own. `IInv` contains the types of the
ingest path and of the evaluator. The invariants of the proofs contain those of
their modules (`TokenInv`, `SignInInv`, `KeyInv`, `LimiterInv`, `RetentionInv`,
`TailInv`, `SearchInv`, `PanelInv` and `SeriesInv`, `ConsoleInv`). `PageTypeOK`
documents the types of the pages' state.

**Fairness.**

- `Pipeline`: a replica that is down is restarted (orchestrator), an open
  channel gets deliveries (RabbitMQ), and calls of `Handle` return (`persist`
  and the archive have a drain deadline). Clients, the wire and faults owe
  nothing.
- `AlertEvaluator`: time passes, a replica is restarted, the calls of a running
  replica return. Rules in `Stuck` (a mail server that accepts and never
  answers) and `Rejected` are excepted, and both sets are empty in the runs: see
  the disagreements below.
- `TailStream`: goroutines are scheduled, the ticker ticks, writes to a client
  that reads end, and `select` picks at random among ready cases, hence strong
  fairness for taking from the buffer and for returning. A client that stays
  connected and stops reading is outside this assumption.
- `LogTail`: timers fire and a connection attempt opens or fails.
- `LogSearch`: a call is answered or fails, and the browser runs its handler. A
  user owes nothing.
- `Views` states the fairness of the three together; since a behaviour stays in
  one view, fairness to a disjunction over the views is fairness to each part.
- `Retention`: `Run` loops for ever and a call does not fail for ever, except
  the S3 calls of tenants outside `Healthy`. `ExpiredGoes` says
  "again and again"; arrivals and policy changes are bounded.

**Assumptions about the surroundings.** `KeyAuth`'s and `TieredSearch`'s
`MaxDelay` bound how long one request takes (for the search, at most a day).
`QueryHotDays <= HotDays`: query-service and retention-worker read their horizon
from their own environment, and routing is only right if the worker keeps at
least what the router believes.

## Proofs

`tlapm <module>` checks them; nothing is assumed beyond the named `ASSUME`s of
the component modules, which TLC evaluates in the runs: the constants are of the
right kind, bounds are natural numbers, and what the code is configured with makes
sense (a rate above zero, `QueryHotDays <= HotDays`). A theorem about a component
speaks of that component's own specification; where a run checks a composition, a
further theorem says that the composition implements each part.

**Ingest path** (`PipelineProofs`, for every set of clients, batches, replicas,
prefetch, copies, retries and faults): `Invariance` (`IInv`), `TypeCorrect`,
`NoLoss`, `NoDuplicate`, `TeeOrder`, `DeadLetterReasons`, and `Refinement`, that
`Pipeline` implements `DurableLog`.

`NoAcknowledgedLoss` is not inductive: it speaks of what clients were told, and
a message could leave the broker unstored without contradicting it. `IInv` adds
why that cannot happen:

- `OnePlace`: a message is in one place at the broker, and nothing is anywhere
  that the broker did not take;
- `HandlerShape`: what a replica holds agrees with its phase and, while its
  channel is open, with what the broker counts as unacknowledged on it. A
  replica that archives, publishes or acks has committed;
- `NothingLost`: the broker lets go only of what is stored or dead-lettered;
- `ConfirmedBacked`: what a client was told rests on confirmed messages;
- `RowsMatchPlace`: a message never disturbed has exactly the rows its place
  implies, which is what makes `DuplicateOnlyIfDisturbed` inductive.

The proof has one lemma per group of actions: steps inside a replica, deliveries,
settlement and lost channels, broker and ingest. Refinement maps `Receive` to `Accept`, `Confirm` to
`Confirm`, a commit to `Store`, `Ack` to `Release`, `Nack` to `Bury`, the rest
to stuttering.

**Alert evaluator** (`AlertEvaluatorProofs`, for every finite set of rules and
every set of replicas): `Invariance`, `Ledger`, `MarksTruthful`, and `HappyPath`
for a single replica. The ledger alone is not inductive, because a row in
somebody's hands could be confused with a newer one: `RowsOrdered` tells rows
apart by `occurred_at` and bounds their sequence numbers, `LoopShape` says that
a compare-and-swap always changes the state and that what is about to be marked
was delivered. `HappyPath` adds `SoleReplica`: with one replica, a delivered row
that could be delivered again is marked, about to be marked, or disturbed.

**Refresh tokens** (`SessionsProofs`, for every set of requests and any
number of tokens and changes): `TokenInvariance` (`TokenInv`), `OneSuccessor`
(`RotatedOnce`), `ChecksHold` (`ActiveToRefresh`), `RevocationComplete`
(`SurvivesOnlyRace`). None of the three is inductive: they speak of rows, and
what a handler does to a row next depends on what it read before. `TokenInv` adds

- `RowsExist`: the rows handlers hold exist, and so do the roots of families;
- `LocksHold`: a rotate between its `UPDATE` and its `INSERT` has the row to itself
  and the row is live until it commits, which makes the second of two refreshes fail;
- `ChecksSeen`: past its checks a request has seen tenant and user active;
- `SnapCovers`: the snapshot of a `revokeFamily` under way holds every live row of
  the family but those of rotations that overlap it, so that its commit leaves only
  such rows.

**Browser sessions** (`SessionsProofs`, for a browser with one request at a time
and any number of tokens and changes): `KeepsItsSessionHolds`, `StaysLoggedOutHolds`,
and `SessionsKeep` for the composition. With two requests at a time both properties
are wrong (see the disagreements), so the theorems assume `Req = {c}`. `WebInv` is
`TokenInv` and

- `Calls`: a handler runs between a request and its answer and works on the token the
  browser holds; a pair on its way to the browser is not rotated;
- `CookiesMatch`: the two cookies are there together;
- `NewestHeld`: unless a pair was missed, the browser's token is rotated only while
  the pair that replaces it is on its way, so that no refresh presents it;
- `RevokedFor`: a family is dead, or about to be, because of a logout or a status;
- `LeftAlone`: after a logout nothing is under way that sets cookies but a login.

It was checked by TLC for one request before it was proved.

**Sign-in** (`SessionsProofs`, for every set of tenants, accounts, browsers and
callbacks and any number of flows, invites and users): `SignInInvariance`
(`SignInInv`), `FlowGoodOnce` (`OwnFlowOnce`), `PinnedUserSignsIn`
(`SessionIsThePinnedUser`), `OneUserPerInvite` (`InviteAdmitsOne`), and
`SessionsSignIn` for the composition. The properties
speak of sessions and tables; a callback in the middle of its awaits could break
each of them with what it carries. `SignInInv` says what it carries:

- `FlowsOwned`: cookies, callbacks and sessions belong to flows of their browser;
- `StatesSpentOnce`: at most one callback is past taking a given state, and that
  state has not minted yet;
- `LinksMatch`: links are one to one, to users that exist, in their tenant;
- `UsersFound`: the user to link is one of the flow's tenant, the user to mint for
  is pinned to the account or deleted since;
- `InvitesMatch`: users made from invites and consumed invites correspond.

Rows are only added or changed in place (`FlowsStay`, `InvitesStay`, `UsersStay`), so
each part has a lemma that says what a step must respect to keep it, and each action
one that shows that it does.

**Keys and limits** (`GatesProofs`, for any number of requests and tenants and any
clocks): `StatusBoundsHolds`, `AdmissionBoundHolds`, `RefusalsFairHolds`, and
`GatesCompose`. `KeyInv` bounds the end of the cache entry by `TTL` from now and by
`TTL + MaxDelay` from the revocation or suspension, and says for each step of a
running `Authenticate` how old what it read may be: an entry written late is written
by a request that started in time. `LimiterInv` relates the stored bucket to a perfect
one and to the allowance granted so far, across expiry: a bucket that is absent has
been full (`TTLFills`).

**Stored and read** (`ReadsProofs`, for any number of tenants, events, days and
loads): `KeptHotHolds`, `OnItsTenantsTermsHolds` (an action property),
`NothingLostHolds`, `TwiceOnlyHolds`, `PanelShowsWhatIsAskedHolds`,
`SeriesAddsUpHolds`, `ReadsCompose`.

- `RetentionInv`: rows are in partitions that exist, and what the worker has collected
  to delete is due on terms its tenant has had since the cycle read them.
- `SearchInv` adds where the search stands: while it runs, its cutoff is at most
  `MaxDelay` old (`Timed`), so that retention, which keeps `HotDays`, has not removed
  what the hot half is to find; and after the hot half every row it had to find is
  on the page, pushed off it by newer ones, or in the cold tier too (`HotHalfDone`).
- `PanelInv`: a load that is not cancelled is the load of what is asked now.
- `SeriesInv`: what was counted for a load is still stored when its buckets are read,
  and its buckets are those of the events it read (`LoadAdds`); the series on screen
  is the one made of them (`PanelAdds`).

`SeriesAddsUp` then follows from arithmetic that no longer speaks of states. A bucket
starts in the range and not after its events (`BucketBounds`), and its start lies in one
slot (`HasSlot`) and in no other (`OneSlot`). So the slots part the events, the sum of
slot sizes is the size of the union (`SumOfSizes`), and a prefix of the series holds at
least the events of its slots. `SumOfSizes` needs an induction over finite sets, which
the induction theorems of the library, with their operator parameters, do not give here.
It is proved by a minimal counterexample instead: strict inclusion is well-founded on
the subsets of a finite set, so a collection of subsets has a minimal one
(`MinimalSubset`), and for it the recursive function under `MapThenSumSet` unfolds once.

**Views** (`ViewsProofs`, for every buffer, scrollback, page and list size, every set of
events and every filter): `ViewsInvariance` (`ViewsInv`), `FramesAreHonest`,
`TailLeaksNothing`, `ScrollbackIsHonest`, `ShowsOneResultSet`, all of the composition
`Views`. `ViewsInv` has three parts.

- `StreamInv`: `OrderInv` and `LineInv` say that published, received, buffered and
  written events stand in one order; `CountInv` where the count of every drop is (with
  the pump, in the counter, in the loop's hand, told), and that drops before an event
  which has left the pump are at least counted. From this a drop is told before the
  second data frame after it.
- `TailInv`: one connection or one timer, and `NextIsMarked`: if the next row comes
  from another connection than the last, a mark is owed.
- `SearchInv`: the list is the newest part of the last search's events (`ListInv`), and
  a call whose answer will be applied asks for exactly its continuation (`CallsInv`).

**Console** (`ConsoleCallsProofs`, `ConsoleProofs`, for any pages in any number of tabs,
any rows, roles, names, panels and caps, and any number of calls): `ConsoleInvariant`
(`ConsoleInv`), `EditsComposeInvariant`, `StaleNeedsARaceInvariant`,
`OfferedIsAllowedInvariant`, `SecretStaysUpInvariant`, `CapYieldsOnlyToRacesInvariant`.
The properties compare the tables with what users wanted; what breaks them is a form
filled from an old row, a call under way, or a second call of a tab. `ConsoleInv` says
of each what it can still do:

- `Copy`: a row as a page or a dialog holds it was the row once and, while the version
  of its whole-form fields is the same, has their values still. Ids are not used again
  (`Born`), so a deleted row is not confused with a later one;
- `CallInv`: a call was offered by the matrix the page asks. One not dealt with yet
  inserts a row that fits its table, deletes, or patches (`PatchFits`): it writes what its
  user changed and, besides, only fields of a whole form as they were at its base version.
  `UiWithinMatrix`, that the page's matrix is within the enforced one, turns the first
  into `OfferedIsAllowed`;
- an invite that was counted and not stored yet still finds fewer pending ones than the cap
  among those it counted, so that only invites stored since can exceed it;
- `OneAtATime`: a user who waits for answers and reloads has one call out, by the open
  dialog, and none while a secret is up;
- `NoRace`: the tab of such a user is up to date (`Current`) but for the time between a
  change of its own and the reload after it, unless somebody else changes whole forms or a
  change of its own was reported as failed. This is the induction behind
  `StaleNeedsARace`.

There is one lemma per dialog, button, route, loader and answer. They rest on
`RowsMove`, what a write may do to rows others know of: `CopyMoves`, `PatchMoves` and
`DialogMoves` carry that knowledge across it. `ConsoleAssumption` says what the tables
hold when the tabs open: rows of their kinds, pending invites within the cap and
one per address. TLC checked `ConsoleInv` on the run's instance before it was proved.

**Only model-checked.** All liveness (`EventuallySettled`, `FollowsLogs`,
`OutboxDrains`, `NothingStaysBehind`, `Settles`, `SearchSettles`, `ExpiredGoes`): the
prover has no rules for fairness and `ENABLED`. Every safety property of a passing run
has a theorem.

## Disagreements between comments and code

Two are kept as runs. `retention_default`: a client's `ts` is stored as it is,
so an event dated past the days the ensure job has created goes to
`log_events_default`; when its day comes into range, `CREATE TABLE ... PARTITION
OF` fails and that call creates no partition. Migration 000010 says that the job
"keeps it empty so this never bites". `alert_source`: a patch of `savedQueryId`
alone leaves a rule with an inline query too, while the comment at
`alert-rule-service.ts:120` says that the source "must be EXACTLY ONE".

The others follow from the models too. The definitions named here state what the
comment says; TLC finds each violated under bounds like those of the runs.

| definition | what happens | what the code says |
|---|---|---|
| `Pipeline!ShutdownNeverDeadLetters` | SIGTERM after a failed attempt of `persist` dead-letters a good message with retries left | `processor/cmd/processor/main.go:52` "a shutdown is never misrouted to the DLQ" |
| `Pipeline!PublishedIsExact` | a confirm after the deadline leaves an event enqueued that the count leaves out | `ingest.go:80` "reflects exactly how many are durably enqueued" |
| `AlertEvaluator!OutboxDrains`, `Rejected` not empty | `BatchSize` rows that are refused every time stay at the head of `ListPending`, and no later row of any tenant is tried | `evaluator.go:102` "a delivery failure simply leaves the row pending for the next cycle's relay" |
| `AlertEvaluator!OutboxDrains`, `Stuck` not empty | `Send` has no deadline of its own, so a server that never answers stops the loop | `smtp.go:61` "instead of stalling the whole loop" |
| `AlertEvaluator!NoDuplicateOnHappyPath`, two replicas | `ListPending` takes no lock, so both deliver a row | migration 000013:27 "two racing evaluators can never emit two notifications" |
| `TailStream!GapInOrder` | a Gap is written before older events that are still in the buffer | `tail.go:194` "in order, before the next data frame" |
| `RefreshTokens!WholeFamily` | a successor inserted by a rotate that overlaps a `revokeFamily` is not revoked | `auth-service.ts:174` "the presented token's whole family" |
| `WebSession!KeepsItsSession`, two requests | two tabs refresh with one token; the second counts as reuse | `auth-service.ts:101` "only ever holds the newest token" |
| `WebSession!StaysInSync` | a tail that fails after its refresh does not return the new cookies | `tail-proxy.ts:169` "so the browser stays in sync" |
| `WebSession!StaysLoggedOut`, two requests | a refresh answered after the logout sets the cookies again | `auth.ts:77` "still logs the user out locally" |
| `KeyAuth!WithinTTL` | the entry's lifetime starts when it is written, not when the row was read | `authenticator.go:13` "for up to this long" |
| `KeyAuth!StopsImmediately` | an `Authenticate` that read the row earlier writes the entry after the bust | `store.go:137` "stops authenticating immediately" |
| `RateLimiter!NeverOverAdmits` | a stale clock reading sets `ts` back and the interval is refilled twice | `redis.go:12` "can never over-admit" |
| `Retention!DropFailureIsHard` | a failed drop is logged and the cycle returns nil | `retainer.go:135` "IS a hard error" |
| `TieredSearch!ColdHalfEndsAtCutoff` | the cold half is bounded by whole days | `tiered_search.go:214` "cold half = [q.From, hotCutoff)" |

Also met: the evaluator stamps a rule later than the start of the cycle it
compares with, so a rule is evaluated in every other cycle; and the first page
of Athena results counts its header row against the page size.

## Not modelled

- Stateless checks of one request: JWT verification, the tenant-predicate gate of
  the cold store, field formats of the contracts, the mapping of errors to status
  codes. They have no state and no order of events to explore.
- Row-level security: Postgres enforces it on a setting that lasts one
  transaction; the models read and write every table through it.
- Tenants and saved queries beyond their effect on other parts (a suspended
  tenant, a saved query that is gone): single statements nothing else depends on.
- Rendering and layout, design tokens, seeds, infrastructure, probes, logging,
  e-mail and audit lines.
- Parquet encoding and the S3, Glue and Athena clients: an object exists or not.
- Inside modelled parts: the pool of publisher channels (a confirm belongs to
  its publish), body parsing and `Normalize` beyond success or failure, full-text
  matching, a panel's recent events, `returnTo` after the sign-in,
  `ParseOverrides`, and a disabled or dry-run retention-worker (it changes
  nothing).
- Two hazards no property covers: an ingest replica whose broker connection is
  gone answers 503 until something outside the repository restarts it, and a tail
  client that stays connected and stops reading holds its goroutines.
