------------------------------ MODULE Processor ------------------------------
(***************************************************************************)
(* The processor: Broker.Consume hands one delivery at a time to           *)
(* handleDelivery, which runs Service.Handle (normalize, persist with      *)
(* retries, cold tee, tail publish) and then acks or nacks.  Each replica  *)
(* may be told to stop (SIGTERM cancels the lifecycle context), may lose   *)
(* its broker connection in the middle of a delivery, and may crash.       *)
(***************************************************************************)
EXTENDS Broker

CONSTANTS
  Poison,      \* events that cannot be decoded, scoped or normalized; the
               \* ingest handler's own validation lets none through, another
               \* or an older publisher on the exchange may
  MaxRetries,  \* Service.maxRetries
  ColdEnabled, \* COLD_ENABLED: whether the cold archive port is wired
  MaxFaults,   \* bound: crashes, connection losses and SIGTERMs
  NoMsg        \* "no delivery in hand"

ASSUME ProcessorAssumption ==
  /\ Poison \subseteq Event
  /\ MaxRetries \in Int
  /\ ColdEnabled \in BOOLEAN
  /\ MaxFaults \in Nat
  /\ NoMsg \notin Message

VARIABLES
  phase,       \* phase[c]: where replica c is
  conn,        \* conn[c]: its consumer channel is open
  cancelled,   \* cancelled[c]: its lifecycle context is cancelled
  buffer,      \* buffer[c]: deliveries received, not yet handed to the handler
  cur,         \* cur[c]: the delivery in handleDelivery
  attempt,     \* attempt[c]: failed attempts of the running retry loop
  rows,        \* rows[m]: committed rows of log_events written for m
  archived,    \* messages with an object in the cold archive
  tailed,      \* messages published on the tail bus
  disturbed,   \* history: messages taken back from a broken channel, or whose
               \* commit was reported to the processor as an error
  faults       \* faults injected so far

handlerVars == <<phase, conn, cancelled, buffer, cur, attempt>>
storeVars == <<rows, archived, tailed>>
processorVars == <<handlerVars, storeVars, disturbed, faults>>

\* persist and archiveCold are the two retry loops of Handle; tail is its
\* best-effort publish; ack and nack are what handleDelivery does with the
\* result; down is a replica that is not running.
Phase == {"down", "idle", "persist", "archive", "tail", "ack", "nack"}

\* attempts := maxRetries + 1, at least 1
Attempts == IF MaxRetries + 1 < 1 THEN 1 ELSE MaxRetries + 1

Stored == {m \in Message : rows[m] > 0}

ProcessorTypeOK ==
  /\ phase \in [Consumer -> Phase]
  /\ conn \in [Consumer -> BOOLEAN]
  /\ cancelled \in [Consumer -> BOOLEAN]
  /\ buffer \in [Consumer -> SUBSET Message]
  /\ cur \in [Consumer -> Message \cup {NoMsg}]
  /\ attempt \in [Consumer -> 0..Attempts]
  /\ rows \in [Message -> Nat]
  /\ archived \subseteq Message
  /\ tailed \subseteq Message
  /\ disturbed \subseteq Message
  /\ faults \in 0..MaxFaults

ProcessorInit ==
  /\ phase = [c \in Consumer |-> "down"]
  /\ conn = [c \in Consumer |-> FALSE]
  /\ cancelled = [c \in Consumer |-> FALSE]
  /\ buffer = [c \in Consumer |-> {}]
  /\ cur = [c \in Consumer |-> NoMsg]
  /\ attempt = [c \in Consumer |-> 0]
  /\ rows = [m \in Message |-> 0]
  /\ archived = {}
  /\ tailed = {}
  /\ disturbed = {}
  /\ faults = 0

-----------------------------------------------------------------------------
(* Start, delivery and the Consume loop.                                   *)

\* run() dials the broker, declares the topology and enters Consume.
Start(c) ==
  /\ phase[c] = "down"
  /\ phase' = [phase EXCEPT ![c] = "idle"]
  /\ conn' = [conn EXCEPT ![c] = TRUE]
  /\ cancelled' = [cancelled EXCEPT ![c] = FALSE]
  /\ UNCHANGED <<buffer, cur, attempt, storeVars, disturbed, faults, brokerVars>>

\* Mutant: ch.Consume with autoAck = true.
DeliverAutoAck(c, m) ==
  /\ conn[c]
  /\ m \in queue
  /\ queue' = queue \ {m}
  /\ buffer' = [buffer EXCEPT ![c] = @ \cup {m}]
  /\ UNCHANGED <<unacked, phase, conn, cancelled, cur, attempt, storeVars, disturbed,
                 faults, wire, taken, dlq>>

\* The broker pushes a ready message, at most Prefetch unacknowledged.
Deliver(c, m) ==
  /\ conn[c]
  /\ m \in queue
  /\ Cardinality(unacked[c]) < Prefetch
  /\ queue' = queue \ {m}
  /\ unacked' = [unacked EXCEPT ![c] = @ \cup {m}]
  /\ buffer' = [buffer EXCEPT ![c] = @ \cup {m}]
  /\ UNCHANGED <<phase, conn, cancelled, cur, attempt, storeVars, disturbed,
                 faults, wire, taken, dlq>>

\* Consume's select picks a delivery, also when the context is already
\* cancelled or the channel is gone but a delivery is still buffered.
\* An undecodable, unscoped or unnormalizable one is refused without retry.
Take(c, m) ==
  /\ phase[c] = "idle"
  /\ m \in buffer[c]
  /\ buffer' = [buffer EXCEPT ![c] = @ \ {m}]
  /\ cur' = [cur EXCEPT ![c] = m]
  /\ attempt' = [attempt EXCEPT ![c] = 0]
  /\ phase' = [phase EXCEPT ![c] = IF m.event \in Poison THEN "nack" ELSE "persist"]
  /\ UNCHANGED <<conn, cancelled, storeVars, disturbed, faults, brokerVars>>

-----------------------------------------------------------------------------
(* Service.persist: Append under a context that SIGTERM does not cancel.   *)

\* After persist, Handle skips the cold tee when it is not wired or when the
\* lifecycle context is cancelled by then.
AfterPersist(c) == IF ColdEnabled /\ ~cancelled[c] THEN "archive" ELSE "tail"

\* Append commits.
AppendOk(c) ==
  /\ phase[c] = "persist"
  /\ rows' = [rows EXCEPT ![cur[c]] = @ + 1]
  /\ attempt' = [attempt EXCEPT ![c] = 0]
  /\ phase' = [phase EXCEPT ![c] = AfterPersist(c)]
  /\ UNCHANGED <<conn, cancelled, buffer, cur, archived, tailed, disturbed,
                 faults, brokerVars>>

\* Whether a retry loop runs again after one more failure: not when the budget
\* is spent, and not once the lifecycle context is cancelled.
Retry(c) == attempt[c] + 1 < Attempts /\ ~cancelled[c]

\* Mutant: persist drops lastErr when the budget is spent.
AppendFailSwallowed(c, committed) ==
  /\ phase[c] = "persist"
  /\ attempt' = [attempt EXCEPT ![c] = IF Retry(c) THEN @ + 1 ELSE 0]
  /\ phase' = [phase EXCEPT ![c] = IF Retry(c) THEN "persist" ELSE AfterPersist(c)]
  /\ rows' = [rows EXCEPT ![cur[c]] = IF committed THEN @ + 1 ELSE @]
  /\ disturbed' = IF committed THEN disturbed \cup {cur[c]} ELSE disturbed
  /\ UNCHANGED <<conn, cancelled, buffer, cur, archived, tailed, faults, brokerVars>>

\* Append fails.  A failure of the COMMIT round trip, the drain deadline
\* included, may leave the row committed although Append reports an error.
AppendFail(c, committed) ==
  /\ phase[c] = "persist"
  /\ attempt' = [attempt EXCEPT ![c] = @ + 1]
  /\ phase' = [phase EXCEPT ![c] = IF Retry(c) THEN "persist" ELSE "nack"]
  /\ rows' = [rows EXCEPT ![cur[c]] = IF committed THEN @ + 1 ELSE @]
  /\ disturbed' = IF committed THEN disturbed \cup {cur[c]} ELSE disturbed
  /\ UNCHANGED <<conn, cancelled, buffer, cur, archived, tailed, faults, brokerVars>>

-----------------------------------------------------------------------------
(* The cold tee, the tail publish and the settlement.                      *)

\* Archive returns nil, or an error with or without the object written; only
\* an error before the budget is spent leads to another attempt, and the
\* outcome never changes what happens to the message.
Archive(c, ok, written) ==
  /\ phase[c] = "archive"
  /\ ok => written
  /\ archived' = IF written THEN archived \cup {cur[c]} ELSE archived
  /\ attempt' = [attempt EXCEPT ![c] = IF ok THEN @ ELSE @ + 1]
  /\ phase' = [phase EXCEPT ![c] = IF ~ok /\ Retry(c) THEN "archive" ELSE "tail"]
  /\ UNCHANGED <<conn, cancelled, buffer, cur, rows, tailed, disturbed, faults,
                 brokerVars>>

\* tail.Publish; a failure is only logged.
TailPublish(c, ok) ==
  /\ phase[c] = "tail"
  /\ tailed' = IF ok THEN tailed \cup {cur[c]} ELSE tailed
  /\ phase' = [phase EXCEPT ![c] = "ack"]
  /\ UNCHANGED <<conn, cancelled, buffer, cur, attempt, rows, archived,
                 disturbed, faults, brokerVars>>

\* handleDelivery is done with the delivery.
Settled(c) ==
  /\ phase' = [phase EXCEPT ![c] = "idle"]
  /\ cur' = [cur EXCEPT ![c] = NoMsg]
  /\ attempt' = [attempt EXCEPT ![c] = 0]
  /\ UNCHANGED <<conn, cancelled, buffer, storeVars, disturbed, faults>>

Ack(c) ==
  /\ phase[c] = "ack"
  /\ AckDelivery(c, cur[c])
  /\ Settled(c)

Nack(c) ==
  /\ phase[c] = "nack"
  /\ NackDelivery(c, cur[c])
  /\ Settled(c)

-----------------------------------------------------------------------------
(* Shutdown, connection loss and crash.                                    *)

\* SIGTERM cancels the lifecycle context.
Shutdown(c) ==
  /\ phase[c] # "down"
  /\ ~cancelled[c]
  /\ faults < MaxFaults
  /\ cancelled' = [cancelled EXCEPT ![c] = TRUE]
  /\ faults' = faults + 1
  /\ UNCHANGED <<phase, conn, buffer, cur, attempt, storeVars, disturbed, brokerVars>>

\* The replica is gone; what it held in memory is lost.
Stopped(c) ==
  /\ phase' = [phase EXCEPT ![c] = "down"]
  /\ conn' = [conn EXCEPT ![c] = FALSE]
  /\ cancelled' = [cancelled EXCEPT ![c] = FALSE]
  /\ buffer' = [buffer EXCEPT ![c] = {}]
  /\ cur' = [cur EXCEPT ![c] = NoMsg]
  /\ attempt' = [attempt EXCEPT ![c] = 0]
  /\ UNCHANGED storeVars

\* Mutant: deliveries are handled in a goroutine that Consume does not wait for.
ExitMidDelivery(c) ==
  /\ phase[c] # "down"
  /\ cancelled[c] \/ ~conn[c]
  /\ Requeue(c)
  /\ Stopped(c)
  /\ UNCHANGED <<disturbed, faults>>

\* Consume returns between two deliveries, because the context is cancelled or
\* the deliveries channel was closed; the deferred Close gives back the rest.
Exit(c) ==
  /\ phase[c] = "idle"
  /\ cancelled[c] \/ ~conn[c]
  /\ Requeue(c)
  /\ Stopped(c)
  /\ UNCHANGED <<disturbed, faults>>

\* The broker connection breaks.  The broker requeues at once; the handler
\* knows nothing of it and goes on.
ConnLost(c) ==
  /\ conn[c]
  /\ faults < MaxFaults
  /\ conn' = [conn EXCEPT ![c] = FALSE]
  /\ disturbed' = disturbed \cup unacked[c]
  /\ faults' = faults + 1
  /\ Requeue(c)
  /\ UNCHANGED <<phase, cancelled, buffer, cur, attempt, storeVars>>

Crash(c) ==
  /\ phase[c] # "down"
  /\ faults < MaxFaults
  /\ disturbed' = disturbed \cup unacked[c]
  /\ faults' = faults + 1
  /\ Requeue(c)
  /\ Stopped(c)
=============================================================================
