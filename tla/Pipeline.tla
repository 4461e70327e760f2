------------------------------ MODULE Pipeline ------------------------------
(***************************************************************************)
(* The ingest path end to end: ingest-service replicas publish into the    *)
(* durable queue, processor replicas drain it into the hot store, the cold *)
(* archive and the tail bus.                                               *)
(***************************************************************************)
EXTENDS IngestService, Processor

vars == <<brokerVars, ingestVars, processorVars>>

TypeOK == BrokerTypeOK /\ IngestTypeOK /\ ProcessorTypeOK

Init == BrokerInit /\ IngestInit /\ ProcessorInit

BrokerStep ==
  /\ \E m \in Message : Receive(m) \/ LoseOnWire(m)
  /\ UNCHANGED <<ingestVars, processorVars>>

IngestStep(k) ==
  /\ \/ Request(k)
     \/ Publish(k)
     \/ Confirm(k)
     \/ PublishError(k)
     \/ ReplyLost(k)
  /\ UNCHANGED processorVars

\* The steps a running replica takes by itself.
Handle(c) ==
  \/ \E m \in Message : Take(c, m)
  \/ AppendOk(c)
  \/ \E committed \in BOOLEAN : AppendFail(c, committed)
  \/ \E ok, written \in BOOLEAN : Archive(c, ok, written)
  \/ \E ok \in BOOLEAN : TailPublish(c, ok)
  \/ Ack(c)
  \/ Nack(c)
  \/ Exit(c)

Fault(c) == Shutdown(c) \/ ConnLost(c) \/ Crash(c)

ConsumerStep(c) ==
  /\ \/ Start(c)
     \/ \E m \in Message : Deliver(c, m)
     \/ Handle(c)
     \/ Fault(c)
  /\ UNCHANGED ingestVars

Next ==
  \/ BrokerStep
  \/ \E k \in Client : IngestStep(k)
  \/ \E c \in Consumer : ConsumerStep(c)

Spec == Init /\ [][Next]_vars

\* A replica that is down is restarted, the broker delivers to an open
\* channel, and a running replica keeps running: every call of Handle returns,
\* Append and Archive because of the drain deadline.  Clients, the wire and
\* faults are under no obligation.
Fairness ==
  \A c \in Consumer :
    /\ WF_vars(Start(c) /\ UNCHANGED ingestVars)
    /\ WF_vars((\E m \in Message : Deliver(c, m)) /\ UNCHANGED ingestVars)
    /\ WF_vars(Handle(c) /\ UNCHANGED ingestVars)

FairSpec == Spec /\ Fairness
-----------------------------------------------------------------------------
(* Properties.                                                             *)

\* Where a message is accounted for.
Safe == Held \cup Stored \cup dlq

\* No acknowledged loss: every event that the client was told is confirmed, by
\* a 202 or by the count in a 503, has a copy that is queued, in a consumer's
\* hands, committed in log_events or in the dead letter queue, whatever
\* replicas crash and whatever connections break.
NoAcknowledgedLoss ==
  \A k \in Client : \A i \in 1..base[k] :
    \E m \in Safe : m.event = Batch[k][i]

\* A message has two rows, or a row and a place in the dead letter queue, only
\* if its channel broke while it was unacknowledged or its commit was reported
\* as an error.  In particular a graceful shutdown never duplicates an event.
DuplicateOnlyIfDisturbed ==
  \A m \in Message \ disturbed :
    /\ rows[m] <= 1
    /\ m \in dlq => rows[m] = 0

\* The cold archive and the tail bus only ever see events whose hot row is
\* committed: persist comes before both.
TeeAfterCommit == archived \cup tailed \subseteq Stored

\* A delivery is refused only if it is poison, if its whole retry budget
\* failed, or if at least one attempt failed and the replica is shutting down:
\* attempt 0 of persist runs also after SIGTERM.
DeadLetterJustified ==
  \A c \in Consumer :
    phase[c] = "nack" =>
      \/ cur[c].event \in Poison
      \/ attempt[c] = Attempts
      \/ attempt[c] > 0 /\ cancelled[c]

\* Every message the broker took is eventually stored or dead-lettered, and
\* the broker is eventually rid of it.
EventuallySettled ==
  \A m \in Message : (m \in Held) ~> (m \in Stored \cup dlq /\ m \notin Held)

\* The ingest path implements the promise of DurableLog.
Promise ==
  INSTANCE DurableLog WITH
    held <- Held, stored <- Stored, dead <- dlq

ImplementsDurableLog == Promise!Spec

-----------------------------------------------------------------------------
(* What comments in the code say and the code does not do.                 *)

\* "a shutdown is never misrouted to the DLQ as a poison message": a good
\* message is refused only after its whole retry budget failed.  persist gives
\* up after the first failed attempt once the context is cancelled, and
\* handleDelivery dead-letters.
ShutdownNeverDeadLetters ==
  \A c \in Consumer :
    phase[c] = "nack" => cur[c].event \in Poison \/ attempt[c] = Attempts

\* "`published` reflects exactly how many are durably enqueued": when Ingest
\* returns an error, the event it stopped at is not in the queue.  A confirm
\* that is late, or whose connection broke, leaves it there.
PublishedIsExact ==
  [][\A k \in Client : PublishError(k) => awaiting[k] \cap taken = {}]_vars

-----------------------------------------------------------------------------
(* The inductive invariant behind the safety properties.                   *)

\* What replica c has in memory.
InHand(c) == buffer[c] \cup {m \in Message : m = cur[c]}

\* A message is in one place at the broker, and every place lies in taken.
OnePlace ==
  /\ wire \cap taken = {}
  /\ \A m \in wire \cup taken : m.copy <= tries[m.event]
  /\ Held \cup dlq \cup Stored \subseteq taken
  /\ \A c \in Consumer : InHand(c) \subseteq taken
  /\ queue \cap dlq = {}
  /\ \A c \in Consumer : unacked[c] \cap (queue \cup dlq) = {}
  /\ \A c, d \in Consumer : c # d => unacked[c] \cap unacked[d] = {}

\* A replica's memory agrees with its phase, and with the broker's view of its
\* channel as long as that is open.
ReplicaShape(c) ==
  /\ cur[c] = NoMsg <=> phase[c] \in {"down", "idle"}
  /\ phase[c] = "down" => buffer[c] = {} /\ ~conn[c]
  /\ cur[c] \notin buffer[c]
  /\ unacked[c] = IF conn[c] THEN InHand(c) ELSE {}
  /\ phase[c] \in {"archive", "tail", "ack"} => cur[c] \in Stored
  /\ phase[c] \in {"persist", "archive"} => attempt[c] < Attempts

HandlerShape == \A c \in Consumer : ReplicaShape(c)

\* The broker lets go of a message only when it is stored or dead-lettered.
NothingLost == taken \subseteq Safe

\* What the clients were told is backed by confirmed messages.
ConfirmedBacked ==
  /\ confirmed \subseteq taken
  /\ \A k \in Client :
       /\ Progress(k) <= Len(Batch[k])
       /\ req[k] # "idle" => Progress(k) < Len(Batch[k])
       /\ req[k] = "waiting" =>
            \E m \in Message : awaiting[k] = {m} /\ m.event = Batch[k][Progress(k) + 1]
       /\ \A i \in 1..Progress(k) : \E m \in confirmed : m.event = Batch[k][i]

\* A message that was never disturbed has exactly the rows its place implies.
RowsFor(m) ==
  /\ rows[m] <= 1
  /\ m \in queue \cup dlq => rows[m] = 0
  /\ \A c \in Consumer :
       /\ m \in InHand(c) => conn[c]
       /\ m \in buffer[c] => rows[m] = 0
       /\ m = cur[c] /\ phase[c] \in {"persist", "nack"} => rows[m] = 0

RowsMatchPlace == \A m \in Message \ disturbed : RowsFor(m)

IInv ==
  /\ TypeOK
  /\ OnePlace
  /\ HandlerShape
  /\ NothingLost
  /\ ConfirmedBacked
  /\ RowsMatchPlace
  /\ TeeAfterCommit
  /\ DeadLetterJustified
=============================================================================
