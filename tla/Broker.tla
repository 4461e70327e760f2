------------------------------- MODULE Broker -------------------------------
(***************************************************************************)
(* The durable ingest queue as pkg/broker uses it: RabbitMQ's side of the  *)
(* publisher confirms, of the manual acknowledgements and of the dead      *)
(* letter exchange that topology.go declares.  RabbitMQ itself is external *)
(* to the repository; the operators below are the steps of it that         *)
(* Publish, Consume and handleDelivery rely on.                            *)
(*                                                                         *)
(* A message is one published copy of an event: a client that retries an   *)
(* event publishes another copy.  Copies are numbered 1..MaxPublish, the   *)
(* bound of the model on retries.                                          *)
(***************************************************************************)
EXTENDS Integers, FiniteSets

CONSTANTS
  Event,       \* payload lines that clients submit
  Consumer,    \* processor replicas, one consumer channel each
  Prefetch,    \* Qos prefetch count of a consumer channel
  MaxPublish   \* bound: copies of one event that may be published

ASSUME BrokerAssumption ==
  /\ Prefetch \in Nat \ {0}
  /\ MaxPublish \in Nat \ {0}

VARIABLES
  wire,        \* sent by a publisher, not yet taken by the broker
  taken,       \* every message the broker ever took into the durable queue
  queue,       \* ready in the durable work queue
  unacked,     \* unacked[c]: delivered on c's channel, neither acked nor nacked
  dlq          \* in the dead letter queue

brokerVars == <<wire, taken, queue, unacked, dlq>>

Message == [event: Event, copy: 1..MaxPublish]

\* What the broker is still responsible for.
Held == queue \cup UNION {unacked[c] : c \in Consumer}

BrokerTypeOK ==
  /\ wire \subseteq Message
  /\ taken \subseteq Message
  /\ queue \subseteq Message
  /\ unacked \in [Consumer -> SUBSET Message]
  /\ dlq \subseteq Message

BrokerInit ==
  /\ wire = {}
  /\ taken = {}
  /\ queue = {}
  /\ unacked = [c \in Consumer |-> {}]
  /\ dlq = {}

-----------------------------------------------------------------------------
\* The broker takes a persistent message into the durable queue; from here on
\* it may send the publisher confirm.
Receive(m) ==
  /\ m \in wire
  /\ wire' = wire \ {m}
  /\ taken' = taken \cup {m}
  /\ queue' = queue \cup {m}
  /\ UNCHANGED <<unacked, dlq>>

\* The publisher's connection dies before the message reaches the broker, or
\* the broker refuses it (basic.nack).
LoseOnWire(m) ==
  /\ m \in wire
  /\ wire' = wire \ {m}
  /\ UNCHANGED <<taken, queue, unacked, dlq>>

\* A consumer channel goes away (closed, process dead, connection lost): the
\* broker puts everything unacknowledged on it back into the queue.
Requeue(c) ==
  /\ queue' = queue \cup unacked[c]
  /\ unacked' = [unacked EXCEPT ![c] = {}]
  /\ UNCHANGED <<wire, taken, dlq>>

\* d.Ack(false).  On a channel that is gone it has no effect and its error is
\* ignored by handleDelivery.
AckDelivery(c, m) ==
  /\ unacked' = [unacked EXCEPT ![c] = @ \ {m}]
  /\ UNCHANGED <<wire, taken, queue, dlq>>

\* Mutant: the queue declared without x-dead-letter-exchange.
NackDeliveryNoDlx(c, m) ==
  /\ unacked' = [unacked EXCEPT ![c] = @ \ {m}]
  /\ UNCHANGED <<wire, taken, queue, dlq>>

\* Mutant: d.Nack(false, true), which requeues.
NackDeliveryRequeue(c, m) ==
  /\ unacked' = [unacked EXCEPT ![c] = @ \ {m}]
  /\ queue' = queue \cup (unacked[c] \cap {m})
  /\ UNCHANGED <<wire, taken, dlq>>

\* d.Nack(false, false): no requeue, so the message dead-letters.
NackDelivery(c, m) ==
  /\ unacked' = [unacked EXCEPT ![c] = @ \ {m}]
  /\ dlq' = IF m \in unacked[c] THEN dlq \cup {m} ELSE dlq
  /\ UNCHANGED <<wire, taken, queue>>
=============================================================================
