---------------------------- MODULE IngestService ----------------------------
(***************************************************************************)
(* The ingest-service: POST /v1/ingest publishes the events of a batch one *)
(* by one, waits for the publisher confirm of each, stops at the first     *)
(* failure and reports how many were confirmed.  A client keeps the batch  *)
(* until every event of it was reported confirmed and resubmits the rest,  *)
(* as the handler's 503 body invites it to do.                             *)
(***************************************************************************)
EXTENDS Broker, Sequences

CONSTANTS
  Client,      \* clients, each with one request in progress at a time
  Batch        \* Batch[k]: the events client k wants stored, in order

ASSUME IngestAssumption == Batch \in [Client -> Seq(Event)]

VARIABLES
  req,         \* req[k]: where the request of client k is
  base,        \* base[k]: events the client was told are confirmed
  published,   \* published[k]: the counter of the running Ingest call
  awaiting,    \* awaiting[k]: the message whose confirm Publish waits for
  tries,       \* tries[e]: copies of e published so far
  confirmed    \* history: the messages for which Publish returned nil

ingestVars == <<req, base, published, awaiting, tries, confirmed>>

\* idle: no request; publishing: at the head of the Ingest loop;
\* waiting: in Publish's select on the confirm and the deadline.
ReqState == {"idle", "publishing", "waiting"}

IngestTypeOK ==
  /\ req \in [Client -> ReqState]
  /\ base \in [Client -> Nat]
  /\ published \in [Client -> Nat]
  /\ awaiting \in [Client -> SUBSET Message]
  /\ tries \in [Event -> 0..MaxPublish]
  /\ confirmed \subseteq Message

IngestInit ==
  /\ req = [k \in Client |-> "idle"]
  /\ base = [k \in Client |-> 0]
  /\ published = [k \in Client |-> 0]
  /\ awaiting = [k \in Client |-> {}]
  /\ tries = [e \in Event |-> 0]
  /\ confirmed = {}

\* Events of the batch that are confirmed as far as this Ingest call knows.
Progress(k) == base[k] + published[k]

-----------------------------------------------------------------------------
\* A request with the events not yet reported confirmed passes authentication
\* and parseBody, and Ingest starts with published = 0.
Request(k) ==
  /\ req[k] = "idle"
  /\ base[k] < Len(Batch[k])
  /\ req' = [req EXCEPT ![k] = "publishing"]
  /\ published' = [published EXCEPT ![k] = 0]
  /\ UNCHANGED <<base, awaiting, tries, confirmed, brokerVars>>

\* Broker.Publish up to the select: a channel is acquired and the envelope is
\* written to it in confirm mode.
Publish(k) ==
  LET e == Batch[k][Progress(k) + 1]
      m == [event |-> e, copy |-> tries[e] + 1]
  IN  /\ req[k] = "publishing"
      /\ tries[e] < MaxPublish
      /\ tries' = [tries EXCEPT ![e] = @ + 1]
      /\ wire' = wire \cup {m}
      /\ awaiting' = [awaiting EXCEPT ![k] = {m}]
      /\ req' = [req EXCEPT ![k] = "waiting"]
      /\ UNCHANGED <<base, published, confirmed, taken, queue, unacked, dlq>>

\* The broker's ack arrives: Publish returns nil and Ingest counts the event.
\* After the last one the handler answers 202 and the client is done.
\* RabbitMQ acks only what it has taken into the queue; by the time the ack
\* arrives the message may already have been delivered and settled.
Confirm(k) ==
  /\ req[k] = "waiting"
  /\ awaiting[k] \subseteq taken
  /\ confirmed' = confirmed \cup awaiting[k]
  /\ awaiting' = [awaiting EXCEPT ![k] = {}]
  /\ IF Progress(k) + 1 = Len(Batch[k])
     THEN /\ req' = [req EXCEPT ![k] = "idle"]
          /\ base' = [base EXCEPT ![k] = Progress(k) + 1]
          /\ published' = [published EXCEPT ![k] = 0]
     ELSE /\ req' = [req EXCEPT ![k] = "publishing"]
          /\ published' = [published EXCEPT ![k] = @ + 1]
          /\ UNCHANGED base
  /\ UNCHANGED <<tries, brokerVars>>

\* Publish returns an error: no channel, a failed write, a nack, or the
\* deadline before the confirm.  The handler answers 503 with the confirmed
\* count.  Whatever is on the wire or in the queue stays there.
PublishError(k) ==
  /\ req[k] \in {"publishing", "waiting"}
  /\ req' = [req EXCEPT ![k] = "idle"]
  /\ base' = [base EXCEPT ![k] = Progress(k)]
  /\ published' = [published EXCEPT ![k] = 0]
  /\ awaiting' = [awaiting EXCEPT ![k] = {}]
  /\ UNCHANGED <<tries, confirmed, brokerVars>>

\* The replica dies or the response is lost: the client learns nothing and
\* will resubmit from where it was.
ReplyLost(k) ==
  /\ req[k] \in {"publishing", "waiting"}
  /\ req' = [req EXCEPT ![k] = "idle"]
  /\ published' = [published EXCEPT ![k] = 0]
  /\ awaiting' = [awaiting EXCEPT ![k] = {}]
  /\ UNCHANGED <<base, tries, confirmed, brokerVars>>
=============================================================================
