----------------------------- MODULE TailStream -----------------------------
(***************************************************************************)
(* One live-tail connection of the query-service: the goroutine of         *)
(* Bus.Subscribe decodes the messages of the tenant's Redis channel, the   *)
(* pump of StreamEvents filters them into a bounded buffer and counts what *)
(* does not fit, and the loop writes data, gap and heartbeat frames to the *)
(* client.  Events are numbered in the order they are published.           *)
(***************************************************************************)
EXTENDS Integers, Sequences, Functions, FiniteSets

CONSTANTS
  MaxEvents,    \* bound on the events published
  Buffer,       \* Streamer.buffer
  Matching,     \* events that pass the Filter
  Undecodable   \* messages that are not a LogEvent

ASSUME TailAssumption ==
  /\ MaxEvents \in Nat /\ Buffer \in Nat \ {0}
  /\ Matching \subseteq Nat /\ Undecodable \subseteq Nat

VARIABLES
  published,  \* the last event published
  sub,        \* the Redis subscription
  inbox,      \* its message channel
  bus,        \* the goroutine of Subscribe
  hand,       \* the event it offers on the unbuffered channel
  pump,       \* the pump goroutine of StreamEvents
  buf,        \* the bounded buffer
  dropped,    \* the atomic counter
  loop,       \* the loop of StreamEvents
  gap,        \* the count it is writing as a Gap frame
  cur,        \* the event it is writing as a Data frame
  out,        \* the frames written, data and gap
  client,     \* is the browser still connected?
  ctx,        \* the request's context
  taken,      \* history: matching events the pump has received
  told        \* history: the drops that the Gap frames written add up to

busVars == <<published, sub, inbox, bus, hand>>
pumpVars == <<pump, buf, taken>>
loopVars == <<loop, gap, cur, out, told>>
streamVars == <<busVars, pumpVars, dropped, loopVars, client, ctx>>

Event == 1..MaxEvents

DataFrame(e) == [kind |-> "data", n |-> e]
GapFrame(n) == [kind |-> "gap", n |-> n]
Frame == [kind : {"data", "gap"}, n : Event]

StreamTypeOK ==
  /\ published \in 0..MaxEvents
  /\ sub \in {"open", "closed"} /\ client \in {"here", "gone"} /\ ctx \in {"live", "cancelled"}
  /\ inbox \in Seq(Event) /\ buf \in Seq(Event) /\ Len(buf) <= Buffer
  /\ bus \in {"receive", "send", "ended"} /\ (bus = "send" <=> hand # {})
  /\ pump \in {"receive", "drop", "ended"}
  /\ loop \in {"swap", "gap", "select", "data", "beat", "ended"}
  /\ dropped \in 0..MaxEvents /\ gap \in 0..MaxEvents /\ told \in 0..MaxEvents
  /\ hand \subseteq Event /\ cur \subseteq Event /\ taken \subseteq Event
  /\ (\A e, f \in hand : e = f) /\ (\A e, f \in cur : e = f)
  /\ out \in Seq(Frame)

StreamInit ==
  /\ published = 0 /\ sub = "open" /\ inbox = <<>> /\ bus = "receive" /\ hand = {}
  /\ pump = "receive" /\ buf = <<>> /\ taken = {} /\ dropped = 0
  /\ loop = "swap" /\ gap = 0 /\ cur = {} /\ out = <<>> /\ told = 0
  /\ client = "here" /\ ctx = "live"

-----------------------------------------------------------------------------
(* The surroundings: Redis, the browser and the server's lifetime. *)

\* The processor publishes; a subscription that is open gets the message,
\* unless the connection to Redis is just then being re-established.
Publish ==
  /\ published < MaxEvents
  /\ published' = published + 1
  /\ \/ sub = "open" /\ inbox' = Append(inbox, published + 1)
     \/ UNCHANGED inbox
  /\ UNCHANGED <<sub, bus, hand, pumpVars, dropped, loopVars, client, ctx>>

SubscriptionDrops ==
  /\ sub = "open" /\ sub' = "closed"
  /\ UNCHANGED <<published, inbox, bus, hand, pumpVars, dropped, loopVars, client, ctx>>

HangUp ==
  /\ client = "here" /\ client' = "gone"
  /\ UNCHANGED <<busVars, pumpVars, dropped, loopVars, ctx>>

\* The server notices that the client is gone, or SIGTERM cancels the base
\* context of every request.
Cancel ==
  /\ ctx = "live" /\ ctx' = "cancelled"
  /\ UNCHANGED <<busVars, pumpVars, dropped, loopVars, client>>

-----------------------------------------------------------------------------
(* Bus.Subscribe's goroutine. *)

BusReceive ==
  /\ bus = "receive" /\ inbox # <<>>
  /\ inbox' = Tail(inbox)
  /\ IF Head(inbox) \in Undecodable
       THEN UNCHANGED <<bus, hand>>
       ELSE bus' = "send" /\ hand' = {Head(inbox)}
  /\ UNCHANGED <<published, sub, pumpVars, dropped, loopVars, client, ctx>>

\* Only the outer select of the goroutine watches the context.
BusEndOuter ==
  /\ bus = "receive" /\ ((sub = "closed" /\ inbox = <<>>) \/ ctx = "cancelled")
  /\ bus' = "ended" /\ hand' = {} /\ sub' = "closed"
  /\ UNCHANGED <<published, inbox, pumpVars, dropped, loopVars, client, ctx>>

\* Both deferred calls run: the channel to the pump and the subscription close.
BusEnd ==
  /\ \/ bus = "receive" /\ sub = "closed" /\ inbox = <<>>
     \/ bus \in {"receive", "send"} /\ ctx = "cancelled"
  /\ bus' = "ended" /\ hand' = {} /\ sub' = "closed"
  /\ UNCHANGED <<published, inbox, pumpVars, dropped, loopVars, client, ctx>>

-----------------------------------------------------------------------------
(* The pump. *)

\* The pump receives what Subscribe offers.  The non-blocking send to a full
\* buffer falls to default, where the drop is still to be counted.
PumpReceive ==
  /\ bus = "send" /\ pump = "receive"
  /\ bus' = "receive" /\ hand' = {}
  /\ \E e \in hand :
       \/ /\ e \notin Matching
          /\ UNCHANGED pumpVars
       \/ /\ e \in Matching
          /\ taken' = taken \cup {e}
          /\ \/ Len(buf) < Buffer /\ buf' = Append(buf, e) /\ UNCHANGED pump
             \/ Len(buf) = Buffer /\ pump' = "drop" /\ UNCHANGED buf
  /\ UNCHANGED <<published, sub, inbox, dropped, loopVars, client, ctx>>

PumpDrop ==
  /\ pump = "drop" /\ pump' = "receive"
  /\ dropped' = dropped + 1
  /\ UNCHANGED <<busVars, buf, taken, loopVars, client, ctx>>

PumpEnd ==
  /\ pump = "receive" /\ (bus = "ended" \/ ctx = "cancelled")
  /\ pump' = "ended"
  /\ UNCHANGED <<busVars, buf, taken, dropped, loopVars, client, ctx>>

-----------------------------------------------------------------------------
(* The loop. *)

Swap ==
  /\ loop = "swap"
  /\ gap' = dropped /\ dropped' = 0
  /\ loop' = IF dropped > 0 THEN "gap" ELSE "select"
  /\ UNCHANGED <<busVars, pumpVars, cur, out, told, client, ctx>>

SinkGap ==
  /\ loop = "gap" /\ loop' = "select"
  /\ out' = Append(out, GapFrame(gap)) /\ told' = told + gap /\ gap' = 0
  /\ UNCHANGED <<busVars, pumpVars, dropped, cur, client, ctx>>

Take ==
  /\ loop = "select" /\ buf # <<>>
  /\ loop' = "data" /\ cur' = {Head(buf)} /\ buf' = Tail(buf)
  /\ UNCHANGED <<busVars, pump, taken, dropped, gap, out, told, client, ctx>>

\* The loop goes straight back to its select.
SinkDataSkip ==
  /\ loop = "data" /\ loop' = "select"
  /\ \E e \in cur : out' = Append(out, DataFrame(e))
  /\ cur' = {}
  /\ UNCHANGED <<busVars, pumpVars, dropped, gap, told, client, ctx>>

SinkData ==
  /\ loop = "data" /\ loop' = "swap"
  /\ \E e \in cur : out' = Append(out, DataFrame(e))
  /\ cur' = {}
  /\ UNCHANGED <<busVars, pumpVars, dropped, gap, told, client, ctx>>

Tick ==
  /\ loop = "select" /\ loop' = "beat"
  /\ UNCHANGED <<busVars, pumpVars, dropped, gap, cur, out, told, client, ctx>>

SinkHeartbeat ==
  /\ loop = "beat" /\ loop' = "swap"
  /\ UNCHANGED <<busVars, pumpVars, dropped, gap, cur, out, told, client, ctx>>

\* StreamEvents returns and so does the handler, which ends the request's
\* context: on a failed write, a cancelled context or the end of the pump.
StreamEventsReturn ==
  /\ \/ loop \in {"gap", "data", "beat"} /\ client = "gone"
     \/ loop = "select" /\ (ctx = "cancelled" \/ pump = "ended")
  /\ loop' = "ended" /\ ctx' = "cancelled"
  /\ UNCHANGED <<busVars, pumpVars, dropped, gap, cur, out, told, client>>

-----------------------------------------------------------------------------
Bus == BusReceive \/ BusEnd
Pump == PumpReceive \/ PumpDrop \/ PumpEnd
Sink == SinkGap \/ SinkData \/ SinkHeartbeat

StreamNext ==
  \/ Publish \/ SubscriptionDrops \/ HangUp \/ Cancel
  \/ Bus \/ Pump
  \/ Swap \/ Take \/ Tick \/ Sink \/ StreamEventsReturn

StreamSpec == StreamInit /\ [][StreamNext]_streamVars

\* Goroutines are scheduled, the ticker ticks, a client that reads lets every
\* write end, and select picks among its ready cases at random, so a case
\* that is ready again and again is picked.
StreamFairness ==
  /\ WF_streamVars(BusReceive) /\ WF_streamVars(BusEnd) /\ WF_streamVars(PumpReceive)
  /\ WF_streamVars(PumpDrop) /\ WF_streamVars(PumpEnd)
  /\ WF_streamVars(Swap) /\ WF_streamVars(Sink) /\ WF_streamVars(Tick)
  /\ SF_streamVars(Take) /\ SF_streamVars(StreamEventsReturn)

StreamFairSpec == StreamSpec /\ StreamFairness

-----------------------------------------------------------------------------
Data(i) == i \in 1..Len(out) /\ out[i].kind = "data"

Emitted == {out[i].n : i \in {k \in 1..Len(out) : Data(k)}}

\* Events the pump failed to put into the buffer.
Lost == taken \ (Emitted \cup Range(buf) \cup cur)

\* The losses that were published before an event.
LostBefore(n) == {e \in Lost : e < n}

\* tail.go:148-152,194-201: every matching event the pump has received is
\* written, still on its way, or counted in exactly one Gap: the atomic
\* counter, the count in the loop's hand and the frames written add up to the
\* drops; and however pump and loop interleave, at most one event that was
\* published after a lost one is written before a Gap counts the loss: once a
\* second one follows, the losses before the first have been told.
\* Data frames keep the order of publication, each event at most once, and
\* nothing but matching, decodable events (tail.go:161-216).
FramesHonest ==
  /\ Cardinality(Lost) = told + gap + dropped + (IF pump = "drop" THEN 1 ELSE 0)
  /\ \A i, j \in 1..Len(out) : i < j /\ Data(i) /\ Data(j) =>
       /\ out[i].n < out[j].n
       /\ Cardinality(LostBefore(out[i].n)) <= told
  /\ \A e \in Emitted, f \in cur : e < f
  /\ \A e \in Emitted \cup cur, i \in 1..Len(buf) : e < buf[i]
  /\ \A i, j \in 1..Len(buf) : i < j => buf[i] < buf[j]
  /\ Emitted \cup cur \cup Range(buf) \subseteq Matching \ Undecodable

\* tail.go:194-195, "Surface any drops accumulated since the last emission as
\* a single Gap, in order, before the next data frame": an event that was
\* lost between two data frames has a Gap between them.
GapInOrder ==
  \A i, j \in 1..Len(out) :
    /\ i < j /\ Data(i) /\ Data(j)
    /\ \E e \in Lost : out[i].n < e /\ e < out[j].n
    => \E k \in i..j : out[k].kind = "gap"

Ended == bus = "ended" /\ pump = "ended" /\ loop = "ended" /\ sub = "closed"

\* tail.go:143-146,193-215, tailbus.go:79-82: when the context ends or the
\* subscription drops, the three goroutines end and the subscription closes;
\* and a drop does not stay in the counter: the next frame, be it only the
\* heartbeat, brings the loop back to announce it.
NothingStaysBehind ==
  /\ (ctx = "cancelled" \/ sub = "closed") ~> Ended
  /\ dropped > 0 ~> (dropped = 0 \/ loop = "ended")
=============================================================================
