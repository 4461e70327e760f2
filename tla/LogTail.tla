------------------------------- MODULE LogTail -------------------------------
(***************************************************************************)
(* useLogTail, the browser's end of the live tail: it opens an EventSource *)
(* on the BFF, collects rows and commits them on a timer, reconnects with  *)
(* a bounded number of attempts, and can be paused, resumed, cleared and   *)
(* reconnected by hand.  A click is handled and its effects run before the *)
(* next browser event, so every handler below is one step.  A connection   *)
(* is a number; a row is a log line of a connection or a gap marker.       *)
(***************************************************************************)
EXTENDS Integers, Sequences

CONSTANTS
  maxItems,              \* rows kept in the scrollback
  maxReconnectAttempts,  \* failures in a row before the tail goes offline
  MaxConns,              \* connections are numbered 1, 2, .., MaxConns, 1, ..
  MaxPending             \* bound on the rows received between two flushes

ASSUME LogTailAssumption ==
  /\ maxItems \in Nat \ {0} /\ maxReconnectAttempts \in Nat
  /\ MaxConns \in Nat \ {0} /\ MaxPending \in Nat \ {0}

VARIABLES
  status,
  paused,
  mounted,
  stopped,     \* stoppedRef
  attempt,     \* attemptRef
  sawOpen,     \* sawOpenRef
  wantGap,     \* wantGapOnOpenRef
  pending,     \* pendingRef
  items,
  es,          \* esRef, 0 for null
  sources,     \* EventSources of the page that are not closed
  opened,      \* those of them that are open
  timers,      \* reconnect timers that have not fired
  flushing,    \* is the flush interval set?
  conns,       \* number of the last connection
  rows         \* history: the newest rows received since the last clear

refVars == <<stopped, attempt, sawOpen, wantGap>>
rowVars == <<pending, items, rows>>
sourceVars == <<es, sources, opened, timers, flushing, conns>>
tailVars == <<status, paused, mounted, refVars, rowVars, sourceVars>>

LogRow(c) == [kind |-> "log", conn |-> c]
GapRow(reason) == [kind |-> reason, conn |-> 0]
Row == {LogRow(c) : c \in 1..MaxConns} \cup {GapRow("dropped"), GapRow("reconnect")}

LogTailTypeOK ==
  /\ status \in {"connecting", "streaming", "reconnecting", "paused", "offline"}
  /\ paused \in BOOLEAN /\ mounted \in BOOLEAN /\ stopped \in BOOLEAN
  /\ sawOpen \in BOOLEAN /\ wantGap \in BOOLEAN /\ flushing \in BOOLEAN
  /\ attempt \in 0..maxReconnectAttempts
  /\ items \in Seq(Row) /\ Len(items) <= maxItems
  /\ pending \in Seq(Row) /\ Len(pending) <= MaxPending /\ rows \in Seq(Row)
  /\ es \in 0..MaxConns /\ sources \subseteq 1..MaxConns /\ opened \subseteq sources
  /\ timers \in Nat /\ conns \in 1..MaxConns

-----------------------------------------------------------------------------
\* connect: the handle of a previous EventSource is overwritten, not closed.
connect ==
  /\ conns' = (conns % MaxConns) + 1 /\ es' = conns'
  /\ sources' = sources \cup {conns'}

\* What closeSource leaves open.
Closed == sources \ {es}

Newest(n, seq) == SubSeq(seq, Len(seq) - (IF Len(seq) > n THEN n ELSE Len(seq)) + 1, Len(seq))

pushItem(row) ==
  /\ Len(pending) < MaxPending
  /\ pending' = Append(pending, row)
  /\ rows' = Newest(maxItems + MaxPending, Append(rows, row))
  /\ UNCHANGED items

flush ==
  /\ items' = Newest(maxItems, items \o pending)
  /\ pending' = <<>>
  /\ UNCHANGED rows

stop ==
  /\ stopped' = TRUE /\ flushing' = FALSE
  /\ timers' = IF timers > 0 THEN timers - 1 ELSE 0
  /\ es' = 0 /\ sources' = Closed /\ opened' = opened \cap Closed
  /\ flush
  /\ UNCHANGED <<attempt, sawOpen, wantGap, conns>>

-----------------------------------------------------------------------------
\* The hook of a page that is open, or that is not.
TailFrom(open) ==
  /\ status = "connecting" /\ paused = FALSE /\ mounted = open
  /\ stopped = ~open /\ attempt = 0 /\ sawOpen = FALSE /\ wantGap = FALSE
  /\ pending = <<>> /\ items = <<>> /\ rows = <<>>
  /\ es = (IF open THEN 1 ELSE 0) /\ sources = {es} \ {0} /\ opened = {}
  /\ timers = 0 /\ flushing = open /\ conns = 1

TailInit == TailFrom(TRUE)

\* The marker of a reconnect is forgotten.
OnOpenUnmarked(c) ==
  /\ c \in sources \ opened /\ opened' = opened \cup {c}
  /\ attempt' = 0 /\ sawOpen' = TRUE /\ wantGap' = FALSE
  /\ status' = "streaming"
  /\ UNCHANGED <<paused, mounted, stopped, rowVars, es, sources, timers, flushing, conns>>

OnOpen(c) ==
  /\ c \in sources \ opened /\ opened' = opened \cup {c}
  /\ attempt' = 0 /\ sawOpen' = TRUE /\ wantGap' = FALSE
  /\ IF wantGap THEN pushItem(GapRow("reconnect")) ELSE UNCHANGED rowVars
  /\ status' = "streaming"
  /\ UNCHANGED <<paused, mounted, stopped, es, sources, timers, flushing, conns>>

\* A log frame that parses, or a gap frame; a corrupt log frame changes nothing.
OnMessage(c) ==
  /\ c \in opened
  /\ \E row \in {LogRow(c), GapRow("dropped")} : pushItem(row)
  /\ UNCHANGED <<status, paused, mounted, refVars, sourceVars>>

\* The source is not closed, so the browser retries as well.
OnErrorKeepSource(c) ==
  /\ c \in sources /\ ~stopped
  /\ es' = 0 /\ opened' = opened \ {es} /\ UNCHANGED sources
  /\ wantGap' = TRUE
  /\ IF attempt >= maxReconnectAttempts
       THEN status' = "offline" /\ UNCHANGED <<attempt, timers>>
       ELSE status' = "reconnecting" /\ attempt' = attempt + 1 /\ timers' = timers + 1
  /\ UNCHANGED <<paused, mounted, stopped, sawOpen, rowVars, flushing, conns>>

\* The attempts are not counted.
OnErrorForever(c) ==
  /\ c \in sources /\ ~stopped
  /\ es' = 0 /\ sources' = Closed /\ opened' = opened \cap Closed
  /\ wantGap' = TRUE
  /\ status' = "reconnecting" /\ timers' = timers + 1
  /\ UNCHANGED <<paused, mounted, stopped, attempt, sawOpen, rowVars, flushing, conns>>

OnError(c) ==
  /\ c \in sources /\ ~stopped
  /\ es' = 0 /\ sources' = Closed /\ opened' = opened \cap Closed
  /\ wantGap' = TRUE
  /\ IF attempt >= maxReconnectAttempts
       THEN status' = "offline" /\ UNCHANGED <<attempt, timers>>
       ELSE status' = "reconnecting" /\ attempt' = attempt + 1 /\ timers' = timers + 1
  /\ UNCHANGED <<paused, mounted, stopped, sawOpen, rowVars, flushing, conns>>

TimerFires ==
  /\ timers > 0 /\ timers' = timers - 1
  /\ IF stopped THEN UNCHANGED <<es, sources, conns>> ELSE connect
  /\ UNCHANGED <<status, paused, mounted, refVars, rowVars, opened, flushing>>

FlushTick ==
  /\ flushing /\ pending # <<>>
  /\ flush
  /\ UNCHANGED <<status, paused, mounted, refVars, sourceVars>>

\* pause, then the effect's cleanup and its early return.  The toolbar shows
\* Pause unless the tail is paused or offline, Reconnect only when offline.
Pause ==
  /\ mounted /\ ~paused /\ status # "offline"
  /\ paused' = TRUE /\ status' = "paused"
  /\ stop
  /\ UNCHANGED mounted

Resume ==
  /\ mounted /\ paused
  /\ paused' = FALSE /\ stopped' = FALSE /\ attempt' = 0
  /\ wantGap' = (wantGap \/ sawOpen)
  /\ status' = IF sawOpen THEN "reconnecting" ELSE "connecting"
  /\ flushing' = TRUE
  /\ connect
  /\ UNCHANGED <<mounted, sawOpen, rowVars, opened, timers>>

Reconnect ==
  /\ mounted /\ status = "offline" /\ ~stopped
  /\ timers' = IF timers > 0 THEN timers - 1 ELSE 0
  /\ attempt' = 0 /\ wantGap' = TRUE /\ flushing' = TRUE
  /\ status' = "reconnecting"
  /\ connect
  /\ UNCHANGED <<paused, mounted, stopped, sawOpen, rowVars, opened>>

Clear ==
  /\ mounted /\ pending \o items # <<>>
  /\ pending' = <<>> /\ items' = <<>> /\ rows' = <<>>
  /\ UNCHANGED <<status, paused, mounted, refVars, sourceVars>>

\* The page is left, by a click or because the session turned out to be gone.
Unmount ==
  /\ mounted /\ mounted' = FALSE
  /\ IF paused THEN UNCHANGED <<refVars, rowVars, sourceVars>> ELSE stop
  /\ UNCHANGED <<status, paused>>

TailNext ==
  \/ \E c \in sources : OnOpen(c) \/ OnMessage(c) \/ OnError(c)
  \/ TimerFires \/ FlushTick
  \/ Pause \/ Resume \/ Reconnect \/ Clear \/ Unmount

TailSpec == TailInit /\ [][TailNext]_tailVars

\* The browser runs its timers and every connection attempt opens or fails.
ConnectionDecides == \E c \in sources \ opened : OnOpen(c) \/ OnError(c)
TailFairness ==
  WF_tailVars(TimerFires) /\ WF_tailVars(FlushTick) /\ WF_tailVars(ConnectionDecides)

TailFairSpec == TailSpec /\ TailFairness

-----------------------------------------------------------------------------
\* use-log-tail.ts:269-271, "so there is never a leaked EventSource or pending
\* reconnect timer": at most one source is open and esRef holds it, a source
\* and a timer never exist together, and a tail that is paused, offline or
\* gone has neither.
NothingLeaks ==
  /\ sources \subseteq {es} /\ timers <= 1
  /\ sources = {} \/ timers = 0
  /\ (stopped \/ status = "offline") => timers = 0 /\ sources = {}
  /\ stopped <=> (paused \/ ~mounted)

\* use-log-tail.ts:21-23,172-190, "a reconnect ALWAYS means a potential hole
\* in the stream and the UI must say so": between log lines of two connections
\* there is a gap marker, whatever was trimmed, cleared, paused or retried;
\* and the scrollback is the newest rows since the last clear, in order, of
\* which one is dropped only when the ring is full.
ScrollbackHonest ==
  LET scroll == items \o pending
  IN  /\ \A i, j \in 1..Len(scroll) :
           (i < j /\ scroll[i].kind = "log" /\ scroll[j].kind = "log" /\ scroll[i].conn # scroll[j].conn)
             => \E k \in i..j : scroll[k].kind = "reconnect"
      /\ scroll = Newest(Len(scroll), rows)
      /\ scroll # rows => Len(scroll) >= maxItems

\* use-log-tail.ts:24-30: the tail does not spin in "Reconnecting…": it comes
\* to stream, goes offline, is paused or left.
Settles ==
  status \in {"connecting", "reconnecting"} ~>
    (status \in {"streaming", "offline", "paused"} \/ ~mounted)
=============================================================================
