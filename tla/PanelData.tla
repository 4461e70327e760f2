------------------------------ MODULE PanelData ------------------------------
(***************************************************************************)
(* One panel of a dashboard: usePanelData loads it whenever its saved      *)
(* query or the page's time range changes, query-service counts the events *)
(* and groups them into buckets, each in a transaction of its own, and     *)
(* gapFillBuckets lays the sparse buckets out as a series of equal slots.  *)
(* Time is counted in ticks, Second of them to the second that is the unit *)
(* of the server's buckets.                                                *)
(***************************************************************************)
EXTENDS Integers, FiniteSets, FiniteSetsExt

CONSTANTS
  Queries,   \* saved queries; an event matches exactly one of them
  Time,      \* the ticks at which events and ranges lie
  Second,
  Presets,   \* lengths of the quick ranges
  Minutes,   \* the instants an absolute range can name
  Slots,     \* DEFAULT_BUCKETS
  MaxLoads,  \* bound on the loads of the panel
  MaxLines   \* bound on the events stored

ASSUME PanelAssumption ==
  /\ Time \subseteq Nat /\ Minutes \subseteq Time /\ Presets \subseteq Nat \ {0}
  /\ Second \in Nat \ {0} /\ Slots \in Nat \ {0} /\ MaxLoads \in Nat /\ MaxLines \in Nat

VARIABLES
  asked,   \* what the panel is to show: [query, from, to]
  panel,   \* the hook's state: [state, series, totalCount, of, read]
  loads,   \* its loads in order: [of, cancelled, at, total, buckets, read]
  lines    \* events stored: [query, ts]

panelVars == <<asked, panel, loads, lines>>

\* `of` and `read` are history: the load shown and the events its buckets hold.
Blank == [state |-> "loading", series |-> <<>>, totalCount |-> 0, of |-> {}, read |-> {}]

Load(of) == [of |-> of, cancelled |-> FALSE, at |-> "sent", total |-> 0, buckets |-> {}, read |-> {}]
Nothing == [query |-> CHOOSE q \in Queries : TRUE, from |-> 0, to |-> 0]
Over ==
  [of |-> Nothing, cancelled |-> TRUE, at |-> "over", total |-> 0, buckets |-> {}, read |-> {}]

-----------------------------------------------------------------------------
(* query-service: PanelService.Data *)

parsePanelQueryOK(of) == of.from < of.to

Matches(of) == {l \in lines : l.query = of.query /\ of.from <= l.ts /\ l.ts < of.to}

\* In seconds, rounded up: a bucket is never narrower than a slot.
bucketSize(of) == (of.to - of.from + Second * Slots - 1) \div (Second * Slots)

bucketStart(of, ts) ==
  LET width == bucketSize(of) * Second
  IN  of.from + ((ts - of.from) \div width) * width

TimeSeries(of) ==
  {[start |-> s, count |-> Cardinality({l \in Matches(of) : bucketStart(of, l.ts) = s})] :
     s \in {bucketStart(of, l.ts) : l \in Matches(of)}}

Step(i, load) == loads' = [loads EXCEPT ![i] = load]

Count(i) ==
  /\ loads[i].at = "sent" /\ parsePanelQueryOK(loads[i].of)
  /\ Step(i, [loads[i] EXCEPT !.at = "counted", !.total = Cardinality(Matches(loads[i].of))])
  /\ UNCHANGED <<asked, panel, lines>>

Buckets(i) ==
  /\ loads[i].at = "counted"
  /\ Step(i, [loads[i] EXCEPT !.at = "done", !.buckets = TimeSeries(loads[i].of),
                       !.read = Matches(loads[i].of)])
  /\ UNCHANGED <<asked, panel, lines>>

\* A bad range, a saved query that is gone, a failed statement or transport.
DataFails(i) ==
  /\ loads[i].at \in {"sent", "counted"}
  /\ Step(i, [loads[i] EXCEPT !.at = "failed"])
  /\ UNCHANGED <<asked, panel, lines>>

\* The pipeline stores an event; it may be late, so its time is any.
LineStored ==
  /\ Cardinality(lines) < MaxLines
  /\ \E q \in Queries, t \in Time : lines' = lines \cup {[query |-> q, ts |-> t]}
  /\ UNCHANGED <<asked, panel, loads>>

-----------------------------------------------------------------------------
(* usePanelData *)

\* The slot a bucket falls in, counted from 0; slots are (to - from) / Slots
\* wide, a bucket on the edge of two slots belongs to the later.
InSlotExclusive(of, i, start) ==
  /\ i * (of.to - of.from) < (start - of.from) * Slots
  /\ (start - of.from) * Slots < (i + 1) * (of.to - of.from)

InSlot(of, i, start) ==
  /\ i * (of.to - of.from) <= (start - of.from) * Slots
  /\ (start - of.from) * Slots < (i + 1) * (of.to - of.from)

SumOf(f) == MapThenSumSet(LAMBDA x : f[x], DOMAIN f)

gapFillBuckets(of, buckets) ==
  [i \in 1..Slots |-> SumOf([b \in {b \in buckets : InSlot(of, i - 1, b.start)} |-> b.count])]

\* The cleanup of the effect that a change ends is forgotten.
CleanupNone(ls) == ls

Cleanup(ls) == [i \in DOMAIN ls |-> [ls[i] EXCEPT !.cancelled = TRUE]]

\* The effect runs again when what it depends on has changed.
usePanelData(of) ==
  /\ of # asked /\ Cardinality(DOMAIN loads) < MaxLoads
  /\ asked' = of
  /\ loads' = LET ls == Cleanup(loads)
                  n == Cardinality(DOMAIN ls) + 1
              IN  [i \in 1..n |-> IF i = n THEN Load(of) ELSE ls[i]]
  /\ panel' = [panel EXCEPT !.state = "loading"]
  /\ UNCHANGED lines

Outcome(i) ==
  /\ loads[i].at \in {"done", "failed"}
  /\ Step(i, Over)
  /\ panel' = IF loads[i].cancelled THEN panel
              ELSE IF loads[i].at = "failed" THEN [panel EXCEPT !.state = "error"]
              ELSE [state |-> "default", series |-> gapFillBuckets(loads[i].of, loads[i].buckets),
                    totalCount |-> loads[i].total, of |-> {loads[i].of}, read |-> loads[i].read]
  /\ UNCHANGED <<asked, lines>>

\* A redirect to /login or a lost connection rejects the call, and nothing
\* handles the rejection.
LoadRejected(i) ==
  /\ loads[i].at # "over"
  /\ Step(i, Over)
  /\ UNCHANGED <<asked, panel, lines>>

-----------------------------------------------------------------------------
(* The dashboard: TimeRangePicker and the panel's dialog *)

\* A quick range ends at the moment of the click.
applyPreset ==
  \E p \in Presets, t \in Time :
    t >= p /\ usePanelData([asked EXCEPT !.from = t - p, !.to = t])

applyAbsolute ==
  \E f, t \in Minutes :
    f < t /\ usePanelData([asked EXCEPT !.from = f, !.to = t])

\* The panel is edited to show another saved query.
PanelEdited == \E q \in Queries : usePanelData([asked EXCEPT !.query = q])

\* The first range is the URL's, which may be any, or the default preset.
PanelFrom(of) ==
  /\ asked = of
  /\ loads = [i \in {1} |-> Load(asked)]
  /\ panel = Blank /\ lines = {}

PanelInit == \E of \in [query : Queries, from : Minutes, to : Minutes] : PanelFrom(of)

PanelNext ==
  \/ applyPreset \/ applyAbsolute \/ PanelEdited \/ LineStored
  \/ \E i \in DOMAIN loads :
       Count(i) \/ Buckets(i) \/ DataFails(i) \/ Outcome(i) \/ LoadRejected(i)

-----------------------------------------------------------------------------
\* use-panel-data.ts:50-72: a panel that shows data shows what is asked of it
\* now, however the answers of its loads overtake each other, and a failed
\* load leaves the last series only behind an error.
PanelShowsWhatIsAsked ==
  panel.state = "default" =>
    /\ panel.of = {asked}
    /\ \A l \in panel.read : l.query = asked.query

\* panelstore.go:199-209, panel-data.ts:105-141: the server's buckets, wider
\* than the slots and starting where the range does, fall into the slots with
\* no event lost at an edge or counted twice, each in the slot that holds the
\* start of its bucket and never in a later one than its own; the number of
\* the stat panel, read before, is at most the sum of the series.
SeriesAddsUp ==
  panel.state = "default" =>
    LET sum == SumOf(panel.series)
    IN  /\ sum = Cardinality(panel.read)
        /\ panel.totalCount <= sum
        /\ \A i \in 1..Slots :
             SumOf([j \in 1..i |-> panel.series[j]]) >=
               Cardinality({l \in panel.read : (l.ts - asked.from) * Slots < i * (asked.to - asked.from)})
=============================================================================
