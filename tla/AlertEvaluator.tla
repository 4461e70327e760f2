--------------------------- MODULE AlertEvaluator ---------------------------
(***************************************************************************)
(* The alert-evaluator: replicas list the due rules, count each rule's     *)
(* events, move its state with a compare-and-swap that writes the outbox   *)
(* row in the same transaction, and then relay the pending outbox rows.    *)
(* The control-plane creates, enables, disables and deletes rules          *)
(* meanwhile, and the log volume crosses the thresholds back and forth.    *)
(*                                                                         *)
(* A timestamp is modelled by its rank: evaluated[r] is the position of    *)
(* alert_rules.last_evaluated_at among the rules (0 for NULL), and the at  *)
(* of an outbox row the position of its occurred_at.                       *)
(***************************************************************************)
EXTENDS Integers, FiniteSets

CONSTANTS
  Rule,            \* rules a tenant may create
  Replica,         \* alert-evaluator processes
  BatchSize,       \* LIMIT of ListDue and ListPending
  SavedQueryRule,  \* rules whose query lives in saved_queries
  Rejected,        \* rules with a channel that refuses every notification
  Stuck,           \* rules with a mail server that accepts and never answers
  MaxFlips,        \* bound on changes of the environment
  MaxFaults        \* bound on failed calls and crashes

ASSUME EvaluatorAssumption ==
  /\ IsFiniteSet(Rule)
  /\ BatchSize \in Nat \ {0} /\ MaxFlips \in Nat /\ MaxFaults \in Nat
  /\ SavedQueryRule \subseteq Rule /\ Rejected \subseteq Rule /\ Stuck \subseteq Rule

VARIABLES
  life,        \* does the row of alert_rules exist?
  enabled,     \* alert_rules.enabled
  state,       \* alert_rules.state
  seq,         \* alert_rules.transition_seq
  evaluated,   \* rank of alert_rules.last_evaluated_at, 0 for NULL
  fresh,       \* rules evaluated less than one interval ago
  notified,    \* rules with alert_rules.last_notified_at set
  outbox,      \* rows of alert_notifications
  dispatched,  \* rows with dispatched_at set
  clock,       \* rank of the last occurred_at
  breached     \* rules whose count over the window crosses the threshold

VARIABLES
  pc,          \* where EvaluateDue of a replica stands
  due,         \* rules of ListDue that are still to be evaluated
  cur,         \* the rule in evaluateRule, none or one
  target,      \* what Decide answered for it
  pend         \* rows of ListPending still to be handled; the oldest is in hand

VARIABLES
  sent,        \* rows delivered at least once
  resent,      \* rows delivered more than once
  disturbed,   \* rows delivered by a call that did not end in MarkDispatched
  flips,
  faults

ruleVars == <<life, enabled, state, seq, evaluated, fresh>>
outboxVars == <<outbox, dispatched, clock, notified>>
loopVars == <<pc, due, cur, target, pend>>
sentVars == <<sent, resent, disturbed>>
vars == <<ruleVars, outboxVars, breached, loopVars, sentVars, flips, faults>>

State == {"ok", "firing"}

Row == [rule : Rule, seq : Nat, to : State, at : Nat]

\* What ListDue returns of a rule; empty: no effective query.
Due == [rule : Rule, state : State, empty : BOOLEAN, at : Nat]

PC == {"down", "wait", "rules", "stamp", "swap", "relay", "mark"}

TypeOK ==
  /\ life \in [Rule -> {"none", "live", "deleted"}]
  /\ enabled \in [Rule -> BOOLEAN]
  /\ state \in [Rule -> State]
  /\ seq \in [Rule -> Nat]
  /\ evaluated \in [Rule -> Nat]
  /\ fresh \subseteq Rule
  /\ notified \subseteq Rule
  /\ outbox \subseteq Row
  /\ dispatched \subseteq Row
  /\ clock \in Nat
  /\ breached \subseteq Rule
  /\ pc \in [Replica -> PC]
  /\ due \in [Replica -> SUBSET Due]
  /\ cur \in [Replica -> SUBSET Due]
  /\ target \in [Replica -> State]
  /\ pend \in [Replica -> SUBSET Row]
  /\ sent \subseteq Row /\ resent \subseteq Row /\ disturbed \subseteq Row
  /\ flips \in 0..MaxFlips /\ faults \in 0..MaxFaults

Init ==
  /\ life = [r \in Rule |-> "none"]
  /\ enabled = [r \in Rule |-> TRUE]
  /\ state = [r \in Rule |-> "ok"]
  /\ seq = [r \in Rule |-> 0]
  /\ evaluated = [r \in Rule |-> 0]
  /\ fresh = {} /\ notified = {}
  /\ outbox = {} /\ dispatched = {} /\ clock = 0
  /\ breached = {}
  /\ pc = [c \in Replica |-> "down"]
  /\ due = [c \in Replica |-> {}]
  /\ cur = [c \in Replica |-> {}]
  /\ target = [c \in Replica |-> "ok"]
  /\ pend = [c \in Replica |-> {}]
  /\ sent = {} /\ resent = {} /\ disturbed = {}
  /\ flips = 0 /\ faults = 0
-----------------------------------------------------------------------------
(* The tables.                                                             *)

Live(r) == life[r] = "live"

RowsOf(r) == {row \in outbox : row.rule = r}

\* What ORDER BY ... LIMIT BatchSize may return of S: rules that were never
\* evaluated tie.
Limited(S) ==
  {B \in SUBSET S :
     /\ \A x \in B, y \in S \ B : x.at <= y.at
     /\ Cardinality(B) <= BatchSize
     /\ Cardinality(B) < BatchSize => B = S}

Oldest(S) == {x \in S : \A y \in S : x.at <= y.at}

\* The ranks of last_evaluated_at without the one of r.
RankWithout(r, x) ==
  IF 0 < evaluated[r] /\ evaluated[r] < evaluated[x] THEN evaluated[x] - 1 ELSE evaluated[x]

\* last_evaluated_at = now.  A replica reads the clock when it starts on the
\* rule, the rank is that of the write: the two differ only between replicas
\* that evaluate the same rule at the same time.
Stamp(r) ==
  /\ evaluated' =
       [x \in Rule |-> IF x = r THEN Cardinality({y \in Rule \ {r} : evaluated[y] > 0}) + 1
                       ELSE RankWithout(r, x)]
  /\ fresh' = fresh \cup {r}
-----------------------------------------------------------------------------
(* The environment: time, the tenants' logs and the control-plane.         *)

\* The rule evaluated longest ago becomes due again.
BecomeDue(r) ==
  /\ r \in fresh
  /\ \A x \in fresh : evaluated[r] <= evaluated[x]
  /\ fresh' = fresh \ {r}
  /\ UNCHANGED <<life, enabled, state, seq, evaluated, outboxVars, breached, loopVars, sentVars,
                 flips, faults>>

\* Logs arrive or leave the window, or an update changes the threshold.
Flip(r) ==
  /\ Live(r) /\ flips < MaxFlips
  /\ flips' = flips + 1
  /\ breached' = IF r \in breached THEN breached \ {r} ELSE breached \cup {r}
  /\ UNCHANGED <<ruleVars, outboxVars, loopVars, sentVars, faults>>

CreateRule(r) ==
  /\ life[r] = "none"
  /\ life' = [life EXCEPT ![r] = "live"]
  /\ UNCHANGED <<enabled, state, seq, evaluated, fresh, outboxVars, breached, loopVars, sentVars,
                 flips, faults>>

\* A patch of the enabled column; the evaluator's columns are not touched.
UpdateRule(r) ==
  /\ Live(r) /\ flips < MaxFlips
  /\ flips' = flips + 1
  /\ enabled' = [enabled EXCEPT ![r] = ~enabled[r]]
  /\ UNCHANGED <<life, state, seq, evaluated, fresh, outboxVars, breached, loopVars, sentVars, faults>>

\* The rule's notifications go with it: ON DELETE CASCADE.
DeleteRule(r) ==
  /\ Live(r) /\ flips < MaxFlips
  /\ flips' = flips + 1
  /\ life' = [life EXCEPT ![r] = "deleted"]
  /\ outbox' = outbox \ RowsOf(r)
  /\ dispatched' = dispatched \ RowsOf(r)
  /\ evaluated' = [x \in Rule |-> IF x = r THEN 0 ELSE RankWithout(r, x)]
  /\ fresh' = fresh \ {r}
  /\ notified' = notified \ {r}
  /\ UNCHANGED <<enabled, state, seq, clock, breached, loopVars, sentVars, faults>>

Environment ==
  \E r \in Rule : BecomeDue(r) \/ Flip(r) \/ CreateRule(r) \/ UpdateRule(r) \/ DeleteRule(r)
-----------------------------------------------------------------------------
(* A replica.                                                              *)

Start(c) ==
  /\ pc[c] = "down"
  /\ pc' = [pc EXCEPT ![c] = "wait"]
  /\ UNCHANGED <<ruleVars, outboxVars, breached, due, cur, target, pend, sentVars, flips, faults>>

\* A call fails, or the process dies, once more.
Spend == faults < MaxFaults /\ faults' = faults + 1

\* What the relay has delivered and not marked.
Unmarked(c) == IF pc[c] = "mark" THEN Oldest(pend[c]) ELSE {}

Crash(c) ==
  /\ pc[c] # "down" /\ Spend
  /\ pc' = [pc EXCEPT ![c] = "down"]
  /\ due' = [due EXCEPT ![c] = {}]
  /\ cur' = [cur EXCEPT ![c] = {}]
  /\ target' = [target EXCEPT ![c] = "ok"]
  /\ pend' = [pend EXCEPT ![c] = {}]
  /\ disturbed' = disturbed \cup Unmarked(c)
  /\ UNCHANGED <<ruleVars, outboxVars, breached, sent, resent, flips>>

\* The due rules; the query of those in unresolved could not be read from
\* saved_queries.  A failed ListDue ends the cycle and changes nothing.
DueRules(unresolved) ==
  {[rule |-> r, state |-> state[r], empty |-> r \in unresolved, at |-> evaluated[r]] :
     r \in {x \in Rule : Live(x) /\ enabled[x] /\ x \notin fresh}}

ListDue(c) ==
  /\ pc[c] = "wait"
  /\ \E unresolved \in SUBSET SavedQueryRule :
       \E B \in Limited(DueRules(unresolved)) : due' = [due EXCEPT ![c] = B]
  /\ pc' = [pc EXCEPT ![c] = "rules"]
  /\ UNCHANGED <<ruleVars, outboxVars, breached, cur, target, pend, sentVars, flips, faults>>

Decide(r) == IF r \in breached THEN "firing" ELSE "ok"

\* Mutant of Count: a rule that clears is not a change.
CountNeverResolves(c) ==
  /\ pc[c] = "rules"
  /\ \E d \in Oldest(due[c]) :
       LET goal == IF d.empty THEN d.state ELSE Decide(d.rule)
       IN  /\ due' = [due EXCEPT ![c] = @ \ {d}]
           /\ cur' = [cur EXCEPT ![c] = {d}]
           /\ target' = [target EXCEPT ![c] = goal]
           /\ pc' = [pc EXCEPT ![c] = IF goal \in {d.state, "ok"} THEN "stamp" ELSE "swap"]
  /\ UNCHANGED <<ruleVars, outboxVars, breached, pend, sentVars, flips, faults>>

\* evaluateRule up to its first write: a rule without a query is only
\* stamped, the events of any other are counted.
Count(c) ==
  /\ pc[c] = "rules"
  /\ \E d \in Oldest(due[c]) :
       LET goal == IF d.empty THEN d.state ELSE Decide(d.rule)
       IN  /\ due' = [due EXCEPT ![c] = @ \ {d}]
           /\ cur' = [cur EXCEPT ![c] = {d}]
           /\ target' = [target EXCEPT ![c] = goal]
           /\ pc' = [pc EXCEPT ![c] = IF goal = d.state THEN "stamp" ELSE "swap"]
  /\ UNCHANGED <<ruleVars, outboxVars, breached, pend, sentVars, flips, faults>>

CountFail(c) ==
  /\ pc[c] = "rules" /\ Spend
  /\ \E d \in Oldest(due[c]) : ~d.empty /\ due' = [due EXCEPT ![c] = @ \ {d}]
  /\ UNCHANGED <<ruleVars, outboxVars, breached, pc, cur, target, pend, sentVars, flips>>

\* evaluateRule returns, with or without an error.
RuleDone(c) ==
  /\ pc' = [pc EXCEPT ![c] = "rules"]
  /\ cur' = [cur EXCEPT ![c] = {}]
  /\ target' = [target EXCEPT ![c] = "ok"]
  /\ UNCHANGED <<due, pend>>

MarkEvaluated(c) ==
  /\ pc[c] = "stamp"
  /\ \E d \in cur[c] : IF Live(d.rule) THEN Stamp(d.rule) ELSE UNCHANGED <<evaluated, fresh>>
  /\ RuleDone(c)
  /\ UNCHANGED <<life, enabled, state, seq, outboxVars, breached, sentVars, flips, faults>>

\* Mutant of Transition: an update without the compare.
TransitionBlind(c) ==
  /\ pc[c] = "swap"
  /\ \E d \in cur[c] :
       LET r == d.rule
       IN  IF Live(r)
           THEN /\ state' = [state EXCEPT ![r] = target[c]]
                /\ seq' = [seq EXCEPT ![r] = seq[r] + 1]
                /\ Stamp(r)
                /\ clock' = clock + 1
                /\ outbox' = outbox \cup
                     {[rule |-> r, seq |-> seq[r] + 1, to |-> target[c], at |-> clock + 1]}
           ELSE UNCHANGED <<state, seq, evaluated, fresh, clock, outbox>>
  /\ RuleDone(c)
  /\ UNCHANGED <<life, enabled, dispatched, notified, breached, sentVars, flips, faults>>

\* The compare-and-swap and the outbox row, one transaction.  Whoever finds
\* another state has lost and writes nothing.
Transition(c) ==
  /\ pc[c] = "swap"
  /\ \E d \in cur[c] :
       LET r == d.rule
       IN  IF Live(r) /\ state[r] = d.state
           THEN /\ state' = [state EXCEPT ![r] = target[c]]
                /\ seq' = [seq EXCEPT ![r] = seq[r] + 1]
                /\ Stamp(r)
                /\ clock' = clock + 1
                /\ outbox' = outbox \cup
                     {[rule |-> r, seq |-> seq[r] + 1, to |-> target[c], at |-> clock + 1]}
           ELSE UNCHANGED <<state, seq, evaluated, fresh, clock, outbox>>
  /\ RuleDone(c)
  /\ UNCHANGED <<life, enabled, dispatched, notified, breached, sentVars, flips, faults>>

\* MarkEvaluated or Transition fails and is rolled back.
WriteFail(c) ==
  /\ pc[c] \in {"stamp", "swap"} /\ Spend
  /\ RuleDone(c)
  /\ UNCHANGED <<ruleVars, outboxVars, breached, sentVars, flips>>

\* Mutant of ListPending: without the dispatched_at condition.
ListPendingAll(c) ==
  /\ pc[c] = "rules" /\ due[c] = {}
  /\ \E B \in Limited(outbox) : pend' = [pend EXCEPT ![c] = B]
  /\ pc' = [pc EXCEPT ![c] = "relay"]
  /\ UNCHANGED <<ruleVars, outboxVars, breached, due, cur, target, sentVars, flips, faults>>

\* dispatchPending reads the rows it will deliver.
ListPending(c) ==
  /\ pc[c] = "rules" /\ due[c] = {}
  /\ \E B \in Limited(outbox \ dispatched) : pend' = [pend EXCEPT ![c] = B]
  /\ pc' = [pc EXCEPT ![c] = "relay"]
  /\ UNCHANGED <<ruleVars, outboxVars, breached, due, cur, target, sentVars, flips, faults>>

\* Some channel of the row got it.
Delivered(row) ==
  /\ sent' = sent \cup {row}
  /\ resent' = IF row \in sent THEN resent \cup {row} ELSE resent

Notify(c) ==
  /\ pc[c] = "relay"
  /\ \E row \in Oldest(pend[c]) : row.rule \notin Rejected \cup Stuck /\ Delivered(row)
  /\ pc' = [pc EXCEPT ![c] = "mark"]
  /\ UNCHANGED <<ruleVars, outboxVars, breached, due, cur, target, pend, disturbed, flips, faults>>

\* Mutant of NotifyFail: the error is logged and the row marked all the same.
NotifyFailMarked(c) ==
  /\ pc[c] = "relay" /\ Spend
  /\ Oldest(pend[c]) # {}
  /\ pc' = [pc EXCEPT ![c] = "mark"]
  /\ UNCHANGED <<ruleVars, outboxVars, breached, due, cur, target, pend, sentVars, flips>>

\* A channel fails: the base notifier or one of the mails.  The others may
\* have delivered.  The row stays pending and the loop goes on.
NotifyFail(c) ==
  /\ pc[c] = "relay"
  /\ \E row \in Oldest(pend[c]) :
       /\ row.rule \notin Stuck
       /\ IF row.rule \in Rejected THEN UNCHANGED faults ELSE Spend
       /\ pend' = [pend EXCEPT ![c] = @ \ {row}]
       /\ \/ UNCHANGED sentVars
          \/ Delivered(row) /\ disturbed' = disturbed \cup {row}
  /\ UNCHANGED <<ruleVars, outboxVars, breached, pc, due, cur, target, flips>>

\* dispatched_at and last_notified_at, one transaction.
MarkDispatched(c) ==
  /\ pc[c] = "mark"
  /\ \E row \in Oldest(pend[c]) :
       /\ pend' = [pend EXCEPT ![c] = @ \ {row}]
       /\ dispatched' = dispatched \cup ({row} \cap outbox)
       /\ notified' = IF Live(row.rule) THEN notified \cup {row.rule} ELSE notified
  /\ pc' = [pc EXCEPT ![c] = "relay"]
  /\ UNCHANGED <<ruleVars, outbox, clock, breached, due, cur, target, sentVars, flips, faults>>

MarkFail(c) ==
  /\ pc[c] = "mark" /\ Spend
  /\ \E row \in Oldest(pend[c]) :
       /\ pend' = [pend EXCEPT ![c] = @ \ {row}]
       /\ disturbed' = disturbed \cup {row}
  /\ pc' = [pc EXCEPT ![c] = "relay"]
  /\ UNCHANGED <<ruleVars, outboxVars, breached, due, cur, target, sent, resent, flips>>

\* EvaluateDue returns, also when ListPending failed, and Run waits.
CycleDone(c) ==
  /\ \/ pc[c] = "relay" /\ pend[c] = {} /\ UNCHANGED faults
     \/ pc[c] = "rules" /\ due[c] = {} /\ Spend
  /\ pc' = [pc EXCEPT ![c] = "wait"]
  /\ UNCHANGED <<ruleVars, outboxVars, breached, due, cur, target, pend, sentVars, flips>>

Evaluate(c) ==
  \/ ListDue(c) \/ Count(c) \/ CountFail(c)
  \/ MarkEvaluated(c) \/ Transition(c) \/ WriteFail(c)
  \/ ListPending(c) \/ Notify(c) \/ NotifyFail(c) \/ MarkDispatched(c) \/ MarkFail(c)
  \/ CycleDone(c)

Next ==
  \/ Environment
  \/ \E c \in Replica : Start(c) \/ Evaluate(c) \/ Crash(c)

Spec == Init /\ [][Next]_vars

\* Time passes, a replica that is down is restarted, and the calls of a running
\* replica return, except a send to a mail server that never answers.
Fairness ==
  /\ \A r \in Rule : WF_vars(BecomeDue(r))
  /\ \A c \in Replica : WF_vars(Start(c)) /\ WF_vars(Evaluate(c))

FairSpec == Spec /\ Fairness
-----------------------------------------------------------------------------
(* Properties.                                                             *)

\* What the n-th transition of a rule leads to.
Turn(n) == IF n % 2 = 1 THEN "firing" ELSE "ok"

\* The outbox is the exact history of a rule: one row for each transition,
\* firing and resolved in turn, the last one naming the rule's state, however
\* many replicas race on stale snapshots of the rule.
LedgerMatchesState ==
  \A r \in Rule :
    Live(r) =>
      /\ state[r] = Turn(seq[r])
      /\ \A n \in 1..seq[r] : \E row \in RowsOf(r) : row.seq = n
      /\ \A row \in RowsOf(r) :
           /\ row.seq \in 1..seq[r]
           /\ row.to = Turn(row.seq)
           /\ \A other \in RowsOf(r) : other.seq = row.seq => other = row

\* Nothing is marked that was not delivered: neither dispatched_at nor
\* last_notified_at lies about a send.
MarkedWasSent ==
  /\ dispatched \subseteq sent
  /\ \A r \in notified : \E row \in sent : row.rule = r

\* "no duplicate on the happy path": a notification is delivered twice only if
\* an earlier delivery was not marked, because a channel failed, the mark
\* failed or the replica died.
NoDuplicateOnHappyPath == resent \subseteq disturbed

\* No drop: the outbox of a rule whose channels work is drained in the end.
OutboxDrains ==
  \A r \in Rule \ (Rejected \cup Stuck) :
    []<>({row \in outbox \ dispatched : row.rule = r} = {})

\* A rule that stays enabled with its threshold crossed ends up firing, and one
\* below it ends up ok: no stale count or lost race has the last word.
FollowsLogs ==
  \A r \in Rule \ SavedQueryRule : \A s \in State :
    <>[](Live(r) /\ enabled[r] /\ Decide(r) = s) => <>[](Live(r) => state[r] = s)
-----------------------------------------------------------------------------
(* The inductive invariant behind the safety properties.                   *)

\* A rule that does not exist has no rows, one not yet created no history.
RuleShape ==
  \A r \in Rule :
    /\ ~Live(r) => RowsOf(r) = {}
    /\ life[r] = "none" => seq[r] = 0 /\ state[r] = "ok"

\* occurred_at tells the rows apart that a replica or the outbox holds.
RowsOrdered ==
  \A c \in Replica : \A x, y \in outbox \cup pend[c] :
    /\ x.at = y.at => x = y
    /\ x.at <= clock
    /\ x.seq <= seq[x.rule]

\* A swap changes the state, and what is about to be marked was delivered.
LoopShape ==
  \A c \in Replica :
    /\ pc[c] = "swap" => \A d \in cur[c] : target[c] # d.state
    /\ Unmarked(c) \subseteq sent

IInv ==
  /\ TypeOK
  /\ RuleShape
  /\ LedgerMatchesState
  /\ RowsOrdered
  /\ LoopShape
  /\ MarkedWasSent

\* With replica c alone, a delivered row that could be delivered again is
\* marked, about to be marked, or disturbed.
SoleReplica(c) ==
  /\ \A row \in sent : row.seq <= seq[row.rule]
  /\ sent \cap outbox \subseteq disturbed \cup dispatched \cup Unmarked(c)
  /\ sent \cap pend[c] \subseteq disturbed \cup Unmarked(c)
  /\ resent \subseteq disturbed
=============================================================================
