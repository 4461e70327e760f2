------------------------ MODULE AlertEvaluatorProofs ------------------------
(***************************************************************************)
(* Theorems about AlertEvaluator, for every set of rules and replicas and  *)
(* every value of the bounds. The steps of the environment, of the relay,  *)
(* and those of a replica that write no table come first, then the writes  *)
(* of evaluateRule and the theorems.                                       *)
(***************************************************************************)
EXTENDS AlertEvaluator, FiniteSetTheorems, TLAPS

\* Most steps are first-order: Zenon proves every leaf that names no other prover.
USE ZenonT(30)

\* Firing and resolved take turns.
LEMMA TurnStep ==
  ASSUME NEW n \in Nat, NEW s \in State, s # Turn(n)
  PROVE  s = Turn(n + 1)
  BY SMTT(30) DEF Turn, State

\* A timestamp taken now is well-typed.
LEMMA StampType ==
  ASSUME TypeOK, NEW r \in Rule, Stamp(r)
  PROVE  evaluated' \in [Rule -> Nat] /\ fresh' \subseteq Rule
  <1>1. Cardinality({y \in Rule \ {r} : evaluated[y] > 0}) \in Nat
    BY EvaluatorAssumption, FS_CardinalityType, FS_Subset
  <1> QED
    BY SMTT(30), <1>1 DEF Stamp, RankWithout, TypeOK

\* A step that touches neither the rules' history nor the outbox keeps both
\* in agreement.
LEMMA HistoryFixed ==
  ASSUME RuleShape, LedgerMatchesState, UNCHANGED <<life, state, seq, outbox>>
  PROVE  RuleShape' /\ LedgerMatchesState'
  BY SMTT(30) DEF RuleShape, LedgerMatchesState, Live, RowsOf

\* A step that only takes rows off the replicas' lists keeps them ordered.
LEMMA OrderFixed ==
  ASSUME RowsOrdered, UNCHANGED <<clock, seq>>, outbox' \subseteq outbox,
         \A c \in Replica : pend'[c] \subseteq outbox \cup pend[c]
  PROVE  RowsOrdered'
  BY DEF RowsOrdered

\* A step of the environment preserves the invariant.
LEMMA EnvironmentIInv ==
  ASSUME IInv, Environment
  PROVE  IInv'
  <1> USE DEF IInv
  <1>1. ASSUME NEW r \in Rule, BecomeDue(r) PROVE IInv'
    <2>1. TypeOK'
      BY <1>1 DEF TypeOK, BecomeDue, outboxVars, loopVars, sentVars
    <2>2. RuleShape' /\ LedgerMatchesState'
      BY <1>1, HistoryFixed DEF BecomeDue, outboxVars
    <2>3. RowsOrdered' /\ LoopShape' /\ MarkedWasSent'
      BY SMTT(30), <1>1 DEF RowsOrdered, LoopShape, MarkedWasSent, BecomeDue, outboxVars, loopVars, sentVars,
         Unmarked, Oldest
    <2> QED
      BY <2>1, <2>2, <2>3
  <1>2. ASSUME NEW r \in Rule, Flip(r) PROVE IInv'
    <2>1. TypeOK'
      BY SMTT(30), <1>2, EvaluatorAssumption DEF TypeOK, Flip, ruleVars, outboxVars, loopVars, sentVars
    <2>2. RuleShape' /\ LedgerMatchesState'
      BY <1>2, HistoryFixed DEF Flip, outboxVars, ruleVars
    <2>3. RowsOrdered' /\ LoopShape' /\ MarkedWasSent'
      BY SMTT(30), <1>2 DEF RowsOrdered, LoopShape, MarkedWasSent, Flip, ruleVars, outboxVars, loopVars,
         sentVars, Unmarked, Oldest
    <2> QED
      BY <2>1, <2>2, <2>3
  <1>3. ASSUME NEW r \in Rule, CreateRule(r) PROVE IInv'
    <2>1. TypeOK'
      BY <1>3 DEF TypeOK, CreateRule, outboxVars, loopVars, sentVars
    <2>2. RuleShape'
      BY <1>3 DEF RuleShape, CreateRule, Live, RowsOf, outboxVars, TypeOK
    <2>3. LedgerMatchesState'
      <3>1. RowsOf(r) = {} /\ seq[r] = 0 /\ state[r] = Turn(0)
        BY SMTT(30), <1>3 DEF RuleShape, CreateRule, Live, Turn
      <3>2. \A x \in Rule : Live(x)' => x = r \/ Live(x)
        BY <1>3 DEF CreateRule, Live, TypeOK
      <3>3. UNCHANGED <<state, seq, outbox>>
        BY <1>3 DEF CreateRule, outboxVars
      <3> QED
        BY SMTT(30), <3>1, <3>2, <3>3 DEF LedgerMatchesState, RowsOf
    <2>4. RowsOrdered' /\ LoopShape' /\ MarkedWasSent'
      BY SMTT(30), <1>3 DEF RowsOrdered, LoopShape, MarkedWasSent, CreateRule, outboxVars, loopVars,
         sentVars, Unmarked, Oldest
    <2> QED
      BY <2>1, <2>2, <2>3, <2>4
  <1>4. ASSUME NEW r \in Rule, UpdateRule(r) PROVE IInv'
    <2>1. TypeOK'
      BY SMTT(30), <1>4, EvaluatorAssumption DEF TypeOK, UpdateRule, outboxVars, loopVars, sentVars
    <2>2. RuleShape' /\ LedgerMatchesState'
      BY <1>4, HistoryFixed DEF UpdateRule, outboxVars
    <2>3. RowsOrdered' /\ LoopShape' /\ MarkedWasSent'
      BY SMTT(30), <1>4 DEF RowsOrdered, LoopShape, MarkedWasSent, UpdateRule, outboxVars, loopVars,
         sentVars, Unmarked, Oldest
    <2> QED
      BY <2>1, <2>2, <2>3
  <1>5. ASSUME NEW r \in Rule, DeleteRule(r) PROVE IInv'
    <2>1. TypeOK'
      BY SMTT(30), <1>5, EvaluatorAssumption DEF TypeOK, DeleteRule, RankWithout, loopVars, sentVars
    <2>2. RuleShape' /\ LedgerMatchesState'
      <3>1. UNCHANGED <<state, seq>> /\ \A x \in Rule \ {r} : (Live(x)' <=> Live(x)) /\ life'[x] = life[x]
        BY <1>5 DEF DeleteRule, Live, TypeOK
      <3>2. ~Live(r)' /\ life'[r] # "none" /\ RowsOf(r)' = {}
        BY <1>5 DEF DeleteRule, Live, RowsOf, TypeOK
      <3>3. \A x \in Rule \ {r} : RowsOf(x)' = RowsOf(x)
        BY <1>5 DEF DeleteRule, RowsOf
      <3> QED
        BY SMTT(30), <3>1, <3>2, <3>3 DEF RuleShape, LedgerMatchesState
    <2>3. RowsOrdered'
      BY <1>5, OrderFixed DEF DeleteRule, loopVars
    <2>4. LoopShape' /\ MarkedWasSent'
      BY <1>5 DEF LoopShape, MarkedWasSent, DeleteRule, loopVars, sentVars, Unmarked, Oldest
    <2> QED
      BY <2>1, <2>2, <2>3, <2>4
  <1> QED
    BY <1>1, <1>2, <1>3, <1>4, <1>5 DEF Environment

\* The steps of replica c that write no table.
QuietStep(c) ==
  \/ Start(c) \/ Crash(c) \/ ListDue(c) \/ Count(c) \/ CountFail(c) \/ WriteFail(c)
  \/ ListPending(c) \/ CycleDone(c)

\* They preserve the invariant.
LEMMA QuietIInv ==
  ASSUME IInv, NEW c \in Replica, QuietStep(c)
  PROVE  IInv'
  <1> USE DEF IInv
  <1>u. UNCHANGED <<ruleVars, outboxVars, breached, sent, resent, flips>>
    BY DEF QuietStep, Start, Crash, ListDue, Count, CountFail, WriteFail, ListPending, CycleDone,
       sentVars
  <1>p. /\ pend' = [pend EXCEPT ![c] = pend'[c]]
        /\ pend'[c] \subseteq outbox \cup pend[c]
    BY DEF QuietStep, Start, Crash, ListDue, Count, CountFail, WriteFail, RuleDone, ListPending,
       CycleDone, Limited, TypeOK
  <1>f. faults' \in 0..MaxFaults
    BY SMTT(30), EvaluatorAssumption DEF QuietStep, Start, Crash, ListDue, Count, CountFail, WriteFail,
       RuleDone, ListPending, CycleDone, Spend, TypeOK
  <1>l. pc' \in [Replica -> PC] /\ target' \in [Replica -> State] /\ cur' \in [Replica -> SUBSET Due]
    <2>1. CASE Count(c)
      BY SMTT(30), <2>1 DEF Count, Oldest, Decide, TypeOK, PC, State, Due
    <2>2. CASE ~Count(c)
      BY <2>2 DEF QuietStep, Start, Crash, ListDue, CountFail, WriteFail, RuleDone, ListPending,
         CycleDone, TypeOK, PC, State
    <2> QED
      BY <2>1, <2>2
  <1>d. due' \in [Replica -> SUBSET Due]
    <2>1. CASE ListDue(c)
      <3>1. \A unresolved \in SUBSET SavedQueryRule : DueRules(unresolved) \subseteq Due
        <4>1. ASSUME NEW U \in SUBSET SavedQueryRule, NEW r \in Rule
              PROVE  [rule |-> r, state |-> state[r], empty |-> r \in U, at |-> evaluated[r]] \in Due
          BY SMTT(30) DEF Due, TypeOK
        <4> QED
          BY <4>1, ZenonT(30) DEF DueRules
      <3> QED
        BY <2>1, <3>1 DEF ListDue, Limited, TypeOK
    <2>2. CASE ~ListDue(c)
      BY SMTT(30), <2>2 DEF QuietStep, Start, Crash, Count, CountFail, WriteFail, RuleDone, ListPending,
         CycleDone, TypeOK
    <2> QED
      BY <2>1, <2>2
  <1>m. disturbed' \subseteq disturbed \cup pend[c] /\ disturbed \subseteq disturbed'
    BY DEF QuietStep, Start, Crash, ListDue, Count, CountFail, WriteFail, RuleDone, ListPending,
       CycleDone, sentVars, Unmarked, Oldest
  <1>1. TypeOK'
    BY <1>u, <1>p, <1>f, <1>l, <1>d, <1>m, ZenonT(30) DEF TypeOK, ruleVars, outboxVars
  <1>2. RuleShape' /\ LedgerMatchesState'
    BY <1>u, HistoryFixed, ZenonT(30) DEF ruleVars, outboxVars
  <1>3. RowsOrdered'
    BY <1>u, <1>p, OrderFixed DEF ruleVars, outboxVars, TypeOK
  <1>4. LoopShape'
    <2>1. pc'[c] # "mark"
      BY DEF QuietStep, Start, Crash, ListDue, Count, CountFail, WriteFail, RuleDone, ListPending,
         CycleDone, TypeOK
    <2>2. pc'[c] = "swap" => \A d \in cur'[c] : target'[c] # d.state
      <3>1. CASE Count(c)
        BY SMTT(30), <3>1 DEF Count, Oldest, TypeOK
      <3>2. CASE ~Count(c)
        BY <3>2 DEF QuietStep, Start, Crash, ListDue, CountFail, WriteFail, RuleDone, ListPending,
           CycleDone, TypeOK
      <3> QED
        BY <3>1, <3>2
    <2>3. \A d \in Replica \ {c} :
            pc'[d] = pc[d] /\ cur'[d] = cur[d] /\ target'[d] = target[d] /\ pend'[d] = pend[d]
      BY DEF QuietStep, Start, Crash, ListDue, Count, CountFail, WriteFail, RuleDone, ListPending,
         CycleDone, TypeOK
    <2> QED
      BY <2>1, <2>2, <2>3, <1>u, ZenonT(30) DEF LoopShape, Unmarked, Oldest
  <1>5. MarkedWasSent'
    BY <1>u DEF MarkedWasSent, outboxVars
  <1> QED
    BY <1>1, <1>2, <1>3, <1>4, <1>5

\* The oldest row on a replica's list is unique.
LEMMA OldestUnique ==
  ASSUME IInv, NEW c \in Replica, NEW row \in Oldest(pend[c])
  PROVE  Oldest(pend[c]) = {row} /\ row \in pend[c] /\ row \in Row /\ row.rule \in Rule
  <1>1. row \in Row /\ \A x \in Oldest(pend[c]) : x \in Row /\ x \in pend[c]
    BY DEF IInv, TypeOK, Oldest
  <1>2. \A x \in Oldest(pend[c]) : x.at = row.at
    BY SMTT(30), <1>1 DEF Oldest, Row
  <1> QED
    BY SMTT(30), <1>1, <1>2 DEF IInv, RowsOrdered, Row

\* The steps of the relay: replica c handles one row.
RelayStep(c) == Notify(c) \/ NotifyFail(c) \/ MarkDispatched(c) \/ MarkFail(c)

\* What they do with the row.
RelayEffect(c, row) ==
  \/ /\ pc[c] = "relay" /\ pc'[c] = "mark" /\ pend' = pend
     /\ sent' = sent \cup {row} /\ disturbed' = disturbed
     /\ dispatched' = dispatched /\ notified' = notified
     /\ resent' = IF row \in sent THEN resent \cup {row} ELSE resent
  \/ /\ pc[c] = "relay" /\ pc'[c] = "relay" /\ pend' = [pend EXCEPT ![c] = @ \ {row}]
     /\ dispatched' = dispatched /\ notified' = notified
     /\ \/ UNCHANGED sentVars
        \/ /\ sent' = sent \cup {row} /\ disturbed' = disturbed \cup {row}
           /\ resent' = IF row \in sent THEN resent \cup {row} ELSE resent
  \/ /\ pc[c] = "mark" /\ pc'[c] = "relay" /\ pend' = [pend EXCEPT ![c] = @ \ {row}]
     /\ \/ /\ UNCHANGED sentVars
           /\ dispatched' = dispatched \cup ({row} \cap outbox)
           /\ notified' \subseteq notified \cup {row.rule}
        \/ /\ sent' = sent /\ resent' = resent /\ disturbed' = disturbed \cup {row}
           /\ dispatched' = dispatched /\ notified' = notified

\* Every step of the relay has one of these effects on the oldest row.
LEMMA RelayEffects ==
  ASSUME TypeOK, NEW c \in Replica, RelayStep(c)
  PROVE  \E row \in Oldest(pend[c]) : RelayEffect(c, row)
  <1>t. pc \in [Replica -> PC]
    BY DEF TypeOK
  <1>1. CASE Notify(c)
    BY <1>1, <1>t, ZenonT(30) DEF Notify, Delivered, RelayEffect, outboxVars
  <1>2. CASE NotifyFail(c)
    BY <1>2, ZenonT(30) DEF NotifyFail, Delivered, RelayEffect, outboxVars, sentVars
  <1>3. CASE MarkDispatched(c)
    BY <1>3, <1>t, ZenonT(30) DEF MarkDispatched, RelayEffect
  <1>4. CASE MarkFail(c)
    BY <1>4, <1>t, ZenonT(30) DEF MarkFail, RelayEffect, outboxVars
  <1> QED
    BY <1>1, <1>2, <1>3, <1>4 DEF RelayStep

\* They preserve the invariant.
LEMMA RelayIInv ==
  ASSUME IInv, NEW c \in Replica, RelayStep(c)
  PROVE  IInv'
  <1>e. PICK row \in Oldest(pend[c]) : RelayEffect(c, row)
    BY RelayEffects DEF IInv
  <1>r. Oldest(pend[c]) = {row} /\ row \in pend[c] /\ row \in Row /\ row.rule \in Rule
    BY OldestUnique
  <1> USE DEF IInv
  <1>o. /\ pc[c] \in {"relay", "mark"}
        /\ \/ pc[c] = "relay" /\ pc'[c] = "mark" /\ pend' = pend /\ sent' = sent \cup {row}
           \/ pc'[c] = "relay" /\ pend' = [pend EXCEPT ![c] = @ \ {row}]
        /\ sent \subseteq sent' /\ sent' \subseteq sent \cup {row}
        /\ resent' \subseteq resent \cup {row} /\ disturbed' \subseteq disturbed \cup {row}
        /\ \/ dispatched' = dispatched /\ notified' = notified
           \/ /\ pc[c] = "mark" /\ dispatched' \subseteq dispatched \cup {row}
              /\ notified' \subseteq notified \cup {row.rule}
    BY <1>e DEF RelayEffect, sentVars
  <1>u. /\ UNCHANGED <<ruleVars, outbox, clock, breached, due, cur, target, flips>>
        /\ faults' \in 0..MaxFaults
    BY SMTT(30), EvaluatorAssumption DEF RelayStep, Notify, NotifyFail, MarkDispatched, MarkFail, outboxVars,
       Spend, TypeOK
  <1>p. /\ pc' \in [Replica -> PC] /\ pend' \in [Replica -> SUBSET Row]
        /\ \A d \in Replica : pend'[d] \subseteq pend[d]
        /\ \A d \in Replica \ {c} : pc'[d] = pc[d] /\ pend'[d] = pend[d]
    BY SMTT(30), <1>r DEF RelayStep, Notify, NotifyFail, MarkDispatched, MarkFail, TypeOK, PC
  <1>1. TypeOK'
    BY <1>o, <1>r, <1>u, <1>p DEF TypeOK, ruleVars
  <1>2. RuleShape' /\ LedgerMatchesState'
    BY <1>u, HistoryFixed, ZenonT(30) DEF ruleVars
  <1>3. RowsOrdered'
    BY <1>u, <1>p, OrderFixed, ZenonT(30) DEF ruleVars
  <1>4. LoopShape'
    <2>1. Unmarked(c)' \subseteq sent'
      BY <1>o, <1>r DEF Unmarked, Oldest
    <2>2. \A d \in Replica \ {c} : Unmarked(d)' \subseteq sent'
      BY <1>o, <1>p DEF LoopShape, Unmarked, Oldest
    <2>3. pc'[c] # "swap"
      BY <1>o
    <2> QED
      BY <2>1, <2>2, <2>3, <1>p, <1>u, ZenonT(30) DEF LoopShape
  <1>5. MarkedWasSent'
    <2>1. pc[c] = "mark" => row \in sent
      BY <1>r DEF LoopShape, Unmarked
    <2> QED
      BY <1>o, <2>1 DEF MarkedWasSent
  <1> QED
    BY <1>1, <1>2, <1>3, <1>4, <1>5

-----------------------------------------------------------------------------
(* The writes of evaluateRule and the theorems. *)

\* The writes of evaluateRule preserve the invariant: the transition is the
\* next one of the rule and its row the next one of the outbox.
LEMMA WriteIInv ==
  ASSUME IInv, NEW c \in Replica, MarkEvaluated(c) \/ Transition(c)
  PROVE  IInv'
  <1> USE DEF IInv
  <1>u. UNCHANGED <<life, enabled, dispatched, notified, breached, sentVars, flips, faults, due, pend>>
    BY DEF MarkEvaluated, Transition, RuleDone, outboxVars
  <1>l. /\ pc' \in [Replica -> PC] /\ target' \in [Replica -> State] /\ cur' \in [Replica -> SUBSET Due]
        /\ pc'[c] = "rules"
        /\ \A d \in Replica \ {c} : pc'[d] = pc[d] /\ cur'[d] = cur[d] /\ target'[d] = target[d]
    BY SMTT(30) DEF MarkEvaluated, Transition, RuleDone, TypeOK, PC, State
  <1>s. LoopShape' /\ MarkedWasSent'
    BY SMTT(30), <1>u, <1>l DEF LoopShape, MarkedWasSent, Unmarked, Oldest, sentVars
  <1>1. CASE UNCHANGED <<state, seq, clock, outbox>>
    <2>1. evaluated' \in [Rule -> Nat] /\ fresh' \subseteq Rule
      BY SMTT(30), <1>1, StampType DEF MarkEvaluated, Transition, TypeOK, Due
    <2>2. TypeOK'
      BY <1>1, <2>1, <1>u, <1>l DEF TypeOK, sentVars
    <2>3. RuleShape' /\ LedgerMatchesState'
      BY <1>1, <1>u, HistoryFixed
    <2>4. RowsOrdered'
      BY <1>1, <1>u, OrderFixed
    <2> QED
      BY <2>2, <2>3, <2>4, <1>s
  <1>2. ASSUME ~UNCHANGED <<state, seq, clock, outbox>> PROVE IInv'
    <2>1. pc[c] = "swap" /\ Transition(c)
      BY <1>2 DEF MarkEvaluated, Transition, outboxVars
    <2>2. PICK d \in cur[c] :
            /\ Live(d.rule) /\ state[d.rule] = d.state
            /\ state' = [state EXCEPT ![d.rule] = target[c]]
            /\ seq' = [seq EXCEPT ![d.rule] = seq[d.rule] + 1]
            /\ Stamp(d.rule)
            /\ clock' = clock + 1
            /\ outbox' = outbox \cup
                 {[rule |-> d.rule, seq |-> seq[d.rule] + 1, to |-> target[c], at |-> clock + 1]}
      BY <1>2, <2>1 DEF Transition
    <2> DEFINE r == d.rule
               new == [rule |-> r, seq |-> seq[r] + 1, to |-> target[c], at |-> clock + 1]
    <2>3. r \in Rule /\ seq[r] \in Nat /\ target[c] \in State /\ target[c] # state[r] /\ clock \in Nat
      BY SMTT(30), <2>1, <2>2 DEF TypeOK, Due, LoopShape
    <2>4. new \in Row /\ new.rule = r /\ new.seq = seq[r] + 1 /\ new.to = target[c] /\ new.at = clock + 1
      BY SMTT(30), <2>3 DEF Row
    <2>5. evaluated' \in [Rule -> Nat] /\ fresh' \subseteq Rule
      BY <2>2, <2>3, StampType
    <2>6. state' \in [Rule -> State] /\ seq' \in [Rule -> Nat] /\ clock' \in Nat /\ outbox' \subseteq Row
      BY SMTT(30), <2>2, <2>3, <2>4 DEF TypeOK
    <2>7. TypeOK'
      BY <2>5, <2>6, <1>u, <1>l DEF TypeOK, sentVars
    <2>8. /\ seq'[r] = seq[r] + 1 /\ state'[r] = target[c]
          /\ \A x \in Rule \ {r} : seq'[x] = seq[x] /\ state'[x] = state[x] /\ RowsOf(x)' = RowsOf(x)
          /\ RowsOf(r)' = RowsOf(r) \cup {new}
      BY <2>2, <2>3, <2>4 DEF TypeOK, RowsOf
    <2>9. RuleShape'
      BY <2>2, <2>8, <1>u DEF RuleShape, Live
    <2>10. LedgerMatchesState'
      <3>1. target[c] = Turn(seq[r] + 1)
        <4>1. state[r] = Turn(seq[r])
          BY <2>2, <2>3 DEF LedgerMatchesState
        <4> QED
          BY <4>1, <2>3, TurnStep
      <3>2. \A row \in RowsOf(r) : row.seq \in 1..seq[r]
        BY <2>2, <2>3 DEF LedgerMatchesState
      <3>3. \A n \in 1..seq'[r] : \E row \in RowsOf(r)' : row.seq = n
        BY SMTT(30), <2>2, <2>3, <2>4, <2>8 DEF LedgerMatchesState
      <3>4. ASSUME NEW row \in RowsOf(r)'
            PROVE  /\ row.seq \in 1..seq'[r] /\ row.to = Turn(row.seq)
                   /\ \A other \in RowsOf(r)' : other.seq = row.seq => other = row
        <4>1. CASE row = new
          BY SMTT(30), <4>1, <3>1, <3>2, <2>3, <2>4, <2>8
        <4>2. CASE row \in RowsOf(r)
          BY SMTT(30), <4>2, <3>2, <2>2, <2>3, <2>4, <2>8 DEF LedgerMatchesState
        <4> QED
          BY <4>1, <4>2, <2>8
      <3>5. state'[r] = Turn(seq'[r])
        BY <3>1, <2>8
      <3>6. \A x \in Rule \ {r} : Live(x)' <=> Live(x)
        BY <1>u DEF Live
      <3> SUFFICES ASSUME NEW x \in Rule, Live(x)'
                   PROVE  /\ state'[x] = Turn(seq'[x])
                          /\ \A n \in 1..seq'[x] : \E row \in RowsOf(x)' : row.seq = n
                          /\ \A row \in RowsOf(x)' :
                               /\ row.seq \in 1..seq'[x] /\ row.to = Turn(row.seq)
                               /\ \A other \in RowsOf(x)' : other.seq = row.seq => other = row
        BY ZenonT(30) DEF LedgerMatchesState
      <3>7. CASE x = r
        BY <3>7, <3>3, <3>4, <3>5, ZenonT(30)
      <3>8. CASE x # r
        BY SMTT(30), <3>8, <3>6, <2>8 DEF LedgerMatchesState
      <3> QED
        BY <3>7, <3>8
    <2>11. RowsOrdered'
      <3> SUFFICES ASSUME NEW e \in Replica, NEW x \in outbox' \cup pend'[e], NEW y \in outbox' \cup pend'[e]
                   PROVE  (x.at = y.at => x = y) /\ x.at <= clock' /\ x.seq <= seq'[x.rule]
        BY DEF RowsOrdered
      <3>1. \A z \in outbox \cup pend[e] : z \in Row /\ z.at <= clock /\ z.seq <= seq[z.rule]
        BY DEF RowsOrdered, TypeOK
      <3>2. \A z \in outbox \cup pend[e] : z.at < clock' /\ z.seq <= seq'[z.rule]
        BY SMTT(30), <3>1, <2>2, <2>3, <2>8 DEF Row, TypeOK
      <3>3. x \in outbox \cup pend[e] \cup {new} /\ y \in outbox \cup pend[e] \cup {new}
        BY <2>2, <1>u
      <3>4. new.at = clock' /\ new.seq = seq'[new.rule]
        BY <2>2, <2>4, <2>8
      <3>5. x.at <= clock' /\ x.seq <= seq'[x.rule]
        <4>1. CASE x = new
          BY SMTT(30), <4>1, <3>4, <2>6, <2>3, <2>4 DEF Row
        <4>2. CASE x \in outbox \cup pend[e]
          BY SMTT(30), <4>2, <3>1, <3>2, <2>6 DEF Row
        <4> QED
          BY <3>3, <4>1, <4>2
      <3>6. x.at = y.at => x = y
        <4>1. CASE x \in outbox \cup pend[e] /\ y \in outbox \cup pend[e]
          BY <4>1 DEF RowsOrdered
        <4>2. CASE x = new \/ y = new
          BY SMTT(30), <4>2, <3>1, <3>2, <3>3, <3>4, <2>6 DEF Row
        <4> QED
          BY <3>3, <4>1, <4>2
      <3> QED
        BY <3>5, <3>6
    <2> QED
      BY <2>7, <2>9, <2>10, <2>11, <1>s
  <1> QED
    BY <1>1, <1>2

\* The initial state satisfies the invariant.
LEMMA InitIInv == Init => IInv
  <1> SUFFICES ASSUME Init PROVE IInv
    OBVIOUS
  <1>1. TypeOK
    BY SMTT(30), EvaluatorAssumption DEF Init, TypeOK, State, PC
  <1>2. RuleShape /\ LedgerMatchesState
    BY DEF Init, RuleShape, LedgerMatchesState, RowsOf, Live
  <1>3. RowsOrdered /\ LoopShape /\ MarkedWasSent
    BY DEF Init, RowsOrdered, LoopShape, MarkedWasSent, Unmarked
  <1> QED
    BY <1>1, <1>2, <1>3 DEF IInv

\* The invariant is inductive.
LEMMA NextIInv ==
  ASSUME IInv, [Next]_vars
  PROVE  IInv'
  <1>1. CASE Environment
    BY <1>1, EnvironmentIInv
  <1>2. ASSUME NEW c \in Replica, QuietStep(c) PROVE IInv'
    BY <1>2, QuietIInv
  <1>3. ASSUME NEW c \in Replica, MarkEvaluated(c) \/ Transition(c) PROVE IInv'
    BY <1>3, WriteIInv
  <1>4. ASSUME NEW c \in Replica, RelayStep(c) PROVE IInv'
    BY <1>4, RelayIInv
  <1>5. CASE UNCHANGED vars
    BY SMTT(30), <1>5 DEF vars, ruleVars, outboxVars, loopVars, sentVars, IInv, TypeOK, RuleShape,
       LedgerMatchesState, RowsOrdered, LoopShape, MarkedWasSent, Live, RowsOf, Unmarked, Oldest
  <1> QED
    BY <1>1, <1>2, <1>3, <1>4, <1>5 DEF Next, Evaluate, QuietStep, RelayStep

\* The inductive invariant, types included, holds in every reachable state.
THEOREM Invariance == Spec => []IInv
  BY InitIInv, NextIInv, PTL DEF Spec

\* Each transition of a rule has exactly one row in the outbox, firing and
\* resolved in turn, for any number of evaluators racing on stale snapshots.
THEOREM Ledger == Spec => []LedgerMatchesState
  <1>1. IInv => LedgerMatchesState
    BY DEF IInv
  <1> QED
    BY <1>1, Invariance, PTL

\* dispatched_at and last_notified_at are never set for an alert that nobody
\* was sent.
THEOREM MarksTruthful == Spec => []MarkedWasSent
  <1>1. IInv => MarkedWasSent
    BY DEF IInv
  <1> QED
    BY <1>1, Invariance, PTL

\* With one replica, a step keeps every row that could be delivered again
\* accounted for.
LEMMA SoleReplicaStep ==
  ASSUME NEW c, Replica = {c}, IInv, SoleReplica(c), [Next]_vars
  PROVE  SoleReplica(c)'
  <1>c. c \in Replica
    OBVIOUS
  <1>1. CASE Environment
    <2>1. /\ UNCHANGED <<seq, loopVars, sentVars>> /\ outbox' \subseteq outbox
          /\ dispatched \cap outbox' \subseteq dispatched'
      BY <1>1 DEF Environment, BecomeDue, Flip, CreateRule, UpdateRule, DeleteRule, ruleVars, outboxVars
    <2> QED
      BY <2>1 DEF SoleReplica, Unmarked, Oldest, loopVars, sentVars
  <1>2. CASE QuietStep(c)
    <2>1. UNCHANGED <<seq, outbox, dispatched, sent, resent>> /\ disturbed' = disturbed \cup Unmarked(c)
      BY <1>2 DEF QuietStep, Start, Crash, ListDue, Count, CountFail, WriteFail, ListPending,
         CycleDone, ruleVars, outboxVars, sentVars, Unmarked
    <2>2. \/ pend'[c] \subseteq pend[c]
          \/ pend'[c] \subseteq outbox \ dispatched /\ Unmarked(c) = {}
      BY <1>2, <1>c DEF QuietStep, Start, Crash, ListDue, Count, CountFail, WriteFail, RuleDone,
         ListPending, CycleDone, Limited, Unmarked, IInv, TypeOK
    <2> QED
      BY <2>1, <2>2 DEF SoleReplica
  <1>3. CASE MarkEvaluated(c) \/ Transition(c)
    <2>1. UNCHANGED <<dispatched, sentVars, pend>>
      BY <1>3 DEF MarkEvaluated, Transition, RuleDone, outboxVars
    <2>2. Unmarked(c) = {}
      BY <1>3 DEF MarkEvaluated, Transition, Unmarked
    <2>3. /\ \A r \in Rule : seq[r] <= seq'[r]
          /\ \A row \in outbox' \ outbox : row.rule \in Rule /\ row.seq > seq[row.rule]
      BY SMTT(30), <1>3, <1>c DEF MarkEvaluated, Transition, outboxVars, IInv, TypeOK, Due
    <2>4. \A row \in sent : row \in Row /\ seq[row.rule] \in Nat /\ row.seq \in Nat /\ row.rule \in Rule
      BY DEF IInv, TypeOK, Row
    <2>5. \A row \in sent : row \notin outbox' \ outbox
      BY SMTT(30), <2>3, <2>4 DEF SoleReplica
    <2>6. \A row \in sent : row.seq <= seq'[row.rule]
      <3>1. \A r \in Rule : seq'[r] \in Nat
        BY <1>3, <1>c, WriteIInv DEF IInv, TypeOK
      <3> QED
        BY SMTT(30), <2>3, <2>4, <3>1 DEF SoleReplica
    <2> QED
      BY <2>1, <2>2, <2>5, <2>6 DEF SoleReplica, sentVars
  <1>4. CASE RelayStep(c)
    <2>e. PICK row \in Oldest(pend[c]) : RelayEffect(c, row)
      BY <1>4, <1>c, RelayEffects DEF IInv
    <2>2. Oldest(pend[c]) = {row} /\ row \in pend[c] /\ row \in Row /\ row.rule \in Rule
      BY <1>c, OldestUnique
    <2>u. UNCHANGED <<seq, outbox>>
      BY <1>4 DEF RelayStep, Notify, NotifyFail, MarkDispatched, MarkFail, outboxVars, ruleVars
    <2>p. \/ pend' = pend /\ pc[c] = "relay" /\ pc'[c] = "mark"
          \/ pend'[c] = pend[c] \ {row} /\ pc'[c] = "relay"
      BY <2>e, <1>c DEF RelayEffect, IInv, TypeOK
    <2>3. Unmarked(c) = IF pc[c] = "mark" THEN {row} ELSE {}
      BY <2>2 DEF Unmarked
    <2>4. pc'[c] = "mark" /\ pend' = pend => Unmarked(c)' = {row}
      BY <2>2 DEF Unmarked, Oldest
    <2>5. row.seq <= seq[row.rule]
      BY <1>c, <2>2 DEF IInv, RowsOrdered
    <2>6. \A x \in sent' : x.seq <= seq'[x.rule]
      BY <2>e, <2>u, <2>5 DEF RelayEffect, SoleReplica, sentVars
    <2>7. resent' \subseteq disturbed'
      BY <2>e, <2>2, <2>3 DEF RelayEffect, SoleReplica, sentVars
    <2>8. CASE pc'[c] = "mark" /\ pend' = pend
      <3>1. UNCHANGED <<outbox, disturbed, dispatched>> /\ sent' = sent \cup {row} /\ Unmarked(c) = {}
        BY <2>e, <2>u, <2>3, <2>8 DEF RelayEffect, sentVars
      <3> QED
        BY <2>4, <2>6, <2>7, <2>8, <3>1 DEF SoleReplica
    <2>9. CASE ~(pc'[c] = "mark" /\ pend' = pend)
      <3>1. /\ outbox' = outbox /\ pend'[c] = pend[c] \ {row}
            /\ dispatched \subseteq dispatched' /\ disturbed \subseteq disturbed'
            /\ sent' = sent \/ (sent' = sent \cup {row} /\ row \in disturbed')
            /\ row \in Unmarked(c) \cap outbox => row \in dispatched' \cup disturbed'
        BY <2>e, <2>u, <2>p, <2>3, <2>9 DEF RelayEffect, sentVars
      <3> QED
        BY <2>3, <2>6, <2>7, <3>1 DEF SoleReplica
    <2> QED
      BY <2>8, <2>9
  <1>5. CASE UNCHANGED vars
    BY <1>5, ZenonT(30) DEF vars, ruleVars, outboxVars, loopVars, sentVars, SoleReplica, Unmarked, Oldest
  <1> QED
    BY <1>1, <1>2, <1>3, <1>4, <1>5 DEF Next, Evaluate, QuietStep, RelayStep

\* A single evaluator delivers a notification twice only if an earlier delivery
\* of it went unmarked: the relay of dispatchPending needs no lock as long as
\* one replica runs, whatever fails and however often it restarts.
THEOREM HappyPath ==
  ASSUME NEW c, Replica = {c}
  PROVE  Spec => []NoDuplicateOnHappyPath
  <1>1. Init => SoleReplica(c)
    BY DEF Init, SoleReplica
  <1>2. IInv /\ SoleReplica(c) /\ [Next]_vars => SoleReplica(c)'
    BY SoleReplicaStep
  <1>3. SoleReplica(c) => NoDuplicateOnHappyPath
    BY DEF SoleReplica, NoDuplicateOnHappyPath
  <1> QED
    BY <1>1, <1>2, <1>3, Invariance, PTL DEF Spec

=============================================================================
