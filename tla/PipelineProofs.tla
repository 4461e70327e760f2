--------------------------- MODULE PipelineProofs ---------------------------
(***************************************************************************)
(* Theorems about Pipeline, for every set of clients, batches, replicas and*)
(* every value of the bounds: the inductive invariant, the safety          *)
(* properties it implies, and the refinement of DurableLog. The steps of a *)
(* replica come first, then its channel's, then those of the ingest-service*)
(* and of the broker.                                                      *)
(***************************************************************************)
EXTENDS Pipeline, TLAPS

\* Most steps are first-order: Zenon proves every leaf that names no other prover.
USE ZenonT(30)

\* The retry loops make at least one attempt, whatever MaxRetries is.
LEMMA AttemptsPositive == Attempts \in Nat \ {0}
  BY SMTT(30), ProcessorAssumption DEF Attempts

\* The derived sets that depend on the broker's and the processor's variables
\* are unchanged when those are.
LEMMA UnchangedSets ==
  /\ UNCHANGED <<queue, unacked>> => Held' = Held
  /\ UNCHANGED rows => Stored' = Stored
  /\ UNCHANGED <<buffer, cur>> => \A c \in Consumer : InHand(c)' = InHand(c)
  BY DEF Held, Stored, InHand

\* What the clients know does not depend on the processor.
LEMMA IngestUnchanged ==
  ASSUME IInv, UNCHANGED ingestVars, taken' = taken
  PROVE  ConfirmedBacked' /\ IngestTypeOK'
  BY DEF IInv, TypeOK, IngestTypeOK, ConfirmedBacked, Progress, ingestVars

\* The steps of a replica that leave the broker alone.
LocalStep(c) ==
  \/ Start(c)
  \/ \E m \in Message : Take(c, m)
  \/ AppendOk(c)
  \/ \E committed \in BOOLEAN : AppendFail(c, committed)
  \/ \E ok, written \in BOOLEAN : Archive(c, ok, written)
  \/ \E ok \in BOOLEAN : TailPublish(c, ok)
  \/ Shutdown(c)

\* They only change what belongs to the replica itself; rows only grow, and
\* only for the message it is persisting.
LEMMA LocalStepFrame ==
  ASSUME NEW c \in Consumer, IInv, LocalStep(c)
  PROVE  /\ UNCHANGED brokerVars
         /\ \A d \in Consumer \ {c} :
              /\ phase'[d] = phase[d] /\ conn'[d] = conn[d] /\ cancelled'[d] = cancelled[d]
              /\ buffer'[d] = buffer[d] /\ cur'[d] = cur[d] /\ attempt'[d] = attempt[d]
         /\ InHand(c)' = InHand(c)
         /\ \A m \in Message : rows'[m] # rows[m] => m = cur[c] /\ phase[c] = "persist" /\ rows'[m] = rows[m] + 1
         /\ disturbed \subseteq disturbed'
  <1> USE DEF IInv, TypeOK
  <1>1. CASE Start(c)
    BY <1>1 DEF Start, InHand, ProcessorTypeOK, storeVars, brokerVars
  <1>2. ASSUME NEW m \in Message, Take(c, m)
        PROVE  /\ UNCHANGED <<brokerVars, rows, disturbed>>
               /\ \A d \in Consumer \ {c} :
                    /\ phase'[d] = phase[d] /\ conn'[d] = conn[d] /\ cancelled'[d] = cancelled[d]
                    /\ buffer'[d] = buffer[d] /\ cur'[d] = cur[d] /\ attempt'[d] = attempt[d]
               /\ InHand(c)' = InHand(c)
    <2>1. cur[c] = NoMsg /\ NoMsg \notin Message
      BY <1>2, ProcessorAssumption DEF Take, HandlerShape, ReplicaShape
    <2>2. buffer'[c] = buffer[c] \ {m} /\ cur'[c] = m /\ m \in buffer[c]
      BY <1>2 DEF Take, ProcessorTypeOK
    <2>3. InHand(c)' = InHand(c)
      BY <2>1, <2>2 DEF InHand
    <2> QED
      BY <1>2, <2>3 DEF Take, ProcessorTypeOK, storeVars, brokerVars
  <1>3. CASE AppendOk(c)
    BY <1>3 DEF AppendOk, InHand, ProcessorTypeOK, brokerVars
  <1>4. ASSUME NEW committed \in BOOLEAN, AppendFail(c, committed)
        PROVE  /\ UNCHANGED <<brokerVars, conn, cancelled, buffer, cur>>
               /\ \A d \in Consumer \ {c} : phase'[d] = phase[d] /\ attempt'[d] = attempt[d]
               /\ \A m \in Message : rows'[m] # rows[m] => m = cur[c] /\ phase[c] = "persist" /\ rows'[m] = rows[m] + 1
               /\ disturbed \subseteq disturbed'
    BY <1>4 DEF AppendFail, ProcessorTypeOK, brokerVars
  <1>5. ASSUME NEW ok \in BOOLEAN, NEW written \in BOOLEAN, Archive(c, ok, written)
        PROVE  /\ UNCHANGED <<brokerVars, conn, cancelled, buffer, cur, rows, disturbed>>
               /\ \A d \in Consumer \ {c} : phase'[d] = phase[d] /\ attempt'[d] = attempt[d]
    BY <1>5 DEF Archive, ProcessorTypeOK, brokerVars
  <1>6. ASSUME NEW ok \in BOOLEAN, TailPublish(c, ok)
        PROVE  /\ UNCHANGED <<brokerVars, conn, cancelled, buffer, cur, attempt, rows, disturbed>>
               /\ \A d \in Consumer \ {c} : phase'[d] = phase[d]
    BY <1>6 DEF TailPublish, ProcessorTypeOK, brokerVars
  <1>7. CASE Shutdown(c)
    BY <1>7 DEF Shutdown, InHand, ProcessorTypeOK, storeVars, brokerVars
  <1> QED
    BY <1>1, <1>2, <1>3, <1>4, <1>5, <1>6, <1>7 DEF LocalStep, InHand

\* Each of them keeps the types.
LEMMA LocalStepType ==
  ASSUME NEW c \in Consumer, IInv, LocalStep(c)
  PROVE  ProcessorTypeOK'
  <1> USE AttemptsPositive DEF IInv, TypeOK, ProcessorTypeOK, Phase
  <1>r. attempt[c] \in Nat /\ (phase[c] \in {"persist", "archive"} => attempt[c] + 1 \in 0..Attempts)
    BY SMTT(30) DEF HandlerShape, ReplicaShape
  <1>1. CASE Start(c)
    BY <1>1 DEF Start, storeVars
  <1>2. ASSUME NEW m \in Message, Take(c, m) PROVE ProcessorTypeOK'
    BY SMTT(30), <1>2 DEF Take, storeVars
  <1>3. CASE AppendOk(c)
    <2>1. cur[c] \in Message
      BY <1>3, ProcessorAssumption DEF AppendOk, HandlerShape, ReplicaShape
    <2>2. AfterPersist(c) \in Phase
      BY DEF AfterPersist
    <2> QED
      BY SMTT(30), <1>3, <2>1, <2>2 DEF AppendOk
  <1>4. ASSUME NEW committed \in BOOLEAN, AppendFail(c, committed) PROVE ProcessorTypeOK'
    <2>1. cur[c] \in Message
      BY <1>4, ProcessorAssumption DEF AppendFail, HandlerShape, ReplicaShape
    <2> QED
      BY SMTT(30), <1>4, <1>r, <2>1 DEF AppendFail
  <1>5. ASSUME NEW ok \in BOOLEAN, NEW written \in BOOLEAN, Archive(c, ok, written) PROVE ProcessorTypeOK'
    <2>1. cur[c] \in Message
      BY <1>5, ProcessorAssumption DEF Archive, HandlerShape, ReplicaShape
    <2> QED
      BY <1>5, <1>r, <2>1 DEF Archive
  <1>6. ASSUME NEW ok \in BOOLEAN, TailPublish(c, ok) PROVE ProcessorTypeOK'
    <2>1. cur[c] \in Message
      BY <1>6, ProcessorAssumption DEF TailPublish, HandlerShape, ReplicaShape
    <2> QED
      BY <1>6, <2>1 DEF TailPublish
  <1>7. CASE Shutdown(c)
    BY SMTT(30), <1>7, ProcessorAssumption DEF Shutdown, storeVars
  <1> QED
    BY <1>1, <1>2, <1>3, <1>4, <1>5, <1>6, <1>7 DEF LocalStep

\* What HandlerShape, DeadLetterJustified and TeeAfterCommit ask of the replica
\* that takes a local step.
ShapeAfter(c) ==
  /\ cur'[c] = NoMsg <=> phase'[c] \in {"down", "idle"}
  /\ phase'[c] = "down" => buffer'[c] = {} /\ ~conn'[c]
  /\ cur'[c] \notin buffer'[c]
  /\ conn'[c] # conn[c] => unacked[c] = {} /\ InHand(c) = {}
  /\ phase'[c] \in {"archive", "tail", "ack"} => cur'[c] \in Stored'
  /\ phase'[c] \in {"persist", "archive"} => attempt'[c] < Attempts
  /\ phase'[c] = "nack" =>
       \/ cur'[c].event \in Poison
       \/ attempt'[c] = Attempts
       \/ attempt'[c] > 0 /\ cancelled'[c]
  /\ archived' \cup tailed' \subseteq Stored'

\* Each local step preserves what is said about the replica that takes it.
LEMMA LocalStepShape ==
  ASSUME NEW c \in Consumer, IInv, LocalStep(c)
  PROVE  ShapeAfter(c)
  <1> USE AttemptsPositive, ProcessorAssumption DEF IInv, TypeOK, ProcessorTypeOK
  <1>h. /\ cur[c] = NoMsg <=> phase[c] \in {"down", "idle"}
        /\ phase[c] = "down" => buffer[c] = {} /\ ~conn[c]
        /\ cur[c] \notin buffer[c]
        /\ unacked[c] = IF conn[c] THEN InHand(c) ELSE {}
        /\ phase[c] \in {"archive", "tail", "ack"} => cur[c] \in Stored
        /\ phase[c] \in {"persist", "archive"} => attempt[c] < Attempts
    BY DEF HandlerShape, ReplicaShape
  <1>t. archived \cup tailed \subseteq Stored
    BY DEF TeeAfterCommit
  <1>d. phase[c] = "nack" =>
       \/ cur[c].event \in Poison
       \/ attempt[c] = Attempts
       \/ attempt[c] > 0 /\ cancelled[c]
    BY DEF DeadLetterJustified
  <1>r. attempt[c] \in Nat
    BY SMTT(30)
  <1>1. CASE Start(c)
    <2>1. cur[c] = NoMsg /\ buffer[c] = {} /\ unacked[c] = {}
      BY <1>1, <1>h DEF Start
    <2>2. InHand(c) = {}
      BY <2>1 DEF InHand
    <2>3. /\ phase'[c] = "idle" /\ cur' = cur /\ buffer' = buffer
          /\ archived' = archived /\ tailed' = tailed /\ Stored' = Stored
      BY <1>1 DEF Start, storeVars, Stored
    <2> QED
      BY <2>1, <2>2, <2>3, <1>t DEF ShapeAfter
  <1>2. ASSUME NEW m \in Message, Take(c, m) PROVE ShapeAfter(c)
    <2>1. /\ cur'[c] = m /\ m # NoMsg /\ buffer'[c] = buffer[c] \ {m} /\ attempt'[c] = 0
          /\ phase'[c] = IF m.event \in Poison THEN "nack" ELSE "persist"
      BY <1>2 DEF Take
    <2>2. conn' = conn /\ archived' = archived /\ tailed' = tailed /\ Stored' = Stored
      BY <1>2 DEF Take, storeVars, Stored
    <2>3. phase'[c] \in {"nack", "persist"} /\ 0 < Attempts
      BY SMTT(30), <2>1
    <2> QED
      BY <2>1, <2>2, <2>3, <1>t DEF ShapeAfter
  <1>3. CASE AppendOk(c)
    <2>1. cur[c] \in Message /\ cur[c] \in Stored' /\ Stored \subseteq Stored'
      BY SMTT(30), <1>3, <1>h DEF AppendOk, Stored
    <2> QED
      BY SMTT(30), <1>3, <1>h, <1>t, <2>1 DEF AppendOk, AfterPersist, ShapeAfter
  <1>4. ASSUME NEW committed \in BOOLEAN, AppendFail(c, committed) PROVE ShapeAfter(c)
    <2>1. cur[c] \in Message /\ Stored \subseteq Stored'
      BY SMTT(30), <1>4, <1>h DEF AppendFail, Stored
    <2>2. attempt'[c] = attempt[c] + 1 /\ phase'[c] = IF Retry(c) THEN "persist" ELSE "nack"
      BY <1>4 DEF AppendFail
    <2> QED
      BY SMTT(30), <1>4, <1>h, <1>t, <1>r, <2>1, <2>2 DEF AppendFail, Retry, ShapeAfter
  <1>5. ASSUME NEW ok \in BOOLEAN, NEW written \in BOOLEAN, Archive(c, ok, written) PROVE ShapeAfter(c)
    <2>1. Stored' = Stored /\ cur[c] \in Stored
      BY <1>5, <1>h DEF Archive, Stored
    <2>2. /\ attempt'[c] = IF ok THEN attempt[c] ELSE attempt[c] + 1
          /\ phase'[c] = IF ~ok /\ Retry(c) THEN "archive" ELSE "tail"
      BY <1>5 DEF Archive
    <2> QED
      BY <1>5, <1>h, <1>t, <1>r, <2>1, <2>2 DEF Archive, Retry, ShapeAfter
  <1>6. ASSUME NEW ok \in BOOLEAN, TailPublish(c, ok) PROVE ShapeAfter(c)
    BY <1>6, <1>h, <1>t DEF TailPublish, ShapeAfter, Stored
  <1>7. CASE Shutdown(c)
    BY <1>7, <1>h, <1>t, <1>d DEF Shutdown, storeVars, Stored, ShapeAfter
  <1> QED
    BY <1>1, <1>2, <1>3, <1>4, <1>5, <1>6, <1>7 DEF LocalStep

\* An undisturbed message whose row the replica has not written yet still has
\* none after a local step.
LEMMA LocalStepRows ==
  ASSUME NEW c \in Consumer, IInv, LocalStep(c)
  PROVE  /\ buffer'[c] \subseteq buffer[c]
         /\ \A m \in Message \ disturbed' :
              m = cur'[c] /\ phase'[c] \in {"persist", "nack"} => rows'[m] = 0
  <1> USE DEF IInv, TypeOK, ProcessorTypeOK
  <1>h. \A m \in Message \ disturbed :
          /\ m \in buffer[c] => rows[m] = 0
          /\ m = cur[c] /\ phase[c] \in {"persist", "nack"} => rows[m] = 0
    BY DEF RowsMatchPlace, RowsFor
  <1>1. CASE Start(c)
    BY <1>1, <1>h DEF Start, storeVars
  <1>2. ASSUME NEW m \in Message, Take(c, m)
        PROVE  /\ UNCHANGED <<rows, disturbed>>
               /\ buffer'[c] = buffer[c] \ {m} /\ m \in buffer[c] /\ cur'[c] = m
    BY <1>2 DEF Take, storeVars
  <1>3. CASE AppendOk(c)
    BY <1>3 DEF AppendOk, AfterPersist
  <1>4. ASSUME NEW committed \in BOOLEAN, AppendFail(c, committed)
        PROVE  /\ UNCHANGED <<buffer, cur>> /\ disturbed \subseteq disturbed' /\ phase[c] = "persist"
               /\ cur[c] \notin disturbed' => UNCHANGED rows
    BY <1>4 DEF AppendFail
  <1>5. ASSUME NEW ok \in BOOLEAN, NEW written \in BOOLEAN, Archive(c, ok, written)
        PROVE  UNCHANGED buffer /\ phase'[c] \in {"archive", "tail"}
    BY <1>5 DEF Archive
  <1>6. ASSUME NEW ok \in BOOLEAN, TailPublish(c, ok)
        PROVE  UNCHANGED buffer /\ phase'[c] = "ack"
    BY <1>6 DEF TailPublish
  <1>7. CASE Shutdown(c)
    BY <1>7, <1>h DEF Shutdown, storeVars
  <1> QED
    BY <1>1, <1>2, <1>3, <1>4, <1>5, <1>6, <1>7, <1>h DEF LocalStep

-----------------------------------------------------------------------------
\* A local step of a replica preserves the invariant.
LEMMA LocalStepIInv ==
  ASSUME NEW c \in Consumer, IInv, LocalStep(c), UNCHANGED ingestVars
  PROVE  IInv'
  <1>b. BrokerTypeOK /\ IngestTypeOK /\ ProcessorTypeOK /\ OnePlace /\ HandlerShape /\ RowsMatchPlace
    BY DEF IInv, TypeOK
  <1>p. ProcessorTypeOK'
    BY LocalStepType
  <1>f. /\ UNCHANGED brokerVars
        /\ \A d \in Consumer \ {c} :
             /\ phase'[d] = phase[d] /\ conn'[d] = conn[d] /\ cancelled'[d] = cancelled[d]
             /\ buffer'[d] = buffer[d] /\ cur'[d] = cur[d] /\ attempt'[d] = attempt[d]
        /\ InHand(c)' = InHand(c)
        /\ \A m \in Message : rows'[m] # rows[m] => m = cur[c] /\ phase[c] = "persist" /\ rows'[m] = rows[m] + 1
        /\ disturbed \subseteq disturbed'
    BY LocalStepFrame
  <1>u. /\ wire' = wire /\ taken' = taken /\ queue' = queue /\ unacked' = unacked /\ dlq' = dlq
        /\ Held' = Held
    BY <1>f, UnchangedSets DEF brokerVars
  <1>a. ShapeAfter(c)
    BY LocalStepShape
  <1>i. \A d \in Consumer : InHand(d)' = InHand(d)
    BY <1>f DEF InHand
  <1>s. Stored \subseteq Stored' /\ \A m \in Stored' \ Stored : m \in InHand(c) /\ m = cur[c]
    BY SMTT(30), <1>f, <1>b, <1>p DEF Stored, ProcessorTypeOK, InHand
  <1>1. TypeOK' /\ ConfirmedBacked'
    BY <1>u, <1>p, <1>b, IngestUnchanged DEF TypeOK, BrokerTypeOK
  <1>2. OnePlace'
    <2>1. Stored' \subseteq taken
      BY <1>b, <1>s DEF OnePlace
    <2> QED
      BY <1>b, <1>u, <1>i, <2>1 DEF OnePlace, ingestVars
  <1>3. HandlerShape'
    <2> SUFFICES ASSUME NEW d \in Consumer
                 PROVE  ReplicaShape(d)'
      BY DEF HandlerShape
    <2>0. ReplicaShape(d)
      BY <1>b DEF HandlerShape
    <2>1. CASE d = c
      <3>1. conn[c] \in BOOLEAN /\ conn'[c] \in BOOLEAN
        BY <1>b, <1>p DEF ProcessorTypeOK
      <3>2. unacked'[c] = IF conn'[c] THEN InHand(c)' ELSE {}
        BY <2>0, <2>1, <3>1, <1>a, <1>u, <1>i DEF ShapeAfter, ReplicaShape
      <3> QED
        BY <2>1, <3>2, <1>a DEF ShapeAfter, ReplicaShape
    <2>2. CASE d # c
      <3>1. /\ phase'[d] = phase[d] /\ conn'[d] = conn[d] /\ buffer'[d] = buffer[d]
            /\ cur'[d] = cur[d] /\ attempt'[d] = attempt[d] /\ unacked'[d] = unacked[d]
            /\ InHand(d)' = InHand(d)
        BY <2>2, <1>f, <1>u, <1>i
      <3> QED
        BY <2>0, <3>1, <1>s DEF ReplicaShape
    <2> QED
      BY <2>1, <2>2
  <1>4. NothingLost'
    BY <1>u, <1>s DEF IInv, NothingLost, Safe
  <1>5. DeadLetterJustified' /\ TeeAfterCommit'
    BY SMTT(30), <1>a, <1>f DEF IInv, DeadLetterJustified, TeeAfterCommit, ShapeAfter
  <1>6. RowsMatchPlace'
    <2> SUFFICES ASSUME NEW m \in Message \ disturbed'
                 PROVE  RowsFor(m)'
      BY DEF RowsMatchPlace
    <2>0. m \in Message \ disturbed /\ RowsFor(m)
      BY <1>f, <1>b DEF RowsMatchPlace
    <2>1. ASSUME NEW d \in Consumer, m \in InHand(d)
          PROVE  conn'[d] /\ m \in unacked[d]
      <3>0. ReplicaShape(d)
        BY <1>b DEF HandlerShape
      <3>1. conn[d] /\ m \in unacked[d]
        BY <2>0, <2>1, <3>0 DEF RowsFor, ReplicaShape
      <3>2. conn'[d] = conn[d]
        BY <1>a, <1>f, <3>1 DEF ShapeAfter
      <3> QED
        BY <3>1, <3>2
    <2>2. \A d \in Consumer : buffer'[d] \subseteq buffer[d]
      BY <1>f, LocalStepRows
    \* What is left of RowsFor when the broker's sets and InHand are unchanged.
    <2>3. ASSUME rows'[m] <= 1,
                 m \in queue \cup dlq => rows'[m] = 0,
                 \A d \in Consumer : m \in buffer'[d] => rows'[m] = 0,
                 \A d \in Consumer :
                   m = cur'[d] /\ phase'[d] \in {"persist", "nack"} => rows'[m] = 0
          PROVE  RowsFor(m)'
      BY <1>u, <1>i, <2>1, <2>3 DEF RowsFor
    <2>4. CASE rows'[m] = rows[m]
      <3>1. ASSUME NEW d \in Consumer, m = cur'[d], phase'[d] \in {"persist", "nack"}
            PROVE  rows'[m] = 0
        <4>1. CASE d = c
          BY <2>0, <2>4, <3>1, <4>1, LocalStepRows DEF RowsFor
        <4>2. CASE d # c
          BY <2>0, <2>4, <3>1, <4>2, <1>f DEF RowsFor
        <4> QED
          BY <4>1, <4>2
      <3>2. \A d \in Consumer : m \in buffer'[d] => rows'[m] = 0
        BY <2>0, <2>2, <2>4 DEF RowsFor
      <3>3. rows'[m] <= 1 /\ (m \in queue \cup dlq => rows'[m] = 0)
        BY <2>0, <2>4 DEF RowsFor
      <3> QED
        BY <2>3, <3>1, <3>2, <3>3
    <2>5. CASE rows'[m] # rows[m]
      <3>1. m = cur[c] /\ phase[c] = "persist" /\ rows[m] = 0 /\ rows'[m] = 1
        BY SMTT(30), <2>0, <2>5, <1>f DEF RowsFor
      <3>2. m \in InHand(c) /\ m \in unacked[c]
        BY <3>1, <2>1 DEF InHand
      <3>3. m \notin buffer[c] /\ m \notin queue \cup dlq
        BY <3>1, <3>2, <1>b DEF HandlerShape, ReplicaShape, OnePlace
      <3>4. ASSUME NEW d \in Consumer \ {c} PROVE m \notin InHand(d)
        BY <3>2, <3>4, <2>1, <1>b DEF OnePlace
      <3>5. \A d \in Consumer : m \notin buffer'[d]
        BY <3>3, <3>4, <2>2 DEF InHand
      <3>6. ASSUME NEW d \in Consumer, m = cur'[d], phase'[d] \in {"persist", "nack"}
            PROVE  rows'[m] = 0
        <4>1. d = c
          BY <3>4, <3>6, <1>f DEF InHand
        <4> QED
          BY <4>1, <3>6, LocalStepRows
      <3> QED
        BY SMTT(30), <3>1, <3>3, <3>5, <3>6, <2>3
    <2> QED
      BY <2>4, <2>5
  <1> QED
    BY <1>1, <1>2, <1>3, <1>4, <1>5, <1>6 DEF IInv

\* A delivery by the broker preserves the invariant.
LEMMA DeliverIInv ==
  ASSUME NEW c \in Consumer, NEW m \in Message, IInv, Deliver(c, m), UNCHANGED ingestVars
  PROVE  IInv'
  <1>b. BrokerTypeOK /\ IngestTypeOK /\ ProcessorTypeOK /\ OnePlace /\ HandlerShape /\ RowsMatchPlace
    BY DEF IInv, TypeOK
  <1>u. /\ conn[c] /\ m \in queue /\ queue' = queue \ {m}
        /\ UNCHANGED <<wire, taken, dlq, phase, conn, cancelled, cur, attempt, rows, archived,
                      tailed, disturbed, faults>>
    BY DEF Deliver, storeVars
  <1>d. /\ unacked'[c] = unacked[c] \cup {m} /\ buffer'[c] = buffer[c] \cup {m}
        /\ \A d \in Consumer \ {c} : unacked'[d] = unacked[d] /\ buffer'[d] = buffer[d]
    BY <1>b DEF Deliver, BrokerTypeOK, ProcessorTypeOK
  <1>s. Held' = Held /\ Stored' = Stored
    BY SMTT(30), <1>u, <1>d DEF Held, Stored
  <1>i. InHand(c)' = InHand(c) \cup {m} /\ \A d \in Consumer \ {c} : InHand(d)' = InHand(d)
    BY <1>u, <1>d DEF InHand
  <1>1. TypeOK' /\ ConfirmedBacked'
    BY <1>u, <1>b, IngestUnchanged DEF TypeOK, BrokerTypeOK, ProcessorTypeOK, Deliver, storeVars
  <1>m. m \in taken /\ m \notin dlq /\ \A d \in Consumer : m \notin unacked[d]
    BY <1>u, <1>b DEF OnePlace, Held
  <1>2. OnePlace'
    <2>1. \A d \in Consumer : InHand(d)' \subseteq taken
      BY <1>i, <1>m, <1>b DEF OnePlace
    <2>2. \A d \in Consumer : unacked'[d] \cap (queue' \cup dlq) = {}
      BY SMTT(30), <1>u, <1>d, <1>m, <1>b DEF OnePlace
    <2>3. \A d, e \in Consumer : d # e => unacked'[d] \cap unacked'[e] = {}
      BY SMTT(30), <1>d, <1>m, <1>b DEF OnePlace
    <2> QED
      BY <1>u, <1>s, <1>b, <2>1, <2>2, <2>3 DEF OnePlace, ingestVars
  <1>3. HandlerShape'
    <2>1. unacked[c] = InHand(c) /\ phase[c] # "down" /\ cur[c] # m
      BY <1>u, <1>m, <1>b DEF HandlerShape, ReplicaShape, InHand
    <2> QED
      BY <1>u, <1>d, <1>i, <1>s, <1>b, <2>1 DEF HandlerShape, ReplicaShape
  <1>4. NothingLost' /\ DeadLetterJustified' /\ TeeAfterCommit'
    BY <1>u, <1>s DEF IInv, NothingLost, Safe, DeadLetterJustified, TeeAfterCommit
  <1>5. RowsMatchPlace'
    BY SMTT(30), <1>u, <1>d, <1>i, <1>b DEF RowsMatchPlace, RowsFor
  <1> QED
    BY <1>1, <1>2, <1>3, <1>4, <1>5 DEF IInv

-----------------------------------------------------------------------------
(* Settling a delivery and losing a channel. *)

\* handleDelivery settling a delivery preserves the invariant: an acknowledged
\* message is stored, a refused one is in the dead letter queue, and a message
\* of a channel that is gone is still where the broker put it.
LEMMA SettleIInv ==
  ASSUME NEW c \in Consumer, IInv, Ack(c) \/ Nack(c), UNCHANGED ingestVars
  PROVE  IInv'
  <1> DEFINE m == cur[c]
  <1>b. BrokerTypeOK /\ IngestTypeOK /\ ProcessorTypeOK /\ OnePlace /\ HandlerShape /\ RowsMatchPlace
    BY DEF IInv, TypeOK
  <1>m. m \in Message /\ m \in InHand(c) /\ phase[c] \in {"ack", "nack"} /\ NoMsg \notin Message
    BY <1>b, ProcessorAssumption DEF HandlerShape, ReplicaShape, ProcessorTypeOK, Ack, Nack, InHand
  <1>u. UNCHANGED <<wire, taken, queue, conn, cancelled, buffer, rows, archived, tailed, disturbed, faults>>
    BY DEF Ack, Nack, AckDelivery, NackDelivery, Settled, storeVars
  <1>d. /\ unacked'[c] = unacked[c] \ {m}
        /\ phase'[c] = "idle" /\ cur'[c] = NoMsg /\ attempt'[c] = 0
        /\ \A d \in Consumer \ {c} :
             /\ unacked'[d] = unacked[d] /\ phase'[d] = phase[d]
             /\ cur'[d] = cur[d] /\ attempt'[d] = attempt[d]
    BY <1>b DEF Ack, Nack, AckDelivery, NackDelivery, Settled, BrokerTypeOK, ProcessorTypeOK
  <1>q. /\ dlq \subseteq dlq' /\ dlq' \subseteq dlq \cup {m}
        /\ m \in dlq' \ dlq => m \in unacked[c] /\ phase[c] = "nack"
        /\ m \in unacked[c] => m \in Stored \/ m \in dlq'
    BY <1>b DEF Ack, Nack, AckDelivery, NackDelivery, HandlerShape, ReplicaShape
  <1>s. Stored' = Stored /\ Held' \subseteq Held /\ Held \subseteq Held' \cup (unacked[c] \cap {m})
    BY SMTT(30), <1>u, <1>d DEF Held, Stored
  <1>i. InHand(c)' = InHand(c) \ {m} /\ \A d \in Consumer \ {c} : InHand(d)' = InHand(d)
    BY <1>u, <1>d, <1>m, <1>b DEF InHand, HandlerShape, ReplicaShape
  <1>1. TypeOK' /\ ConfirmedBacked'
    <2>1. BrokerTypeOK'
      BY <1>u, <1>q, <1>m, <1>b DEF BrokerTypeOK, Ack, Nack, AckDelivery, NackDelivery
    <2>2. ProcessorTypeOK'
      BY SMTT(30), <1>b, AttemptsPositive DEF ProcessorTypeOK, Ack, Nack, Settled, storeVars, Phase
    <2> QED
      BY <2>1, <2>2, <1>u, IngestUnchanged DEF TypeOK
  <1>2. OnePlace'
    <2>1. dlq' \subseteq taken /\ queue \cap dlq' = {}
      BY <1>q, <1>m, <1>b DEF OnePlace
    <2>2. \A d \in Consumer : unacked'[d] \cap (queue \cup dlq') = {}
      BY SMTT(30), <1>q, <1>d, <1>b DEF OnePlace
    <2>3. \A d, e \in Consumer : d # e => unacked'[d] \cap unacked'[e] = {}
      BY <1>d, <1>b DEF OnePlace
    <2>4. \A d \in Consumer : InHand(d)' \subseteq taken
      BY <1>i, <1>b DEF OnePlace
    <2> QED
      BY <1>u, <1>s, <1>b, <2>1, <2>2, <2>3, <2>4 DEF OnePlace, ingestVars
  <1>3. HandlerShape'
    <2>1. NoMsg \notin buffer[c]
      BY <1>m, <1>b DEF ProcessorTypeOK
    <2> SUFFICES ASSUME NEW d \in Consumer
                 PROVE  ReplicaShape(d)'
      BY DEF HandlerShape
    <2>2. ReplicaShape(d) /\ ReplicaShape(c)
      BY <1>b DEF HandlerShape
    <2>3. CASE d = c
      BY <2>1, <2>2, <2>3, <1>u, <1>d, <1>i, <1>s, <1>m DEF ReplicaShape
    <2>4. CASE d # c
      BY <2>2, <2>4, <1>u, <1>d, <1>i, <1>s DEF ReplicaShape
    <2> QED
      BY <2>3, <2>4
  <1>4. NothingLost'
    BY <1>u, <1>s, <1>q DEF IInv, NothingLost, Safe
  <1>5. DeadLetterJustified' /\ TeeAfterCommit'
    BY <1>u, <1>d, <1>s DEF IInv, DeadLetterJustified, TeeAfterCommit
  <1>6. RowsMatchPlace'
    <2>1. m \notin disturbed /\ m \in dlq' \ dlq => rows[m] = 0
      BY <1>q, <1>m, <1>b DEF RowsMatchPlace, RowsFor
    <2> QED
      BY SMTT(30), <2>1, <1>u, <1>d, <1>i, <1>q, <1>b DEF RowsMatchPlace, RowsFor
  <1> QED
    BY <1>1, <1>2, <1>3, <1>4, <1>5, <1>6 DEF IInv

\* The loss of a consumer channel, with or without the replica, preserves the
\* invariant: everything unacknowledged is queued again.
LEMMA ChannelGoneIInv ==
  ASSUME NEW c \in Consumer, IInv, Exit(c) \/ ConnLost(c) \/ Crash(c), UNCHANGED ingestVars
  PROVE  IInv'
  <1>b. BrokerTypeOK /\ IngestTypeOK /\ ProcessorTypeOK /\ OnePlace /\ HandlerShape /\ RowsMatchPlace
    BY DEF IInv, TypeOK
  <1>u. /\ UNCHANGED <<wire, taken, dlq, rows, archived, tailed>>
        /\ queue' = queue \cup unacked[c]
    BY DEF Exit, ConnLost, Crash, Stopped, Requeue, storeVars
  <1>d. /\ unacked'[c] = {} /\ ~conn'[c]
        /\ \A d \in Consumer \ {c} :
             /\ unacked'[d] = unacked[d] /\ phase'[d] = phase[d] /\ conn'[d] = conn[d]
             /\ cancelled'[d] = cancelled[d] /\ buffer'[d] = buffer[d]
             /\ cur'[d] = cur[d] /\ attempt'[d] = attempt[d]
    BY <1>b DEF Exit, ConnLost, Crash, Stopped, Requeue, BrokerTypeOK, ProcessorTypeOK
  <1>c. \/ /\ phase'[c] = phase[c] /\ cur'[c] = cur[c] /\ buffer'[c] = buffer[c]
           /\ attempt'[c] = attempt[c] /\ cancelled'[c] = cancelled[c]
        \/ phase'[c] = "down" /\ cur'[c] = NoMsg /\ buffer'[c] = {}
    BY <1>b DEF Exit, ConnLost, Crash, Stopped, ProcessorTypeOK
  <1>x. \/ disturbed' = disturbed \cup unacked[c]
        \/ phase[c] = "idle" /\ disturbed' = disturbed /\ phase'[c] = "down" /\ cur'[c] = NoMsg
           /\ buffer'[c] = {}
    BY <1>b DEF Exit, ConnLost, Crash, Stopped, ProcessorTypeOK
  <1>s. Stored' = Stored /\ Held' = Held
    BY SMTT(30), <1>u, <1>d DEF Held, Stored
  <1>n. NoMsg \notin Message
    BY ProcessorAssumption
  <1>i. InHand(c)' \subseteq InHand(c) /\ \A d \in Consumer \ {c} : InHand(d)' = InHand(d)
    BY <1>c, <1>d, <1>n DEF InHand
  <1>1. TypeOK' /\ ConfirmedBacked'
    <2>1. BrokerTypeOK'
      BY <1>b DEF BrokerTypeOK, Exit, ConnLost, Crash, Requeue
    <2>2. ProcessorTypeOK'
      <3> USE <1>b DEF ProcessorTypeOK
      <3>1. /\ phase' \in [Consumer -> Phase] /\ conn' \in [Consumer -> BOOLEAN]
            /\ cancelled' \in [Consumer -> BOOLEAN] /\ buffer' \in [Consumer -> SUBSET Message]
        BY DEF Exit, ConnLost, Crash, Stopped, Phase
      <3>2. cur' \in [Consumer -> Message \cup {NoMsg}] /\ attempt' \in [Consumer -> 0..Attempts]
        BY SMTT(30), AttemptsPositive DEF Exit, ConnLost, Crash, Stopped
      <3>3. disturbed' \subseteq Message /\ faults' \in 0..MaxFaults
        BY SMTT(30), <1>x, ProcessorAssumption DEF BrokerTypeOK, Exit, ConnLost, Crash
      <3> QED
        BY <1>u, <3>1, <3>2, <3>3
    <2> QED
      BY <2>1, <2>2, <1>u, IngestUnchanged DEF TypeOK
  <1>2. OnePlace'
    <2>1. queue' \cap dlq = {}
      BY <1>u, <1>b DEF OnePlace
    <2>2. \A d \in Consumer : unacked'[d] \cap (queue' \cup dlq) = {}
      BY <1>u, <1>d, <1>b DEF OnePlace
    <2>3. \A d, e \in Consumer : d # e => unacked'[d] \cap unacked'[e] = {}
      BY <1>d, <1>b DEF OnePlace
    <2>4. \A d \in Consumer : InHand(d)' \subseteq taken
      BY <1>i, <1>b DEF OnePlace
    <2> QED
      BY <1>u, <1>s, <1>b, <2>1, <2>2, <2>3, <2>4 DEF OnePlace, ingestVars
  <1>3. HandlerShape'
    <2>1. phase[c] # "down" \/ phase'[c] = "down"
      BY <1>b DEF HandlerShape, ReplicaShape, Exit, ConnLost, Crash
    <2> SUFFICES ASSUME NEW d \in Consumer
                 PROVE  ReplicaShape(d)'
      BY DEF HandlerShape
    <2>2. CASE d = c
      <3>1. CASE phase'[c] = "down" /\ cur'[c] = NoMsg /\ buffer'[c] = {}
        <4>1. InHand(c)' = {}
          BY <3>1, <1>n DEF InHand
        <4> QED
          BY <2>2, <3>1, <4>1, <1>d DEF ReplicaShape
      <3>2. CASE /\ phase'[c] = phase[c] /\ cur'[c] = cur[c] /\ buffer'[c] = buffer[c]
                 /\ attempt'[c] = attempt[c]
        BY <2>1, <2>2, <3>2, <1>d, <1>s, <1>b DEF HandlerShape, ReplicaShape
      <3> QED
        BY <3>1, <3>2, <1>c
    <2>3. CASE d # c
      BY <2>3, <1>d, <1>i, <1>s, <1>b DEF HandlerShape, ReplicaShape
    <2> QED
      BY <2>2, <2>3
  <1>4. NothingLost' /\ TeeAfterCommit'
    BY <1>u, <1>s DEF IInv, NothingLost, Safe, TeeAfterCommit
  <1>5. DeadLetterJustified'
    BY <1>d, <1>c DEF IInv, DeadLetterJustified
  <1>6. RowsMatchPlace'
    <2> SUFFICES ASSUME NEW m \in Message \ disturbed'
                 PROVE  /\ rows[m] <= 1
                        /\ m \in queue' \cup dlq => rows[m] = 0
                        /\ \A d \in Consumer :
                             /\ m \in InHand(d)' => conn'[d]
                             /\ m \in buffer'[d] => rows[m] = 0
                             /\ m = cur'[d] /\ phase'[d] \in {"persist", "nack"} => rows[m] = 0
      BY <1>u DEF RowsMatchPlace, RowsFor
    <2>0. m \in Message \ disturbed
      BY <1>x
    <2>1. m \in unacked[c] => m \in buffer[c] /\ phase'[c] = "down"
      BY <1>x, <1>b, <1>n DEF HandlerShape, ReplicaShape, InHand
    <2>2. m \notin InHand(c)'
      <3>1. m \in InHand(c) => m \in unacked[c]
        BY <2>0, <1>b DEF RowsMatchPlace, RowsFor, HandlerShape, ReplicaShape
      <3> QED
        BY <3>1, <1>i, <1>x, <1>c, <1>n DEF InHand
    <2> QED
      BY SMTT(30), <2>0, <2>1, <2>2, <1>u, <1>d, <1>i, <1>b DEF RowsMatchPlace, RowsFor, InHand
  <1> QED
    BY <1>1, <1>2, <1>3, <1>4, <1>5, <1>6 DEF IInv

-----------------------------------------------------------------------------
(* The initial state, the ingest-service and the broker. *)

\* The initial state satisfies the inductive invariant.
LEMMA InitIInv == Init => IInv
  <1> SUFFICES ASSUME Init PROVE IInv
    OBVIOUS
  <1> USE DEF Init, BrokerInit, IngestInit, ProcessorInit
  <1>1. TypeOK
    BY SMTT(30), AttemptsPositive, BrokerAssumption, ProcessorAssumption
       DEF TypeOK, BrokerTypeOK, IngestTypeOK, ProcessorTypeOK, ReqState, Phase
  <1>2. Held = {} /\ Stored = {} /\ \A c \in Consumer : InHand(c) = {}
    BY SMTT(30), ProcessorAssumption DEF Held, Stored, InHand
  <1>3. OnePlace
    BY <1>2 DEF OnePlace
  <1>4. HandlerShape
    BY <1>2 DEF HandlerShape, ReplicaShape
  <1>5. NothingLost
    BY <1>2 DEF NothingLost, Safe
  <1>6. ConfirmedBacked
    BY SMTT(30), IngestAssumption DEF ConfirmedBacked, Progress
  <1>7. RowsMatchPlace
    BY SMTT(30), <1>2 DEF RowsMatchPlace, RowsFor
  <1>8. TeeAfterCommit /\ DeadLetterJustified
    BY DEF TeeAfterCommit, DeadLetterJustified
  <1> QED
    BY <1>1, <1>3, <1>4, <1>5, <1>6, <1>7, <1>8 DEF IInv

\* A step of the ingest-service preserves the invariant.
LEMMA IngestStepIInv ==
  ASSUME NEW k \in Client, IInv, IngestStep(k)
  PROVE  IInv'
  <1> USE DEF IInv
  <1>u. UNCHANGED processorVars
    BY DEF IngestStep
  <1>0. UNCHANGED <<queue, unacked, dlq, taken>>
    BY DEF IngestStep, Request, Publish, Confirm, PublishError, ReplyLost, brokerVars
  <1>s. Held' = Held /\ Stored' = Stored /\ \A c \in Consumer : InHand(c)' = InHand(c)
    BY <1>u, <1>0, UnchangedSets DEF processorVars, handlerVars, storeVars
  <1>p. HandlerShape' /\ NothingLost' /\ RowsMatchPlace' /\ TeeAfterCommit' /\ DeadLetterJustified'
    BY SMTT(30), <1>u, <1>0, <1>s
       DEF HandlerShape, ReplicaShape, NothingLost, RowsMatchPlace, RowsFor, TeeAfterCommit, DeadLetterJustified,
           Safe, processorVars, handlerVars, storeVars
  <1>t. Len(Batch[k]) \in Nat /\ \A i \in 1..Len(Batch[k]) : Batch[k][i] \in Event
    BY SMTT(30), IngestAssumption
  <1>b. BrokerTypeOK /\ IngestTypeOK /\ ProcessorTypeOK /\ ProcessorTypeOK'
    BY <1>u DEF TypeOK, ProcessorTypeOK, processorVars, handlerVars, storeVars
  \* What is left to prove of OnePlace when only the wire and tries change.
  <1>o. ASSUME wire' \cap taken = {},
               \A m \in wire' \cup taken : m.copy <= tries'[m.event]
        PROVE  OnePlace'
    BY <1>0, <1>s, <1>o DEF OnePlace
  \* The clients other than k are not concerned, if confirmed only grows.
  <1>c. ASSUME confirmed \subseteq confirmed', confirmed' \subseteq taken,
               \A j \in Client \ {k} : /\ req'[j] = req[j] /\ awaiting'[j] = awaiting[j]
                                       /\ base'[j] = base[j] /\ published'[j] = published[j],
               Progress(k)' \in Nat,
               Progress(k)' <= Len(Batch[k]),
               req'[k] # "idle" => Progress(k)' < Len(Batch[k]),
               req'[k] = "waiting" =>
                 \E m \in Message : awaiting'[k] = {m} /\ m.event = Batch[k][Progress(k)' + 1],
               \A i \in 1..Progress(k)' : \E m \in confirmed' : m.event = Batch[k][i]
        PROVE  ConfirmedBacked'
    BY SMTT(30), <1>0, <1>c DEF ConfirmedBacked, Progress
  <1>n. Progress(k) \in Nat
    BY SMTT(30), <1>b DEF IngestTypeOK, Progress
  <1>1. CASE Request(k)
    <2> USE <1>1 DEF Request, brokerVars
    <2>1. Progress(k)' = base[k] /\ Progress(k)' <= Progress(k)
      BY SMTT(30), <1>b DEF IngestTypeOK, Progress
    <2>2. TypeOK'
      BY <1>b DEF TypeOK, BrokerTypeOK, IngestTypeOK, ReqState
    <2>3. OnePlace'
      BY <1>o DEF OnePlace
    <2>4. ConfirmedBacked'
      <3>1. /\ confirmed' = confirmed /\ req'[k] = "publishing"
            /\ \A j \in Client \ {k} : /\ req'[j] = req[j] /\ awaiting'[j] = awaiting[j]
                                    /\ base'[j] = base[j] /\ published'[j] = published[j]
        BY <1>b DEF IngestTypeOK
      <3>2. Progress(k)' \in Nat /\ Progress(k)' < Len(Batch[k])
        BY SMTT(30), <2>1, <1>b DEF IngestTypeOK
      <3>3. Progress(k)' <= Len(Batch[k])
        BY SMTT(30), <3>2, <1>t
      <3>4. confirmed \subseteq taken
        BY DEF ConfirmedBacked
      <3>5. \A i \in 1..Progress(k)' : \E m \in confirmed' : m.event = Batch[k][i]
        <4>1. \A i \in 1..Progress(k) : \E m \in confirmed : m.event = Batch[k][i]
          BY DEF ConfirmedBacked
        <4>2. 1..Progress(k)' \subseteq 1..Progress(k)
          BY SMTT(30), <2>1, <3>2, <1>n
        <4> QED
          BY <4>1, <4>2, <3>1
      <3> QED
        BY <1>c, <3>1, <3>2, <3>3, <3>4, <3>5
    <2> QED
      BY <1>p, <2>2, <2>3, <2>4
  <1>2. CASE Publish(k)
    <2> DEFINE e == Batch[k][Progress(k) + 1]
               m == [event |-> e, copy |-> tries[e] + 1]
    <2> USE <1>2 DEF Publish
    <2>1. Progress(k) < Len(Batch[k]) /\ e \in Event
      BY SMTT(30), <1>n, <1>t DEF ConfirmedBacked
    <2>2. m \in Message /\ tries[e] \in 0..MaxPublish
      BY SMTT(30), <2>1, <1>b, BrokerAssumption DEF IngestTypeOK, Message
    <2>3. TypeOK'
      BY SMTT(30), <1>b, <2>1, <2>2, BrokerAssumption DEF TypeOK, BrokerTypeOK, IngestTypeOK, ReqState
    <2>4. m \notin wire \cup taken
      BY SMTT(30), <2>2 DEF OnePlace
    <2>5. OnePlace'
      <3>1. wire' \cap taken = {}
        BY <2>4 DEF OnePlace
      <3>2. ASSUME NEW x \in wire' \cup taken
            PROVE  x.copy <= tries'[x.event]
        <4>1. x \in Message /\ x.copy \in Nat /\ x.event \in Event
          BY SMTT(30), <2>2, <1>b, BrokerAssumption DEF BrokerTypeOK, Message
        <4>2. CASE x = m
          BY SMTT(30), <4>2, <2>1, <2>2, <1>b DEF IngestTypeOK
        <4>3. CASE x # m
          <5>1. x.copy <= tries[x.event]
            BY <4>3 DEF OnePlace
          <5>2. tries[x.event] <= tries'[x.event]
            BY SMTT(30), <4>1, <2>1, <2>2, <1>b, BrokerAssumption DEF IngestTypeOK
          <5>3. tries[x.event] \in Nat /\ tries'[x.event] \in Nat
            BY SMTT(30), <4>1, <2>1, <2>2, <1>b, BrokerAssumption DEF IngestTypeOK
          <5> QED
            BY SMTT(30), <5>1, <5>2, <5>3, <4>1
        <4> QED
          BY <4>2, <4>3
      <3> QED
        BY <3>1, <3>2, <1>o
    <2>6. Progress(k)' = Progress(k)
      BY DEF Progress
    <2>7. ConfirmedBacked'
      <3>1. req'[k] = "waiting" /\ awaiting'[k] = {m}
        BY <1>b DEF IngestTypeOK
      <3> QED
        BY <3>1, <2>1, <2>2, <2>6, <1>c, <1>n, <1>b DEF ConfirmedBacked, IngestTypeOK
    <2> QED
      BY <1>p, <2>3, <2>5, <2>7
  <1>3. CASE Confirm(k)
    <2> USE <1>3 DEF Confirm, brokerVars
    <2>1. PICK m \in Message : awaiting[k] = {m} /\ m.event = Batch[k][Progress(k) + 1]
      BY DEF ConfirmedBacked
    <2>2. Progress(k) < Len(Batch[k])
      BY DEF ConfirmedBacked
    <2>3. Progress(k)' = Progress(k) + 1
      BY SMTT(30), <1>b DEF IngestTypeOK, Progress
    <2>4. TypeOK'
      <3>1. BrokerTypeOK'
        BY <1>b DEF BrokerTypeOK
      <3>2. req' \in [Client -> ReqState]
        BY <1>b DEF IngestTypeOK, ReqState
      <3>4. base' \in [Client -> Nat]
        <4>1. Progress(k) + 1 \in Nat
          BY SMTT(30), <1>n
        <4> QED
          BY <4>1, <1>b DEF IngestTypeOK
      <3>5. published' \in [Client -> Nat]
        <4>1. published[k] + 1 \in Nat /\ 0 \in Nat
          BY SMTT(30), <1>b DEF IngestTypeOK
        <4> QED
          BY <4>1, <1>b DEF IngestTypeOK
      <3>3. /\ awaiting' \in [Client -> SUBSET Message]
            /\ tries' \in [Event -> 0..MaxPublish]
            /\ confirmed' \subseteq Message
        BY <2>1, <1>b DEF IngestTypeOK
      <3> QED
        BY <3>1, <3>2, <3>3, <3>4, <3>5, <1>b DEF TypeOK, IngestTypeOK
    <2>5. OnePlace'
      BY <1>o DEF OnePlace
    <2>6. \A i \in 1..Progress(k)' : \E x \in confirmed' : x.event = Batch[k][i]
      BY SMTT(30), <2>1, <2>3, <1>n DEF ConfirmedBacked
    <2>7. /\ req'[k] # "idle" => Progress(k) + 1 < Len(Batch[k])
          /\ req'[k] # "waiting"
      BY SMTT(30), <2>2, <1>n, <1>t, <1>b DEF IngestTypeOK
    <2>8. confirmed \subseteq confirmed' /\ confirmed' \subseteq taken
      BY DEF ConfirmedBacked
    <2>9. ConfirmedBacked'
      <3>1. \A j \in Client \ {k} : /\ req'[j] = req[j] /\ awaiting'[j] = awaiting[j]
                                    /\ base'[j] = base[j] /\ published'[j] = published[j]
        BY <1>b DEF IngestTypeOK
      <3>2. /\ Progress(k)' \in Nat /\ Progress(k)' <= Len(Batch[k])
            /\ req'[k] # "idle" => Progress(k)' < Len(Batch[k])
        BY SMTT(30), <2>2, <2>3, <2>7, <1>n, <1>t
      <3> QED
        BY <3>1, <3>2, <2>6, <2>7, <2>8, <1>c
    <2> QED
      BY <1>p, <2>4, <2>5, <2>9
  <1>4. CASE PublishError(k) \/ ReplyLost(k)
    <2> USE <1>4 DEF PublishError, ReplyLost, brokerVars
    <2>1. Progress(k)' \in Nat /\ Progress(k)' <= Progress(k)
      BY SMTT(30), <1>b DEF IngestTypeOK, Progress
    <2>2. TypeOK'
      BY SMTT(30), <1>n, <1>b DEF TypeOK, BrokerTypeOK, IngestTypeOK, ReqState
    <2>3. OnePlace'
      BY <1>o DEF OnePlace
    <2>4. req'[k] = "idle"
      BY <1>b DEF IngestTypeOK
    <2>5. ConfirmedBacked'
      <3>1. \A j \in Client \ {k} : /\ req'[j] = req[j] /\ awaiting'[j] = awaiting[j]
                                    /\ base'[j] = base[j] /\ published'[j] = published[j]
        BY <1>b DEF IngestTypeOK
      <3>2. /\ Progress(k)' <= Len(Batch[k])
            /\ \A i \in 1..Progress(k)' : \E m \in confirmed' : m.event = Batch[k][i]
        BY SMTT(30), <2>1, <1>n, <1>t DEF ConfirmedBacked
      <3> QED
        BY <3>1, <3>2, <2>1, <2>4, <1>c DEF ConfirmedBacked
    <2> QED
      BY <1>p, <2>2, <2>3, <2>5
  <1> QED
    BY <1>1, <1>2, <1>3, <1>4 DEF IngestStep

\* A step of the broker alone preserves the invariant.
LEMMA BrokerStepIInv ==
  ASSUME IInv, BrokerStep
  PROVE  IInv'
  <1> USE DEF IInv
  <1>1. PICK m \in Message : Receive(m) \/ LoseOnWire(m)
    BY DEF BrokerStep
  <1>u. UNCHANGED <<ingestVars, processorVars>>
    BY DEF BrokerStep
  <1>s. Stored' = Stored /\ \A c \in Consumer : InHand(c)' = InHand(c)
    BY <1>u, UnchangedSets DEF processorVars, handlerVars, storeVars
  <1>b. BrokerTypeOK /\ IngestTypeOK /\ ProcessorTypeOK
    BY DEF TypeOK
  <1>t. TypeOK'
    BY <1>1, <1>u, <1>b DEF TypeOK, BrokerTypeOK, IngestTypeOK, ProcessorTypeOK, Receive,
       LoseOnWire, ingestVars, processorVars, handlerVars, storeVars
  <1>q. unacked' = unacked /\ dlq' = dlq /\ m \in wire
    BY <1>1 DEF Receive, LoseOnWire
  <1>k. \A x \in taken' \ taken : x = m /\ x \in queue'
    BY SMTT(30), <1>1 DEF Receive, LoseOnWire
  <1>h. HandlerShape' /\ TeeAfterCommit' /\ DeadLetterJustified'
    BY <1>u, <1>s, <1>q
       DEF HandlerShape, ReplicaShape, TeeAfterCommit, DeadLetterJustified, processorVars, handlerVars, storeVars
  <1>m. m \notin taken
    BY <1>q DEF OnePlace
  <1>o. OnePlace'
    <2>1. Held' \subseteq Held \cup queue' /\ Held \subseteq taken
      BY <1>q DEF Held, OnePlace
    <2>2. queue' \subseteq queue \cup (taken' \ taken) /\ taken \subseteq taken'
      BY <1>1 DEF Receive, LoseOnWire, OnePlace
    <2>3. wire' \cap taken' = {} /\ \A x \in wire' \cup taken' : x.copy <= tries'[x.event]
      BY <1>1, <1>u, <1>q DEF Receive, LoseOnWire, OnePlace, ingestVars
    <2>4. Held' \cup dlq' \cup Stored' \subseteq taken'
      BY <2>1, <2>2, <1>q, <1>s DEF OnePlace, Held
    <2>5. \A c \in Consumer : InHand(c)' \subseteq taken'
      BY <2>2, <1>s DEF OnePlace
    <2>6. /\ queue' \cap dlq' = {}
          /\ \A c \in Consumer : unacked'[c] \cap (queue' \cup dlq') = {}
      <3>1. \A c \in Consumer : unacked[c] \subseteq taken
        BY DEF OnePlace, Held
      <3> QED
        BY <3>1, <2>2, <1>q DEF OnePlace
    <2> QED
      BY <2>3, <2>4, <2>5, <2>6, <1>q DEF OnePlace
  <1>l. NothingLost'
    BY <1>1, <1>s DEF NothingLost, Safe, Held, Receive, LoseOnWire
  <1>c. ConfirmedBacked'
    <2>1. taken \subseteq taken'
      BY <1>1 DEF Receive, LoseOnWire
    <2> QED
      BY <2>1, <1>u DEF ConfirmedBacked, Progress, ingestVars
  <1>r. RowsMatchPlace'
    <2>1. Stored \subseteq taken
      BY DEF OnePlace
    <2>2. rows[m] = 0
      BY SMTT(30), <2>1, <1>m, <1>b DEF Stored, ProcessorTypeOK
    <2> QED
      BY SMTT(30), <2>2, <1>1, <1>u, <1>s DEF RowsMatchPlace, RowsFor, Receive, LoseOnWire, processorVars, handlerVars, storeVars
  <1> QED
    BY <1>t, <1>h, <1>o, <1>l, <1>c, <1>r

-----------------------------------------------------------------------------
(* The theorems. *)

\* The invariant is inductive.
LEMMA NextIInv ==
  ASSUME IInv, [Next]_vars
  PROVE  IInv'
  <1>1. CASE BrokerStep
    BY <1>1, BrokerStepIInv
  <1>2. ASSUME NEW k \in Client, IngestStep(k) PROVE IInv'
    BY <1>2, IngestStepIInv
  <1>3. ASSUME NEW c \in Consumer, ConsumerStep(c) PROVE IInv'
    <2>1. UNCHANGED ingestVars
      BY <1>3 DEF ConsumerStep
    <2>2. CASE LocalStep(c)
      BY <2>1, <2>2, LocalStepIInv
    <2>3. ASSUME NEW m \in Message, Deliver(c, m) PROVE IInv'
      BY <2>1, <2>3, DeliverIInv
    <2>4. CASE Ack(c) \/ Nack(c)
      BY <2>1, <2>4, SettleIInv
    <2>5. CASE Exit(c) \/ ConnLost(c) \/ Crash(c)
      BY <2>1, <2>5, ChannelGoneIInv
    <2> QED
      BY <1>3, <2>2, <2>3, <2>4, <2>5 DEF ConsumerStep, Handle, Fault, LocalStep
  <1>4. CASE UNCHANGED vars
    BY SMTT(30), <1>4 DEF vars, brokerVars, ingestVars, processorVars, handlerVars, storeVars,
       IInv, TypeOK, BrokerTypeOK, IngestTypeOK, ProcessorTypeOK, OnePlace, HandlerShape,
       ReplicaShape, NothingLost, ConfirmedBacked, RowsMatchPlace, RowsFor, TeeAfterCommit,
       DeadLetterJustified,
       Held, Stored, InHand, Safe, Progress
  <1> QED
    BY <1>1, <1>2, <1>3, <1>4 DEF Next

\* The inductive invariant, types included, holds in every reachable state of
\* the ingest path.
THEOREM Invariance == Spec => []IInv
  BY InitIInv, NextIInv, PTL DEF Spec

\* Type correctness of every variable of the ingest path.
THEOREM TypeCorrect == Spec => []TypeOK
  <1>1. IInv => TypeOK
    BY DEF IInv
  <1> QED
    BY <1>1, Invariance, PTL

\* No acknowledged loss, for any number of clients, replicas, retries and
\* faults: what a client was told is confirmed is queued, in a consumer's hands,
\* committed or dead-lettered.
THEOREM NoLoss == Spec => []NoAcknowledgedLoss
  <1>1. IInv => NoAcknowledgedLoss
    <2> SUFFICES ASSUME IInv, NEW k \in Client, NEW i \in 1..base[k]
                 PROVE  \E m \in Safe : m.event = Batch[k][i]
      BY DEF NoAcknowledgedLoss
    <2>1. base[k] \in Nat /\ published[k] \in Nat
      BY DEF IInv, TypeOK, IngestTypeOK
    <2>2. i \in 1..Progress(k)
      BY SMTT(30), <2>1 DEF Progress
    <2>3. PICK m \in confirmed : m.event = Batch[k][i]
      BY <2>2 DEF IInv, ConfirmedBacked
    <2>4. m \in Safe
      BY <2>3 DEF IInv, ConfirmedBacked, NothingLost
    <2> QED
      BY <2>3, <2>4
  <1> QED
    BY <1>1, Invariance, PTL

\* Without a broken channel or an error reported for a commit there is no
\* duplicate, in log_events or between it and the dead letter queue; shutting
\* replicas down at any point causes none.
THEOREM NoDuplicate == Spec => []DuplicateOnlyIfDisturbed
  <1>1. IInv => DuplicateOnlyIfDisturbed
    BY DEF IInv, RowsMatchPlace, RowsFor, DuplicateOnlyIfDisturbed
  <1> QED
    BY <1>1, Invariance, PTL

\* The cold archive and the tail bus only see committed events.
THEOREM TeeOrder == Spec => []TeeAfterCommit
  <1>1. IInv => TeeAfterCommit
    BY DEF IInv
  <1> QED
    BY <1>1, Invariance, PTL

\* A delivery is refused for one of the three reasons persist has.
THEOREM DeadLetterReasons == Spec => []DeadLetterJustified
  <1>1. IInv => DeadLetterJustified
    BY DEF IInv
  <1> QED
    BY <1>1, Invariance, PTL

-----------------------------------------------------------------------------
(* The refinement.                                                         *)

\* The initial state is the initial state of DurableLog.
LEMMA InitRefines == Init => Promise!Init
  BY SMTT(30) DEF Init, BrokerInit, IngestInit, ProcessorInit, Promise!Init, Held, Stored

\* Accepting, confirming, storing, acknowledging and dead-lettering are the
\* steps of DurableLog; every other step leaves its variables alone.
LEMMA StepRefines ==
  ASSUME IInv, [Next]_vars
  PROVE  [Promise!Next]_(Promise!vars)
  <1>b. BrokerTypeOK /\ IngestTypeOK /\ ProcessorTypeOK /\ OnePlace /\ HandlerShape /\ NothingLost
    BY DEF IInv, TypeOK
  <1> USE DEF Promise!vars
  \* A step that keeps the four mapped variables is a stutter.
  <1>n. ASSUME UNCHANGED <<confirmed, queue, unacked, rows, dlq>>
        PROVE  UNCHANGED Promise!vars
    BY <1>n, UnchangedSets
  <1>1. CASE BrokerStep
    <2>1. UNCHANGED <<confirmed, rows>>
      BY <1>1 DEF BrokerStep, ingestVars, processorVars, storeVars
    <2>2. ASSUME NEW m \in Message, Receive(m) PROVE Promise!Accept(m)
      <3>1. m \notin Held \cup Stored \cup dlq
        BY <2>2, <1>b DEF Receive, OnePlace
      <3>2. Held' = Held \cup {m} /\ Stored' = Stored /\ dlq' = dlq
        BY <2>1, <2>2, UnchangedSets DEF Receive, Held
      <3> QED
        BY <2>1, <3>1, <3>2 DEF Promise!Accept
    <2>3. ASSUME NEW m \in Message, LoseOnWire(m) PROVE UNCHANGED Promise!vars
      BY <2>1, <2>3, <1>n DEF LoseOnWire
    <2> QED
      BY <1>1, <2>2, <2>3 DEF BrokerStep, Promise!Next
  <1>2. ASSUME NEW k \in Client, IngestStep(k)
        PROVE  [Promise!Next]_(Promise!vars)
    <2>1. UNCHANGED <<queue, unacked, dlq, rows>>
      BY <1>2 DEF IngestStep, Request, Publish, Confirm, PublishError, ReplyLost,
                  brokerVars, processorVars, storeVars
    <2>2. CASE Confirm(k)
      <3>1. PICK m \in Message : awaiting[k] = {m}
        BY <2>2 DEF Confirm, IInv, ConfirmedBacked
      <3>2. m \in Held \cup Stored \cup dlq /\ confirmed' = confirmed \cup {m}
        BY <2>2, <3>1, <1>b DEF Confirm, NothingLost, Safe
      <3>3. Promise!Confirm(m)
        BY <2>1, <3>2, UnchangedSets DEF Promise!Confirm
      <3> QED
        BY <3>3 DEF Promise!Next
    <2>3. CASE ~Confirm(k)
      BY <1>2, <2>1, <2>3, <1>n DEF IngestStep, Request, Publish, PublishError, ReplyLost
    <2> QED
      BY <2>2, <2>3
  <1>3. ASSUME NEW c \in Consumer, ConsumerStep(c)
        PROVE  [Promise!Next]_(Promise!vars)
    <2>1. UNCHANGED confirmed
      BY <1>3 DEF ConsumerStep, ingestVars
    <2>2. CASE \/ Start(c)
               \/ \E m \in Message : Take(c, m)
               \/ \E ok, written \in BOOLEAN : Archive(c, ok, written)
               \/ \E ok \in BOOLEAN : TailPublish(c, ok)
               \/ Shutdown(c)
      BY <2>1, <2>2, <1>n
         DEF Start, Take, Archive, TailPublish, Shutdown, storeVars, brokerVars
    <2>3. CASE AppendOk(c) \/ \E committed \in BOOLEAN : AppendFail(c, committed)
      <3>1. cur[c] \in Message /\ cur[c] \in Held \cup Stored \cup dlq
        <4>1. cur[c] \in Message
          BY <2>3, <1>b DEF AppendOk, AppendFail, HandlerShape, ReplicaShape, ProcessorTypeOK
        <4>2. cur[c] \in taken
          BY <4>1, <1>b DEF OnePlace, InHand
        <4> QED
          BY <4>1, <4>2, <1>b DEF NothingLost, Safe
      <3>2. UNCHANGED <<queue, unacked, dlq>> /\ Held' = Held
        BY <2>3, UnchangedSets DEF AppendOk, AppendFail, brokerVars
      <3>3. rows' = rows \/ rows' = [rows EXCEPT ![cur[c]] = @ + 1]
        BY <2>3, <1>b DEF AppendOk, AppendFail, ProcessorTypeOK
      <3>4. CASE rows' = rows
        BY <2>1, <3>2, <3>4, <1>n
      <3>5. CASE rows' = [rows EXCEPT ![cur[c]] = @ + 1]
        <4>1. Stored' = Stored \cup {cur[c]}
          BY SMTT(30), <3>1, <3>5, <1>b DEF Stored, ProcessorTypeOK
        <4>2. Promise!Store(cur[c])
          BY <2>1, <3>1, <3>2, <4>1 DEF Promise!Store
        <4> QED
          BY <3>1, <4>2 DEF Promise!Next
      <3> QED
        BY <3>3, <3>4, <3>5
    <2>4. CASE Ack(c) \/ Nack(c)
      <3>1. cur[c] \in Message /\ UNCHANGED <<queue, rows>> /\ Stored' = Stored
        BY <2>4, <1>b, UnchangedSets
           DEF Ack, Nack, AckDelivery, NackDelivery, Settled, HandlerShape, ReplicaShape, ProcessorTypeOK, storeVars
      <3>2. unacked' = [unacked EXCEPT ![c] = @ \ {cur[c]}]
        BY <2>4 DEF Ack, Nack, AckDelivery, NackDelivery
      <3>3. CASE cur[c] \notin unacked[c]
        <4>1. unacked' = unacked
          BY <3>2, <3>3, <1>b DEF BrokerTypeOK
        <4> QED
          BY <2>1, <2>4, <3>1, <3>3, <4>1, <1>n DEF Ack, Nack, AckDelivery, NackDelivery
      <3>4. CASE cur[c] \in unacked[c]
        <4>1. cur[c] \in Held /\ Held' = Held \ {cur[c]}
          <5>1. cur[c] \notin queue /\ \A d \in Consumer \ {c} : cur[c] \notin unacked[d]
            BY <3>4, <1>b DEF OnePlace
          <5>2. /\ unacked'[c] = unacked[c] \ {cur[c]}
                /\ \A d \in Consumer \ {c} : unacked'[d] = unacked[d]
            BY <3>2, <1>b DEF BrokerTypeOK
          <5> QED
            BY SMTT(30), <3>1, <3>4, <5>1, <5>2 DEF Held
        <4>2. CASE Ack(c)
          <5>1. cur[c] \in Stored /\ dlq' = dlq
            BY <4>2, <1>b DEF Ack, AckDelivery, HandlerShape, ReplicaShape
          <5>2. Promise!Release(cur[c])
            BY <2>1, <3>1, <4>1, <5>1 DEF Promise!Release
          <5> QED
            BY <3>1, <5>2 DEF Promise!Next
        <4>3. CASE Nack(c)
          <5>1. dlq' = dlq \cup {cur[c]}
            BY <4>3, <3>4 DEF Nack, NackDelivery
          <5>2. Promise!Bury(cur[c])
            BY <2>1, <3>1, <4>1, <5>1 DEF Promise!Bury
          <5> QED
            BY <3>1, <5>2 DEF Promise!Next
        <4> QED
          BY <2>4, <4>2, <4>3
      <3> QED
        BY <3>3, <3>4
    <2>5. CASE \/ \E m \in Message : Deliver(c, m)
               \/ Exit(c) \/ ConnLost(c) \/ Crash(c)
      <3>1. UNCHANGED <<dlq, rows>> /\ Stored' = Stored
        BY <2>5, UnchangedSets DEF Deliver, Exit, ConnLost, Crash, Requeue, Stopped, storeVars
      <3>2. Held' = Held
        <4>1. /\ queue' \cup unacked'[c] = queue \cup unacked[c]
              /\ \A d \in Consumer \ {c} : unacked'[d] = unacked[d]
          BY SMTT(30), <2>5, <1>b DEF Deliver, Exit, ConnLost, Crash, Requeue, BrokerTypeOK
        <4> QED
          BY <4>1 DEF Held
      <3> QED
        BY <2>1, <3>1, <3>2
    <2> QED
      BY <1>3, <2>2, <2>3, <2>4, <2>5 DEF ConsumerStep, Handle, Fault
  <1>4. CASE UNCHANGED vars
    BY <1>4, <1>n DEF vars, brokerVars, ingestVars, processorVars, storeVars
  <1> QED
    BY <1>1, <1>2, <1>3, <1>4 DEF Next

\* The ingest path, with its queue, channels, retries, crashes and lost
\* connections, implements DurableLog: a confirmed message is held until it is
\* committed to log_events or in the dead letter queue.
THEOREM Refinement == Spec => ImplementsDurableLog
  BY InitRefines, StepRefines, Invariance, PTL DEF Spec, ImplementsDurableLog, Promise!Spec

=============================================================================
