----------------------------- MODULE DurableLog -----------------------------
(***************************************************************************)
(* What the ingest path promises a client, without queues, channels or     *)
(* replicas: a message that was confirmed is never lost.  Until it is      *)
(* stored or dead-lettered the system holds it, and it lets go of it only  *)
(* when it is stored or buried in the dead letter queue.                   *)
(***************************************************************************)
CONSTANT Message

VARIABLES
  confirmed,  \* messages a publisher was told are durable
  held,       \* messages the system is responsible for
  stored,     \* messages with a committed row
  dead        \* messages in the dead letter queue

vars == <<confirmed, held, stored, dead>>

Init == confirmed = {} /\ held = {} /\ stored = {} /\ dead = {}

\* Nothing is accepted twice: a retry is another message.
Accept(m) ==
  /\ m \notin held \cup stored \cup dead
  /\ held' = held \cup {m}
  /\ UNCHANGED <<confirmed, stored, dead>>

Confirm(m) ==
  /\ m \in held \cup stored \cup dead
  /\ confirmed' = confirmed \cup {m}
  /\ UNCHANGED <<held, stored, dead>>

\* A row is committed, possibly for a message whose fate is already decided.
Store(m) ==
  /\ m \in held \cup stored \cup dead
  /\ stored' = stored \cup {m}
  /\ UNCHANGED <<confirmed, held, dead>>

Release(m) ==
  /\ m \in held \cap stored
  /\ held' = held \ {m}
  /\ UNCHANGED <<confirmed, stored, dead>>

Bury(m) ==
  /\ m \in held
  /\ held' = held \ {m}
  /\ dead' = dead \cup {m}
  /\ UNCHANGED <<confirmed, stored>>

Next ==
  \E m \in Message : Accept(m) \/ Confirm(m) \/ Store(m) \/ Release(m) \/ Bury(m)

Spec == Init /\ [][Next]_vars
=============================================================================
