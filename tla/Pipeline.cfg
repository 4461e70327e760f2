SPECIFICATION FairSpec
CONSTANTS
  e1 = e1
  e2 = e2
  k1 = k1
  NoMsg = NoMsg
  Event = {e1, e2}
  Client = {k1}
  Batch <- GoodThenPoison
  Consumer = {p1, p2}
  Prefetch = 1
  MaxPublish = 1
  Poison = {e2}
  MaxRetries = 1
  ColdEnabled = TRUE
  MaxFaults = 1
INVARIANTS
  NoAcknowledgedLoss
  DuplicateOnlyIfDisturbed
  IInv
PROPERTIES
  ImplementsDurableLog
  EventuallySettled
CHECK_DEADLOCK FALSE
