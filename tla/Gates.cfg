SPECIFICATION GatesSpec
CONSTANTS
  p1 = p1
  p2 = p2
  t1 = t1
  free = free
  Req <- TwoRequests
  TTL = 3
  MaxDelay = 2
  ExpiresAt = 8
  MaxTime = 9
  Tenant <- OneOfEach
  Unlimited <- Exempt
  Rate = 2
  Burst = 7
  Cost = 3
  Slack = 1
  Lag = 2
  MaxStale = 2
  MaxClock = 8
  FailOpen = TRUE
INVARIANTS
  StatusBounds
  AdmissionBound
  RefusalsFair
SYMMETRY RequestSymmetry
CHECK_DEADLOCK FALSE
