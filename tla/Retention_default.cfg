SPECIFICATION Spec
CONSTANTS
  Tenant = {1}
  Healthy = {}
  PerDay = 1
  Ahead = 1
  HotDays = 1
  ColdDays = {1}
  Back = 1
  Fwd = 2
  MaxEvents = 1
  MaxChanges = 0
  MaxTime = 3
INVARIANT
  DefaultNeverBlocks
