SPECIFICATION SpecF
CONSTANTS
  Tenant = {1, 2}
  Healthy = {2}
  PerDay = 1
  Ahead = 1
  HotDays = 1
  ColdDays <- OneTwo
  Back = 1
  Fwd = 0
  MaxEvents = 1
  MaxChanges = 1
  MaxTime = 2
INVARIANTS
  KeptHot
PROPERTIES
  OnItsTenantsTerms
  ExpiredGoes
