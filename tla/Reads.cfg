SPECIFICATION ReadsSpec
CONSTANTS
  Tenant = {1}
  Healthy = {}
  PerDay = 2
  Ahead = 1
  HotDays = 1
  ColdDays = {1}
  Back = 1
  Fwd = 0
  MaxEvents = 2
  MaxChanges = 0
  MaxTime = 4
  QueryHotDays = 1
  Limit = 2
  Bound <- Instants
  MaxDelay = 2
  q1 = q1
  q2 = q2
  Queries <- TwoQueries
  Time <- SixTicks
  Second = 2
  Presets <- QuickRanges
  Minutes <- AbsoluteTimes
  Slots = 2
  MaxLoads = 2
  MaxLines = 2
INVARIANTS
  
  TwiceOnlyOnTheCutoffDay
  PanelShowsWhatIsAsked
  
CHECK_DEADLOCK FALSE
