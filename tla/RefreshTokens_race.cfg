SPECIFICATION Spec
CONSTANTS
  p1 = p1
  p2 = p2
  Req <- TwoRequests
  MaxTokens = 3
  MaxChanges = 2
INVARIANTS
  RotatedOnce
  ActiveToRefresh
  SurvivesOnlyRace
SYMMETRY RequestSymmetry
CHECK_DEADLOCK FALSE
