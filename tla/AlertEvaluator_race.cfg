SPECIFICATION FairSpec
CONSTANTS
  r1 = r1
  r2 = r2
  c1 = c1
  c2 = c2
  Rule <- OneRule
  Replica <- TwoReplicas
  BatchSize = 1
  SavedQueryRule <- None
  Rejected <- None
  Stuck <- None
  MaxFlips = 3
  MaxFaults = 1
INVARIANTS
  LedgerMatchesState
  IInv
PROPERTIES
  FollowsLogs
