SPECIFICATION FairSpec
CONSTANTS
  r1 = r1
  r2 = r2
  c1 = c1
  c2 = c2
  Rule <- TwoRules
  Replica <- OneReplica
  BatchSize = 1
  SavedQueryRule <- OneRule
  Rejected <- None
  Stuck <- None
  MaxFlips = 3
  MaxFaults = 2
INVARIANTS
  NoDuplicateOnHappyPath
PROPERTIES
  OutboxDrains
