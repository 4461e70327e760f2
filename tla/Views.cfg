SPECIFICATION ViewsSpec
CONSTANTS
  MaxEvents = 6
  Buffer = 1
  Matching <- SomeMatch
  Undecodable <- OneBad
  maxItems = 2
  maxReconnectAttempts = 2
  MaxConns = 3
  MaxPending = 2
  None = None
  Unreadable = Unreadable
  info = info
  warn = warn
  Levels <- TwoLevels
  LevelOf <- FiveLogs
  Bounds <- OneBound
  SEARCH_PAGE_LIMIT = 2
  MAX_SEARCH_RESULTS = 3
  MaxSearches = 3
INVARIANTS
  FramesHonest
  NothingLeaks
  ScrollbackHonest
  OneResultSet
PROPERTIES
  NothingStaysBehind
  Settles
  SearchSettles
CHECK_DEADLOCK FALSE
