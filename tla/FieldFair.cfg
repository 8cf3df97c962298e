SPECIFICATION FairSpec
CONSTANTS
  N = 4
  MaxTables = 2
  TableSize = 3
  StartChips = 1
  Forced = 1
  Schedule <- OneLevel
  LateRegLevels = 1
  ReentryLevels = 0
  AddOn = FALSE
  Paid <- PayTwo
  HandPause = FALSE
  Pauses = TRUE
  MaxExtra = 0
  MaxRemovals = 1
  MaxMoves = 1
  MaxRekeys = 0
CHECK_DEADLOCK FALSE
ACTION_CONSTRAINT AskedOnce
INVARIANT SettledEven
PROPERTY BreaksInTheEnd
PROPERTY NeverStalls
