SPECIFICATION Spec
CONSTANTS
  N = 4
  MaxTables = 1
  TableSize = 4
  StartChips = 1
  Forced = 1
  Schedule <- PlayBreak
  LateRegLevels = 1
  ReentryLevels = 1
  AddOn = TRUE
  Paid <- WinnerOnly
  HandPause = TRUE
  Pauses = FALSE
  MaxExtra = 1
  MaxRemovals = 0
  MaxMoves = 0
  MaxRekeys = 0
CHECK_DEADLOCK FALSE
INVARIANT TypeOK
INVARIANT ChipConservation
PROPERTY KeepsStandings
