SPECIFICATION Spec
CONSTANTS
  N = 5
  MaxTables = 3
  TableSize = 2
  StartChips = 1
  Forced = 1
  Schedule <- OneLevel
  LateRegLevels = 1
  ReentryLevels = 1
  AddOn = FALSE
  Paid <- WinnerOnly
  HandPause = TRUE
  Pauses = FALSE
  MaxExtra = 1
  MaxRemovals = 1
  MaxMoves = 1
  MaxRekeys = 1
CHECK_DEADLOCK FALSE
ACTION_CONSTRAINT EnteredInTurn
ACTION_CONSTRAINT AskedTwice
INVARIANT LedgerInOrder
INVARIANT SeatedOrPlaced
INVARIANT HandIsWhole
INVARIANT SeatsHold
PROPERTY SeatsStandWhileDealing
