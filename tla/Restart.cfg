SPECIFICATION RSpec
CONSTANTS
  N = 4
  MaxTables = 2
  TableSize = 3
  StartChips = 1
  Forced = 1
  Schedule <- OneLevel
  LateRegLevels = 0
  ReentryLevels = 0
  AddOn = FALSE
  Paid <- WinnerOnly
  HandPause = FALSE
  Pauses = FALSE
  MaxExtra = 0
  MaxRemovals = 0
  MaxMoves = 0
  MaxRekeys = 0
  MaxRestoreAttempts = 1
  MaxCrashes = 3
CHECK_DEADLOCK FALSE
INVARIANT FileIsWhole
INVARIANT CostsAHand
PROPERTY HeldFieldKept
