SPECIFICATION Spec
CONSTANTS
  g1 = g1
  g2 = g2
  Games = {g1, g2}
  MaxInFlight = 1
  Tries = 1
  Block = 1
  MaxEvents <- OneTold
  MaxBeats = 1
  MaxFaults = 1
  MaxCrashes = 1
CHECK_DEADLOCK FALSE
INVARIANT HeardInOrder
INVARIANT WriteIsOwed
PROPERTY EveryEventCloses
