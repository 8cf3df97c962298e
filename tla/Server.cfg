SPECIFICATION Spec
CONSTANTS
  g1 = g1
  g2 = g2
  p1 = p1
  Nowhere = Nowhere
  Games = {g1, g2}
  Tables = {1, 2}
  Seated = {p1}
  Railed = {}
  MaxSaid = 2
  MaxEvents = 3
  Steps = 2
  OldList <- Old
  OldDocs <- Kept
INVARIANT DrawnAsSaid
INVARIANT KeptInStep
PROPERTY FileOutlivesImport
CHECK_DEADLOCK FALSE
