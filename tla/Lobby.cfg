SPECIFICATION Spec
CONSTANTS
  Games = {g1, g2}
  ann = ann
  bea = bea
  cy = cy
  c1 = c1
  a1 = a1
  a2 = a2
  b1 = b1
  People = {ann, bea, cy}
  Tabs = {a1, a2, b1, c1}
  Owner <- TabOwner
  ByInvite = {g2}
  Played = {g1}
  OldLinks = FALSE
  Maker <- Makers
  g1 = g1
  g2 = g2
  None = None
CHECK_DEADLOCK FALSE
ACTION_CONSTRAINT CyPlaysOn
SYMMETRY SameTabs
INVARIANT OnePlace
INVARIANT BoundBack
PROPERTY OneEnding
