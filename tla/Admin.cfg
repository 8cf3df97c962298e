SPECIFICATION Spec
CONSTANTS
  Admins = {a1, a2}
  Passwords = {"", "p"}
  Forms <- TwoForms
  g1 = g1
  t1 = t1
  ann = ann
  Hosts = {g1}
  Tokens = {t1}
  Issuer <- OneIssuer
  Signed <- FirstHour
  Holder <- OneHolder
  EnvMail = None
  EnvPaired = g1
  EnvKnobs = TRUE
  MaxPresses = 2
  MaxFaults = 1
  MaxCrashes = 1
  MaxRows = 3
  MaxAge = 1
  Gap = 1
  Nobody = Nobody
  None = None
CONSTRAINT ThreeInAll
SYMMETRY TwoAdmins
CHECK_DEADLOCK FALSE
INVARIANT TestsComeBack
INVARIANT ToldAsSet
INVARIANT LogIsKept
PROPERTY RestartBringsBack
