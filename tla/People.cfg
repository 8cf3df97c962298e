SPECIFICATION Spec
CONSTANTS
  Names = {ann, bea}
  Locals = {u1}
  GameNight = {gn}
  Founders = {u1}
  Sockets = {s1, s2}
  MaxTokens = 2
  MaxHashes = 2
  None = None
CONSTRAINT FewAtOnce
SYMMETRY Alike
INVARIANT NamesLeadHome
INVARIANT RightsAreHeld
PROPERTY AdminsByRule
