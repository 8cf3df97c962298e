SPECIFICATION Spec
CONSTANTS
  Tables <- Everywhere
  Recent = 1
INVARIANT RankedByTheRules
INVARIANT DealtInFull
INVARIANT NobodyReadsAFold
INVARIANT PageIsCurrent
