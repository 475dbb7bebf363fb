SPECIFICATION Spec
CONSTANTS
  Calls = {c1, c2, c3}
  Limit = 1
  Window = 1
  MaxTime = 2
  MaxTokens = 2
SYMMETRY Symmetry
INVARIANTS
  NewestWindowBounded
  OnTimeCallsBounded
  RefusalIsJustified
  OneActiveRowPerSecret
PROPERTIES
  RevokedForGood
CHECK_DEADLOCK FALSE
