SPECIFICATION Spec
CONSTANTS
  Calls = {c1, c2, c3, c4}
  Limit = 2
  Window = 1
  MaxTime = 2
  MaxTokens = 1
SYMMETRY Symmetry
INVARIANT EveryWindowBounded
CHECK_DEADLOCK FALSE
