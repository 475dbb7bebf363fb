SPECIFICATION Spec
CONSTANTS
  Jobs = {j1}
  NoJob = NoJob
  Files = {f1}
  Limits = {2}
  Window = 3
  MayFail = FALSE
INVARIANT BuiltIsInstalled
CHECK_DEADLOCK FALSE
