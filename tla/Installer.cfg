SPECIFICATION FairSpec
CONSTANTS
  Jobs = {j1, j2}
  NoJob = NoJob
  Files = {f1, f2}
  Limits = {2, 5}
  Window = 3
  MayFail = TRUE
INVARIANTS
  InstalledIsWhole
  RoomyLimitSuffices
PROPERTIES
  EndsWithTheJob
CHECK_DEADLOCK FALSE
