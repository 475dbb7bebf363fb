SPECIFICATION FairSpec
CONSTANTS
  Uploads = {u1, u2}
  Files = {f1, f2}
  Hidden = {f2}
  Torn = Torn
  MaxFiles = 2
  MaxRestarts = 1
  MayFail = TRUE
INVARIANTS
  OptimizeFindsProfile
  RowsAgreeWithChannel
PROPERTIES
  UndisturbedIsMerged
  MergeIsAnswered
CHECK_DEADLOCK FALSE
