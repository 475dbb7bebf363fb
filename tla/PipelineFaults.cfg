SPECIFICATION Spec
CONSTANTS
  Requests = {1, 2, 3}
  CacheKeys = {k1, k2, kx}
  Malformed = {kx}
  JobTypes = {"standard"}
  Capacity = 1
  MaxRestarts = 1
  MayFail = TRUE
SYMMETRY Symmetry
INVARIANTS
  QueueHoldsWaitingJobs
  DoneHasArtifact
  CacheNamesArtifact
  CachedReplyStaysDone
  FullIsNeverBuilt
  UnfinishedIsOwned
PROPERTIES
  ImplementsLifecycle
  ImplementsEnding
CHECK_DEADLOCK FALSE
