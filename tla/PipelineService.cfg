SPECIFICATION FairSpec
CONSTANTS
  Requests = {1, 2}
  CacheKeys = {k1, k2}
  Malformed = {}
  JobTypes = {"standard", "pgo_instrument"}
  Capacity = 1
  MaxRestarts = 0
  MayFail = FALSE
INVARIANTS
  CacheNamesDoneJobs
PROPERTIES
  RemovedIsNotServed
  ImplementsLiveLifecycle
  EveryRequestAnswered
  BuiltJobsWindUp
CHECK_DEADLOCK FALSE
