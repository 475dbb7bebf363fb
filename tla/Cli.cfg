SPECIFICATION MCSpec
CONSTANTS
  Runs = {1, 2, 3}
  u1 = u1
  t1 = t1
  t2 = t2
  Urls <- MCUrls
  Tokens <- MCTokens
  HeaderTokens <- MCHeaderTokens
  Accepts <- MCAccepts
  Ops = {"token_delete", "pgo_upload"}
  Unset = Unset
INVARIANTS
  SettingsAreKept
  SuccessIsServed
PROPERTIES
  EveryCommandEnds
CHECK_DEADLOCK FALSE
