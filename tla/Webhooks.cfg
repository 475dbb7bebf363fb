SPECIFICATION FairSpec
CONSTANTS
  Jobs = {j1}
  Hooks = {h1, h2}
  Tokens = {t1, t2}
  MaxRestarts = 1
  MayFail = TRUE
INVARIANTS
  TypeOK
  ToldIsRecorded
PROPERTIES
  SilentAfterSuccess
  OthersAreLeftAlone
  ListedIsTold
CHECK_DEADLOCK FALSE
