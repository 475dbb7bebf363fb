SPECIFICATION FairSpec
CONSTANTS
  Cargo = Cargo
  Helpers = {h1}
  Pipe = 2
  Shown = 1
  MaxOutput = 3
INVARIANTS
  ReportIsComplete
PROPERTY
  EndsUnlessHeld
CHECK_DEADLOCK FALSE
