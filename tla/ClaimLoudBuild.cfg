SPECIFICATION PatientSpec
CONSTANTS
  Cargo = Cargo
  Helpers = {}
  Pipe = 2
  Shown = 1
  MaxOutput = 3
INVARIANT
  CompileErrorsAreShown
CHECK_DEADLOCK FALSE
