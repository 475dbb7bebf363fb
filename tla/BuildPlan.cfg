SPECIFICATION Spec
CONSTANT Scenarios <- AllScenarios
INVARIANTS
  ConfigMeetsReference
  CargoGetsFlagsAndLinker
  KeyDeterminesPlan
CHECK_DEADLOCK FALSE
