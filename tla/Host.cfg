SPECIFICATION HostSpec
CONSTANTS
  Process = {"p", "q"}
  Ref = {"r1", "r2"}
  Slot = {"s1", "s2"}
  Kept = {"s1"}
  Again = FALSE
  MaxPins = 2
  MaxEffects = 3
  Target = {"a", "b", "c"}
  Depends <- Chain
  MaxEdit = 2
INVARIANT NamedIsThere
INVARIANT CleanIsRestored
INVARIANT ReplayAgrees
INVARIANT GateIsReleasable
PROPERTY StopSparesAdmitted
PROPERTY SwitchedWhileDown
PROPERTY DependenciesInPlace
CHECK_DEADLOCK FALSE
