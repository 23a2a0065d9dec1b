SPECIFICATION Spec
CONSTANTS
  Task = {t1, t2}
  SafeAuto = {t1}
  Drivers = {TRUE}
  MaxEpoch = 2
  MaxFault <- NoFaults
  NoTask = NoTask
INVARIANT FreeMeansSilent
CHECK_DEADLOCK FALSE
