SPECIFICATION Spec
CONSTANTS
  Consumer = {a}
  IdleTimes = {TRUE}
  MaxStart = 2
  MaxGen = 3
  MaxDeath = 0
PROPERTY StopSparesLeases
CHECK_DEADLOCK FALSE
