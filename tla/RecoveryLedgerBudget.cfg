SPECIFICATION Spec
CONSTANTS
  Op = {o1, o2}
  Source = {g1}
  Limit = 1
  MaxStep = 1
  MaxFault = 0
  SafeAuto = TRUE
INVARIANT AdmittedActionFits
CHECK_DEADLOCK FALSE
