SPECIFICATION Spec
CONSTANTS
  Policies = {"manual"}
  MaxAuto = 1
  MaxAsk = 3
  MaxFault = 0
PROPERTY ContinuedIsNotCancelled
\* a task that has ended takes no further step
CHECK_DEADLOCK FALSE
