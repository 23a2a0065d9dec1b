SPECIFICATION Spec
CONSTANTS
  Offered = 2
  Payload = 3
  Used = {}
  MaxJob = 1
INVARIANT AbandonedIsRecoverable
CHECK_DEADLOCK FALSE
