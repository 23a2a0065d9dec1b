SPECIFICATION FairSpec
CONSTANTS
  Op = {o1, o2}
  Source = {g1, g2}
  Limit = 2
  MaxStep = 2
  MaxFault = 1
  SafeAuto = TRUE
INVARIANT BudgetHolds
INVARIANT SentIsCharged
INVARIANT OpenStepIsOpen
PROPERTY IntentIsClosed
CHECK_DEADLOCK FALSE
