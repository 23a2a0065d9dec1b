SPECIFICATION FairSpec
CONSTANTS
  Policies = {"safe_auto", "manual", "disabled"}
  MaxAuto = 1
  MaxAsk = 2
  MaxFault = 1
INVARIANT ResumePointIsClean
INVARIANT NoWorkerBesideRecovery
PROPERTY CancelIsReached
PROPERTY QueuedIsPickedUp
PROPERTY PauseSettles
PROPERTY TerminalStaysByHand
PROPERTY OnlyTimersCancel
\* a task that has ended takes no further step
CHECK_DEADLOCK FALSE
