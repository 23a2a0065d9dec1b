SPECIFICATION Spec
CONSTANTS
  Task = {t1, t2}
  SafeAuto = {t1}
  Drivers = {TRUE, FALSE}
  MaxEpoch = 2
  MaxFault <- LocalFaults
  NoTask = NoTask
INVARIANT OneAuthority
INVARIANT OwnerIsServed
INVARIANT RecoveryKeepsOwner
INVARIANT LocalFreeIsSilent
CHECK_DEADLOCK FALSE
