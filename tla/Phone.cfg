SPECIFICATION FairPhoneSpec
CONSTANTS
  Linger = FALSE
  MaxFrame = 3
  MaxAct = 2
  MaxGen = 2
  Port = {"p1", "p2", "p3"}
  AdbRestarts = FALSE
  Restarts = TRUE
  MaxCount = 2
  MaxAge = 1
  ReadLimit = 2
  MaxEvents = 3
  MaxTime = 2
  Late = FALSE
  TTL = 2
  Margin = 1
  MaxSession = 2
  MaxWire = 2
  Consumer = {"a", "b"}
  IdleTimes = {TRUE, FALSE}
  MaxStart = 3
  MaxStreamGen = 3
  MaxDeath = 1
INVARIANT PartsTypeOK
INVARIANT CompleteMissesNone
INVARIANT ClosedIsClosed
INVARIANT PixelsFollowTheAction
PROPERTY GetsDark
PROPERTY UnusedStops
PROPERTY DeviceIsFreed
CHECK_DEADLOCK FALSE
