SPECIFICATION FairAgentSpec
CONSTANTS
  MaxSteps = 2
  MaxCalls = 5
  MaxAdjust = 2
  MaxPause = 1
  AssistantQueries = 1
  ConsoleQueries = 2
  MaxSteer = 1
  MaxBind = 1
  MaxFault = 1
  MaxRounds = 3
  MaxAnswer = 2
INVARIANT PartsTypeOK
INVARIANT AnswerIsHanded
INVARIANT SentIsRecorded
INVARIANT WireIsWellFormed
PROPERTY SettledOnce
PROPERTY AppliedWasSeen
PROPERTY NoObsoleteAction
PROPERTY QuestionIsClosed
CHECK_DEADLOCK FALSE
