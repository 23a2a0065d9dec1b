------------------------------- MODULE MCAgent -------------------------------
(* What runs inside one agent process: the dialogue with the user, the loop   *)
(* of the roles and the tool loop of one role call.  They have their state to *)
(* themselves and meet in the calls one makes of another, so a behaviour here *)
(* is a behaviour of one of them, which `part` names.                         *)
EXTENDS RoleLoop, Sequences

CONSTANTS AssistantQueries, ConsoleQueries, MaxSteer, MaxBind, MaxFault,   \* of HumanInput
          MaxRounds, MaxAnswer                                             \* of ToolLoop

VARIABLES
  part,
  origin, askStatus, asked, askNext, due, view, bound, binds, askInbox,
  run, heard, stop, scheduled, faults,
  role, toolPc, round, before, bucket, after, wire, withImages, toolCalls, answered, appended,
  attached, toolNext, observed, degraded, imageless, broad, noteFailed, decision, ran, saved

inputVars == <<origin, askStatus, asked, askNext, due, view, bound, binds, askInbox,
               run, heard, stop, scheduled, faults>>
toolVars == <<role, toolPc, round, before, bucket, after, wire, withImages, toolCalls,
              answered, appended, attached, toolNext, observed, degraded, imageless, broad,
              noteFailed, decision, ran, saved>>
agentVars == <<part, inputVars, vars, toolVars>>

(* A task of the assistant may be allowed other numbers of questions. *)
QuestionLimit == [assistant |-> AssistantQueries, console |-> ConsoleQueries]

Ask == INSTANCE HumanInput
  WITH MaxQueries <- QuestionLimit,
       status <- askStatus, next <- askNext, inbox <- askInbox

Tool == INSTANCE ToolLoop
  WITH MaxCalls <- MaxAnswer, pc <- toolPc, calls <- toolCalls, next <- toolNext

ASSUME OptionsAreKnown ==
  /\ Ask!BoundsAreNumbers /\ Tool!BoundsArePositive
  /\ BoundsAreNumbers

AgentInit ==
  /\ part \in {"dialogue", "roles", "invocation"}
  /\ Ask!Init /\ Init /\ Tool!Init
  /\ part # "dialogue" => origin = "console"
  /\ part # "roles" => planExecutor
  /\ part # "invocation" => role \in Tool!Planners /\ role.human

InputOnly == UNCHANGED <<part, vars, toolVars>>
LoopOnly == UNCHANGED <<part, inputVars, toolVars>>
ToolsOnly == UNCHANGED <<part, inputVars, vars>>

AgentNext ==
  \/ part = "dialogue" /\ Ask!Next /\ InputOnly
  \/ part = "roles" /\ Next /\ LoopOnly
  \/ part = "invocation" /\ Tool!Next /\ ToolsOnly

AgentSpec == AgentInit /\ [][AgentNext]_agentVars

(* No action that fairness is stated of can be taken in the first state of the *)
(* dialogue, where it remains when the behaviour is of another part.          *)
FairAgentSpec == AgentSpec /\ Ask!Fairness

(* The state of every part is of its type. *)
PartsTypeOK ==
  /\ part = "dialogue" => Ask!TypeOK
  /\ part = "roles" => TypeOK
  /\ part = "invocation" => Tool!TypeOK

(* What the modules say of their part; SentIsRecorded, AppliedWasSeen and       *)
(* NoObsoleteAction are of RoleLoop.                                          *)
AnswerIsHanded == Ask!AnswerIsHanded
SettledOnce == Ask!SettledOnce
QuestionIsClosed == Ask!QuestionIsClosed
WireIsWellFormed == Tool!WireIsWellFormed
=============================================================================
