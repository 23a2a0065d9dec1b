------------------------------ MODULE HumanInput ------------------------------
(***************************************************************************)
(* The questions a task asks its user (shared/hitl.py, control_api/hitl.py, *)
(* agent/hitl.py) between the run that asks, the console, the assistant     *)
(* host with a reply binding, the broker's tick, a steering request and a   *)
(* cancel.                                                                  *)
(*                                                                         *)
(* A question is the record of one interaction; the answers and the saved   *)
(* dialogue are left out.  The exception that suspends the asking role      *)
(* travels through an asyncio task of its own before the loop writes the    *)
(* status once more, so other handlers may run in between (run.at =         *)
(* "asking").  Pause and the recovery of the run are in TaskLifecycle: a     *)
(* restart here brings a running task back to queued.                       *)
(***************************************************************************)
EXTENDS Integers, Sequences

CONSTANTS MaxQueries,  \* HitlConfig.max_queries, of a task of either origin
          MaxSteer,    \* bound: adjustments
          MaxBind,     \* bound: subscriptions of the assistant host
          MaxFault     \* bound: restarts of the backend

BoundsAreNumbers ==
  MaxQueries \in [{"console", "assistant"} -> Nat] /\ {MaxSteer, MaxBind, MaxFault} \subseteq Nat

VARIABLES
  origin,   \* where the task came from
  status,   \* tasks.status
  asked,    \* the human_input records, in order
  next,     \* next_role, as saved with the state
  due,      \* the deadline of the current question has passed
  view,     \* what each surface last saw of a question: [id, version]
  bound,    \* the binding is subscribed and not expired
  binds,
  inbox,    \* adjustments: [accepted, applied]
  run,      \* the live handle: where it is, its role, the answer handed, steered
  heard,    \* answers some role call was handed
  stop,     \* the cancel flag of the run
  scheduled,\* a schedule_run of a request or of the scan that has not run yet
  faults

rowVars == <<status, asked, next>>
hostVars == <<origin, view, bound, binds>>
runVars == <<run, heard, stop>>
vars == <<rowVars, due, hostVars, inbox, runVars, scheduled, faults>>

Surface == {"console", "assistant"}
Ended == {"succeeded", "cancelled"}
Role == {"planner", "executor"}
NoRun == [at |-> "off", role |-> "planner", answer |-> 0, steered |-> FALSE]
Unseen == [id |-> 0, version |-> 0]

Live == run.at # "off"
Last == Len(asked)
Is(states) == Last > 0 /\ asked[Last].state \in states
Current == asked[Last]

Init ==
  /\ origin \in Surface
  /\ status = "queued" /\ asked = <<>> /\ next = "planner" /\ due = FALSE
  /\ view = [s \in Surface |-> Unseen] /\ bound = FALSE /\ binds = 0
  /\ inbox = [accepted |-> 0, applied |-> 0]
  /\ run = NoRun /\ heard = {} /\ stop = FALSE /\ scheduled = TRUE /\ faults = 0

(* The record of the current question, changed. *)
Save(item) == asked' = [asked EXCEPT ![Last] = item]

ToConsole(item) ==
  [item EXCEPT !.owner = "console", !.version = item.version + 1, !.presented = FALSE]

-----------------------------------------------------------------------------
(* The run. *)

Scheduled ==
  run' = IF status = "queued" /\ ~Live THEN [NoRun EXCEPT !.at = "begun"] ELSE run

BackgroundSchedule ==
  /\ scheduled /\ scheduled' = FALSE
  /\ Scheduled
  /\ UNCHANGED <<rowVars, due, hostVars, inbox, heard, stop, faults>>

(* continuation: the answer the call of a role goes on with. *)
Continuation(role) ==
  IF Is({"resolved"}) /\ Current.outcome # "cancel_task" /\ Current.role = role THEN Last ELSE 0

(* The next call; adjustments that wait send the planner first. *)
Calls(wanted) ==
  LET role == IF inbox.applied < inbox.accepted THEN "planner" ELSE wanted
      answer == Continuation(role)
  IN /\ run' = [at |-> "role", role |-> role, answer |-> answer, steered |-> FALSE]
     /\ heard' = heard \union ({answer} \ {0})

(* The handle's first step and the start of the body. *)
RunBegins ==
  /\ run.at = "begun"
  /\ IF status = "queued"
     THEN status' = "running" /\ Calls(next) /\ UNCHANGED stop
     ELSE run' = NoRun /\ stop' = FALSE /\ UNCHANGED <<status, heard>>
  /\ UNCHANGED <<asked, next, due, hostVars, inbox, scheduled, faults>>

(* begin: the question, the status and the end of the answer it goes on from  *)
(* are one transaction.                                                       *)
RoleAsks ==
  /\ run.at = "role" /\ ~run.steered /\ ~Is({"pending"})
  /\ Last < MaxQueries[origin] /\ status \in {"running", "queued"}
  /\ run.answer # 0 => asked[run.answer].state = "resolved"
  /\ LET owner == IF origin = "assistant" /\ bound THEN "assistant" ELSE "console"
         before == IF run.answer = 0 THEN asked
                   ELSE [asked EXCEPT ![run.answer].state = "consumed"]
     IN asked' = Append(before, [state |-> "pending", outcome |-> "none", owner |-> owner,
                                 role |-> run.role, version |-> 1, presented |-> FALSE])
  /\ status' = "waiting" /\ run' = [run EXCEPT !.at = "asking"] /\ due' = FALSE
  /\ UNCHANGED <<next, hostVars, inbox, heard, stop, scheduled, faults>>

(* Mutant: the loop goes on with the planner after a question. *)
RunForgetsWhoAsked ==
  /\ run.at = "asking"
  /\ IF run.steered
     THEN Calls("planner") /\ UNCHANGED <<status, next>>
     ELSE /\ status' = "waiting" /\ next' = "planner"
          /\ run' = [run EXCEPT !.at = "parked"] /\ UNCHANGED heard
  /\ UNCHANGED <<asked, due, hostVars, inbox, stop, scheduled, faults>>

(* HumanInputSuspended has reached the loop, which writes the status again;   *)
(* an adjustment that came meanwhile starts a new call instead.               *)
RunSuspends ==
  /\ run.at = "asking"
  /\ IF run.steered
     THEN Calls("planner") /\ UNCHANGED <<status, next>>
     ELSE /\ status' = "waiting" /\ next' = run.role
          /\ run' = [run EXCEPT !.at = "parked"] /\ UNCHANGED heard
  /\ UNCHANGED <<asked, due, hostVars, inbox, stop, scheduled, faults>>

(* The call returns: complete consumes the answer; the task goes on, or ends. *)
(* The loop looks at the cancel flag after each call.                         *)
RoleReturns ==
  /\ run.at = "role" /\ ~run.steered
  /\ IF Is({"resolved"}) THEN Save([Current EXCEPT !.state = "consumed"]) ELSE UNCHANGED asked
  /\ inbox' = IF run.role = "planner" THEN [inbox EXCEPT !.applied = inbox.accepted] ELSE inbox
  /\ IF stop
     THEN /\ status' = "cancelled" /\ stop' = FALSE /\ run' = [run EXCEPT !.at = "parked"]
          /\ UNCHANGED next
     ELSE /\ UNCHANGED stop
          /\ \/ status' = "succeeded" /\ run' = [run EXCEPT !.at = "parked"] /\ UNCHANGED next
             \/ /\ next' \in IF run.role = "planner" THEN {"executor"} ELSE Role
                /\ run' = [run EXCEPT !.role = next', !.answer = 0] /\ UNCHANGED status
  /\ UNCHANGED <<due, hostVars, heard, scheduled, faults>>

(* TaskSteered: the obsolete call is dropped and the planner is called. *)
RoleIsSteered ==
  /\ run.at = "role" /\ run.steered
  /\ Calls("planner")
  /\ UNCHANGED <<rowVars, due, hostVars, inbox, stop, scheduled, faults>>

RunEnds ==
  /\ run.at = "parked"
  /\ run' = NoRun /\ stop' = FALSE
  /\ UNCHANGED <<rowVars, due, hostVars, inbox, heard, scheduled, faults>>

-----------------------------------------------------------------------------
(* The surfaces. *)

Subscribe ==
  /\ origin = "assistant" /\ ~bound /\ binds < MaxBind /\ bound' = TRUE /\ binds' = binds + 1
  /\ UNCHANGED <<origin, rowVars, due, view, inbox, runVars, scheduled, faults>>

(* Mutant: the deadline is only looked at for questions of the host. *)
ReconcileLostOwners(live, expired) ==
  /\ UNCHANGED next
  /\ IF ~Is({"pending"}) THEN UNCHANGED <<status, asked>>
     ELSE IF status \in Ended
     THEN /\ Save([Current EXCEPT !.state = "invalidated", !.outcome = "cancelled"])
          /\ UNCHANGED status
     ELSE IF due /\ Current.owner = "assistant"
     THEN Save([Current EXCEPT !.state = "resolved", !.outcome = "timeout"]) /\ status' = "queued"
     ELSE /\ UNCHANGED status
          /\ IF Current.owner = "assistant" /\ (~live \/ (~Current.presented /\ expired))
             THEN Save(ToConsole(Current)) ELSE UNCHANGED asked

(* reconcile of a waiting task; expired says that the delivery time is over. *)
Reconcile(live, expired) ==
  /\ UNCHANGED next
  /\ IF ~Is({"pending"}) THEN UNCHANGED <<status, asked>>
     ELSE IF status \in Ended
     THEN /\ Save([Current EXCEPT !.state = "invalidated", !.outcome = "cancelled"])
          /\ UNCHANGED status
     ELSE IF due
     THEN Save([Current EXCEPT !.state = "resolved", !.outcome = "timeout"]) /\ status' = "queued"
     ELSE /\ UNCHANGED status
          /\ IF Current.owner = "assistant" /\ (~live \/ (~Current.presented /\ expired))
             THEN Save(ToConsole(Current)) ELSE UNCHANGED asked

(* The event stream ends or the host detaches. *)
Unsubscribe ==
  /\ bound /\ bound' = FALSE
  /\ IF status = "waiting" THEN Reconcile(FALSE, FALSE) ELSE UNCHANGED rowVars
  /\ UNCHANGED <<origin, due, view, binds, inbox, runVars, scheduled, faults>>

(* A surface reads the pending question; the host's stream reports it as      *)
(* presented.                                                                *)
Present(s) ==
  /\ status = "waiting" /\ Is({"pending"}) /\ Current.owner = s
  /\ s = "assistant" => bound
  /\ view' = [view EXCEPT ![s] = [id |-> Last, version |-> Current.version]]
  /\ Save([Current EXCEPT !.presented = TRUE])
  /\ UNCHANGED <<origin, status, next, due, bound, binds, inbox, runVars, scheduled, faults>>

Takeover ==
  /\ Is({"pending"}) /\ Current.owner = "assistant"
  /\ Save(ToConsole(Current))
  /\ UNCHANGED <<status, next, due, hostVars, inbox, runVars, scheduled, faults>>

DeadlinePasses ==
  /\ Is({"pending"}) /\ ~due /\ due' = TRUE
  /\ UNCHANGED <<rowVars, hostVars, inbox, runVars, scheduled, faults>>

(* Mutant: a surface may answer what was answered before. *)
OwnedInAnyState(s) ==
  /\ status = "waiting" /\ Last > 0
  /\ view[s] = [id |-> Last, version |-> Current.version] /\ Current.owner = s
  /\ ~due /\ (s = "assistant" => bound)

(* _owned: the surface answers what it saw, as it saw it. *)
Owned(s) ==
  /\ status = "waiting" /\ Is({"pending"})
  /\ view[s] = [id |-> Last, version |-> Current.version] /\ Current.owner = s
  /\ ~due /\ (s = "assistant" => bound)

(* Steering supersedes the question, a cancel ends the task: see below. *)
Answer(s, outcome) ==
  /\ Owned(s)
  /\ Save([Current EXCEPT !.state = "resolved", !.outcome = outcome])
  /\ status' = IF outcome = "cancel_task" THEN "cancelled" ELSE "queued"
  /\ scheduled' = (scheduled \/ outcome # "cancel_task")
  /\ UNCHANGED <<next, due, hostVars, inbox, runVars, faults>>

(* The tick: deadlines and lost owners of waiting tasks. *)
Tick ==
  /\ status = "waiting"
  /\ \E expired \in BOOLEAN : Reconcile(bound, expired)
  /\ run' = IF Is({"pending"}) /\ due /\ ~Live
            THEN [NoRun EXCEPT !.at = "begun"] ELSE run
  /\ UNCHANGED <<due, hostVars, inbox, heard, stop, scheduled, faults>>

(* The tick's second loop: queued tasks with an answer or an adjustment. *)
TickSchedules ==
  /\ status = "queued" /\ (Is({"resolved"}) \/ inbox.applied < inbox.accepted)
  /\ Scheduled
  /\ UNCHANGED <<rowVars, due, hostVars, inbox, heard, stop, scheduled, faults>>

-----------------------------------------------------------------------------
(* steer_task: the question is superseded, the adjustment accepted and a      *)
(* waiting task queued in one transaction; then the call in flight is told.   *)
Steer ==
  /\ inbox.accepted < MaxSteer /\ status \notin Ended /\ ~stop
  /\ status = "running" => Live
  /\ inbox' = [inbox EXCEPT !.accepted = inbox.accepted + 1]
  /\ IF Is({"pending", "resolved"})
     THEN Save([Current EXCEPT !.state = "superseded"]) ELSE UNCHANGED asked
  /\ status' = IF status = "waiting" THEN "queued" ELSE status
  /\ run' = IF run.at \in {"role", "asking"} THEN [run EXCEPT !.steered = TRUE] ELSE run
  /\ scheduled' = (scheduled \/ status \in {"queued", "waiting"})
  /\ UNCHANGED <<next, due, hostVars, heard, stop, faults>>

(* cancel_task: a waiting task is cancelled at once; _cancel invalidates its  *)
(* question.                                                                 *)
Cancel ==
  /\ status \notin Ended
  /\ IF Live /\ status # "waiting"
     THEN stop' = TRUE /\ UNCHANGED rowVars
     ELSE /\ status' = "cancelled" /\ stop' = FALSE
          /\ IF Is({"pending"})
             THEN Save([Current EXCEPT !.state = "invalidated", !.outcome = "cancelled"])
             ELSE UNCHANGED asked
          /\ UNCHANGED next
  /\ UNCHANGED <<due, hostVars, inbox, run, heard, scheduled, faults>>

(* A restart: the broker's startup trusts no binding and reconciles.          *)
Restart ==
  /\ faults < MaxFault /\ faults' = faults + 1
  /\ run' = NoRun /\ stop' = FALSE /\ scheduled' = TRUE /\ bound' = FALSE
  /\ CASE status = "waiting" -> Reconcile(FALSE, FALSE)
       [] status = "running" -> status' = "queued" /\ UNCHANGED <<asked, next>>
       [] OTHER -> UNCHANGED rowVars
  /\ UNCHANGED <<origin, due, view, binds, inbox, heard>>

RunActs ==
  RunBegins \/ RoleAsks \/ RunSuspends \/ RoleReturns \/ RoleIsSteered \/ RunEnds

HostActs ==
  \/ Subscribe \/ Unsubscribe \/ Takeover
  \/ \E s \in Surface : \/ Present(s)
                        \/ \E o \in {"answered", "declined", "cancel_task"} : Answer(s, o)

Next ==
  RunActs \/ HostActs \/ DeadlinePasses \/ Tick \/ TickSchedules \/ BackgroundSchedule
  \/ Steer \/ Cancel \/ Restart

Spec == Init /\ [][Next]_vars

(* The event loop runs the handle, the tick comes round every second and a    *)
(* deadline passes.  A role may ask for ever, but not more than MaxQueries.   *)
Fairness ==
  /\ WF_vars(RunBegins) /\ WF_vars(RunSuspends) /\ WF_vars(RoleReturns)
  /\ WF_vars(RoleIsSteered) /\ WF_vars(RunEnds) /\ WF_vars(DeadlinePasses)
  /\ WF_vars(Tick) /\ WF_vars(TickSchedules)

-----------------------------------------------------------------------------
Interaction ==
  [state : {"pending", "resolved", "consumed", "superseded", "invalidated"},
   outcome : {"none", "answered", "declined", "cancel_task", "timeout", "cancelled"},
   role : Role, owner : Surface, version : 1..2, presented : BOOLEAN]

TypeOK ==
  /\ origin \in Surface
  /\ status \in {"queued", "running", "waiting"} \union Ended
  /\ asked \in Seq(Interaction) /\ Last <= MaxQueries[origin] /\ next \in Role
  /\ due \in BOOLEAN
  /\ view \in [Surface -> [id : 0..MaxQueries[origin], version : 0..2]]
  /\ bound \in BOOLEAN /\ binds \in 0..MaxBind
  /\ inbox \in [accepted : 0..MaxSteer, applied : 0..MaxSteer] /\ inbox.applied <= inbox.accepted
  /\ run \in [at : {"off", "begun", "role", "asking", "parked"}, role : Role,
              answer : 0..MaxQueries[origin], steered : BOOLEAN]
  /\ heard \subseteq 1..Last /\ stop \in BOOLEAN /\ scheduled \in BOOLEAN
  /\ faults \in 0..MaxFault

(* An answer is used up only after a call of a role was handed it.            *)
AnswerIsHanded ==
  \A i \in 1..Last : asked[i].state = "consumed" => i \in heard

(* A question is settled once: neither a retry nor another surface, the tick  *)
(* or a cancel changes what it was settled with, and its owner only falls     *)
(* back to the console.                                                       *)
SettledOnce ==
  [][\A i \in 1..Len(asked) :
       /\ asked[i].outcome # "none" => asked'[i].outcome = asked[i].outcome
       /\ asked[i].state \in {"consumed", "superseded", "invalidated"} => asked'[i] = asked[i]
       /\ asked[i].state = "resolved" => asked'[i].state # "pending"
       /\ asked'[i].version >= asked[i].version
       /\ asked'[i].owner # asked[i].owner => asked'[i].owner = "console"]_vars

(* A task that has ended is not brought back. *)
EndedStays == [][(status \in Ended) => (status' = status)]_vars

(* A question does not stay open for ever: somebody answers it, an adjustment *)
(* replaces it, or its deadline passes and the task goes on without.          *)
QuestionIsClosed == Is({"pending"}) ~> ~Is({"pending"})

===============================================================================
