------------------------------- MODULE RoleLoop -------------------------------
(***************************************************************************)
(* The loop that calls Planner, Executor and Reviewer in turn               *)
(* (agent/revisable/orchestrator.py), and the adjustments a user sends      *)
(* while it runs (shared/steering.py, shared/task_control.py).              *)
(*                                                                         *)
(* Every call of a role holds a lease.  An adjustment revokes the lease     *)
(* unless the call has begun to dispatch its action; a revoked call is not  *)
(* waited for, so it may go on beside its successor.  Everything between    *)
(* two awaits of the loop is one step.  A plan, a note and an observation   *)
(* are left out but for what the loop compares.  Questions are in           *)
(* HumanInput, recovery in TaskLifecycle: a failing call fails the task.    *)
(***************************************************************************)
EXTENDS Integers

CONSTANTS MaxSteps,      \* limits.executor_decisions
          MaxCalls,      \* limits.model_calls; a call makes one request
          MaxAdjust,     \* bound: adjustments
          MaxPause       \* bound: pauses

BoundsAreNumbers == {MaxSteps, MaxCalls, MaxAdjust, MaxPause} \subseteq Nat

VARIABLES
  planExecutor, \* the architecture of the run is the one without a Reviewer
  status,    \* tasks.status
  pc,        \* the loop: "top", "observing", "call" or "over"
  next,      \* runtime.next_role
  carried,   \* the next call goes on from a package it has
  reviewed,  \* last_review_signature is the signature of now
  stalled,   \* last_executor_stall is the signature of now
  steps, acted, calls,   \* step_number, executed actions, role_invocation_count
  inbox,     \* adjustments: [accepted, applied, dropped]
  changed,   \* the event of the SteeringControl
  lease,     \* the lease of the current call
  discarded, \* leases of calls that are not waited for
  pause, cancel,         \* what was requested
  sends,     \* actions begun
  pauses

progress == <<next, carried, reviewed, stalled, steps, acted, calls>>
control == <<inbox, changed, lease, discarded>>
requests == <<pause, cancel, pauses>>
vars == <<planExecutor, status, pc, progress, control, requests, sends>>

Role == {"planner", "executor", "reviewer"}
Directive == {"act", "advance", "replan", "finish", "review"}
Lease == [role : Role, revision : 0..MaxAdjust, revoked : BOOLEAN, dispatching : BOOLEAN]

Pending == inbox.applied < inbox.accepted /\ ~inbox.dropped

Init ==
  /\ planExecutor \in BOOLEAN
  /\ status = "running" /\ pc = "top" /\ next = "planner" /\ carried = FALSE
  /\ reviewed = FALSE /\ stalled = FALSE /\ steps = 0 /\ acted = 0 /\ calls = 0
  /\ inbox = [accepted |-> 0, applied |-> 0, dropped |-> FALSE] /\ changed = FALSE
  /\ lease = [role |-> "planner", revision |-> 0, revoked |-> FALSE, dispatching |-> FALSE]
  /\ discarded = {} /\ pause = FALSE /\ cancel = FALSE /\ sends = 0 /\ pauses = 0

(* The loop ends with a status; a cancel drops what was not applied. *)
Ends(s) ==
  /\ status' = s /\ pc' = "over"
  /\ inbox' = IF s = "cancelled" THEN [inbox EXCEPT !.dropped = Pending] ELSE inbox
  /\ pause' = FALSE
  /\ UNCHANGED <<progress, changed, lease, discarded, cancel, pauses, sends>>

Exhausted == steps >= MaxSteps \/ calls >= MaxCalls

(* acquire: a lease for the newest revision, and the event cleared. *)
Acquire(role) ==
  /\ lease' = [role |-> role, revision |-> inbox.accepted, revoked |-> FALSE,
               dispatching |-> FALSE]
  /\ changed' = FALSE /\ calls' = calls + 1 /\ pc' = "call"

LoopTop ==
  /\ pc = "top"
  /\ CASE cancel -> Ends("cancelled")
       [] ~cancel /\ pause -> Ends("paused")
       [] ~cancel /\ ~pause /\ Exhausted -> Ends("failed")
       [] OTHER ->
            LET role == IF Pending THEN "planner" ELSE next
            IN /\ next' = role /\ carried' = FALSE
               /\ IF carried /\ ~Pending THEN Acquire(role)
                  ELSE pc' = "observing" /\ UNCHANGED <<lease, changed, calls>>
               /\ UNCHANGED <<status, reviewed, stalled, steps, acted, inbox, discarded,
                              requests, sends>>

(* A new observation is new evidence. *)
Observed ==
  /\ pc = "observing"
  /\ Acquire(next) /\ reviewed' = FALSE /\ stalled' = FALSE
  /\ UNCHANGED <<status, next, carried, steps, acted, inbox, discarded, requests, sends>>

(* Mutant: a call that has begun to dispatch is dropped, too. *)
ObsoleteInFlight == changed

(* The event woke _invoke, and the call has not begun to dispatch. *)
Obsolete == changed /\ ~lease.dispatching

(* The observation or the call raises an error that is not handled. *)
LoopFails == (pc = "observing" \/ (pc = "call" /\ ~Obsolete)) /\ Ends("failed")

(* TaskSteered: the call is cancelled but not awaited. *)
CallIsSteered ==
  /\ pc = "call" /\ Obsolete
  /\ discarded' = discarded \union {[lease EXCEPT !.revoked = TRUE]}
  /\ pc' = "top" /\ carried' = FALSE
  /\ UNCHANGED <<status, next, reviewed, stalled, steps, acted, calls, inbox, changed, lease,
                 requests, sends>>

(* A decision is adopted; the planner has seen what its lease had.  A cancel  *)
(* that came meanwhile goes first.                                            *)
Decides(role) == pc = "call" /\ lease.role = role /\ ~Obsolete

Adopt ==
  /\ pc' = "top" /\ carried' = TRUE
  /\ UNCHANGED <<status, stalled, steps, acted, calls, changed, lease, discarded, requests, sends>>

Applied == [inbox EXCEPT !.applied = IF inbox.applied < lease.revision
                                     THEN lease.revision ELSE inbox.applied]

(* Ends, for a planner that has marked the adjustments it saw. *)
EndsApplied(s) ==
  /\ status' = s /\ pc' = "over" /\ pause' = FALSE
  /\ inbox' = [Applied EXCEPT !.dropped = s = "cancelled" /\ Applied.applied < inbox.accepted]
  /\ UNCHANGED <<progress, changed, lease, discarded, cancel, pauses, sends>>

PlannerDecides ==
  /\ Decides("planner")
  /\ \/ cancel /\ EndsApplied("cancelled")
     \/ ~cancel /\ inbox' = Applied /\ Adopt
        /\ \/ next' = "executor" /\ reviewed' \in {reviewed, FALSE}     \* continue, execute
           \/ next' = "reviewer" /\ ~reviewed /\ UNCHANGED reviewed     \* review
           \/ next' = "reviewer" /\ ~planExecutor /\ UNCHANGED reviewed \* complete
     \/ ~cancel /\ planExecutor /\ EndsApplied("succeeded")
     \/ ~cancel /\ EndsApplied("failed")        \* inconclusive, or no new evidence

(* Mutant: the adjustments count as applied after any role. *)
ReviewerApplies ==
  /\ Decides("reviewer")
  /\ \/ Ends(IF cancel THEN "cancelled" ELSE "succeeded")
     \/ ~cancel /\ Ends("failed")
     \/ /\ ~cancel /\ Adopt /\ reviewed' = TRUE
        /\ next' \in {"planner", "executor"}    \* executor only with a stage
        /\ inbox' = Applied

ReviewerDecides ==
  /\ Decides("reviewer")
  /\ \/ Ends(IF cancel THEN "cancelled" ELSE "succeeded")
     \/ ~cancel /\ Ends("failed")
     \/ /\ ~cancel /\ Adopt /\ reviewed' = TRUE
        /\ next' \in {"planner", "executor"}    \* executor only with a stage
        /\ UNCHANGED inbox

(* Mutant: begin_dispatch does not check the lease. *)
MayDispatchRevoked(c) == c.role = "executor" /\ ~c.dispatching /\ ~cancel /\ ~pause

(* begin_dispatch, by a call the loop waits for or by a discarded one. *)
MayDispatch(c) == c.role = "executor" /\ ~c.revoked /\ ~c.dispatching /\ ~cancel /\ ~pause

CallDispatches ==
  /\ pc = "call" /\ MayDispatch(lease) /\ sends' = sends + 1
  /\ lease' = [lease EXCEPT !.dispatching = TRUE]
  /\ UNCHANGED <<status, pc, progress, inbox, changed, discarded, requests>>

(* Where a discarded call would dispatch or save something, it is refused. *)
DiscardedGoesOn ==
  \E c \in discarded :
    /\ discarded' = discarded \ {c}
    /\ sends' = IF MayDispatch(c) THEN sends + 1 ELSE sends
    /\ UNCHANGED <<status, pc, progress, inbox, changed, lease, requests>>

(* A flag that the executor meets before it dispatches. *)
ExecutorStops ==
  /\ pc = "call" /\ lease.role = "executor" /\ ~lease.dispatching /\ ~changed
  /\ \/ cancel /\ Ends("cancelled")
     \/ ~cancel /\ pause /\ Ends("paused")

(* The step is committed with its result.  post: the action was observed. *)
ExecutorReturns ==
  /\ Decides("executor")
  /\ \E d \in Directive, post \in BOOLEAN, noted \in BOOLEAN :
       /\ lease.dispatching => d = "act"
       /\ carried' = (d # "act" \/ post)
       /\ acted' = IF lease.dispatching THEN acted + 1 ELSE acted
       /\ stalled' = (stalled /\ ~lease.dispatching)
       /\ reviewed' = (reviewed /\ ~lease.dispatching /\ ~noted)
       /\ steps' = steps + 1
       /\ \/ d = "act" /\ next' = "executor"
          \/ d \in {"advance", "replan"} /\ next' = "planner"
          \/ d = "finish" /\ planExecutor /\ next' = "planner"
          \/ /\ d = "review" \/ (d = "finish" /\ ~planExecutor)
             /\ ~reviewed' /\ next' = "reviewer"
  /\ pc' = "top"
  /\ UNCHANGED <<status, calls, control, requests, sends>>

(* The executor asks for a review that has been held on the same evidence. *)
ReviewRefused ==
  /\ Decides("executor") /\ ~lease.dispatching /\ reviewed /\ Ends("failed")

(* The executor's decision protocol is exhausted, the first time on this      *)
(* evidence.                                                                 *)
ExecutorStalls ==
  /\ Decides("executor") /\ ~lease.dispatching /\ ~stalled
  /\ stalled' = TRUE /\ next' = "planner" /\ carried' = TRUE /\ pc' = "top"
  /\ UNCHANGED <<status, reviewed, steps, acted, calls, control, requests, sends>>

-----------------------------------------------------------------------------
(* steer_task: the adjustment is accepted, then the control is notified. *)
Steer ==
  /\ inbox.accepted < MaxAdjust /\ status \in {"running", "paused"} /\ ~cancel
  /\ inbox' = [inbox EXCEPT !.accepted = inbox.accepted + 1]
  /\ changed' = TRUE
  /\ lease' = IF lease.dispatching THEN lease ELSE [lease EXCEPT !.revoked = TRUE]
  /\ UNCHANGED <<status, pc, progress, discarded, requests, sends>>

RequestPause ==
  /\ status = "running" /\ pauses < MaxPause /\ ~pause /\ ~cancel
  /\ pause' = TRUE /\ pauses' = pauses + 1
  /\ UNCHANGED <<status, pc, progress, control, cancel, sends>>

RequestCancel ==
  /\ status = "running" /\ ~cancel /\ cancel' = TRUE /\ pause' = FALSE
  /\ UNCHANGED <<status, pc, progress, control, pauses, sends>>

(* A paused task is run again from its saved next_role, without a package. *)
Resume ==
  /\ status = "paused" /\ status' = "running" /\ pc' = "top" /\ carried' = FALSE
  /\ UNCHANGED <<next, reviewed, stalled, steps, acted, calls, control, requests, sends>>

LoopActs ==
  \/ LoopTop \/ Observed \/ LoopFails \/ CallIsSteered \/ PlannerDecides \/ ReviewerDecides
  \/ CallDispatches \/ ExecutorStops \/ ExecutorReturns \/ ReviewRefused \/ ExecutorStalls

Next ==
  /\ LoopActs \/ DiscardedGoesOn \/ Steer \/ RequestPause \/ RequestCancel \/ Resume
  /\ UNCHANGED planExecutor

Spec == Init /\ [][Next]_vars

-----------------------------------------------------------------------------
TypeOK ==
  /\ planExecutor \in BOOLEAN
  /\ status \in {"running", "paused", "succeeded", "failed", "cancelled"}
  /\ pc \in {"top", "observing", "call", "over"} /\ next \in Role
  /\ carried \in BOOLEAN /\ reviewed \in BOOLEAN /\ stalled \in BOOLEAN
  /\ changed \in BOOLEAN /\ pause \in BOOLEAN /\ cancel \in BOOLEAN
  /\ steps \in 0..MaxSteps /\ acted \in 0..steps /\ calls \in 0..MaxCalls
  /\ inbox \in [accepted : 0..MaxAdjust, applied : 0..MaxAdjust, dropped : BOOLEAN]
  /\ inbox.applied <= inbox.accepted
  /\ lease \in Lease /\ discarded \subseteq Lease /\ sends \in Nat /\ pauses \in 0..MaxPause

(* Every action that was begun is in a committed step, or its call is still   *)
(* waited for: an adjustment neither loses a receipt nor lets a discarded     *)
(* call act beside its successor.                                             *)
SentIsRecorded ==
  status # "failed" =>
    sends = acted + (IF pc = "call" /\ lease.dispatching THEN 1 ELSE 0)

(* A decision of a call that began before the newest adjustment is not        *)
(* adopted: nothing ends or is planned on it.                                 *)
VerdictIsCurrent ==
  [][ (pc = "call" /\ lease.role # "executor" /\ (pc' = "top" \/ status' = "succeeded")
        /\ discarded' = discarded)
      => lease.revision = inbox.accepted ]_vars

(* An adjustment counts as applied only by a planner that began after it.     *)
AppliedWasSeen ==
  [][ (inbox'.applied > inbox.applied)
      => (lease.role = "planner" /\ inbox'.applied <= lease.revision) ]_vars

(* An action is not begun after an adjustment its call has not seen.          *)
NoObsoleteAction == [][ (sends' > sends) => (lease.revision = inbox.accepted) ]_vars

(* "An accepted update first must be processed before completion".            *)
UpdateBeforeCompletion == status = "succeeded" => ~Pending

===============================================================================
