----------------------------- MODULE AgentProofs -----------------------------
(***************************************************************************)
(* Proofs about what runs inside one agent process, for any number of       *)
(* adjustments, pauses, calls, questions and restarts.                      *)
(*                                                                         *)
(* The loop of the roles: no action is lost or done twice, and nothing is    *)
(* decided, begun or marked as applied by a call that has not seen the       *)
(* newest adjustment.  The dialogue with the user: an answer is handed to a  *)
(* call before it is used up, and a question is settled once.  The tool      *)
(* loop: a request to the model never has a call without its replies.       *)
(* Names of the last two modules carry the name of their instance.          *)
(***************************************************************************)
EXTENDS MCAgent, SequenceTheorems, TLAPS

(* The limits were looked at before a call begins. *)
WithinLimits ==
  /\ pc \in {"observing", "call"} => steps < MaxSteps
  /\ pc = "observing" => calls < MaxCalls

RunsWhileRunning == status = "running" <=> pc # "over"

(* A lease is of the newest revision until an adjustment comes, which it      *)
(* survives only if it was dispatching.                                      *)
LeaseIsCurrent ==
  /\ lease.revision <= inbox.accepted
  /\ lease.dispatching => lease.role = "executor"
  /\ pc = "call" /\ ~lease.revoked /\ ~lease.dispatching => lease.revision = inbox.accepted
  /\ pc = "call" => (changed <=> lease.revision < inbox.accepted)

(* A call that is not waited for is older than every later one, and may not   *)
(* act.                                                                     *)
DiscardedIsOld ==
  \A c \in discarded :
    /\ c.revoked /\ c.revision < inbox.accepted
    /\ pc = "call" => c.revision < lease.revision

IInv ==
  TypeOK /\ WithinLimits /\ RunsWhileRunning /\ LeaseIsCurrent /\ DiscardedIsOld /\ SentIsRecorded

-----------------------------------------------------------------------------
LEMMA InitHolds == ASSUME BoundsAreNumbers PROVE Init => IInv
<1> SUFFICES ASSUME Init PROVE IInv
  OBVIOUS
<1> USE DEF Init, BoundsAreNumbers
<1>1. TypeOK
  <2>1. /\ carried \in BOOLEAN /\ reviewed \in BOOLEAN /\ stalled \in BOOLEAN
        /\ changed \in BOOLEAN /\ pause \in BOOLEAN /\ cancel \in BOOLEAN
    OBVIOUS
  <2>2. /\ inbox \in [accepted : 0..MaxAdjust, applied : 0..MaxAdjust, dropped : BOOLEAN]
        /\ inbox.applied <= inbox.accepted
    OBVIOUS
  <2>3. lease \in Lease
    BY DEF Lease, Role
  <2>4. steps \in 0..MaxSteps /\ acted \in 0..steps /\ calls \in 0..MaxCalls
        /\ pauses \in 0..MaxPause /\ sends \in Nat
    OBVIOUS
  <2> QED BY <2>1, <2>2, <2>3, <2>4 DEF TypeOK, Role
<1>2. WithinLimits /\ RunsWhileRunning /\ LeaseIsCurrent /\ DiscardedIsOld /\ SentIsRecorded
  BY DEF WithinLimits, RunsWhileRunning, LeaseIsCurrent, DiscardedIsOld, SentIsRecorded
<1> QED BY <1>1, <1>2 DEF IInv

(* What every step that leaves the lease and the inbox alone owes. *)
LEMMA EndsKeeps ==
  ASSUME IInv, UNCHANGED planExecutor, NEW s \in {"paused", "succeeded", "failed", "cancelled"},
         Ends(s),
         pc # "over", pc = "call" /\ lease.dispatching => s = "failed"
  PROVE  IInv'
<1> USE DEF IInv, Ends, progress
<1>1. inbox' \in [accepted : 0..MaxAdjust, applied : 0..MaxAdjust, dropped : BOOLEAN]
      /\ inbox'.accepted = inbox.accepted /\ inbox'.applied = inbox.applied
  <2>1. Pending \in BOOLEAN
    BY DEF Pending, TypeOK
  <2> QED BY <2>1 DEF TypeOK
<1>2. TypeOK'
  BY <1>1 DEF TypeOK
<1>3. (WithinLimits /\ RunsWhileRunning /\ LeaseIsCurrent /\ DiscardedIsOld)'
  BY <1>1 DEF TypeOK, WithinLimits, RunsWhileRunning, LeaseIsCurrent, DiscardedIsOld
<1>4. SentIsRecorded'
  BY DEF SentIsRecorded, RunsWhileRunning, TypeOK
<1> QED BY <1>2, <1>3, <1>4

LEMMA EndsAppliedKeeps ==
  ASSUME IInv, UNCHANGED planExecutor, NEW s \in {"succeeded", "failed", "cancelled"},
         EndsApplied(s),
         pc = "call", lease.role = "planner"
  PROVE  IInv'
<1> USE DEF IInv, EndsApplied, progress
<1>1. inbox' \in [accepted : 0..MaxAdjust, applied : 0..MaxAdjust, dropped : BOOLEAN]
      /\ inbox'.accepted = inbox.accepted /\ inbox'.applied <= inbox.accepted
  <2> DEFINE gone == s = "cancelled" /\ Applied.applied < inbox.accepted
  <2>1. Applied \in [accepted : 0..MaxAdjust, applied : 0..MaxAdjust, dropped : BOOLEAN]
        /\ Applied.accepted = inbox.accepted /\ Applied.applied <= inbox.accepted
    BY DEF Applied, TypeOK, LeaseIsCurrent, Lease
  <2>2. gone \in BOOLEAN
    OBVIOUS
  <2>3. inbox' = [Applied EXCEPT !.dropped = gone]
    OBVIOUS
  <2> HIDE DEF gone
  <2> QED BY <2>1, <2>2, <2>3
<1>2. TypeOK'
  BY <1>1 DEF TypeOK
<1>3. (WithinLimits /\ RunsWhileRunning /\ LeaseIsCurrent /\ DiscardedIsOld)'
  BY <1>1 DEF TypeOK, WithinLimits, RunsWhileRunning, LeaseIsCurrent, DiscardedIsOld
<1>4. SentIsRecorded'
  BY DEF SentIsRecorded, RunsWhileRunning, LeaseIsCurrent, TypeOK
<1> QED BY <1>2, <1>3, <1>4

(* A new lease. *)
LEMMA AcquireKeeps ==
  ASSUME IInv, UNCHANGED planExecutor, BoundsAreNumbers, NEW whom \in Role, Acquire(whom),
         pc \in {"top", "observing"}, steps < MaxSteps, calls < MaxCalls,
         next' \in Role, carried' \in BOOLEAN, reviewed' \in BOOLEAN, stalled' \in BOOLEAN,
         UNCHANGED <<status, steps, acted, inbox, discarded, requests, sends>>
  PROVE  IInv'
<1> USE DEF IInv, Acquire, requests
<1>1. lease' \in Lease
  BY DEF Lease, TypeOK
<1>2. calls' \in 0..MaxCalls /\ steps' < MaxSteps /\ acted' \in 0..steps'
      /\ steps' \in 0..MaxSteps
  BY DEF TypeOK, BoundsAreNumbers
<1>3. TypeOK'
  <2>1. changed' \in BOOLEAN
    OBVIOUS
  <2> QED BY <1>1, <1>2, <2>1 DEF TypeOK
<1>4. (WithinLimits /\ RunsWhileRunning)'
  BY <1>2 DEF WithinLimits, RunsWhileRunning
<1>5. (LeaseIsCurrent /\ DiscardedIsOld)'
  BY DEF LeaseIsCurrent, DiscardedIsOld, TypeOK
<1>6. SentIsRecorded'
  BY DEF SentIsRecorded, RunsWhileRunning, TypeOK
<1> QED BY <1>3, <1>4, <1>5, <1>6

LEMMA TopKeeps ==
  ASSUME IInv, UNCHANGED planExecutor, BoundsAreNumbers, LoopTop \/ Observed
  PROVE  IInv'
<1>1. CASE Observed
  <2>1. /\ Acquire(next) /\ pc = "observing" /\ next \in Role
        /\ steps < MaxSteps /\ calls < MaxCalls
        /\ next' \in Role /\ carried' \in BOOLEAN /\ reviewed' \in BOOLEAN /\ stalled' \in BOOLEAN
        /\ UNCHANGED <<status, steps, acted, inbox, discarded, requests, sends>>
    BY <1>1 DEF Observed, IInv, TypeOK, WithinLimits
  <2> QED BY <2>1, AcquireKeeps
<1>2. CASE LoopTop /\ (cancel \/ pause \/ Exhausted)
  <2>1. PICK s \in {"paused", "failed", "cancelled"} : Ends(s)
    BY <1>2 DEF LoopTop
  <2> QED BY <1>2, <2>1, EndsKeeps DEF LoopTop
<1>3. CASE LoopTop /\ ~(cancel \/ pause \/ Exhausted)
  <2> DEFINE whom == IF Pending THEN "planner" ELSE next
  <2>1. /\ pc = "top" /\ next' = whom /\ carried' = FALSE
        /\ IF carried /\ ~Pending THEN Acquire(whom)
           ELSE pc' = "observing" /\ UNCHANGED <<lease, changed, calls>>
        /\ UNCHANGED <<status, reviewed, stalled, steps, acted, inbox, discarded,
                       requests, sends>>
    BY <1>3 DEF LoopTop, IInv, TypeOK
  <2>2. whom \in Role /\ steps < MaxSteps /\ calls < MaxCalls
    BY <1>3 DEF IInv, TypeOK, Role, Exhausted, BoundsAreNumbers
  <2>3. CASE Acquire(whom)
    <3>1. /\ next' \in Role /\ carried' \in BOOLEAN /\ reviewed' \in BOOLEAN
          /\ stalled' \in BOOLEAN
      BY <2>1, <2>2 DEF IInv, TypeOK
    <3> HIDE DEF whom
    <3> QED BY <2>1, <2>2, <2>3, <3>1, AcquireKeeps
  <2>4. CASE pc' = "observing" /\ UNCHANGED <<lease, changed, calls>>
    <3> HIDE DEF whom
    <3>1. TypeOK'
      <4>1. carried' \in BOOLEAN /\ next' \in Role
        BY <2>1, <2>2
      <4> QED BY <2>1, <2>4, <4>1 DEF IInv, TypeOK, requests
    <3>2. (/\ WithinLimits /\ RunsWhileRunning /\ LeaseIsCurrent
           /\ DiscardedIsOld /\ SentIsRecorded)'
      BY <2>1, <2>2, <2>4 DEF IInv, TypeOK, WithinLimits, RunsWhileRunning, LeaseIsCurrent,
          DiscardedIsOld, SentIsRecorded, requests
    <3> QED BY <3>1, <3>2 DEF IInv
  <2> QED BY <2>1, <2>3, <2>4
<1> QED BY <1>1, <1>2, <1>3

LEMMA SteeredKeeps ==
  ASSUME IInv, UNCHANGED planExecutor, CallIsSteered \/ DiscardedGoesOn
  PROVE  IInv'
<1> USE DEF IInv, requests, progress
<1>1. CASE CallIsSteered
  <2> DEFINE old == [lease EXCEPT !.revoked = TRUE]
  <2>1. /\ old \in Lease /\ old.revoked /\ old.revision = lease.revision
        /\ lease.revision < inbox.accepted /\ ~lease.dispatching
    BY <1>1 DEF CallIsSteered, Obsolete, TypeOK, Lease, LeaseIsCurrent
  <2>2. discarded' = discarded \union {old}
    BY <1>1 DEF CallIsSteered
  <2> HIDE DEF old
  <2>3. TypeOK'
    BY <1>1, <2>1, <2>2 DEF CallIsSteered, TypeOK
  <2>4. DiscardedIsOld'
    BY <1>1, <2>1, <2>2 DEF CallIsSteered, DiscardedIsOld
  <2>5. (WithinLimits /\ RunsWhileRunning /\ LeaseIsCurrent /\ SentIsRecorded)'
    BY <1>1, <2>1 DEF CallIsSteered, TypeOK, WithinLimits, RunsWhileRunning, LeaseIsCurrent,
        SentIsRecorded
  <2> QED BY <2>3, <2>4, <2>5
<1>2. CASE DiscardedGoesOn
  <2>1. PICK c \in discarded : discarded' = discarded \ {c} /\ sends' = sends
    BY <1>2 DEF DiscardedGoesOn, MayDispatch, DiscardedIsOld
  <2>2. UNCHANGED <<status, pc, progress, inbox, changed, lease, requests>>
    BY <1>2 DEF DiscardedGoesOn
  <2>3. TypeOK'
    BY <2>1, <2>2 DEF TypeOK
  <2>4. (WithinLimits /\ RunsWhileRunning /\ LeaseIsCurrent /\ DiscardedIsOld /\ SentIsRecorded)'
    BY <2>1, <2>2 DEF WithinLimits, RunsWhileRunning, LeaseIsCurrent, DiscardedIsOld,
        SentIsRecorded
  <2> QED BY <2>3, <2>4
<1> QED BY <1>1, <1>2

LEMMA PlannerKeeps ==
  ASSUME IInv, UNCHANGED planExecutor, PlannerDecides
  PROVE  IInv'
<1>1. pc = "call" /\ lease.role = "planner"
  BY DEF PlannerDecides, Decides
<1>2. CASE \E s \in {"succeeded", "failed", "cancelled"} : EndsApplied(s)
  BY <1>1, <1>2, EndsAppliedKeeps
<1>3. CASE /\ inbox' = Applied /\ Adopt
           /\ next' \in {"executor", "reviewer"} /\ reviewed' \in {reviewed, FALSE}
  <2>1. Applied \in [accepted : 0..MaxAdjust, applied : 0..MaxAdjust, dropped : BOOLEAN]
        /\ Applied.accepted = inbox.accepted /\ Applied.applied <= inbox.accepted
    BY DEF Applied, IInv, TypeOK, LeaseIsCurrent, Lease
  <2>2. reviewed' \in BOOLEAN /\ next' \in Role /\ carried' \in BOOLEAN
    BY <1>3 DEF IInv, TypeOK, Role, Adopt
  <2>3. TypeOK'
    BY <1>3, <2>1, <2>2 DEF IInv, TypeOK, Adopt, requests
  <2>4. (WithinLimits /\ RunsWhileRunning /\ LeaseIsCurrent /\ DiscardedIsOld /\ SentIsRecorded)'
    BY <1>1, <1>3, <2>1 DEF IInv, TypeOK, Adopt, WithinLimits, RunsWhileRunning, LeaseIsCurrent,
        DiscardedIsOld, SentIsRecorded
  <2> QED BY <2>3, <2>4 DEF IInv
<1> QED BY <1>2, <1>3 DEF PlannerDecides

LEMMA ReviewerKeeps ==
  ASSUME IInv, UNCHANGED planExecutor, ReviewerDecides
  PROVE  IInv'
<1>1. pc = "call" /\ lease.role = "reviewer" /\ ~lease.dispatching
  BY DEF ReviewerDecides, Decides, IInv, LeaseIsCurrent
<1>2. CASE \E s \in {"succeeded", "failed", "cancelled"} : Ends(s)
  BY <1>1, <1>2, EndsKeeps
<1>3. CASE Adopt /\ reviewed' = TRUE /\ next' \in {"planner", "executor"} /\ UNCHANGED inbox
  <2>1. reviewed' \in BOOLEAN /\ next' \in Role /\ carried' \in BOOLEAN
    BY <1>3 DEF Role, Adopt
  <2>2. TypeOK'
    BY <1>3, <2>1 DEF IInv, TypeOK, Adopt, requests
  <2>3. (WithinLimits /\ RunsWhileRunning /\ LeaseIsCurrent /\ DiscardedIsOld /\ SentIsRecorded)'
    BY <1>1, <1>3 DEF IInv, TypeOK, Adopt, WithinLimits, RunsWhileRunning, LeaseIsCurrent,
        DiscardedIsOld, SentIsRecorded
  <2> QED BY <2>2, <2>3 DEF IInv
<1> QED BY <1>2, <1>3 DEF ReviewerDecides

LEMMA ExecutorKeeps ==
  ASSUME IInv, UNCHANGED planExecutor, BoundsAreNumbers, CallDispatches \/ ExecutorStalls
           \/ ExecutorReturns
  PROVE  IInv'
<1> USE DEF IInv, requests, progress, control
<1>1. CASE CallDispatches
  <2>1. /\ lease' \in Lease /\ lease'.role = "executor" /\ lease'.dispatching
        /\ lease'.revision = lease.revision /\ ~lease.dispatching /\ pc = "call"
        /\ UNCHANGED <<status, pc, progress, inbox, changed, discarded, requests>>
        /\ sends' = sends + 1
    BY <1>1 DEF CallDispatches, MayDispatch, TypeOK, Lease
  <2>2. TypeOK'
    BY <2>1 DEF TypeOK
  <2>3. (WithinLimits /\ RunsWhileRunning /\ LeaseIsCurrent /\ DiscardedIsOld /\ SentIsRecorded)'
    BY <2>1 DEF TypeOK, WithinLimits, RunsWhileRunning, LeaseIsCurrent, DiscardedIsOld,
                SentIsRecorded
  <2> QED BY <2>2, <2>3
<1>2. CASE ExecutorStalls
  <2>1. stalled' \in BOOLEAN /\ carried' \in BOOLEAN /\ next' \in Role
    BY <1>2 DEF ExecutorStalls, Role
  <2>2. TypeOK'
    BY <1>2, <2>1 DEF ExecutorStalls, TypeOK
  <2>3. (WithinLimits /\ RunsWhileRunning /\ LeaseIsCurrent /\ DiscardedIsOld /\ SentIsRecorded)'
    BY <1>2 DEF ExecutorStalls, Decides, TypeOK, WithinLimits, RunsWhileRunning, LeaseIsCurrent,
                DiscardedIsOld, SentIsRecorded
  <2> QED BY <2>2, <2>3
<1>3. CASE ExecutorReturns
  <2>1. /\ pc = "call" /\ pc' = "top" /\ UNCHANGED <<status, calls, control, requests, sends>>
        /\ acted' = (IF lease.dispatching THEN acted + 1 ELSE acted) /\ steps' = steps + 1
    BY <1>3 DEF ExecutorReturns, Decides
  <2>2. carried' \in BOOLEAN /\ stalled' \in BOOLEAN /\ reviewed' \in BOOLEAN
    BY <1>3 DEF ExecutorReturns
  <2>3. next' \in Role
    BY <1>3 DEF ExecutorReturns, Role, Directive
  <2>4. steps' \in 0..MaxSteps /\ acted' \in 0..steps'
    BY <2>1 DEF TypeOK, WithinLimits, BoundsAreNumbers
  <2>5. TypeOK'
    BY <2>1, <2>2, <2>3, <2>4 DEF TypeOK
  <2>6. (WithinLimits /\ RunsWhileRunning /\ LeaseIsCurrent /\ DiscardedIsOld /\ SentIsRecorded)'
    BY <2>1 DEF TypeOK, WithinLimits, RunsWhileRunning, LeaseIsCurrent, DiscardedIsOld,
                SentIsRecorded
  <2> QED BY <2>5, <2>6
<1> QED BY <1>1, <1>2, <1>3

LEMMA StopKeeps ==
  ASSUME IInv, UNCHANGED planExecutor, LoopFails \/ ExecutorStops \/ ReviewRefused
  PROVE  IInv'
<1>1. PICK s \in {"paused", "failed", "cancelled"} :
        Ends(s) /\ pc # "over" /\ (pc = "call" /\ lease.dispatching => s = "failed")
  BY DEF LoopFails, ExecutorStops, ReviewRefused, Decides
<1> QED BY <1>1, EndsKeeps

LEMMA SteerKeeps ==
  ASSUME IInv, UNCHANGED planExecutor, BoundsAreNumbers, Steer
  PROVE  IInv'
<1> USE DEF IInv, requests, progress
<1>1. /\ inbox' \in [accepted : 0..MaxAdjust, applied : 0..MaxAdjust, dropped : BOOLEAN]
      /\ inbox'.accepted = inbox.accepted + 1 /\ inbox'.applied = inbox.applied
  BY DEF Steer, TypeOK, BoundsAreNumbers
<1>2. /\ lease' \in Lease /\ lease'.role = lease.role /\ lease'.revision = lease.revision
      /\ lease'.dispatching = lease.dispatching /\ (lease.dispatching \/ lease'.revoked)
  BY DEF Steer, TypeOK, Lease
<1>3. changed' = TRUE /\ UNCHANGED <<status, pc, progress, discarded, requests, sends>>
  BY DEF Steer
<1>4. TypeOK'
  <2>1. changed' \in BOOLEAN /\ inbox'.applied <= inbox'.accepted
    BY <1>1, <1>3 DEF TypeOK
  <2> QED BY <1>1, <1>2, <1>3, <2>1 DEF TypeOK
<1>5. (WithinLimits /\ RunsWhileRunning /\ SentIsRecorded)'
  BY <1>2, <1>3 DEF WithinLimits, RunsWhileRunning, SentIsRecorded
<1>6. LeaseIsCurrent'
  BY <1>1, <1>2, <1>3 DEF LeaseIsCurrent, TypeOK, Lease
<1>7. DiscardedIsOld'
  BY <1>1, <1>2, <1>3 DEF DiscardedIsOld, TypeOK, Lease
<1> QED BY <1>4, <1>5, <1>6, <1>7

LEMMA RequestKeeps ==
  ASSUME IInv, UNCHANGED planExecutor, BoundsAreNumbers, RequestPause \/ RequestCancel \/ Resume
  PROVE  IInv'
<1> USE DEF IInv, requests, progress, control
<1>1. /\ pause' \in BOOLEAN /\ cancel' \in BOOLEAN /\ carried' \in BOOLEAN
      /\ pauses' \in 0..MaxPause
  <2>1. pause' \in BOOLEAN /\ cancel' \in BOOLEAN /\ carried' \in BOOLEAN
    BY DEF RequestPause, RequestCancel, Resume, TypeOK
  <2>2. pauses' \in 0..MaxPause
    BY DEF RequestPause, RequestCancel, Resume, TypeOK, BoundsAreNumbers
  <2> QED BY <2>1, <2>2
<1>2. UNCHANGED <<next, reviewed, stalled, steps, acted, calls, control, sends>>
  BY DEF RequestPause, RequestCancel, Resume
<1>3. \/ UNCHANGED <<status, pc>>
      \/ status = "paused" /\ status' = "running" /\ pc' = "top"
  BY DEF RequestPause, RequestCancel, Resume
<1>4. TypeOK'
  BY <1>1, <1>2, <1>3 DEF TypeOK
<1>5. (WithinLimits /\ RunsWhileRunning /\ LeaseIsCurrent /\ DiscardedIsOld)'
  BY <1>2, <1>3 DEF WithinLimits, RunsWhileRunning, LeaseIsCurrent, DiscardedIsOld
<1>6. SentIsRecorded'
  BY <1>2, <1>3 DEF SentIsRecorded, RunsWhileRunning
<1> QED BY <1>4, <1>5, <1>6

LEMMA StutterKeeps == ASSUME IInv, UNCHANGED vars PROVE IInv'
<1> USE DEF vars, progress, control, requests
<1>1. TypeOK'
  BY DEF IInv, TypeOK
<1>2. (WithinLimits /\ RunsWhileRunning /\ LeaseIsCurrent /\ DiscardedIsOld /\ SentIsRecorded)'
  BY DEF IInv, WithinLimits, RunsWhileRunning, LeaseIsCurrent, DiscardedIsOld, SentIsRecorded
<1> QED BY <1>1, <1>2 DEF IInv

LEMMA NextKeeps == ASSUME BoundsAreNumbers, IInv, [Next]_vars PROVE IInv'
  BY TopKeeps, SteeredKeeps, PlannerKeeps, ReviewerKeeps, ExecutorKeeps, StopKeeps, SteerKeeps,
     RequestKeeps, StutterKeeps
     DEF Next, LoopActs

LEMMA InvariantHolds == ASSUME BoundsAreNumbers PROVE Spec => []IInv
<1>1. Init => IInv
  BY InitHolds
<1>2. IInv /\ [Next]_vars => IInv'
  BY NextKeeps
<1> QED BY <1>1, <1>2, PTL DEF Spec

-----------------------------------------------------------------------------
(* The limits of calls and steps hold, and no more actions are executed than  *)
(* decisions were taken.                                                     *)
THEOREM TypeCorrect == ASSUME BoundsAreNumbers PROVE Spec => []TypeOK
<1>1. IInv => TypeOK
  BY DEF IInv
<1> QED BY <1>1, InvariantHolds, PTL

(* As long as the task has not failed, the actions that were begun are those  *)
(* in its committed steps and the one its call is waited for: an adjustment   *)
(* loses no receipt and lets no discarded call act.                          *)
THEOREM NothingIsLostOrTwice == ASSUME BoundsAreNumbers PROVE Spec => []SentIsRecorded
<1>1. IInv => SentIsRecorded
  BY DEF IInv
<1> QED BY <1>1, InvariantHolds, PTL

(* An adjustment is marked as applied only by a planner that began after it.  *)
THEOREM AppliedIsSeen == ASSUME BoundsAreNumbers PROVE Spec => AppliedWasSeen
<1> DEFINE Seen == (inbox'.applied > inbox.applied)
                      => (lease.role = "planner" /\ inbox'.applied <= lease.revision)
<1>1. IInv /\ [Next]_vars => [Seen]_vars
  <2> SUFFICES ASSUME IInv, Next, inbox'.applied > inbox.applied
               PROVE  lease.role = "planner" /\ inbox'.applied <= lease.revision
    OBVIOUS
  <2>0. inbox \in [accepted : 0..MaxAdjust, applied : 0..MaxAdjust, dropped : BOOLEAN]
    BY DEF IInv, TypeOK
  <2>1. CASE PlannerDecides
    <3>1. lease.role = "planner" /\ lease.revision \in 0..MaxAdjust
      BY <2>1 DEF PlannerDecides, Decides, IInv, TypeOK, Lease
    <3>2. inbox'.applied = Applied.applied
      BY <2>0, <2>1 DEF PlannerDecides, EndsApplied, Applied
    <3> QED BY <2>0, <3>1, <3>2 DEF Applied
  <2>2. ~PlannerDecides => inbox'.applied = inbox.applied
    <3>1. CASE \E s : Ends(s)
      BY <2>0, <3>1 DEF Ends
    <3>2. CASE Steer
      BY <2>0, <3>2 DEF Steer
    <3>3. CASE UNCHANGED inbox
      BY <3>3
    <3> QED BY <3>1, <3>2, <3>3 DEF Next, LoopActs, LoopTop, Observed, LoopFails, CallIsSteered,
        ReviewerDecides, CallDispatches, ExecutorStops, ExecutorReturns, ReviewRefused,
        ExecutorStalls, DiscardedGoesOn, RequestPause, RequestCancel, Resume, control
  <2> QED BY <2>0, <2>1, <2>2
<1>2. AppliedWasSeen <=> [][Seen]_vars
  BY DEF AppliedWasSeen
<1> HIDE DEF Seen
<1> QED BY <1>1, <1>2, InvariantHolds, PTL DEF Spec

(* An action is begun only by a call that has seen every adjustment.          *)
THEOREM ActionIsCurrent == ASSUME BoundsAreNumbers PROVE Spec => NoObsoleteAction
<1> DEFINE Current == (sends' > sends) => (lease.revision = inbox.accepted)
<1>1. IInv /\ [Next]_vars => [Current]_vars
  <2> SUFFICES ASSUME IInv, Next, sends' > sends PROVE lease.revision = inbox.accepted
    OBVIOUS
  <2>1. CASE CallDispatches
    BY <2>1 DEF CallDispatches, MayDispatch, IInv, LeaseIsCurrent
  <2>2. CASE DiscardedGoesOn
    BY <2>2 DEF DiscardedGoesOn, MayDispatch, IInv, DiscardedIsOld, TypeOK
  <2>3. ~CallDispatches /\ ~DiscardedGoesOn => sends' = sends
    BY DEF Next, LoopActs, LoopTop, Observed, LoopFails, CallIsSteered, PlannerDecides, Adopt,
           EndsApplied, Ends, ReviewerDecides, ExecutorStops, ExecutorReturns, ReviewRefused,
           ExecutorStalls, Steer, RequestPause, RequestCancel, Resume
  <2> QED BY <2>1, <2>2, <2>3 DEF IInv, TypeOK
<1>2. NoObsoleteAction <=> [][Current]_vars
  BY DEF NoObsoleteAction
<1> HIDE DEF Current
<1> QED BY <1>1, <1>2, InvariantHolds, PTL DEF Spec

(* A plan or a verdict is adopted only from a call that has seen every       *)
(* adjustment: nothing is planned or ends on an obsolete one.                *)
THEOREM DecisionIsCurrent == ASSUME BoundsAreNumbers PROVE Spec => VerdictIsCurrent
<1> DEFINE Current ==
      (pc = "call" /\ lease.role # "executor" /\ (pc' = "top" \/ status' = "succeeded")
         /\ discarded' = discarded)
        => lease.revision = inbox.accepted
<1>1. IInv /\ [Next]_vars => [Current]_vars
  <2> SUFFICES ASSUME IInv, Next, pc = "call", lease.role # "executor",
                      pc' = "top" \/ status' = "succeeded", discarded' = discarded
               PROVE  lease.revision = inbox.accepted
    OBVIOUS
  <2>1. ~lease.dispatching
    BY DEF IInv, LeaseIsCurrent
  <2>2. CASE CallIsSteered
    <3> DEFINE old == [lease EXCEPT !.revoked = TRUE]
    <3>1. old \in discarded /\ old.revision = lease.revision
      BY <2>2 DEF CallIsSteered, IInv, TypeOK, Lease
    <3>2. lease.revision < lease.revision
      BY <3>1 DEF IInv, DiscardedIsOld
    <3> QED BY <3>2 DEF IInv, TypeOK, Lease
  <2>3. CASE ~Obsolete
    BY <2>1, <2>3 DEF Obsolete, IInv, LeaseIsCurrent, TypeOK, Lease
  <2>4. CASE \/ DiscardedGoesOn \/ Steer \/ RequestPause \/ RequestCancel \/ Resume
             \/ CallDispatches \/ LoopTop \/ Observed \/ ExecutorStops
    <3>1. status # "succeeded" /\ pc # "over" /\ status # "paused"
      BY DEF IInv, RunsWhileRunning
    <3> QED BY <2>4, <3>1 DEF DiscardedGoesOn, Steer, RequestPause, RequestCancel, Resume,
        CallDispatches, LoopTop, Observed, ExecutorStops
  <2> QED BY <2>2, <2>3, <2>4 DEF Next, LoopActs, LoopFails, PlannerDecides, ReviewerDecides,
      ExecutorReturns, ReviewRefused, ExecutorStalls, Decides
<1>2. VerdictIsCurrent <=> [][Current]_vars
  BY DEF VerdictIsCurrent
<1> HIDE DEF Current
<1> QED BY <1>1, <1>2, InvariantHolds, PTL DEF Spec

-----------------------------------------------------------------------------
(* The dialogue with the user. *)

Open == Ask!Is({"pending", "resolved"})
Adjusted == askInbox.applied < askInbox.accepted
Calling == run.at \in {"role", "asking"}

(* Only the last question is open, and an open one has no outcome; the         *)
(* assistant's is in its first version.                                      *)
OnlyLastIsOpen ==
  \A i \in 1..Ask!Last :
    asked[i].state = "pending" =>
      i = Ask!Last /\ asked[i].outcome = "none"
        /\ (asked[i].owner = "assistant" => asked[i].version = 1)

(* A question that is open keeps its task waiting, and nobody calls a role.     *)
PendingWaits ==
  Ask!Is({"pending"}) =>
    askStatus = "waiting" /\ run.at \notin {"begun", "role"}

(* The answer a call goes on with was handed to it, and so was the one that is  *)
(* there while it goes on.                                                   *)
AnswerIsHeard ==
  /\ run.answer # 0 => run.answer \in heard
  /\ run.at = "role" /\ ~run.steered /\ Ask!Is({"resolved"}) => Ask!Last \in heard

(* An adjustment supersedes the question of the call it tells. *)
SteeredIsSuperseded == Calling /\ run.steered => ~Open /\ Adjusted

(* The role that asked is called next, and is the planner when there is an     *)
(* adjustment that it has not seen.                                          *)
AskerIsNext ==
  Open => /\ Adjusted => Ask!Current.role = "planner"
          /\ Ask!Current.role = askNext \/ Adjusted

CallIsNext ==
  Calling /\ ~run.steered =>
    /\ Adjusted => run.role = "planner"
    /\ run.role = askNext \/ Adjusted

(* Who answers a question by a cancel does not have the task go on. *)
RefusalEnds ==
  Ask!Is({"resolved"}) /\ Ask!Current.outcome = "cancel_task" =>
    askStatus \notin {"queued", "running"}

DialogueInv ==
  /\ Ask!TypeOK /\ Ask!AnswerIsHanded /\ OnlyLastIsOpen /\ PendingWaits /\ AnswerIsHeard
  /\ SteeredIsSuperseded /\ AskerIsNext /\ CallIsNext /\ RefusalEnds

LEMMA SavedIs ==
  ASSUME Ask!TypeOK, Ask!Last > 0, NEW item \in Ask!Interaction, Ask!Save(item)
  PROVE  /\ asked' \in Seq(Ask!Interaction) /\ Ask!Last' = Ask!Last
         /\ asked'[Ask!Last] = item
         /\ \A i \in 1..Ask!Last : i # Ask!Last => asked'[i] = asked[i]
<1>1. asked \in Seq(Ask!Interaction) /\ Ask!Last \in Nat /\ DOMAIN asked = 1..Ask!Last
  BY LenProperties DEF Ask!TypeOK, Ask!Last
<1>2. asked' = [asked EXCEPT ![Ask!Last] = item]
  BY DEF Ask!Save
<1>3. Ask!Last \in 1..Len(asked) /\ Ask!Last = Len(asked)
  BY <1>1 DEF Ask!Last
<1>4. /\ asked' \in Seq(Ask!Interaction) /\ Len(asked') = Len(asked)
      /\ \A j \in 1..Len(asked) : asked'[j] = IF j = Ask!Last THEN item ELSE asked[j]
  BY <1>1, <1>2, <1>3, ExceptSeq
<1> QED BY <1>3, <1>4 DEF Ask!Last

(* A question that changes: its fields, and what the others are. *)
LEMMA QuestionsAre ==
  ASSUME Ask!TypeOK
  PROVE  /\ asked \in Seq(Ask!Interaction) /\ Ask!Last \in Nat /\ Len(asked) = Ask!Last
         /\ \A i \in 1..Ask!Last : asked[i] \in Ask!Interaction
BY LenProperties, ElementOfSeq DEF Ask!TypeOK, Ask!Last

LEMMA DialogueInitHolds == ASSUME Ask!BoundsAreNumbers, Ask!Init PROVE DialogueInv
<1>1. asked \in Seq(Ask!Interaction) /\ Ask!Last = 0
  BY EmptySeq DEF Ask!Init, Ask!Last
<1>2. Ask!TypeOK
  <2>1. 0 \in 0..MaxBind /\ 0 \in 0..MaxSteer /\ 0 \in 0..MaxFault
        /\ 0 \in 0..QuestionLimit[origin]
    BY DEF Ask!Init, Ask!BoundsAreNumbers, Ask!Surface
  <2>2. view \in [Ask!Surface -> [id : 0..QuestionLimit[origin], version : 0..2]]
    BY <2>1 DEF Ask!Init, Ask!Unseen
  <2>3. run \in [at : {"off", "begun", "role", "asking", "parked"}, role : Ask!Role,
                 answer : 0..QuestionLimit[origin], steered : BOOLEAN]
    BY <2>1 DEF Ask!Init, Ask!NoRun, Ask!Role
  <2>4. askInbox \in [accepted : 0..MaxSteer, applied : 0..MaxSteer]
        /\ askInbox.applied <= askInbox.accepted
    BY <2>1 DEF Ask!Init
  <2>5. Ask!Last <= QuestionLimit[origin]
    BY <1>1, <2>1
  <2> QED BY <1>1, <2>1, <2>2, <2>3, <2>4, <2>5 DEF Ask!Init, Ask!TypeOK, Ask!Role, Ask!Ended
<1> QED BY <1>1, <1>2
  DEF Ask!Init, DialogueInv, Ask!AnswerIsHanded, OnlyLastIsOpen, PendingWaits, AnswerIsHeard,
      SteeredIsSuperseded, AskerIsNext, CallIsNext, RefusalEnds, Open, Adjusted, Calling,
      Ask!Is, Ask!NoRun

LEMMA CallsWhom ==
  ASSUME Ask!BoundsAreNumbers, Ask!TypeOK, NEW wanted \in Ask!Role, Ask!Calls(wanted)
  PROVE  /\ run'.at = "role" /\ run'.steered = FALSE
         /\ run'.role = (IF Adjusted THEN "planner" ELSE wanted) /\ run'.role \in Ask!Role
         /\ run'.answer \in 0..QuestionLimit[origin] /\ heard \subseteq heard'
         /\ run'.answer # 0 => run'.answer \in heard'
         /\ heard' \subseteq 1..Ask!Last
         /\ (/\ Ask!Is({"resolved"})
             /\ Ask!Current.outcome # "cancel_task"
             /\ Ask!Current.role = run'.role) => Ask!Last \in heard'
         /\ run' \in [at : {"off", "begun", "role", "asking", "parked"}, role : Ask!Role,
                      answer : 0..QuestionLimit[origin], steered : BOOLEAN]
<1> DEFINE r == IF Adjusted THEN "planner" ELSE wanted
           a == Ask!Continuation(r)
<1>1. /\ run' = [at |-> "role", role |-> r, answer |-> a, steered |-> FALSE]
      /\ heard' = heard \union ({a} \ {0})
  BY DEF Ask!Calls, Adjusted
<1>2. r \in Ask!Role
  BY DEF Ask!Role
<1>3. a = (IF /\ Ask!Is({"resolved"})
              /\ Ask!Current.outcome # "cancel_task"
              /\ Ask!Current.role = r
           THEN Ask!Last ELSE 0)
  BY DEF Ask!Continuation
<1>4. Ask!Is({"resolved"}) => Ask!Last > 0
  BY DEF Ask!Is
<1> HIDE DEF r, a
<1>5. Ask!Last \in Nat /\ Ask!Last <= QuestionLimit[origin] /\ heard \subseteq 1..Ask!Last
      /\ QuestionLimit[origin] \in Nat
  BY QuestionsAre DEF Ask!TypeOK, Ask!BoundsAreNumbers, Ask!Surface
<1>6. a \in 0..QuestionLimit[origin] /\ (a # 0 => a = Ask!Last /\ Ask!Last > 0)
  BY <1>3, <1>4, <1>5
<1> QED BY <1>1, <1>2, <1>3, <1>4, <1>5, <1>6 DEF r

Begun == [Ask!NoRun EXCEPT !.at = "begun"]

LEMMA NoRunIs ==
  ASSUME Ask!BoundsAreNumbers, Ask!TypeOK
  PROVE  LET runs == [at : {"off", "begun", "role", "asking", "parked"}, role : Ask!Role,
                      answer : 0..QuestionLimit[origin], steered : BOOLEAN]
         IN  /\ Ask!NoRun \in runs /\ Ask!NoRun.at = "off" /\ Ask!NoRun.answer = 0
             /\ Ask!NoRun.steered = FALSE
             /\ Begun \in runs /\ Begun.at = "begun" /\ Begun.answer = 0 /\ Begun.steered = FALSE
<1> DEFINE runs == [at : {"off", "begun", "role", "asking", "parked"}, role : Ask!Role,
                    answer : 0..QuestionLimit[origin], steered : BOOLEAN]
<1>1. 0 \in 0..QuestionLimit[origin] /\ "planner" \in Ask!Role
  BY DEF Ask!TypeOK, Ask!BoundsAreNumbers, Ask!Surface, Ask!Role
<1>2. Ask!NoRun \in runs /\ Ask!NoRun.at = "off" /\ Ask!NoRun.answer = 0
      /\ Ask!NoRun.steered = FALSE
  BY <1>1 DEF Ask!NoRun
<1>3. Begun \in runs /\ Begun.at = "begun" /\ Begun.answer = 0 /\ Begun.steered = FALSE
  BY <1>2 DEF Begun
<1> QED BY <1>2, <1>3

LEMMA BackgroundScheduleKeeps ==
  ASSUME Ask!BoundsAreNumbers, DialogueInv, 
         Ask!BackgroundSchedule \/ Ask!TickSchedules
  PROVE  DialogueInv'
<1>1. /\ run' = IF askStatus = "queued" /\ ~Ask!Live
                THEN [Ask!NoRun EXCEPT !.at = "begun"]
                ELSE run
      /\ UNCHANGED <<Ask!rowVars, due, Ask!hostVars, askInbox, heard, stop, faults>>
      /\ scheduled' \in BOOLEAN
  BY DEF Ask!BackgroundSchedule, Ask!TickSchedules, Ask!Scheduled, DialogueInv, Ask!TypeOK
<1>2. run' = run \/ (askStatus = "queued" /\ run' = Begun)
  BY <1>1 DEF Begun
<1>3. Ask!TypeOK'
  BY <1>1, <1>2, NoRunIs DEF DialogueInv, Ask!TypeOK, Ask!Last, Ask!rowVars, Ask!hostVars
<1> QED BY <1>1, <1>2, <1>3, NoRunIs
  DEF DialogueInv, Ask!AnswerIsHanded, OnlyLastIsOpen, PendingWaits, AnswerIsHeard,
      SteeredIsSuperseded, AskerIsNext, CallIsNext, RefusalEnds, Open, Adjusted, Calling,
      Ask!Is, Ask!Last, Ask!Current, Ask!rowVars, Ask!hostVars

LEMMA RunBeginsKeeps ==
  ASSUME Ask!BoundsAreNumbers, DialogueInv, Ask!RunBegins
  PROVE  DialogueInv'
<1>0. askNext \in Ask!Role /\ 0 \in 0..QuestionLimit[origin]
  BY DEF DialogueInv, Ask!TypeOK, Ask!BoundsAreNumbers, Ask!Surface
<1>1. CASE askStatus = "queued"
  <2>1. /\ askStatus' = "running" /\ Ask!Calls(askNext) /\ UNCHANGED stop
        /\ UNCHANGED <<asked, askNext, due, Ask!hostVars, askInbox, scheduled, faults>>
    BY <1>1 DEF Ask!RunBegins
  <2> QED BY <1>0, <1>1, <2>1, CallsWhom
    DEF DialogueInv, Ask!TypeOK, Ask!AnswerIsHanded, OnlyLastIsOpen, PendingWaits,
        AnswerIsHeard, SteeredIsSuperseded, AskerIsNext, CallIsNext, RefusalEnds, Open,
        Adjusted, Calling, Ask!Is, Ask!Last, Ask!Current, Ask!rowVars, Ask!hostVars
<1>2. CASE askStatus # "queued"
  BY <1>0, <1>2, NoRunIs
    DEF Ask!RunBegins, DialogueInv, Ask!TypeOK, Ask!AnswerIsHanded, OnlyLastIsOpen,
        PendingWaits, AnswerIsHeard, SteeredIsSuperseded, AskerIsNext, CallIsNext, RefusalEnds,
        Open, Adjusted, Calling, Ask!Is, Ask!Last, Ask!Current, Ask!rowVars, Ask!hostVars
<1> QED BY <1>1, <1>2

LEMMA RunSuspendsKeeps ==
  ASSUME Ask!BoundsAreNumbers, DialogueInv, Ask!RunSuspends \/ Ask!RoleIsSteered
  PROVE  DialogueInv'
<1> USE DEF DialogueInv, Ask!TypeOK, Ask!AnswerIsHanded, OnlyLastIsOpen, PendingWaits,
            AnswerIsHeard, SteeredIsSuperseded, AskerIsNext, CallIsNext, RefusalEnds, Open,
            Adjusted, Calling, Ask!Is, Ask!Last, Ask!Current, Ask!rowVars, Ask!hostVars
<1>1. CASE run.steered
  <2>1. /\ Ask!Calls("planner")
        /\ UNCHANGED <<askStatus, askNext, stop, asked, due, Ask!hostVars, askInbox>>
        /\ UNCHANGED <<scheduled, faults>> /\ Calling
    BY <1>1 DEF Ask!RunSuspends, Ask!RoleIsSteered
  <2>2. "planner" \in Ask!Role
    BY DEF Ask!Role
  <2> QED BY <1>1, <2>1, <2>2, CallsWhom
<1>2. CASE ~run.steered
  <2>1. /\ Ask!RunSuspends /\ askStatus' = "waiting" /\ askNext' = run.role /\ run.at = "asking"
        /\ run' = [run EXCEPT !.at = "parked"]
        /\ UNCHANGED <<asked, due, Ask!hostVars, askInbox, heard, stop, scheduled, faults>>
    BY <1>2 DEF Ask!RunSuspends, Ask!RoleIsSteered
  <2> QED BY <1>2, <2>1
<1> QED BY <1>1, <1>2

LEMMA QuietKeeps ==
  ASSUME Ask!BoundsAreNumbers, DialogueInv, Ask!RunEnds \/ Ask!Subscribe \/ Ask!DeadlinePasses
  PROVE  DialogueInv'
<1> USE DEF DialogueInv, Ask!TypeOK, Ask!AnswerIsHanded, OnlyLastIsOpen, PendingWaits,
            AnswerIsHeard, SteeredIsSuperseded, AskerIsNext, CallIsNext, RefusalEnds, Open,
            Adjusted, Calling, Ask!Is, Ask!Last, Ask!Current, Ask!rowVars, Ask!hostVars,
            Ask!runVars
<1>1. CASE Ask!RunEnds
  <2>1. 0 \in 0..QuestionLimit[origin]
    BY DEF Ask!BoundsAreNumbers, Ask!Surface
  <2> QED BY <1>1, <2>1 DEF Ask!RunEnds, Ask!NoRun, Ask!Role
<1>2. CASE Ask!Subscribe
  BY <1>2 DEF Ask!Subscribe, Ask!BoundsAreNumbers
<1>3. CASE Ask!DeadlinePasses
  BY <1>3 DEF Ask!DeadlinePasses
<1> QED BY <1>1, <1>2, <1>3

(* The question as it is changed: each change by what it says. *)
LEMMA StateChanges ==
  ASSUME NEW r \in Ask!Interaction,
         NEW s \in {"pending", "resolved", "consumed", "superseded", "invalidated"}
  PROVE  LET q == [r EXCEPT !.state = s]
         IN  /\ q \in Ask!Interaction /\ q.state = s /\ q.outcome = r.outcome
             /\ q.role = r.role /\ q.owner = r.owner /\ q.version = r.version
BY DEF Ask!Interaction

Settled(r, s, o) == [r EXCEPT !.state = s, !.outcome = o]

LEMMA OutcomeChanges ==
  ASSUME NEW r \in Ask!Interaction, NEW s \in {"resolved", "invalidated"},
         NEW o \in {"answered", "declined", "cancel_task", "timeout", "cancelled"}
  PROVE  LET q == Settled(r, s, o)
         IN  /\ q \in Ask!Interaction /\ q.state = s /\ q.outcome = o
             /\ q.role = r.role /\ q.owner = r.owner /\ q.version = r.version
BY DEF Ask!Interaction, Settled

LEMMA PresentedChanges ==
  ASSUME NEW r \in Ask!Interaction
  PROVE  LET q == [r EXCEPT !.presented = TRUE]
         IN  /\ q \in Ask!Interaction /\ q.state = r.state /\ q.outcome = r.outcome
             /\ q.role = r.role /\ q.owner = r.owner /\ q.version = r.version
BY DEF Ask!Interaction

LEMMA OwnerChanges ==
  ASSUME NEW r \in Ask!Interaction, r.version = 1
  PROVE  LET q == Ask!ToConsole(r)
         IN  /\ q \in Ask!Interaction /\ q.state = r.state /\ q.outcome = r.outcome
             /\ q.role = r.role /\ q.owner = "console" /\ q.version = 2
<1>1. Ask!ToConsole(r) = [r EXCEPT !.owner = "console", !.version = 2, !.presented = FALSE]
  BY DEF Ask!ToConsole
<1> DEFINE p == [r EXCEPT !.owner = "console", !.presented = FALSE]
           q == [p EXCEPT !.version = 2]
<1>2. /\ p \in Ask!Interaction /\ p.state = r.state /\ p.outcome = r.outcome /\ p.role = r.role
      /\ p.owner = "console"
  BY DEF Ask!Interaction, Ask!Surface
<1> HIDE DEF p
<1>3. /\ q \in Ask!Interaction /\ q.state = r.state /\ q.outcome = r.outcome /\ q.role = r.role
      /\ q.owner = "console" /\ q.version = 2
  BY <1>2 DEF Ask!Interaction
<1>4. Ask!ToConsole(r) = q
  BY <1>1 DEF p
<1> QED BY <1>3, <1>4

(* The question changes, and what it is now. *)
LEMMA SaveKeeps ==
  ASSUME DialogueInv, Ask!Last > 0, NEW item \in Ask!Interaction, Ask!Save(item),
         heard \subseteq heard',
         item.state = "pending" =>
           item.outcome = "none" /\ (item.owner = "assistant" => item.version = 1),
         item.state = "consumed" => Ask!Last \in heard'
  PROVE  /\ Ask!AnswerIsHanded' /\ OnlyLastIsOpen' /\ asked' \in Seq(Ask!Interaction)
         /\ Ask!Last' = Ask!Last /\ asked'[Ask!Last'] = item
<1>1. /\ asked' \in Seq(Ask!Interaction) /\ Ask!Last' = Ask!Last /\ asked'[Ask!Last] = item
      /\ \A i \in 1..Ask!Last : i # Ask!Last => asked'[i] = asked[i]
  BY SavedIs DEF DialogueInv
<1>2. Ask!AnswerIsHanded'
  BY <1>1 DEF DialogueInv, Ask!AnswerIsHanded
<1>3. OnlyLastIsOpen'
  BY <1>1 DEF DialogueInv, OnlyLastIsOpen
<1> QED BY <1>1, <1>2, <1>3

LEMMA PendingIs ==
  ASSUME DialogueInv, Ask!Is({"pending"})
  PROVE  /\ Ask!Last > 0 /\ Ask!Current \in Ask!Interaction /\ Ask!Current.state = "pending"
         /\ Ask!Current.outcome = "none"
              /\ (Ask!Current.owner = "assistant" => Ask!Current.version = 1)
         /\ askStatus = "waiting" /\ run.at \notin {"begun", "role"} /\ ~(Calling /\ run.steered)
<1>1. Ask!Last > 0 /\ Ask!Last \in 1..Ask!Last /\ asked[Ask!Last].state = "pending"
      /\ asked[Ask!Last] \in Ask!Interaction
  BY QuestionsAre DEF Ask!Is, DialogueInv
<1> QED BY <1>1
    DEF DialogueInv, OnlyLastIsOpen, PendingWaits, SteeredIsSuperseded, Open, Ask!Current, Ask!Is

LEMMA SurfacesKeep ==
  ASSUME Ask!BoundsAreNumbers, DialogueInv,
         \/ Ask!Takeover
         \/ \E s \in Ask!Surface : Ask!Present(s)
         \/ \E s \in Ask!Surface, o \in {"answered", "declined", "cancel_task"} : Ask!Answer(s, o)
  PROVE  DialogueInv'
<1> USE DEF DialogueInv, PendingWaits, AnswerIsHeard, SteeredIsSuperseded, AskerIsNext,
            CallIsNext, RefusalEnds, Open, Adjusted, Calling, Ask!Is, Ask!Current, Ask!rowVars,
            Ask!hostVars, Ask!runVars
<1>1. CASE Ask!Takeover
  <2> DEFINE q == Ask!ToConsole(Ask!Current)
  <2>1. Ask!Save(q) /\ Ask!Is({"pending"})
    BY <1>1 DEF Ask!Takeover
  <2>2. /\ q \in Ask!Interaction /\ q.state = "pending" /\ q.outcome = "none"
        /\ q.role = Ask!Current.role /\ q.owner = "console"
    BY <1>1, <2>1, PendingIs, OwnerChanges DEF Ask!Takeover
  <2> HIDE DEF q
  <2>3. /\ Ask!AnswerIsHanded' /\ OnlyLastIsOpen' /\ asked' \in Seq(Ask!Interaction)
        /\ Ask!Last' = Ask!Last
        /\ asked'[Ask!Last'] = q
    BY <1>1, <2>1, <2>2, PendingIs, SaveKeeps DEF Ask!Takeover
  <2>4. Ask!TypeOK'
    BY <1>1, <2>3 DEF Ask!Takeover, Ask!TypeOK
  <2> QED BY <1>1, <2>1, <2>2, <2>3, <2>4, PendingIs DEF Ask!Takeover
<1>2. ASSUME NEW s \in Ask!Surface, Ask!Present(s) PROVE DialogueInv'
  <2> DEFINE q == [Ask!Current EXCEPT !.presented = TRUE]
  <2>1. Ask!Save(q) /\ Ask!Is({"pending"})
    BY <1>2 DEF Ask!Present
  <2>2. /\ q \in Ask!Interaction /\ q.state = "pending" /\ q.outcome = "none"
        /\ q.role = Ask!Current.role /\ (q.owner = "assistant" => q.version = 1)
        /\ Ask!Current.version \in 1..2
    BY <2>1, PendingIs, PresentedChanges DEF Ask!Interaction
  <2> HIDE DEF q
  <2>3. /\ Ask!AnswerIsHanded' /\ OnlyLastIsOpen' /\ asked' \in Seq(Ask!Interaction)
        /\ Ask!Last' = Ask!Last
        /\ asked'[Ask!Last'] = q
    BY <1>2, <2>1, <2>2, PendingIs, SaveKeeps DEF Ask!Present
  <2>4. Ask!TypeOK'
    BY <1>2, <2>2, <2>3, QuestionsAre DEF Ask!Present, Ask!TypeOK
  <2> QED BY <1>2, <2>1, <2>2, <2>3, <2>4, PendingIs DEF Ask!Present
<1>3. ASSUME NEW s \in Ask!Surface, NEW o \in {"answered", "declined", "cancel_task"},
             Ask!Answer(s, o)
      PROVE  DialogueInv'
  <2> DEFINE q == Settled(Ask!Current, "resolved", o)
  <2>1. Ask!Save(q) /\ Ask!Is({"pending"})
    BY <1>3 DEF Ask!Answer, Ask!Owned, Settled
  <2>2. /\ q \in Ask!Interaction /\ q.state = "resolved" /\ q.outcome = o
        /\ q.role = Ask!Current.role
    BY <2>1, PendingIs, OutcomeChanges
  <2> HIDE DEF q
  <2>3. /\ Ask!AnswerIsHanded' /\ OnlyLastIsOpen' /\ asked' \in Seq(Ask!Interaction)
        /\ Ask!Last' = Ask!Last
        /\ asked'[Ask!Last'] = q
    BY <1>3, <2>1, <2>2, PendingIs, SaveKeeps DEF Ask!Answer
  <2>4. Ask!TypeOK'
    BY <1>3, <2>3 DEF Ask!Answer, Ask!TypeOK, Ask!Ended
  <2> QED BY <1>3, <2>1, <2>2, <2>3, <2>4, PendingIs DEF Ask!Answer
<1> QED BY <1>1, <1>2, <1>3

(* What a reconciliation may have done: nothing, have the question fall back to  *)
(* the console, or close it for its deadline.                                *)
LEMMA ReconcileIs ==
  ASSUME DialogueInv, NEW live, NEW expired, Ask!Reconcile(live, expired), heard' = heard
  PROVE  /\ askNext' = askNext /\ Ask!AnswerIsHanded' /\ OnlyLastIsOpen'
         /\ asked' \in Seq(Ask!Interaction) /\ Ask!Last' = Ask!Last
         /\ Ask!Is({"pending"}) /\ due => askStatus' = "queued"
         /\ \/ askStatus' = askStatus /\ asked' = asked
            \/ /\ Ask!Is({"pending"}) /\ asked'[Ask!Last].role = asked[Ask!Last].role
               /\ \/ askStatus' = askStatus /\ asked'[Ask!Last].state = "pending"
                  \/ /\ due /\ askStatus' = "queued"
                     /\ asked'[Ask!Last].state = "resolved"
                     /\ asked'[Ask!Last].outcome = "timeout"
<1>1. CASE UNCHANGED <<askStatus, asked>> /\ ~(Ask!Is({"pending"}) /\ due)
  BY <1>1, QuestionsAre DEF Ask!Reconcile, DialogueInv, Ask!AnswerIsHanded, OnlyLastIsOpen,
      Ask!Last
<1>2. CASE Ask!Is({"pending"}) /\ due /\ askStatus \notin Ask!Ended
  <2> DEFINE q == Settled(Ask!Current, "resolved", "timeout")
  <2>1. Ask!Save(q) /\ askStatus' = "queued" /\ askNext' = askNext
    BY <1>2 DEF Ask!Reconcile, Settled
  <2>2. /\ q \in Ask!Interaction /\ q.state = "resolved" /\ q.outcome = "timeout"
        /\ q.role = Ask!Current.role
    BY <1>2, PendingIs, OutcomeChanges
  <2> HIDE DEF q
  <2>3. /\ Ask!AnswerIsHanded' /\ OnlyLastIsOpen' /\ asked' \in Seq(Ask!Interaction)
        /\ Ask!Last' = Ask!Last
        /\ asked'[Ask!Last'] = q
    BY <1>2, <2>1, <2>2, PendingIs, SaveKeeps
  <2> QED BY <1>2, <2>1, <2>2, <2>3 DEF Ask!Current
<1>3. CASE Ask!Is({"pending"}) /\ ~due /\ Ask!Current.owner = "assistant"
           /\ Ask!Save(Ask!ToConsole(Ask!Current))
           /\ UNCHANGED <<askStatus, askNext>>
  <2> DEFINE q == Ask!ToConsole(Ask!Current)
  <2>1. /\ q \in Ask!Interaction /\ q.state = "pending" /\ q.outcome = "none"
        /\ q.role = Ask!Current.role /\ q.owner = "console"
    BY <1>3, PendingIs, OwnerChanges
  <2>2. Ask!Save(q)
    BY <1>3
  <2> HIDE DEF q
  <2>3. /\ Ask!AnswerIsHanded' /\ OnlyLastIsOpen' /\ asked' \in Seq(Ask!Interaction)
        /\ Ask!Last' = Ask!Last
        /\ asked'[Ask!Last'] = q
    BY <1>3, <2>1, <2>2, PendingIs, SaveKeeps
  <2> QED BY <1>3, <2>1, <2>2, <2>3 DEF Ask!Current
<1>4. askStatus \in Ask!Ended => ~Ask!Is({"pending"})
  BY PendingIs DEF Ask!Ended
<1> QED BY <1>1, <1>2, <1>3, <1>4 DEF Ask!Reconcile

LEMMA ReconcilersKeep ==
  ASSUME Ask!BoundsAreNumbers, DialogueInv, Ask!Unsubscribe \/ Ask!Tick \/ Ask!Restart
  PROVE  DialogueInv'
<1> USE DEF DialogueInv, PendingWaits, AnswerIsHeard, SteeredIsSuperseded, AskerIsNext,
            CallIsNext, RefusalEnds, Open, Adjusted, Calling, Ask!Is, Ask!Current, Ask!rowVars,
            Ask!hostVars, Ask!runVars
<1>1. CASE Ask!Unsubscribe
  <2>1. CASE askStatus = "waiting"
    <3>1. Ask!Reconcile(FALSE, FALSE) /\ heard' = heard
      BY <1>1, <2>1 DEF Ask!Unsubscribe
    <3>2. Ask!TypeOK'
      BY <1>1, <2>1, <3>1, ReconcileIs DEF Ask!Unsubscribe, Ask!TypeOK
    <3> QED BY <1>1, <3>1, <3>2, PendingIs, ReconcileIs DEF Ask!Unsubscribe
  <2>2. CASE askStatus # "waiting"
    <3>1. Ask!TypeOK'
      BY <1>1, <2>2 DEF Ask!Unsubscribe, Ask!TypeOK, Ask!Last
    <3> QED BY <1>1, <2>2, <3>1 DEF Ask!Unsubscribe, Ask!Last, Ask!AnswerIsHanded, OnlyLastIsOpen
  <2> QED BY <2>1, <2>2
<1>2. CASE Ask!Tick
  <2>1. PICK expired \in BOOLEAN : Ask!Reconcile(bound, expired)
    BY <1>2 DEF Ask!Tick
  <2>2. /\ askStatus = "waiting"
        /\ UNCHANGED <<due, Ask!hostVars, askInbox, heard, stop, scheduled, faults>>
        /\ run' = run \/ (run' = Begun /\ Ask!Is({"pending"}) /\ due /\ ~Ask!Live)
    BY <1>2 DEF Ask!Tick, Begun
  <2>3. Ask!TypeOK'
    BY <2>1, <2>2, NoRunIs, ReconcileIs DEF Ask!TypeOK
  <2> QED BY <2>1, <2>2, <2>3, NoRunIs, PendingIs, ReconcileIs DEF Ask!Live
<1>3. CASE Ask!Restart
  <2>1. /\ run' = Ask!NoRun /\ stop' = FALSE /\ scheduled' = TRUE /\ bound' = FALSE
        /\ heard' = heard /\ UNCHANGED <<origin, due, view, binds, askInbox>>
    BY <1>3, Zenon DEF Ask!Restart
  <2>4. faults' \in 0..MaxFault
    <3>1. faults < MaxFault /\ faults' = faults + 1
      BY <1>3, Zenon DEF Ask!Restart
    <3> QED BY <3>1 DEF Ask!TypeOK, Ask!BoundsAreNumbers
  <2>2. CASE askStatus = "waiting"
    <3>1. Ask!Reconcile(FALSE, FALSE)
      BY <1>3, <2>2 DEF Ask!Restart
    <3>2. Ask!TypeOK'
      BY <2>1, <2>4, <3>1, NoRunIs, ReconcileIs DEF Ask!TypeOK
    <3> QED BY <2>1, <2>2, <3>1, <3>2, NoRunIs, PendingIs, ReconcileIs
  <2>3. CASE askStatus # "waiting"
    <3>1. /\ UNCHANGED <<asked, askNext>>
          /\ askStatus' = askStatus \/ (askStatus = "running" /\ askStatus' = "queued")
      BY <1>3, <2>3 DEF Ask!Restart
    <3>2. Ask!TypeOK'
      BY <2>1, <2>4, <3>1, NoRunIs DEF Ask!TypeOK, Ask!Last
    <3> QED BY <2>1, <2>3, <3>1, <3>2, NoRunIs DEF Ask!Last, Ask!AnswerIsHanded, OnlyLastIsOpen
  <2> QED BY <2>2, <2>3
<1> QED BY <1>1, <1>2, <1>3

LEMMA RoleAsksKeeps ==
  ASSUME Ask!BoundsAreNumbers, DialogueInv, Ask!RoleAsks
  PROVE  DialogueInv'
<1> DEFINE earlier == IF run.answer = 0 THEN asked
                     ELSE [asked EXCEPT ![run.answer].state = "consumed"]
           new == [state |-> "pending", outcome |-> "none",
                   owner |-> IF origin = "assistant" /\ bound THEN "assistant" ELSE "console",
                   role |-> run.role, version |-> 1, presented |-> FALSE]
<1>1. /\ run.at = "role" /\ ~run.steered /\ ~Ask!Is({"pending"})
      /\ Ask!Last < QuestionLimit[origin] /\ asked' = Append(earlier, new)
      /\ askStatus' = "waiting" /\ run' = [run EXCEPT !.at = "asking"] /\ due' = FALSE
      /\ UNCHANGED <<askNext, Ask!hostVars, askInbox, heard, stop, scheduled, faults>>
  BY DEF Ask!RoleAsks
<1>2. new \in Ask!Interaction /\ new.state = "pending" /\ new.outcome = "none" /\ new.version = 1
      /\ new.role = run.role
  BY DEF DialogueInv, Ask!TypeOK, Ask!Interaction, Ask!Surface
<1>3. /\ earlier \in Seq(Ask!Interaction) /\ Len(earlier) = Ask!Last
      /\ \A i \in 1..Ask!Last : earlier[i] = asked[i]
           \/ (i \in heard /\ earlier[i].state = "consumed")
  <2>1. CASE run.answer = 0
    BY <2>1, QuestionsAre DEF DialogueInv
  <2>2. CASE run.answer # 0
    <3> DEFINE k == run.answer
               q == [asked[k] EXCEPT !.state = "consumed"]
    <3>1. k \in heard /\ k \in 1..Ask!Last /\ k \in 1..Len(asked) /\ asked[k] \in Ask!Interaction
      BY <2>2, QuestionsAre DEF DialogueInv, AnswerIsHeard, Ask!TypeOK
    <3>2. q \in Ask!Interaction /\ q.state = "consumed"
      BY <3>1, StateChanges
    <3>3. earlier = [asked EXCEPT ![k] = q]
      BY <2>2
    <3> HIDE DEF k, q, earlier
    <3>4. /\ earlier \in Seq(Ask!Interaction) /\ Len(earlier) = Len(asked)
          /\ \A j \in 1..Len(asked) : earlier[j] = IF j = k THEN q ELSE asked[j]
      BY <3>1, <3>2, <3>3, QuestionsAre, ExceptSeq DEF DialogueInv
    <3> QED BY <3>1, <3>2, <3>4, QuestionsAre DEF DialogueInv
  <2> QED BY <2>1, <2>2
<1> HIDE DEF earlier, new
<1>4. /\ asked' \in Seq(Ask!Interaction) /\ Ask!Last' = Ask!Last + 1 /\ asked'[Ask!Last'] = new
      /\ Ask!Last \in Nat
      /\ \A i \in 1..Ask!Last : asked'[i] = earlier[i]
  <2>1. /\ asked' \in Seq(Ask!Interaction) /\ Len(asked') = Ask!Last + 1
        /\ \A i \in 1..Ask!Last : asked'[i] = earlier[i]
        /\ asked'[Ask!Last + 1] = new
    BY <1>1, <1>2, <1>3, AppendProperties
  <2> QED BY <2>1, QuestionsAre DEF Ask!Last, DialogueInv
<1>5. \A i \in 1..Ask!Last : asked[i].state # "pending"
  BY <1>1, <1>4 DEF DialogueInv, OnlyLastIsOpen, Ask!Is
<1>6. Ask!AnswerIsHanded' /\ OnlyLastIsOpen'
  BY <1>1, <1>2, <1>3, <1>4, <1>5 DEF DialogueInv, Ask!AnswerIsHanded, OnlyLastIsOpen
<1>7. Ask!TypeOK'
  <2>1. heard \subseteq 1..Ask!Last' /\ Ask!Last' <= QuestionLimit[origin]
    BY <1>1, <1>4 DEF DialogueInv, Ask!TypeOK, Ask!BoundsAreNumbers, Ask!Surface
  <2>2. run' \in [at : {"off", "begun", "role", "asking", "parked"}, role : Ask!Role,
                  answer : 0..QuestionLimit[origin], steered : BOOLEAN]
    BY <1>1 DEF DialogueInv, Ask!TypeOK
  <2> QED BY <1>1, <1>4, <2>1, <2>2 DEF DialogueInv, Ask!TypeOK, Ask!hostVars
<1> QED BY <1>1, <1>2, <1>4, <1>6, <1>7
  DEF DialogueInv, PendingWaits, AnswerIsHeard, SteeredIsSuperseded, AskerIsNext, CallIsNext,
      RefusalEnds, Open, Adjusted, Calling, Ask!Is, Ask!Current, Ask!TypeOK

LEMMA ReturnKeeps ==
  ASSUME Ask!BoundsAreNumbers, DialogueInv, Ask!RoleReturns
  PROVE  DialogueInv'
<1> USE DEF DialogueInv, PendingWaits, AnswerIsHeard, SteeredIsSuperseded, AskerIsNext,
            CallIsNext, RefusalEnds, Open, Adjusted, Calling, Ask!Is, Ask!Current, Ask!rowVars,
            Ask!hostVars, Ask!runVars
<1>1. /\ run.at = "role" /\ ~run.steered /\ ~Ask!Is({"pending"})
      /\ UNCHANGED <<due, Ask!hostVars, heard, scheduled, faults>>
      /\ heard' = heard
  BY DEF Ask!RoleReturns
<1>2. /\ Ask!AnswerIsHanded' /\ OnlyLastIsOpen' /\ asked' \in Seq(Ask!Interaction)
      /\ Ask!Last' = Ask!Last
      /\ ~Ask!Is({"pending", "resolved"})'
  <2>1. CASE Ask!Is({"resolved"})
    <3> DEFINE q == [Ask!Current EXCEPT !.state = "consumed"]
    <3>1. Ask!Save(q) /\ Ask!Last > 0 /\ Ask!Current \in Ask!Interaction /\ Ask!Last \in heard
      BY <1>1, <2>1, QuestionsAre DEF Ask!RoleReturns
    <3>2. q \in Ask!Interaction /\ q.state = "consumed"
      BY <3>1, StateChanges
    <3> HIDE DEF q
    <3>3. /\ Ask!AnswerIsHanded' /\ OnlyLastIsOpen' /\ asked' \in Seq(Ask!Interaction)
          /\ Ask!Last' = Ask!Last
          /\ asked'[Ask!Last'] = q
      BY <1>1, <3>1, <3>2, SaveKeeps
    <3> QED BY <3>2, <3>3
  <2>2. CASE ~Ask!Is({"resolved"})
    <3>1. asked' = asked
      BY <2>2 DEF Ask!RoleReturns
    <3> QED BY <1>1, <2>2, <3>1, QuestionsAre DEF Ask!Last, Ask!AnswerIsHanded, OnlyLastIsOpen
  <2> QED BY <2>1, <2>2
<1>3. /\ askInbox' \in [accepted : 0..MaxSteer, applied : 0..MaxSteer]
      /\ askInbox'.accepted = askInbox.accepted /\ ~Adjusted'
      /\ askInbox'.applied <= askInbox'.accepted
  BY <1>1 DEF Ask!RoleReturns, Ask!TypeOK
<1>4. /\ run' \in [at : {"off", "begun", "role", "asking", "parked"}, role : Ask!Role,
                  answer : 0..QuestionLimit[origin], steered : BOOLEAN]
      /\ run'.steered = FALSE /\ run'.at \in {"role", "parked"}
      /\ run'.at = "role" => run'.role = askNext'
      /\ run'.answer # 0 => run'.answer = run.answer
      /\ askNext' \in Ask!Role /\ stop' \in BOOLEAN
      /\ askStatus' \in {"queued", "running", "waiting"} \union Ask!Ended
  <2>1. 0 \in 0..QuestionLimit[origin] /\ "executor" \in Ask!Role
    BY DEF Ask!TypeOK, Ask!BoundsAreNumbers, Ask!Surface, Ask!Role
  <2>2. CASE stop
    BY <1>1, <2>1, <2>2 DEF Ask!RoleReturns, Ask!TypeOK, Ask!Ended
  <2>3. CASE ~stop /\ askStatus' = "succeeded" /\ run' = [run EXCEPT !.at = "parked"]
             /\ UNCHANGED askNext
    BY <1>1, <2>1, <2>3 DEF Ask!RoleReturns, Ask!TypeOK, Ask!Ended
  <2>4. CASE /\ ~stop /\ askNext' \in IF run.role = "planner" THEN {"executor"} ELSE Ask!Role
             /\ run' = [run EXCEPT !.role = askNext', !.answer = 0] /\ UNCHANGED askStatus
    <3>1. askNext' \in Ask!Role /\ stop' = stop
      BY <2>1, <2>4 DEF Ask!RoleReturns
    <3> QED BY <1>1, <2>1, <2>4, <3>1 DEF Ask!TypeOK, Ask!Ended
  <2> QED BY <2>2, <2>3, <2>4 DEF Ask!RoleReturns
<1>5. Ask!TypeOK'
  BY <1>1, <1>2, <1>3, <1>4 DEF Ask!TypeOK
<1> QED BY <1>1, <1>2, <1>3, <1>4, <1>5

LEMMA AdjustedKeeps ==
  ASSUME Ask!BoundsAreNumbers, DialogueInv, Ask!Steer
  PROVE  DialogueInv'
<1> USE DEF DialogueInv, PendingWaits, AnswerIsHeard, SteeredIsSuperseded, AskerIsNext,
            CallIsNext, RefusalEnds, Open, Adjusted, Calling, Ask!Is, Ask!Current, Ask!rowVars,
            Ask!hostVars, Ask!runVars
<1>1. /\ askInbox' = [askInbox EXCEPT !.accepted = askInbox.accepted + 1]
      /\ askInbox.accepted < MaxSteer /\ heard' = heard
      /\ askStatus' = IF askStatus = "waiting" THEN "queued" ELSE askStatus
      /\ run' = IF Calling THEN [run EXCEPT !.steered = TRUE] ELSE run
      /\ scheduled' \in BOOLEAN
      /\ UNCHANGED <<askNext, due, Ask!hostVars, heard, stop, faults>>
  BY DEF Ask!Steer, Ask!TypeOK
<1>2. /\ Ask!AnswerIsHanded' /\ OnlyLastIsOpen' /\ asked' \in Seq(Ask!Interaction)
      /\ Ask!Last' = Ask!Last
      /\ ~Ask!Is({"pending", "resolved"})'
  <2>1. CASE Ask!Is({"pending", "resolved"})
    <3> DEFINE q == [Ask!Current EXCEPT !.state = "superseded"]
    <3>1. Ask!Save(q) /\ Ask!Last > 0 /\ Ask!Current \in Ask!Interaction
      BY <2>1, QuestionsAre DEF Ask!Steer
    <3>2. q \in Ask!Interaction /\ q.state = "superseded"
      BY <3>1, StateChanges
    <3> HIDE DEF q
    <3>3. /\ Ask!AnswerIsHanded' /\ OnlyLastIsOpen' /\ asked' \in Seq(Ask!Interaction)
          /\ Ask!Last' = Ask!Last
          /\ asked'[Ask!Last'] = q
      BY <1>1, <3>1, <3>2, SaveKeeps
    <3> QED BY <3>2, <3>3
  <2>2. CASE ~Ask!Is({"pending", "resolved"})
    <3>1. asked' = asked
      BY <2>2 DEF Ask!Steer
    <3> QED BY <1>1, <2>2, <3>1, QuestionsAre DEF Ask!Last, Ask!AnswerIsHanded, OnlyLastIsOpen
  <2> QED BY <2>1, <2>2
<1>3. /\ askInbox' \in [accepted : 0..MaxSteer, applied : 0..MaxSteer]
      /\ askInbox'.applied <= askInbox'.accepted /\ Adjusted'
  BY <1>1 DEF Ask!TypeOK, Ask!BoundsAreNumbers
<1>4. /\ run' \in [at : {"off", "begun", "role", "asking", "parked"}, role : Ask!Role,
                  answer : 0..QuestionLimit[origin], steered : BOOLEAN]
      /\ run'.at = run.at /\ run'.answer = run.answer /\ (Calling => run'.steered)
  BY <1>1 DEF Ask!TypeOK
<1>5. Ask!TypeOK'
  BY <1>1, <1>2, <1>3, <1>4 DEF Ask!TypeOK
<1> QED BY <1>1, <1>2, <1>3, <1>4, <1>5

LEMMA CancelKeeps ==
  ASSUME Ask!BoundsAreNumbers, DialogueInv, Ask!Cancel
  PROVE  DialogueInv'
<1> USE DEF DialogueInv, PendingWaits, AnswerIsHeard, SteeredIsSuperseded, AskerIsNext,
            CallIsNext, RefusalEnds, Open, Adjusted, Calling, Ask!Is, Ask!Current, Ask!rowVars,
            Ask!hostVars, Ask!runVars
<1>1. UNCHANGED <<due, Ask!hostVars, askInbox, run, heard, scheduled, faults, askNext>>
      /\ stop' \in BOOLEAN
  BY DEF Ask!Cancel
<1>2. CASE UNCHANGED Ask!rowVars
  <2>1. Ask!TypeOK'
    BY <1>1, <1>2 DEF Ask!TypeOK, Ask!Last
  <2> QED BY <1>1, <1>2, <2>1 DEF Ask!Last, Ask!AnswerIsHanded, OnlyLastIsOpen
<1>3. CASE askStatus' = "cancelled" /\ ~UNCHANGED Ask!rowVars
  <2>1. /\ Ask!AnswerIsHanded' /\ OnlyLastIsOpen' /\ asked' \in Seq(Ask!Interaction)
        /\ Ask!Last' = Ask!Last
        /\ ~Ask!Is({"pending"})'
        /\ asked' = asked \/ asked'[Ask!Last].state = "invalidated"
    <3>1. CASE Ask!Is({"pending"})
      <4> DEFINE q == Settled(Ask!Current, "invalidated", "cancelled")
      <4>1. Ask!Save(q)
        BY <1>3, <3>1 DEF Ask!Cancel, Settled
      <4>2. q \in Ask!Interaction /\ q.state = "invalidated"
        BY <3>1, PendingIs, OutcomeChanges
      <4> HIDE DEF q
      <4>3. /\ Ask!AnswerIsHanded' /\ OnlyLastIsOpen' /\ asked' \in Seq(Ask!Interaction)
            /\ Ask!Last' = Ask!Last
            /\ asked'[Ask!Last'] = q
        BY <1>1, <3>1, <4>1, <4>2, PendingIs, SaveKeeps
      <4> QED BY <4>2, <4>3
    <3>2. CASE ~Ask!Is({"pending"})
      <4>1. asked' = asked
        BY <1>3, <3>2 DEF Ask!Cancel
      <4> QED BY <1>1, <3>2, <4>1, QuestionsAre DEF Ask!Last, Ask!AnswerIsHanded, OnlyLastIsOpen
    <3> QED BY <3>1, <3>2
  <2>2. Ask!TypeOK'
    BY <1>1, <1>3, <2>1 DEF Ask!TypeOK, Ask!Ended
  <2> QED BY <1>1, <1>3, <2>1, <2>2
<1> QED BY <1>2, <1>3 DEF Ask!Cancel

LEMMA DialogueNextKeeps ==
  ASSUME Ask!BoundsAreNumbers, DialogueInv, [Ask!Next]_(Ask!vars)
  PROVE  DialogueInv'
<1>1. CASE UNCHANGED Ask!vars
  <2>1. Ask!TypeOK'
    BY <1>1 DEF Ask!vars, Ask!rowVars, Ask!hostVars, Ask!runVars, DialogueInv, Ask!TypeOK,
                Ask!Last
  <2> QED BY <1>1, <2>1
    DEF Ask!vars, Ask!rowVars, Ask!hostVars, Ask!runVars, DialogueInv, Ask!AnswerIsHanded,
        OnlyLastIsOpen, PendingWaits, AnswerIsHeard, SteeredIsSuperseded, AskerIsNext,
        CallIsNext, RefusalEnds, Open, Adjusted, Calling, Ask!Is, Ask!Last, Ask!Current
<1>2. CASE Ask!RunActs
  BY <1>2, RunBeginsKeeps, RoleAsksKeeps, RunSuspendsKeeps, ReturnKeeps, QuietKeeps
    DEF Ask!RunActs
<1>3. CASE Ask!HostActs
  BY <1>3, QuietKeeps, SurfacesKeep, ReconcilersKeep DEF Ask!HostActs
<1>4. CASE Ask!DeadlinePasses \/ Ask!Tick \/ Ask!TickSchedules \/ Ask!BackgroundSchedule
  BY <1>4, QuietKeeps, ReconcilersKeep, BackgroundScheduleKeeps
<1>5. CASE Ask!Steer \/ Ask!Cancel \/ Ask!Restart
  BY <1>5, AdjustedKeeps, CancelKeeps, ReconcilersKeep
<1> QED BY <1>1, <1>2, <1>3, <1>4, <1>5 DEF Ask!Next

LEMMA DialogueHolds == Ask!BoundsAreNumbers => (Ask!Spec => []DialogueInv)
<1> SUFFICES ASSUME Ask!BoundsAreNumbers PROVE Ask!Spec => []DialogueInv
  OBVIOUS
<1>1. Ask!Init => DialogueInv
  BY DialogueInitHolds
<1>2. DialogueInv /\ [Ask!Next]_(Ask!vars) => DialogueInv'
  BY DialogueNextKeeps
<1> QED BY <1>1, <1>2, PTL DEF Ask!Spec

(* What a step leaves of the questions there are. *)
QuestionsGoOn ==
  \A i \in 1..Len(asked) :
    /\ asked[i].outcome # "none" => asked'[i].outcome = asked[i].outcome
    /\ asked[i].state \in {"consumed", "superseded", "invalidated"} => asked'[i] = asked[i]
    /\ asked[i].state = "resolved" => asked'[i].state # "pending"
    /\ asked'[i].version >= asked[i].version
    /\ asked'[i].owner # asked[i].owner => asked'[i].owner = "console"

LEMMA KeptGoOn == ASSUME DialogueInv, UNCHANGED asked PROVE QuestionsGoOn
BY QuestionsAre DEF DialogueInv, QuestionsGoOn, Ask!Interaction

LEMMA SavedQuestionGoesOn ==
  ASSUME DialogueInv, Ask!Is({"pending", "resolved"}), NEW item \in Ask!Interaction,
         Ask!Save(item),
         Ask!Is({"pending"}) \/ item.outcome = Ask!Current.outcome,
         Ask!Is({"pending"}) \/ item.state # "pending",
         item.version >= Ask!Current.version,
         item.owner # Ask!Current.owner => item.owner = "console"
  PROVE  QuestionsGoOn
<1>1. /\ \A i \in 1..Ask!Last : asked'[i] = IF i = Ask!Last THEN item ELSE asked[i]
      /\ Ask!Last > 0
  BY SavedIs DEF DialogueInv, Ask!Is
<1>2. Ask!Is({"pending"}) => Ask!Current.outcome = "none"
  BY PendingIs
<1>3. \A i \in 1..Ask!Last : asked[i] \in Ask!Interaction
  BY QuestionsAre DEF DialogueInv
<1>4. \A i \in 1..Ask!Last : i # Ask!Last =>
        asked'[i] = asked[i] /\ asked[i].version >= asked[i].version
  BY <1>1, <1>3 DEF Ask!Interaction
<1> QED BY <1>1, <1>2, <1>3, <1>4 DEF QuestionsGoOn, Ask!Is, Ask!Current, Ask!Last

LEMMA AskedGoOn == ASSUME DialogueInv, Ask!RoleAsks PROVE QuestionsGoOn
<1> DEFINE k == run.answer
           q == [asked[k] EXCEPT !.state = "consumed"]
           new == [state |-> "pending", outcome |-> "none",
                   owner |-> IF origin = "assistant" /\ bound THEN "assistant" ELSE "console",
                   role |-> run.role, version |-> 1, presented |-> FALSE]
           earlier == IF k = 0 THEN asked ELSE [asked EXCEPT ![k].state = "consumed"]
<1>1. asked' = Append(earlier, new) /\ (k # 0 => asked[k].state = "resolved")
  BY DEF Ask!RoleAsks
<1>2. new \in Ask!Interaction
  BY DEF DialogueInv, Ask!TypeOK, Ask!Interaction, Ask!Surface, Ask!RoleAsks
<1>3. CASE k = 0
  <2>1. \A i \in 1..Ask!Last : asked'[i] = asked[i] /\ asked[i] \in Ask!Interaction
    BY <1>1, <1>2, <1>3, QuestionsAre, AppendProperties DEF DialogueInv
  <2> QED BY <2>1, QuestionsAre DEF QuestionsGoOn, Ask!Interaction, DialogueInv
<1>4. CASE k # 0
  <2>1. k \in 1..Ask!Last /\ asked[k] \in Ask!Interaction /\ asked[k].state = "resolved"
    BY <1>1, <1>4, QuestionsAre DEF DialogueInv, AnswerIsHeard, Ask!TypeOK
  <2>2. /\ q \in Ask!Interaction /\ q.state = "consumed" /\ q.outcome = asked[k].outcome
        /\ q.owner = asked[k].owner /\ q.version = asked[k].version
    BY <2>1, StateChanges
  <2>3. earlier = [asked EXCEPT ![k] = q]
    BY <1>4
  <2> HIDE DEF k, q, new, earlier
  <2>4. /\ earlier \in Seq(Ask!Interaction) /\ Len(earlier) = Ask!Last
        /\ \A i \in 1..Ask!Last : earlier[i] = IF i = k THEN q ELSE asked[i]
    BY <2>1, <2>2, <2>3, QuestionsAre, ExceptSeq DEF DialogueInv
  <2>5. \A i \in 1..Ask!Last : asked'[i] = earlier[i]
    BY <1>1, <1>2, <2>4, QuestionsAre, AppendProperties DEF DialogueInv
  <2>6. \A i \in 1..Ask!Last : asked[i] \in Ask!Interaction /\ Len(asked) = Ask!Last
    BY QuestionsAre DEF DialogueInv
  <2>7. \A i \in 1..Ask!Last : asked[i].version >= asked[i].version
    BY <2>6 DEF Ask!Interaction
  <2> QED BY <2>1, <2>2, <2>4, <2>5, <2>6, <2>7 DEF QuestionsGoOn
<1> QED BY <1>3, <1>4

LEMMA ReconciledGoOn ==
  ASSUME DialogueInv, NEW live, NEW expired, Ask!Reconcile(live, expired)
  PROVE  QuestionsGoOn
<1>1. CASE UNCHANGED asked
  BY <1>1, KeptGoOn
<1>2. CASE
        /\ Ask!Is({"pending"})
        /\ \/ Ask!Save(Settled(Ask!Current, "invalidated", "cancelled"))
           \/ Ask!Save(Settled(Ask!Current, "resolved", "timeout"))
  <2>1. Ask!Current \in Ask!Interaction /\ Ask!Current.version \in 1..2
    BY <1>2, PendingIs DEF Ask!Interaction
  <2> QED BY <1>2, <2>1, OutcomeChanges, SavedQuestionGoesOn DEF Ask!Is
<1>3. CASE Ask!Is({"pending"}) /\ Ask!Current.owner = "assistant"
           /\ Ask!Save(Ask!ToConsole(Ask!Current))
  <2>1. Ask!Current \in Ask!Interaction /\ Ask!Current.version = 1
    BY <1>3, PendingIs
  <2>2. Ask!ToConsole(Ask!Current) \in Ask!Interaction
        /\ Ask!ToConsole(Ask!Current).owner = "console"
        /\ Ask!ToConsole(Ask!Current).version = 2
    BY <2>1, OwnerChanges
  <2> QED BY <1>3, <2>1, <2>2, SavedQuestionGoesOn DEF Ask!Is
<1> QED BY <1>1, <1>2, <1>3 DEF Ask!Reconcile, Settled

LEMMA StepsGoOn == ASSUME DialogueInv, [Ask!Next]_(Ask!vars) PROVE QuestionsGoOn
<1> USE DEF Ask!rowVars, Ask!hostVars, Ask!runVars
<1>1. CASE UNCHANGED asked
  BY <1>1, KeptGoOn
<1>2. CASE Ask!RoleAsks
  BY <1>2, AskedGoOn
<1>3. CASE \E live, expired : Ask!Reconcile(live, expired)
  BY <1>3, ReconciledGoOn
<1>4. ASSUME NEW s \in {"consumed", "superseded"}, Ask!Is({"pending", "resolved"}),
             Ask!Save([Ask!Current EXCEPT !.state = s])
      PROVE  QuestionsGoOn
  <2>1. Ask!Current \in Ask!Interaction /\ Ask!Current.version \in 1..2
    BY <1>4, QuestionsAre DEF Ask!Is, Ask!Current, Ask!Interaction, DialogueInv
  <2> DEFINE q == [Ask!Current EXCEPT !.state = s]
  <2>2. /\ q \in Ask!Interaction /\ q.state = s /\ q.outcome = Ask!Current.outcome
        /\ q.owner = Ask!Current.owner /\ q.version = Ask!Current.version
    <3>1. s \in {"pending", "resolved", "consumed", "superseded", "invalidated"}
      BY <1>4
    <3> QED BY <2>1, <3>1, StateChanges, Zenon
  <2>3. Ask!Save(q)
    BY <1>4
  <2> HIDE DEF q
  <2> QED BY <1>4, <2>1, <2>2, <2>3, SavedQuestionGoesOn
<1>5. CASE Ask!Takeover
  <2>1. Ask!Is({"pending"}) /\ Ask!Current \in Ask!Interaction /\ Ask!Current.version = 1
    BY <1>5, PendingIs DEF Ask!Takeover
  <2>2. Ask!ToConsole(Ask!Current) \in Ask!Interaction
        /\ Ask!ToConsole(Ask!Current).owner = "console"
        /\ Ask!ToConsole(Ask!Current).version = 2
    BY <2>1, OwnerChanges
  <2> QED BY <1>5, <2>1, <2>2, SavedQuestionGoesOn DEF Ask!Takeover, Ask!Is
<1>6. ASSUME NEW s \in Ask!Surface, Ask!Present(s) PROVE QuestionsGoOn
  <2>1. Ask!Is({"pending"}) /\ Ask!Current \in Ask!Interaction /\ Ask!Current.version \in 1..2
    BY <1>6, PendingIs DEF Ask!Present, Ask!Interaction
  <2> DEFINE q == [Ask!Current EXCEPT !.presented = TRUE]
  <2>2. /\ q \in Ask!Interaction /\ q.outcome = Ask!Current.outcome
        /\ q.owner = Ask!Current.owner /\ q.version >= Ask!Current.version /\ Ask!Save(q)
    BY <1>6, <2>1, PresentedChanges DEF Ask!Present
  <2> HIDE DEF q
  <2> QED BY <2>1, <2>2, SavedQuestionGoesOn DEF Ask!Is
<1>7. ASSUME NEW s \in {"resolved", "invalidated"}, Ask!Is({"pending"}),
             NEW o \in {"answered", "declined", "cancel_task", "timeout", "cancelled"},
             Ask!Save(Settled(Ask!Current, s, o))
      PROVE  QuestionsGoOn
  <2>1. Ask!Current \in Ask!Interaction /\ Ask!Current.version \in 1..2
    BY <1>7, PendingIs DEF Ask!Interaction
  <2> QED BY <1>7, <2>1, OutcomeChanges, SavedQuestionGoesOn DEF Ask!Is
<1>8. CASE Ask!RoleReturns
  BY <1>1, <1>4, <1>8 DEF Ask!RoleReturns, Ask!Is
<1>9. CASE Ask!Steer
  BY <1>1, <1>4, <1>9 DEF Ask!Steer
<1>10. CASE Ask!Cancel
  BY <1>1, <1>7, <1>10 DEF Ask!Cancel, Settled
<1>11. ASSUME NEW s \in Ask!Surface, NEW o \in {"answered", "declined", "cancel_task"},
              Ask!Answer(s, o)
       PROVE  QuestionsGoOn
  BY <1>7, <1>11 DEF Ask!Answer, Ask!Owned, Settled
<1>12. CASE Ask!Tick
  BY <1>3, <1>12 DEF Ask!Tick
<1>13. CASE Ask!Unsubscribe
  BY <1>1, <1>3, <1>13 DEF Ask!Unsubscribe
<1>14. CASE Ask!Restart
  BY <1>1, <1>3, <1>14 DEF Ask!Restart
<1>15. CASE Ask!HostActs
  BY <1>1, <1>5, <1>6, <1>11, <1>13, <1>15 DEF Ask!HostActs, Ask!Subscribe
<1>16. CASE Ask!RunActs
  BY <1>1, <1>2, <1>8, <1>16 DEF Ask!RunActs, Ask!RunBegins, Ask!RunSuspends, Ask!RoleIsSteered,
      Ask!RunEnds
<1>17. CASE Ask!DeadlinePasses \/ Ask!TickSchedules \/ Ask!BackgroundSchedule
  BY <1>1, <1>17 DEF Ask!DeadlinePasses, Ask!TickSchedules, Ask!BackgroundSchedule
<1>18. CASE UNCHANGED Ask!vars
  BY <1>1, <1>18 DEF Ask!vars
<1> QED BY <1>9, <1>10, <1>12, <1>14, <1>15, <1>16, <1>17, <1>18 DEF Ask!Next

(* Holds of every behaviour: SettledOnce, for every number of questions. *)
LEMMA DialogueSettles == Ask!BoundsAreNumbers => (Ask!Spec => Ask!SettledOnce)
<1> SUFFICES ASSUME Ask!BoundsAreNumbers PROVE Ask!Spec => Ask!SettledOnce
  OBVIOUS
<1>1. DialogueInv /\ [Ask!Next]_(Ask!vars) => [QuestionsGoOn]_(Ask!vars)
  BY StepsGoOn
<1>2. Ask!SettledOnce <=> [][QuestionsGoOn]_(Ask!vars)
  BY DEF Ask!SettledOnce, QuestionsGoOn
<1> QED BY <1>1, <1>2, DialogueHolds, PTL DEF Ask!Spec

-----------------------------------------------------------------------------
(* The tool loop of one role call. *)

(* Every call in s is followed by its replies, and no reply is without one. *)
WellFormed(s) ==
  \A i \in 1..Len(s) :
    /\ s[i].kind = "calls" => Tool!IsAnswered(s, i)
    /\ s[i].kind = "reply" => Tool!IsReplyTo(s, i)

Aside == {"image", "screen"}
Extra(looked) == IF looked THEN 1 ELSE 0

(* Replies are given in order, and nothing but what is looked at follows them. *)
RepliesInOrder ==
  toolPc = "tools" =>
    /\ toolCalls # <<>> /\ answered <= Len(toolCalls)
    /\ Len(appended) = answered + 1 /\ appended[1] = Tool!Calls(Len(toolCalls))
    /\ \A k \in 1..answered : appended[k + 1] = Tool!Reply(k)

(* The new screen is among what follows the replies. *)
AttachedIsAside ==
  /\ \A i \in 1..Len(attached) : attached[i].kind \in Aside
  /\ toolNext # <<>> =>
       /\ Len(toolNext) = 1 /\ toolNext[1].kind = "screen" /\ toolNext[1].n \in 0..round + 1
       /\ observed
       /\ \E i \in 1..Len(attached) : attached[i] = toolNext[1]

ScreensAreFew == bucket[1].n <= round + Extra(observed)

SavedResumes ==
  /\ toolPc = "suspended" => saved # Tool!None
  /\ saved # Tool!None =>
       /\ saved \in [kind : {"saved"}, round : 1..MaxRounds - 1, dialogue : Seq(Tool!Message),
                     screen : Nat, observed : BOOLEAN, degraded : BOOLEAN,
                     imageless : BOOLEAN, broad : 0..2]
       /\ saved.screen <= saved.round + Extra(saved.observed)
       /\ WellFormed(Append(saved.dialogue, Tool!Reply(1)))

TranscriptIsSequence ==
  /\ {before, bucket, after, wire, appended, attached, toolNext} \subseteq Seq(Tool!Message)
  /\ toolCalls \in Seq(Tool!Kind)

DialogueIsWellFormed ==
  WellFormed(before) /\ WellFormed(after) /\ WellFormed(wire)

Scalars ==
  /\ role \in Tool!Planners \union Tool!Executors \union Tool!Others
  /\ toolPc \in {"request", "answer", "tools", "suspended", "done", "failed"}
  /\ round \in 1..MaxRounds /\ answered \in 0..MaxAnswer
  /\ Len(bucket) = 1 /\ bucket[1].kind = "screen" /\ Len(toolCalls) <= MaxAnswer
  /\ broad \in 0..2 /\ withImages \in BOOLEAN /\ observed \in BOOLEAN
  /\ degraded \in BOOLEAN /\ imageless \in BOOLEAN /\ noteFailed \in BOOLEAN
  /\ ran \subseteq Tool!Kind
  /\ decision = Tool!None \/ decision.byImage \in BOOLEAN

InvocationInv ==
  /\ Scalars /\ TranscriptIsSequence /\ RepliesInOrder /\ AttachedIsAside /\ ScreensAreFew
  /\ SavedResumes /\ DialogueIsWellFormed

LEMMA MessagesAre ==
  ASSUME Tool!BoundsArePositive, NEW s \in Seq(Tool!Message)
  PROVE  /\ Len(s) \in Nat
         /\ \A i \in 1..Len(s) : s[i] \in Tool!Message /\ s[i].n \in Nat
<1>1. Len(s) \in Nat /\ \A i \in 1..Len(s) : s[i] \in Tool!Message
  BY LenProperties, ElementOfSeq
<1>2. \A m \in Tool!Message : m.n \in Nat
  BY DEF Tool!Message
<1> QED BY <1>1, <1>2

LEMMA ConcatIsWellFormed ==
  ASSUME Tool!BoundsArePositive, NEW s \in Seq(Tool!Message), NEW t \in Seq(Tool!Message),
         WellFormed(s), WellFormed(t)
  PROVE  s \o t \in Seq(Tool!Message) /\ WellFormed(s \o t)
<1> DEFINE u == s \o t
<1>1. /\ u \in Seq(Tool!Message) /\ Len(u) = Len(s) + Len(t) /\ Len(s) \in Nat /\ Len(t) \in Nat
      /\ \A i \in 1..Len(s) : u[i] = s[i]
      /\ \A i \in 1..Len(t) : u[i + Len(s)] = t[i]
  BY ConcatProperties, MessagesAre
<1> HIDE DEF u
<1>2. ASSUME NEW i \in 1..Len(s)
      PROVE  /\ u[i].kind = "calls" => Tool!IsAnswered(u, i)
             /\ u[i].kind = "reply" => Tool!IsReplyTo(u, i)
  <2>1. u[i] = s[i] /\ s[i].n \in Nat
    BY <1>1, <1>2, MessagesAre
  <2>2. u[i].kind = "calls" => Tool!IsAnswered(u, i)
    <3> SUFFICES ASSUME s[i].kind = "calls", NEW k \in 1..s[i].n
                 PROVE  i + k <= Len(u) /\ u[i + k] = Tool!Reply(k)
      BY <2>1 DEF Tool!IsAnswered
    <3>1. i + k <= Len(s) /\ s[i + k] = Tool!Reply(k)
      BY <1>2 DEF WellFormed, Tool!IsAnswered
    <3>2. i + k \in 1..Len(s)
      BY <1>1, <2>1, <3>1
    <3> QED BY <1>1, <3>1, <3>2
  <2>3. u[i].kind = "reply" => Tool!IsReplyTo(u, i)
    <3> SUFFICES ASSUME s[i].kind = "reply" PROVE Tool!IsReplyTo(u, i)
      BY <2>1
    <3>1. PICK k \in 1..i - 1 : s[k].kind = "calls" /\ i - k <= s[k].n
      BY DEF WellFormed, Tool!IsReplyTo
    <3>2. u[k] = s[k]
      BY <1>1
    <3> QED BY <3>1, <3>2 DEF Tool!IsReplyTo
  <2> QED BY <2>2, <2>3
<1>3. ASSUME NEW i \in 1..Len(t)
      PROVE  LET j == i + Len(s)
             IN  /\ u[j].kind = "calls" => Tool!IsAnswered(u, j)
                 /\ u[j].kind = "reply" => Tool!IsReplyTo(u, j)
  <2> DEFINE j == i + Len(s)
  <2>1. u[j] = t[i] /\ t[i].n \in Nat
    BY <1>1, <1>3, MessagesAre
  <2>2. u[j].kind = "calls" => Tool!IsAnswered(u, j)
    <3> SUFFICES ASSUME t[i].kind = "calls", NEW k \in 1..t[i].n
                 PROVE  j + k <= Len(u) /\ u[j + k] = Tool!Reply(k)
      BY <2>1 DEF Tool!IsAnswered
    <3>1. i + k <= Len(t) /\ t[i + k] = Tool!Reply(k)
      BY <1>3 DEF WellFormed, Tool!IsAnswered
    <3>2. i + k \in 1..Len(t) /\ j + k = (i + k) + Len(s)
      BY <1>1, <2>1, <3>1
    <3>3. u[(i + k) + Len(s)] = t[i + k] /\ (i + k) + Len(s) <= Len(u)
      BY <1>1, <3>2
    <3> QED BY <3>1, <3>2, <3>3
  <2>3. u[j].kind = "reply" => Tool!IsReplyTo(u, j)
    <3> SUFFICES ASSUME t[i].kind = "reply" PROVE Tool!IsReplyTo(u, j)
      BY <2>1
    <3>1. PICK k \in 1..i - 1 : t[k].kind = "calls" /\ i - k <= t[k].n
      BY DEF WellFormed, Tool!IsReplyTo
    <3>2. u[k + Len(s)] = t[k] /\ k + Len(s) \in 1..j - 1 /\ j - (k + Len(s)) = i - k
      BY <1>1
    <3> QED BY <3>1, <3>2 DEF Tool!IsReplyTo
  <2> QED BY <2>2, <2>3
<1>4. \A j \in 1..Len(u) : j \in 1..Len(s) \/ \E i \in 1..Len(t) : j = i + Len(s)
  <2> SUFFICES ASSUME NEW j \in 1..Len(u), j \notin 1..Len(s)
               PROVE  \E i \in 1..Len(t) : j = i + Len(s)
    OBVIOUS
  <2>1. j - Len(s) \in 1..Len(t) /\ j = (j - Len(s)) + Len(s)
    BY <1>1
  <2> QED BY <2>1
<1>5. WellFormed(u)
  BY <1>2, <1>3, <1>4 DEF WellFormed
<1> QED BY <1>1, <1>5 DEF u

(* What is neither a call nor a reply needs nothing. *)
LEMMA AsideIsWellFormed ==
  ASSUME NEW s, \A i \in 1..Len(s) : s[i].kind \notin {"calls", "reply"}
  PROVE  WellFormed(s)
BY DEF WellFormed

(* n calls, their replies, and what is looked at after them. *)
Batch(s, n) ==
  /\ Len(s) >= n + 1 /\ s[1] = Tool!Calls(n)
  /\ \A k \in 1..n : s[k + 1] = Tool!Reply(k)
  /\ \A i \in n + 2..Len(s) : s[i].kind \in Aside

LEMMA BatchIsWellFormed ==
  ASSUME NEW s, Len(s) \in Nat, NEW n \in Nat, Batch(s, n)
  PROVE  WellFormed(s)
<1> SUFFICES ASSUME NEW i \in 1..Len(s)
             PROVE  /\ s[i].kind = "calls" => Tool!IsAnswered(s, i)
                    /\ s[i].kind = "reply" => Tool!IsReplyTo(s, i)
  BY DEF WellFormed
<1>1. CASE i = 1
  <2>1. s[i].n = n /\ s[i].kind = "calls"
    BY <1>1 DEF Batch, Tool!Calls
  <2>2. \A k \in 1..n : i + k <= Len(s) /\ s[i + k] = Tool!Reply(k)
    BY <1>1 DEF Batch
  <2> QED BY <2>1, <2>2 DEF Tool!IsAnswered
<1>2. CASE i \in 2..n + 1
  <2>1. i - 1 \in 1..n /\ i = (i - 1) + 1
    BY <1>2
  <2>2. s[i] = Tool!Reply(i - 1)
    BY <2>1 DEF Batch
  <2>3. 1 \in 1..i - 1 /\ s[1].kind = "calls" /\ s[1].n = n /\ i - 1 <= n
    BY <2>1 DEF Batch, Tool!Calls
  <2> QED BY <2>2, <2>3 DEF Tool!IsReplyTo, Tool!Reply
<1>3. CASE i \in n + 2..Len(s)
  BY <1>3 DEF Batch, Aside
<1> QED BY <1>1, <1>2, <1>3

LEMMA RemovedIs ==
  ASSUME NEW s \in Seq(Tool!Message), NEW i \in 1..Len(s)
  PROVE  /\ Tool!RemoveAt(s, i) \in Seq(Tool!Message) /\ Len(Tool!RemoveAt(s, i)) = Len(s) - 1
         /\ \A j \in 1..Len(s) - 1 : Tool!RemoveAt(s, i)[j] = IF j < i THEN s[j] ELSE s[j + 1]
<1> DEFINE a == SubSeq(s, 1, i - 1)
           b == SubSeq(s, i + 1, Len(s))
<1>0. Len(s) \in Nat /\ \A j \in 1..Len(s) : s[j] \in Tool!Message
  BY LenProperties, ElementOfSeq
<1>1. a \in Seq(Tool!Message) /\ Len(a) = i - 1 /\ \A j \in 1..i - 1 : a[j] = s[j]
  <2>1. 1 \in Int /\ i - 1 \in Int /\ \A j \in 1..i - 1 : s[j] \in Tool!Message
    BY <1>0
  <2>2. /\ a \in Seq(Tool!Message) /\ Len(a) = IF 1 <= i - 1 THEN i - 1 - 1 + 1 ELSE 0
        /\ \A j \in 1..i - 1 - 1 + 1 : a[j] = s[1 + j - 1]
    BY <2>1, SubSeqProperties
  <2> QED BY <1>0, <2>2
<1>2. b \in Seq(Tool!Message) /\ Len(b) = Len(s) - i /\ \A j \in 1..Len(s) - i : b[j] = s[i + j]
  <2>1. i + 1 \in Int /\ Len(s) \in Int /\ \A j \in i + 1..Len(s) : s[j] \in Tool!Message
    BY <1>0
  <2>2. /\ b \in Seq(Tool!Message)
        /\ Len(b) = IF i + 1 <= Len(s) THEN Len(s) - (i + 1) + 1 ELSE 0
        /\ \A j \in 1..Len(s) - (i + 1) + 1 : b[j] = s[(i + 1) + j - 1]
    BY <2>1, SubSeqProperties
  <2> QED BY <1>0, <2>2
<1>3. Tool!RemoveAt(s, i) = a \o b
  BY DEF Tool!RemoveAt
<1> HIDE DEF a, b
<1>4. /\ a \o b \in Seq(Tool!Message) /\ Len(a \o b) = Len(a) + Len(b)
      /\ \A j \in 1..Len(a) + Len(b) : (a \o b)[j] = IF j <= Len(a) THEN a[j] ELSE b[j - Len(a)]
  BY <1>1, <1>2, ConcatProperties
<1>5. ASSUME NEW j \in 1..Len(s) - 1 PROVE (a \o b)[j] = IF j < i THEN s[j] ELSE s[j + 1]
  <2>1. CASE j < i
    BY <1>0, <1>1, <1>2, <1>4, <2>1
  <2>2. CASE j >= i
    <3>1. j - Len(a) \in 1..Len(s) - i /\ i + (j - Len(a)) = j + 1 /\ j \in 1..Len(a) + Len(b)
          /\ ~(j <= Len(a))
      BY <1>0, <1>1, <1>2, <2>2
    <3>2. b[j - Len(a)] = s[j + 1]
      BY <1>2, <3>1
    <3>3. (a \o b)[j] = b[j - Len(a)]
      BY <1>4, <3>1
    <3> QED BY <1>0, <2>2, <3>2, <3>3
  <2>3. j < i \/ j >= i
    BY <1>0
  <2> QED BY <2>1, <2>2, <2>3, Zenon
<1> QED BY <1>0, <1>1, <1>2, <1>3, <1>4, <1>5

LEMMA RemovedIsBatch ==
  ASSUME NEW s \in Seq(Tool!Message), NEW n \in Nat, Batch(s, n), NEW i \in 1..Len(s),
         s[i].kind = "screen"
  PROVE  Tool!RemoveAt(s, i) \in Seq(Tool!Message) /\ Batch(Tool!RemoveAt(s, i), n)
<1>1. Len(s) \in Nat
  BY LenProperties
<1>2. i # 1
  BY DEF Batch, Tool!Calls
<1>3. ~(i \in 2..n + 1)
  <2> SUFFICES ASSUME i \in 2..n + 1 PROVE FALSE
    OBVIOUS
  <2>1. i - 1 \in 1..n /\ i = (i - 1) + 1
    OBVIOUS
  <2>2. s[i] = Tool!Reply(i - 1)
    BY <2>1 DEF Batch
  <2> QED BY <2>2 DEF Tool!Reply
<1>4. i >= n + 2
  BY <1>1, <1>2, <1>3
<1> DEFINE r == Tool!RemoveAt(s, i)
<1>5. /\ r \in Seq(Tool!Message) /\ Len(r) = Len(s) - 1
      /\ \A j \in 1..Len(s) - 1 : r[j] = IF j < i THEN s[j] ELSE s[j + 1]
  BY RemovedIs
<1> HIDE DEF r
<1>6. Len(r) >= n + 1 /\ r[1] = Tool!Calls(n)
  BY <1>1, <1>4, <1>5 DEF Batch
<1>7. \A k \in 1..n : r[k + 1] = Tool!Reply(k)
  BY <1>1, <1>4, <1>5 DEF Batch
<1>8. \A j \in n + 2..Len(r) : r[j].kind \in Aside
  <2> SUFFICES ASSUME NEW j \in n + 2..Len(r) PROVE r[j].kind \in Aside
    OBVIOUS
  <2>1. r[j] = s[j] \/ r[j] = s[j + 1]
    BY <1>1, <1>5
  <2>2. j \in n + 2..Len(s) /\ j + 1 \in n + 2..Len(s)
    BY <1>1, <1>5
  <2> QED BY <2>1, <2>2 DEF Batch
<1>9. Batch(r, n)
  BY <1>6, <1>7, <1>8 DEF Batch
<1> QED BY <1>5, <1>9 DEF r

LEMMA InvocationTypes ==
  ASSUME Tool!BoundsArePositive, InvocationInv
  PROVE  Tool!TypeOK /\ Tool!WireIsWellFormed
<1>1. \A s \in {before, bucket, after, wire, appended, attached, toolNext} :
        \A i \in 1..Len(s) : s[i] \in Tool!Message
  BY MessagesAre DEF InvocationInv, TranscriptIsSequence
<1>2. \A i \in 1..Len(toolCalls) : toolCalls[i] \in Tool!Kind
  BY ElementOfSeq DEF InvocationInv, TranscriptIsSequence
<1>3. {withImages, observed, degraded, imageless, noteFailed} \subseteq BOOLEAN
  BY Zenon DEF InvocationInv, Scalars
<1>4. saved = Tool!None \/ saved.round \in 1..MaxRounds - 1
  BY DEF InvocationInv, SavedResumes
<1>5. Tool!TypeOK
  BY <1>1, <1>2, <1>3, <1>4 DEF InvocationInv, Scalars, Tool!TypeOK
<1> QED BY <1>5 DEF InvocationInv, DialogueIsWellFormed, WellFormed, Tool!WireIsWellFormed

LEMMA MessagesExist ==
  ASSUME Tool!BoundsArePositive
  PROVE  /\ Tool!Nudge \in Tool!Message /\ Tool!Image \in Tool!Message
         /\ \A n \in 0..MaxRounds + 1 : Tool!Screen(n) \in Tool!Message
         /\ \A n \in 0..MaxAnswer : Tool!Calls(n) \in Tool!Message
              /\ Tool!Reply(n) \in Tool!Message
         /\ MaxRounds \in Nat /\ MaxAnswer \in Nat
         /\ MaxRounds >= 1 /\ MaxAnswer >= 1
<1>1. MaxRounds \in Nat /\ MaxAnswer \in Nat /\ MaxRounds >= 1 /\ MaxAnswer >= 1
  BY DEF Tool!BoundsArePositive
<1>2. /\ 0 \in 0..MaxRounds + MaxAnswer
      /\ \A n \in 0..MaxRounds + 1 : n \in 0..MaxRounds + MaxAnswer
      /\ \A n \in 0..MaxAnswer : n \in 0..MaxRounds + MaxAnswer
  BY <1>1
<1> QED BY <1>1, <1>2 DEF Tool!Nudge, Tool!Image, Tool!Screen, Tool!Calls, Tool!Reply,
    Tool!Message

LEMMA InvocationInitHolds == ASSUME Tool!BoundsArePositive, Tool!Init PROVE InvocationInv
<1>1. Scalars
  <2>1. 1 \in 1..MaxRounds /\ 0 \in 0..MaxAnswer /\ 0 <= MaxAnswer /\ 0 \in 0..2
    BY MessagesExist
  <2>2. Len(bucket) = 1 /\ bucket[1].kind = "screen" /\ Len(toolCalls) = 0
        /\ ran \subseteq Tool!Kind
    BY DEF Tool!Init, Tool!Screen
  <2> QED BY <2>1, <2>2 DEF Tool!Init, Scalars
<1>2. TranscriptIsSequence
  <2>1. <<>> \in Seq(Tool!Message) /\ <<>> \in Seq(Tool!Kind)
        /\ <<Tool!Screen(1)>> \in Seq(Tool!Message)
    BY MessagesExist
  <2> QED BY <2>1 DEF Tool!Init, TranscriptIsSequence
<1>3. SavedResumes /\ RepliesInOrder /\ AttachedIsAside
  BY DEF Tool!Init, SavedResumes, RepliesInOrder, AttachedIsAside
<1>4. ScreensAreFew
  BY DEF Tool!Init, ScreensAreFew, Tool!Screen, Extra
<1>5. DialogueIsWellFormed
  BY DEF Tool!Init, DialogueIsWellFormed, WellFormed
<1> QED BY <1>1, <1>2, <1>3, <1>4, <1>5 DEF InvocationInv

LEMMA KindIsKept == ASSUME UNCHANGED role PROVE Tool!Kind' = Tool!Kind
BY DEF Tool!Kind

LEMMA ModelRequestKeeps ==
  ASSUME Tool!BoundsArePositive, InvocationInv, Tool!Request, UNCHANGED role
  PROVE  InvocationInv'
<1> USE DEF Tool!transcript, Tool!reply
<1>1. wire' \in Seq(Tool!Message) /\ WellFormed(wire')
  <2>1. /\ before \in Seq(Tool!Message) /\ bucket \in Seq(Tool!Message)
        /\ after \in Seq(Tool!Message)
        /\ WellFormed(before) /\ WellFormed(after)
    BY DEF InvocationInv, TranscriptIsSequence, DialogueIsWellFormed
  <2>2. WellFormed(bucket)
    BY AsideIsWellFormed DEF InvocationInv, Scalars
  <2>3. before \o bucket \in Seq(Tool!Message) /\ WellFormed(before \o bucket)
    BY <2>1, <2>2, ConcatIsWellFormed
  <2>4. /\ (before \o bucket) \o after \in Seq(Tool!Message)
        /\ WellFormed((before \o bucket) \o after)
    BY <2>1, <2>3, ConcatIsWellFormed
  <2> QED BY <2>4 DEF Tool!Request
<1>2. /\ UNCHANGED <<role, round, Tool!transcript, Tool!reply, observed, broad, decision, saved>>
      /\ toolPc' = "answer"
  BY DEF Tool!Request
<1>3. degraded' \in BOOLEAN /\ withImages' \in BOOLEAN /\ imageless' \in BOOLEAN
  BY Zenon DEF Tool!Request, InvocationInv, Scalars
<1>4. Scalars'
  BY <1>2, <1>3, KindIsKept DEF InvocationInv, Scalars
<1>5. TranscriptIsSequence'
  BY <1>1, <1>2, KindIsKept DEF InvocationInv, TranscriptIsSequence
<1>6. RepliesInOrder' /\ AttachedIsAside' /\ ScreensAreFew' /\ SavedResumes'
  BY <1>2 DEF InvocationInv, RepliesInOrder, AttachedIsAside, ScreensAreFew, SavedResumes
<1>7. DialogueIsWellFormed'
  BY <1>1, <1>2 DEF InvocationInv, DialogueIsWellFormed
<1> QED BY <1>4, <1>5, <1>6, <1>7 DEF InvocationInv

LEMMA RoundIs ==
  ASSUME Tool!BoundsArePositive, InvocationInv, Tool!NextRound
  PROVE  /\ round' \in 1..MaxRounds /\ round' >= round /\ toolPc' \in {"request", "failed"}
BY MessagesExist DEF Tool!NextRound, InvocationInv, Scalars

LEMMA AnswersWithTextKeeps ==
  ASSUME Tool!BoundsArePositive, InvocationInv, Tool!AnswersWithText, UNCHANGED role
  PROVE  InvocationInv'
<1> USE DEF Tool!transcript, Tool!reply, Tool!flags
<1>1. after' \in Seq(Tool!Message) /\ WellFormed(after')
  <2>1. after \in Seq(Tool!Message) /\ WellFormed(after)
    BY DEF InvocationInv, TranscriptIsSequence, DialogueIsWellFormed
  <2>2. <<Tool!Nudge, Tool!Nudge>> \in Seq(Tool!Message)
    BY MessagesExist
  <2>3. WellFormed(<<Tool!Nudge, Tool!Nudge>>)
    BY AsideIsWellFormed DEF Tool!Nudge
  <2>4. /\ after \o <<Tool!Nudge, Tool!Nudge>> \in Seq(Tool!Message)
        /\ WellFormed(after \o <<Tool!Nudge, Tool!Nudge>>)
    BY <2>1, <2>2, <2>3, ConcatIsWellFormed
  <2> QED BY <2>1, <2>4 DEF Tool!AnswersWithText
<1>2. /\ UNCHANGED <<role, before, bucket, wire, withImages, Tool!reply, Tool!flags, decision,
                     saved>>
      /\ Tool!NextRound
  BY DEF Tool!AnswersWithText
<1>4. Scalars'
  BY <1>2, RoundIs, KindIsKept DEF InvocationInv, Scalars
<1>5. TranscriptIsSequence'
  BY <1>1, <1>2, KindIsKept DEF InvocationInv, TranscriptIsSequence
<1>6. RepliesInOrder' /\ AttachedIsAside' /\ SavedResumes'
  <2>1. round <= round' /\ round' \in Nat /\ round \in Nat
    BY <1>2, RoundIs DEF InvocationInv, Scalars
  <2>2. 0..round + 1 \subseteq 0..round' + 1
    <3>1. \A a, b \in Nat : a <= b => 0..a + 1 \subseteq 0..b + 1
      OBVIOUS
    <3> QED BY <2>1, <3>1
  <2> QED BY <1>2, <2>2, RoundIs
        DEF InvocationInv, RepliesInOrder, AttachedIsAside, SavedResumes
<1>7. ScreensAreFew'
  <2>1. bucket[1].n \in Nat
    <3>1. bucket \in Seq(Tool!Message) /\ 1 \in 1..Len(bucket)
      BY DEF InvocationInv, Scalars, TranscriptIsSequence
    <3> QED BY <3>1, MessagesAre
  <2> QED BY <1>2, <2>1, RoundIs DEF InvocationInv, Scalars, ScreensAreFew, Extra
<1>8. DialogueIsWellFormed'
  BY <1>1, <1>2 DEF InvocationInv, DialogueIsWellFormed
<1> QED BY <1>4, <1>5, <1>6, <1>7, <1>8 DEF InvocationInv

LEMMA AnswersWithCallsKeeps ==
  ASSUME Tool!BoundsArePositive, InvocationInv, Tool!AnswersWithCalls, UNCHANGED role
  PROVE  InvocationInv'
<1> USE DEF Tool!transcript
<1>1. PICK n \in 1..MaxAnswer : toolCalls' \in [1..n -> Tool!Kind]
  BY DEF Tool!AnswersWithCalls
<1>2. /\ answered' = 0 /\ appended' = <<Tool!Calls(Len(toolCalls'))>> /\ attached' = <<>>
      /\ toolNext' = <<>> /\ noteFailed' = FALSE /\ ran' = {} /\ toolPc' = "tools"
      /\ UNCHANGED <<role, round, Tool!transcript, wire, withImages, observed, degraded,
                     imageless,
                     decision, saved>>
  BY DEF Tool!AnswersWithCalls
<1>3. broad' \in 0..2
  BY DEF Tool!AnswersWithCalls, InvocationInv, Scalars
<1>4. toolCalls' \in Seq(Tool!Kind) /\ Len(toolCalls') = n /\ toolCalls' # <<>>
  <2>1. n \in Nat /\ n >= 1 /\ n <= MaxAnswer
    BY <1>1, MessagesExist
  <2>2. toolCalls' \in Seq(Tool!Kind) /\ Len(toolCalls') = n
    BY <1>1, <2>1, LenProperties, SeqDef
  <2> QED BY <2>1, <2>2, EmptySeq
<1>5. Tool!Calls(n) \in Tool!Message
  BY <1>1, MessagesExist
<1>6. Scalars'
  <2>1. answered' \in 0..MaxAnswer /\ Len(toolCalls') <= MaxAnswer /\ ran' \subseteq Tool!Kind'
    BY <1>1, <1>2, <1>4, MessagesExist
  <2> QED BY <1>2, <1>3, <2>1 DEF InvocationInv, Scalars
<1>7. TranscriptIsSequence'
  <2>1. appended' \in Seq(Tool!Message) /\ <<>> \in Seq(Tool!Message)
    BY <1>2, <1>4, <1>5
  <2> QED BY <1>2, <1>4, <2>1, KindIsKept DEF InvocationInv, TranscriptIsSequence
<1>8. RepliesInOrder' /\ AttachedIsAside' /\ ScreensAreFew' /\ SavedResumes'
  BY <1>1, <1>2, <1>4
     DEF InvocationInv, RepliesInOrder, AttachedIsAside, ScreensAreFew, SavedResumes
<1>9. DialogueIsWellFormed'
  BY <1>2 DEF InvocationInv, DialogueIsWellFormed
<1> QED BY <1>6, <1>7, <1>8, <1>9 DEF InvocationInv

LEMMA StopsKeep ==
  ASSUME Tool!BoundsArePositive, InvocationInv, UNCHANGED role,
         Tool!RequestFails \/ Tool!Interrupted
  PROVE  InvocationInv'
<1> USE DEF Tool!transcript, Tool!reply, Tool!flags
<1>1. /\ UNCHANGED <<role, round, Tool!transcript, wire, withImages, Tool!reply, Tool!flags,
                     decision, saved>>
      /\ toolPc' = "failed" \/ (toolPc' = "suspended" /\ saved # Tool!None)
  BY DEF Tool!RequestFails, Tool!Interrupted
<1>2. Scalars' /\ TranscriptIsSequence'
  BY <1>1, KindIsKept DEF InvocationInv, Scalars, TranscriptIsSequence
<1>3. RepliesInOrder' /\ AttachedIsAside' /\ ScreensAreFew' /\ SavedResumes'
  BY <1>1 DEF InvocationInv, RepliesInOrder, AttachedIsAside, ScreensAreFew, SavedResumes
<1>4. DialogueIsWellFormed'
  BY <1>1 DEF InvocationInv, DialogueIsWellFormed
<1> QED BY <1>2, <1>3, <1>4 DEF InvocationInv

(* A reply is the next one, of a call of the answer. *)
LEMMA RepliesAre ==
  ASSUME Tool!BoundsArePositive, InvocationInv, Tool!Pending, Tool!Replies, UNCHANGED role
  PROVE  /\ appended' \in Seq(Tool!Message) /\ RepliesInOrder' /\ answered' \in 0..MaxAnswer
         /\ Tool!Call \in Tool!Kind
<1>1. /\ toolPc = "tools" /\ answered < Len(toolCalls) /\ answered' = answered + 1
      /\ appended' = Append(appended, Tool!Reply(answered')) /\ UNCHANGED <<toolPc, toolCalls>>
  BY DEF Tool!Pending, Tool!Replies
<1>2. /\ answered \in Nat /\ Len(toolCalls) \in Nat /\ Len(toolCalls) <= MaxAnswer
      /\ toolCalls \in Seq(Tool!Kind) /\ appended \in Seq(Tool!Message) /\ MaxAnswer \in Nat
  BY LenProperties, MessagesExist DEF InvocationInv, Scalars, TranscriptIsSequence
<1>3. /\ Len(appended) = answered + 1 /\ appended[1] = Tool!Calls(Len(toolCalls))
      /\ toolCalls # <<>>
      /\ \A k \in 1..answered : appended[k + 1] = Tool!Reply(k)
  BY <1>1 DEF InvocationInv, RepliesInOrder
<1>4. answered + 1 \in 1..Len(toolCalls) /\ answered' \in 0..MaxAnswer
  BY <1>1, <1>2
<1>5. Tool!Call \in Tool!Kind
  BY <1>2, <1>4, ElementOfSeq DEF Tool!Call
<1>6. Tool!Reply(answered') \in Tool!Message
  BY <1>4, MessagesExist
<1>7. /\ appended' \in Seq(Tool!Message) /\ Len(appended') = Len(appended) + 1
      /\ \A i \in 1..Len(appended) : appended'[i] = appended[i]
      /\ appended'[Len(appended) + 1] = Tool!Reply(answered')
  BY <1>1, <1>2, <1>6, AppendProperties
<1>8. \A k \in 1..answered' : appended'[k + 1] = Tool!Reply(k)
  <2> SUFFICES ASSUME NEW k \in 1..answered' PROVE appended'[k + 1] = Tool!Reply(k)
    OBVIOUS
  <2>1. CASE k = answered'
    BY <1>1, <1>2, <1>3, <1>7, <2>1
  <2>2. CASE k # answered'
    <3>1. k \in 1..answered /\ k + 1 \in 1..Len(appended)
      BY <1>1, <1>2, <1>3, <2>2
    <3> QED BY <1>3, <1>7, <3>1
  <2> QED BY <2>1, <2>2
<1>9. appended'[1] = Tool!Calls(Len(toolCalls')) /\ Len(appended') = answered' + 1
  BY <1>1, <1>2, <1>3, <1>7
<1>10. answered' <= Len(toolCalls') /\ toolCalls' # <<>>
  BY <1>1, <1>2, <1>3, <1>4
<1>11. RepliesInOrder'
  BY <1>8, <1>9, <1>10 DEF RepliesInOrder
<1> QED BY <1>4, <1>5, <1>7, <1>11

(* What a call that is replied to may change is what is attached. *)
LEMMA RepliedKeeps ==
  ASSUME Tool!BoundsArePositive, InvocationInv, Tool!Pending, Tool!Replies, UNCHANGED role,
         UNCHANGED <<degraded, imageless, broad>>, observed' \in {observed, TRUE},
         noteFailed' \in BOOLEAN, ran' \subseteq Tool!Kind,
         decision' = Tool!None \/ decision'.byImage \in BOOLEAN,
         attached' \in Seq(Tool!Message), toolNext' \in Seq(Tool!Message), AttachedIsAside'
  PROVE  InvocationInv'
<1>1. /\ appended' \in Seq(Tool!Message) /\ RepliesInOrder' /\ answered' \in 0..MaxAnswer
      /\ UNCHANGED <<role, toolPc, round, Tool!transcript, wire, withImages, toolCalls, saved>>
  BY RepliesAre DEF Tool!Replies
<1>2. observed' \in BOOLEAN
  BY Zenon DEF InvocationInv, Scalars
<1>3. Scalars'
  BY <1>1, <1>2, KindIsKept DEF InvocationInv, Scalars, Tool!transcript
<1>4. TranscriptIsSequence'
  BY <1>1, KindIsKept DEF InvocationInv, TranscriptIsSequence, Tool!transcript
<1>5. SavedResumes' /\ DialogueIsWellFormed'
  BY <1>1 DEF InvocationInv, SavedResumes, DialogueIsWellFormed, Tool!transcript
<1>6. ScreensAreFew'
  <2>1. bucket[1].n \in Nat /\ round \in Nat
    <3>1. bucket \in Seq(Tool!Message) /\ 1 \in 1..Len(bucket)
      BY DEF InvocationInv, Scalars, TranscriptIsSequence
    <3> QED BY <3>1, MessagesAre, MessagesExist DEF InvocationInv, Scalars
  <2>2. Extra(observed') = 1 \/ Extra(observed') = Extra(observed)
    <3>1. CASE observed' = TRUE
      BY <3>1, Zenon DEF Extra
    <3>2. CASE observed' = observed
      BY <3>2
    <3> QED BY <3>1, <3>2
  <2>3. Extra(observed) \in 0..1
    BY DEF Extra
  <2>4. bucket[1].n <= round + Extra(observed)
    BY DEF InvocationInv, ScreensAreFew
  <2> QED BY <1>1, <2>1, <2>2, <2>3, <2>4 DEF ScreensAreFew, Tool!transcript
<1> QED BY <1>1, <1>3, <1>4, <1>5, <1>6 DEF InvocationInv

LEMMA ToolsKeep ==
  ASSUME Tool!BoundsArePositive, InvocationInv, UNCHANGED role,
         \/ Tool!Rejects \/ Tool!Fails \/ Tool!Reads \/ Tool!WritesNote \/ Tool!Observes
         \/ Tool!Submits
  PROVE  InvocationInv'
<1>1. /\ Tool!Pending /\ Tool!Replies /\ UNCHANGED round
      /\ UNCHANGED <<degraded, imageless, broad>>
  BY DEF Tool!Rejects, Tool!Fails, Tool!Reads, Tool!WritesNote, Tool!Observes, Tool!Submits,
         Tool!Runs, Tool!Replies, Tool!flags
<1>2. ran' \subseteq Tool!Kind
  BY RepliesAre DEF Tool!Rejects, Tool!Fails, Tool!Reads, Tool!WritesNote, Tool!Observes,
      Tool!Submits, Tool!Runs, InvocationInv, Scalars
<1>3. noteFailed' \in BOOLEAN
  BY Zenon DEF Tool!Rejects, Tool!Fails, Tool!Reads, Tool!WritesNote, Tool!Observes,
               Tool!Submits, InvocationInv, Scalars
<1>4. decision' = Tool!None \/ decision'.byImage \in BOOLEAN
  <2>1. CASE UNCHANGED decision
    BY <2>1 DEF InvocationInv, Scalars
  <2>2. CASE Tool!Submits
    <3>1. PICK byImage \in BOOLEAN : decision' = [kind |-> "decision", byImage |-> byImage]
      BY <2>2 DEF Tool!Submits
    <3> QED BY <3>1
  <2> QED BY <2>1, <2>2 DEF Tool!Rejects, Tool!Fails, Tool!Reads, Tool!WritesNote, Tool!Observes
<1>5. attached \in Seq(Tool!Message) /\ toolNext \in Seq(Tool!Message) /\ AttachedIsAside
  BY DEF InvocationInv, TranscriptIsSequence
<1>6. CASE Tool!Rejects \/ Tool!Fails \/ Tool!WritesNote \/ Tool!Submits
  <2>1. UNCHANGED <<attached, toolNext, observed, round>>
    BY <1>1, <1>6 DEF Tool!Rejects, Tool!Fails, Tool!WritesNote, Tool!Submits, Tool!flags
  <2>2. AttachedIsAside'
    BY <1>5, <2>1 DEF AttachedIsAside
  <2> QED BY <1>1, <1>2, <1>3, <1>4, <1>5, <2>1, <2>2, RepliedKeeps
<1>7. CASE Tool!Reads
  <2>1. /\ UNCHANGED <<toolNext, observed, round>>
        /\ attached' = attached \/ attached' = Append(attached, Tool!Image)
    BY <1>1, <1>7 DEF Tool!Reads, Tool!flags
  <2>2. Tool!Image \in Tool!Message /\ Tool!Image.kind \in Aside
    BY MessagesExist DEF Tool!Image, Aside
  <2>3. CASE attached' = attached
    <3>1. AttachedIsAside'
      BY <1>5, <2>1, <2>3 DEF AttachedIsAside
    <3> QED BY <1>1, <1>2, <1>3, <1>4, <1>5, <2>1, <2>3, <3>1, RepliedKeeps
  <2>4. CASE attached' = Append(attached, Tool!Image)
    <3>1. /\ attached' \in Seq(Tool!Message) /\ Len(attached') = Len(attached) + 1
          /\ \A i \in 1..Len(attached) : attached'[i] = attached[i]
          /\ attached'[Len(attached) + 1] = Tool!Image /\ Len(attached) \in Nat
      BY <1>5, <2>2, <2>4, AppendProperties, LenProperties
    <3>2. AttachedIsAside'
      BY <1>5, <2>1, <2>2, <3>1 DEF AttachedIsAside
    <3> QED BY <1>1, <1>2, <1>3, <1>4, <1>5, <2>1, <3>1, <3>2, RepliedKeeps
  <2> QED BY <2>1, <2>3, <2>4
<1>8. CASE Tool!Observes
  <2> DEFINE s == Tool!Screen(bucket[1].n + 1)
  <2>1. observed' = TRUE /\ toolNext' = <<s>> /\ attached' = attached \o <<s>> /\ ~observed
    BY <1>8 DEF Tool!Observes, Tool!Runs, Tool!Rejected
  <2>2. bucket[1].n \in Nat /\ round \in Nat /\ round <= MaxRounds /\ bucket[1].n <= round
    <3>1. bucket \in Seq(Tool!Message) /\ 1 \in 1..Len(bucket)
      BY DEF InvocationInv, Scalars, TranscriptIsSequence
    <3> QED BY <2>1, <3>1, MessagesAre, MessagesExist
          DEF InvocationInv, Scalars, ScreensAreFew, Extra
  <2>3. bucket[1].n + 1 \in 0..MaxRounds + 1 /\ bucket[1].n + 1 \in 0..round + 1
    BY <2>2, MessagesExist
  <2>4. s \in Tool!Message /\ s.kind = "screen" /\ s.n \in 0..round + 1
    BY <2>3, MessagesExist DEF Tool!Screen
  <2> HIDE DEF s
  <2>5. toolNext' \in Seq(Tool!Message) /\ Len(toolNext') = 1 /\ toolNext'[1] = s
        /\ <<s>> \in Seq(Tool!Message)
    BY <2>1, <2>4
  <2>6. /\ attached' \in Seq(Tool!Message) /\ Len(attached') = Len(attached) + 1
        /\ \A i \in 1..Len(attached) : attached'[i] = attached[i]
        /\ attached'[Len(attached) + 1] = s /\ Len(attached) \in Nat
    BY <1>5, <2>1, <2>4, <2>5, ConcatProperties, LenProperties
  <2>7. AttachedIsAside'
    <3>1. \A i \in 1..Len(attached') : attached'[i].kind \in Aside
      BY <1>5, <2>4, <2>6 DEF AttachedIsAside, Aside
    <3>2. Len(attached) + 1 \in 1..Len(attached')
      BY <2>6
    <3> QED BY <1>1, <2>1, <2>4, <2>5, <2>6, <3>1, <3>2 DEF AttachedIsAside
  <2> QED BY <1>1, <1>2, <1>3, <1>4, <2>1, <2>5, <2>6, <2>7, RepliedKeeps
<1> QED BY <1>6, <1>7, <1>8

(* The transcript goes on with the batch. *)
LEMMA FinishesKeeps ==
  ASSUME Tool!BoundsArePositive, InvocationInv, Tool!Finishes, UNCHANGED role
  PROVE  InvocationInv'
<1> DEFINE n == Len(toolCalls)
           added == appended \o attached
           j == CHOOSE i \in 1..Len(added) : added[i] = toolNext[1]
<1>1. /\ before \in Seq(Tool!Message) /\ bucket \in Seq(Tool!Message)
      /\ after \in Seq(Tool!Message)
      /\ appended \in Seq(Tool!Message) /\ attached \in Seq(Tool!Message)
      /\ toolNext \in Seq(Tool!Message)
      /\ WellFormed(before) /\ WellFormed(after) /\ WellFormed(bucket)
      /\ n \in Nat
  <2>1. WellFormed(bucket)
    BY AsideIsWellFormed DEF InvocationInv, Scalars
  <2> QED BY <2>1, LenProperties DEF InvocationInv, TranscriptIsSequence, DialogueIsWellFormed
<1>2. /\ Len(appended) = n + 1 /\ appended[1] = Tool!Calls(n)
      /\ \A k \in 1..n : appended[k + 1] = Tool!Reply(k)
  BY DEF Tool!Finishes, InvocationInv, RepliesInOrder
<1>3. /\ added \in Seq(Tool!Message) /\ Len(added) = Len(appended) + Len(attached)
      /\ Len(attached) \in Nat
      /\ \A i \in 1..Len(appended) : added[i] = appended[i]
      /\ \A i \in 1..Len(attached) : added[i + Len(appended)] = attached[i]
      /\ \A i \in n + 2..Len(added) : added[i] = attached[i - (n + 1)]
  <2>1. Len(attached) \in Nat /\ Len(appended) \in Nat
    BY <1>1, LenProperties
  <2>2. /\ added \in Seq(Tool!Message) /\ Len(added) = Len(appended) + Len(attached)
        /\ \A i \in 1..Len(appended) + Len(attached) :
             added[i] = IF i <= Len(appended) THEN appended[i] ELSE attached[i - Len(appended)]
    BY <1>1, ConcatProperties
  <2> HIDE DEF added, n
  <2>3. \A i \in 1..Len(attached) : added[i + Len(appended)] = attached[i]
    <3> SUFFICES ASSUME NEW i \in 1..Len(attached)
                 PROVE  added[i + Len(appended)] = attached[i]
      OBVIOUS
    <3>1. /\ i + Len(appended) \in 1..Len(appended) + Len(attached)
          /\ ~(i + Len(appended) <= Len(appended)) /\ (i + Len(appended)) - Len(appended) = i
      BY <2>1
    <3> QED BY <2>2, <3>1
  <2>4. \A i \in n + 2..Len(added) : added[i] = attached[i - (n + 1)]
    <3> SUFFICES ASSUME NEW i \in n + 2..Len(added) PROVE added[i] = attached[i - (n + 1)]
      OBVIOUS
    <3>1. i \in 1..Len(appended) + Len(attached) /\ ~(i <= Len(appended))
      BY <1>1, <1>2, <2>1, <2>2
    <3> QED BY <1>2, <2>2, <3>1
  <2> QED BY <2>1, <2>2, <2>3, <2>4
<1>4. Batch(added, n)
  <2>1. \A i \in n + 2..Len(added) : i - (n + 1) \in 1..Len(attached)
    BY <1>1, <1>2, <1>3
  <2>2. \A i \in n + 2..Len(added) : added[i].kind \in Aside
    BY <1>3, <2>1 DEF InvocationInv, AttachedIsAside
  <2>3. added[1] = Tool!Calls(n)
    BY <1>1, <1>2, <1>3
  <2>4. \A k \in 1..n : added[k + 1] = Tool!Reply(k)
    BY <1>1, <1>2, <1>3
  <2>5. Len(added) >= n + 1
    BY <1>1, <1>2, <1>3
  <2> QED BY <2>2, <2>3, <2>4, <2>5 DEF Batch
<1>5. WellFormed(added)
  BY <1>1, <1>3, <1>4, BatchIsWellFormed, LenProperties
<1> DEFINE rest == Tool!RemoveAt(added, j)
<1>6. toolNext # <<>> => rest \in Seq(Tool!Message) /\ WellFormed(rest)
  <2> SUFFICES ASSUME toolNext # <<>> PROVE rest \in Seq(Tool!Message) /\ WellFormed(rest)
    OBVIOUS
  <2>1. PICK i \in 1..Len(attached) : attached[i] = toolNext[1]
    BY DEF InvocationInv, AttachedIsAside
  <2>2. i + Len(appended) \in 1..Len(added) /\ added[i + Len(appended)] = toolNext[1]
    BY <1>1, <1>2, <1>3, <2>1
  <2>3. j \in 1..Len(added) /\ added[j] = toolNext[1]
    BY <2>2
  <2>4. added[j].kind = "screen"
    BY <2>3 DEF InvocationInv, AttachedIsAside
  <2> HIDE DEF j, added
  <2>5. rest \in Seq(Tool!Message) /\ Batch(rest, n)
    BY <1>1, <1>3, <1>4, <2>3, <2>4, RemovedIsBatch
  <2>6. Len(rest) \in Nat
    BY <2>5, LenProperties
  <2> QED BY <1>1, <2>5, <2>6, BatchIsWellFormed
<1>7. /\ before' \in Seq(Tool!Message) /\ WellFormed(before')
      /\ after' \in Seq(Tool!Message) /\ WellFormed(after')
      /\ bucket' \in Seq(Tool!Message) /\ Len(bucket') = 1 /\ bucket'[1].kind = "screen"
      /\ bucket' = bucket \/ (bucket' = toolNext /\ toolNext # <<>>)
  <2>1. CASE toolNext # <<>>
    <3> DEFINE shown == IF role.executes THEN before \o bucket ELSE before
    <3>1. /\ before' = (shown \o after) \o rest
          /\ bucket' = toolNext /\ after' = <<>>
      BY <2>1 DEF Tool!Finishes
    <3>2. shown \in Seq(Tool!Message) /\ WellFormed(shown)
      BY <1>1, ConcatIsWellFormed
    <3> HIDE DEF shown, rest
    <3>3. shown \o after \in Seq(Tool!Message) /\ WellFormed(shown \o after)
      BY <1>1, <3>2, ConcatIsWellFormed
    <3>4. before' \in Seq(Tool!Message) /\ WellFormed(before')
      BY <1>6, <2>1, <3>1, <3>3, ConcatIsWellFormed
    <3>5. after' \in Seq(Tool!Message) /\ WellFormed(after')
      BY <3>1, EmptySeq DEF WellFormed
    <3> QED BY <1>1, <2>1, <3>1, <3>4, <3>5 DEF InvocationInv, AttachedIsAside
  <2>2. CASE toolNext = <<>>
    <3>1. after' = after \o added /\ UNCHANGED <<before, bucket>>
      BY <2>2 DEF Tool!Finishes
    <3> HIDE DEF added
    <3>2. after' \in Seq(Tool!Message) /\ WellFormed(after')
      BY <1>1, <1>3, <1>5, <3>1, ConcatIsWellFormed
    <3> QED BY <1>1, <3>1, <3>2 DEF InvocationInv, Scalars
  <2> QED BY <2>1, <2>2
<1> HIDE DEF n, added, j, rest
<1>8. /\ toolCalls' = <<>> /\ answered' = 0 /\ appended' = <<>> /\ attached' = <<>>
      /\ toolNext' = <<>>
      /\ noteFailed' = FALSE /\ ran' = {}
      /\ UNCHANGED <<wire, withImages, Tool!flags, decision, saved>>
  BY DEF Tool!Finishes
<1>9. round' \in 1..MaxRounds /\ round' >= round /\ toolPc' \in {"request", "failed", "done"}
      /\ round \in Nat
  BY MessagesExist, RoundIs DEF Tool!Finishes, InvocationInv, Scalars
<1>10. Scalars'
  <2>1. 0 \in 0..MaxAnswer /\ Len(toolCalls') <= MaxAnswer /\ ran' \subseteq Tool!Kind'
    BY <1>8, MessagesExist
  <2> QED BY <1>7, <1>8, <1>9, <2>1 DEF InvocationInv, Scalars, Tool!flags
<1>11. TranscriptIsSequence'
  BY <1>7, <1>8, EmptySeq DEF InvocationInv, TranscriptIsSequence
<1>12. RepliesInOrder' /\ AttachedIsAside' /\ SavedResumes'
  BY <1>8, <1>9 DEF InvocationInv, RepliesInOrder, AttachedIsAside, SavedResumes
<1>13. ScreensAreFew'
  <2>1. CASE bucket' = bucket
    <3>1. bucket[1].n \in Nat
      <4>1. bucket \in Seq(Tool!Message) /\ 1 \in 1..Len(bucket)
        BY DEF InvocationInv, Scalars, TranscriptIsSequence
      <4> QED BY <4>1, MessagesAre
    <3>2. Extra(observed) \in 0..1 /\ Extra(observed') = Extra(observed)
      BY <1>8 DEF Extra, Tool!flags
    <3>3. bucket[1].n <= round + Extra(observed)
      BY DEF InvocationInv, ScreensAreFew
    <3>4. round' \in Nat
      BY <1>9, MessagesExist
    <3> QED BY <1>9, <2>1, <3>1, <3>2, <3>3, <3>4 DEF ScreensAreFew
  <2>2. CASE bucket' = toolNext /\ toolNext # <<>>
    <3>1. toolNext[1].n \in 0..round + 1 /\ observed
      BY <2>2 DEF InvocationInv, AttachedIsAside
    <3>2. Extra(observed') = 1 /\ round' \in Nat
      BY <1>8, <1>9, <3>1, MessagesExist DEF Extra, Tool!flags
    <3> QED BY <1>9, <2>2, <3>1, <3>2 DEF ScreensAreFew
  <2> QED BY <1>7, <2>1, <2>2
<1>14. DialogueIsWellFormed'
  BY <1>7, <1>8 DEF InvocationInv, DialogueIsWellFormed
<1> QED BY <1>10, <1>11, <1>12, <1>13, <1>14 DEF InvocationInv

(* A question is asked alone, so what is saved lacks its answer and no more. *)
LEMMA AsksKeeps ==
  ASSUME Tool!BoundsArePositive, InvocationInv, Tool!Asks, UNCHANGED role
  PROVE  InvocationInv'
<1> USE DEF Tool!transcript, Tool!flags
<1>1. /\ toolPc = "tools" /\ answered < Len(toolCalls) /\ ~Tool!Rejected /\ Tool!Call = "ask"
      /\ toolPc' = "suspended"
      /\ saved' = [kind |-> "saved", round |-> round, dialogue |-> wire \o appended,
                   screen |-> bucket[1].n, observed |-> observed, degraded |-> degraded,
                   imageless |-> imageless, broad |-> broad]
      /\ UNCHANGED <<role, round, Tool!transcript, wire, withImages, toolCalls, answered,
                     appended,
                     attached, toolNext, noteFailed, Tool!flags, decision>>
      /\ ran' = ran \union {"ask"}
  BY DEF Tool!Asks, Tool!Pending
<1>2. /\ answered \in Nat /\ Len(toolCalls) \in Nat /\ toolCalls \in Seq(Tool!Kind)
      /\ wire \in Seq(Tool!Message) /\ appended \in Seq(Tool!Message) /\ round \in 1..MaxRounds
      /\ bucket[1].n \in Nat /\ WellFormed(wire)
  <2>1. bucket \in Seq(Tool!Message) /\ 1 \in 1..Len(bucket)
    BY DEF InvocationInv, Scalars, TranscriptIsSequence
  <2>2. bucket[1].n \in Nat
    BY <2>1, MessagesAre
  <2> QED BY <2>2, LenProperties
        DEF InvocationInv, Scalars, TranscriptIsSequence, DialogueIsWellFormed
<1>3. answered + 1 \in 1..Len(toolCalls)
  BY <1>1, <1>2
<1>4. Len(toolCalls) = 1 /\ answered = 0
  <2>1. Tool!Contains(toolCalls, "ask")
    BY <1>1, <1>3 DEF Tool!Contains, Tool!Call
  <2>2. Tool!Alone
    BY <1>1, <2>1, Zenon DEF Tool!Rejected
  <2> QED BY <1>1, <1>2, <2>2 DEF Tool!Alone
<1>5. "ask" \in Tool!Kind /\ role.human
  <2>1. "ask" \in Tool!Kind
    BY <1>1, <1>2, <1>3, ElementOfSeq DEF Tool!Call
  <2> QED BY <2>1 DEF Tool!Kind
<1>6. round \in 1..MaxRounds - 1
  BY <1>1, <1>2, <1>5, MessagesExist DEF Tool!Rejected
<1>7. Len(appended) = 1 /\ appended[1] = Tool!Calls(1)
  BY <1>1, <1>4 DEF InvocationInv, RepliesInOrder
<1> DEFINE d == wire \o appended
<1>8. /\ d \in Seq(Tool!Message) /\ WellFormed(Append(d, Tool!Reply(1)))
  <2> DEFINE tail == Append(appended, Tool!Reply(1))
  <2>1. Tool!Reply(1) \in Tool!Message
    BY MessagesExist
  <2>2. /\ tail \in Seq(Tool!Message) /\ Len(tail) = 2 /\ tail[1] = Tool!Calls(1)
        /\ tail[2] = Tool!Reply(1)
    <3>1. /\ tail \in Seq(Tool!Message) /\ Len(tail) = Len(appended) + 1
          /\ \A i \in 1..Len(appended) : tail[i] = appended[i]
          /\ tail[Len(appended) + 1] = Tool!Reply(1)
      BY <1>2, <2>1, AppendProperties
    <3> HIDE DEF tail
    <3> QED BY <1>7, <3>1
  <2>3. Batch(tail, 1)
    BY <2>2 DEF Batch
  <2>4. WellFormed(tail)
    BY <2>2, <2>3, BatchIsWellFormed
  <2>5. d \in Seq(Tool!Message)
    BY <1>2, ConcatProperties
  <2>6. WellFormed(wire \o tail)
    BY <1>2, <2>2, <2>4, ConcatIsWellFormed
  <2>7. Append(d, Tool!Reply(1)) = wire \o tail
    <3>1. <<Tool!Reply(1)>> \in Seq(Tool!Message)
      BY <2>1
    <3>2. Append(d, Tool!Reply(1)) = d \o <<Tool!Reply(1)>>
          /\ tail = appended \o <<Tool!Reply(1)>>
      BY <1>2, <2>1, <2>5, AppendIsConcat
    <3>3. (wire \o appended) \o <<Tool!Reply(1)>> = wire \o (appended \o <<Tool!Reply(1)>>)
      BY <1>2, <3>1, ConcatAssociative
    <3> QED BY <3>2, <3>3
  <2> QED BY <2>5, <2>6, <2>7
<1> HIDE DEF d
<1>9. saved' = [kind |-> "saved", round |-> round, dialogue |-> d,
                screen |-> bucket[1].n, observed |-> observed, degraded |-> degraded,
                imageless |-> imageless, broad |-> broad]
  BY <1>1 DEF d
<1>10. SavedResumes'
  <2>1. observed \in BOOLEAN /\ degraded \in BOOLEAN /\ imageless \in BOOLEAN /\ broad \in 0..2
    BY Zenon DEF InvocationInv, Scalars
  <2>2. saved' \in [kind : {"saved"}, round : 1..MaxRounds - 1, dialogue : Seq(Tool!Message),
                    screen : Nat, observed : BOOLEAN, degraded : BOOLEAN,
                    imageless : BOOLEAN, broad : 0..2]
    BY <1>2, <1>6, <1>8, <1>9, <2>1
  <2>3. saved'.screen <= saved'.round + Extra(saved'.observed)
    BY <1>9 DEF InvocationInv, ScreensAreFew
  <2>4. WellFormed(Append(saved'.dialogue, Tool!Reply(1))) /\ saved' # Tool!None
    BY <1>8, <1>9 DEF Tool!None
  <2>5. WellFormed(Append(saved.dialogue, Tool!Reply(1)))'
    BY <2>4 DEF WellFormed, Tool!IsAnswered, Tool!IsReplyTo
  <2> QED BY <2>2, <2>3, <2>4, <2>5 DEF SavedResumes
<1>11. Scalars'
  BY <1>1, <1>5, KindIsKept DEF InvocationInv, Scalars
<1>12. TranscriptIsSequence'
  BY <1>1, KindIsKept DEF InvocationInv, TranscriptIsSequence
<1>13. RepliesInOrder' /\ AttachedIsAside' /\ ScreensAreFew' /\ DialogueIsWellFormed'
  BY <1>1
     DEF InvocationInv, RepliesInOrder, AttachedIsAside, ScreensAreFew, DialogueIsWellFormed
<1> QED BY <1>10, <1>11, <1>12, <1>13 DEF InvocationInv

LEMMA ResumeKeeps ==
  ASSUME Tool!BoundsArePositive, InvocationInv, Tool!Resume, UNCHANGED role
  PROVE  InvocationInv'
<1>1. /\ toolPc = "suspended" /\ toolPc' = "request" /\ round' = saved.round + 1
      /\ before' = Append(saved.dialogue, Tool!Reply(1))
      /\ bucket' = <<Tool!Screen(saved.screen + 1)>> /\ after' = <<>>
      /\ observed' = saved.observed /\ degraded' = saved.degraded
      /\ imageless' = saved.imageless /\ broad' = saved.broad
      /\ toolCalls' = <<>> /\ answered' = 0 /\ appended' = <<>> /\ attached' = <<>>
      /\ toolNext' = <<>>
      /\ noteFailed' = FALSE /\ ran' = {} /\ decision' = Tool!None
      /\ UNCHANGED <<role, wire, withImages, saved>>
  BY DEF Tool!Resume
<1>2. /\ saved \in [kind : {"saved"}, round : 1..MaxRounds - 1, dialogue : Seq(Tool!Message),
                    screen : Nat, observed : BOOLEAN, degraded : BOOLEAN,
                    imageless : BOOLEAN, broad : 0..2]
      /\ saved.screen <= saved.round + Extra(saved.observed)
      /\ WellFormed(Append(saved.dialogue, Tool!Reply(1)))
  BY <1>1 DEF InvocationInv, SavedResumes
<1>3. /\ saved.screen \in Nat /\ saved.round \in Nat /\ saved.round + 1 \in 1..MaxRounds
      /\ saved.screen + 1 \in 0..MaxRounds + 1
      /\ saved.screen + 1 <= saved.round + 1 + Extra(saved.observed)
  BY <1>2, MessagesExist DEF Extra
<1>4. Tool!Screen(saved.screen + 1) \in Tool!Message /\ Tool!Reply(1) \in Tool!Message
  BY <1>3, MessagesExist
<1>5. before' \in Seq(Tool!Message) /\ WellFormed(before')
  BY <1>1, <1>2, <1>4, AppendProperties
<1>6. bucket' \in Seq(Tool!Message) /\ Len(bucket') = 1
      /\ bucket'[1] = Tool!Screen(saved.screen + 1)
  BY <1>1, <1>4
<1>7. Scalars'
  <2>1. 0 \in 0..MaxAnswer /\ Len(toolCalls') <= MaxAnswer /\ ran' \subseteq Tool!Kind'
    BY <1>1, MessagesExist
  <2>2. /\ saved.observed \in BOOLEAN /\ saved.degraded \in BOOLEAN
        /\ saved.imageless \in BOOLEAN /\ saved.broad \in 0..2
    BY <1>2
  <2>3. bucket'[1].kind = "screen"
    BY <1>6 DEF Tool!Screen
  <2> QED BY <1>1, <1>3, <1>6, <2>1, <2>2, <2>3 DEF InvocationInv, Scalars
<1>8. TranscriptIsSequence'
  BY <1>1, <1>5, <1>6, EmptySeq DEF InvocationInv, TranscriptIsSequence
<1>9. RepliesInOrder' /\ AttachedIsAside' /\ SavedResumes'
  BY <1>1 DEF InvocationInv, RepliesInOrder, AttachedIsAside, SavedResumes
<1>10. ScreensAreFew'
  <2>1. bucket'[1].n = saved.screen + 1
    BY <1>6 DEF Tool!Screen
  <2> QED BY <1>1, <1>3, <2>1 DEF ScreensAreFew
<1>11. DialogueIsWellFormed'
  BY <1>1, <1>5 DEF InvocationInv, DialogueIsWellFormed, WellFormed
<1> QED BY <1>7, <1>8, <1>9, <1>10, <1>11 DEF InvocationInv

LEMMA InvocationNextKeeps ==
  ASSUME Tool!BoundsArePositive, InvocationInv, [Tool!Next]_(Tool!vars)
  PROVE  InvocationInv'
<1>1. CASE UNCHANGED Tool!vars
  <2>1. Scalars' /\ TranscriptIsSequence'
    BY <1>1, KindIsKept
       DEF Tool!vars, Tool!transcript, Tool!reply, Tool!flags, InvocationInv, Scalars,
           TranscriptIsSequence
  <2> QED BY <1>1, <2>1
        DEF Tool!vars, Tool!transcript, Tool!reply, Tool!flags, InvocationInv, RepliesInOrder,
            AttachedIsAside, ScreensAreFew, SavedResumes, DialogueIsWellFormed
<1>2. CASE Tool!Next
  BY <1>2, ModelRequestKeeps, AnswersWithTextKeeps, AnswersWithCallsKeeps, StopsKeep, ToolsKeep,
     FinishesKeeps, AsksKeeps, ResumeKeeps DEF Tool!Next
<1> QED BY <1>1, <1>2

LEMMA InvocationHolds == Tool!BoundsArePositive => (Tool!Spec => []InvocationInv)
<1> SUFFICES ASSUME Tool!BoundsArePositive PROVE Tool!Spec => []InvocationInv
  OBVIOUS
<1>1. Tool!Init => InvocationInv
  BY InvocationInitHolds
<1>2. InvocationInv /\ [Tool!Next]_(Tool!vars) => InvocationInv'
  BY InvocationNextKeeps
<1> QED BY <1>1, <1>2, PTL DEF Tool!Spec

-----------------------------------------------------------------------------
(* A behaviour of the process is one of each of its parts. *)
LEMMA AgentIsRoles == AgentSpec => Spec
<1>1. AgentInit => Init
  BY DEF AgentInit
<1>2. [AgentNext]_agentVars => [Next]_vars
  BY DEF AgentNext, agentVars, InputOnly, LoopOnly, ToolsOnly
<1> QED BY <1>1, <1>2, PTL DEF AgentSpec, Spec

LEMMA AgentIsDialogue == AgentSpec => Ask!Spec
<1>1. AgentInit => Ask!Init
  BY DEF AgentInit
<1>2. [AgentNext]_agentVars => [Ask!Next]_(Ask!vars)
  BY DEF AgentNext, agentVars, InputOnly, LoopOnly, ToolsOnly, inputVars, Ask!vars, Ask!rowVars,
         Ask!hostVars, Ask!runVars
<1> QED BY <1>1, <1>2, PTL DEF AgentSpec, Ask!Spec

LEMMA AgentIsInvocation == AgentSpec => Tool!Spec
<1>1. AgentInit => Tool!Init
  BY DEF AgentInit
<1>2. [AgentNext]_agentVars => [Tool!Next]_(Tool!vars)
  BY DEF AgentNext, agentVars, InputOnly, LoopOnly, ToolsOnly, toolVars, Tool!vars,
         Tool!transcript, Tool!reply, Tool!flags
<1> QED BY <1>1, <1>2, PTL DEF AgentSpec, Tool!Spec

(* The loop of the roles, the dialogue and the tool loop keep their types: the *)
(* limits of calls, steps and questions hold, and a request to the model ends  *)
(* with a screen of the newest round.                                         *)
THEOREM AgentTypes == AgentSpec => []PartsTypeOK
<1>1. IInv => TypeOK
  BY DEF IInv
<1>2. DialogueInv => Ask!TypeOK
  BY DEF DialogueInv
<1>3. InvocationInv => Tool!TypeOK
  BY OptionsAreKnown, InvocationTypes
<1>4. TypeOK /\ Ask!TypeOK /\ Tool!TypeOK => PartsTypeOK
  BY DEF PartsTypeOK
<1>5. (Spec => []IInv) /\ (Ask!Spec => []DialogueInv) /\ (Tool!Spec => []InvocationInv)
  BY OptionsAreKnown, InvariantHolds, DialogueHolds, InvocationHolds
<1> QED BY <1>1, <1>2, <1>3, <1>4, <1>5, AgentIsRoles, AgentIsDialogue, AgentIsInvocation, PTL

(* An answer of the user is used up only after a call was handed it: neither   *)
(* an adjustment, a cancellation, a deadline nor a restart loses it unseen.    *)
THEOREM AgentHandsAnswers == AgentSpec => []AnswerIsHanded
<1>1. DialogueInv => AnswerIsHanded
  BY DEF DialogueInv, AnswerIsHanded
<1>2. Ask!Spec => []DialogueInv
  BY OptionsAreKnown, DialogueHolds
<1> QED BY <1>1, <1>2, AgentIsDialogue, PTL

(* A question is settled once, whoever answers, retries, cancels or times out, *)
(* and its owner only falls back to the console.                              *)
THEOREM AgentSettlesOnce == AgentSpec => SettledOnce
<1>1. Ask!Spec => Ask!SettledOnce
  BY OptionsAreKnown, DialogueSettles
<1> QED BY <1>1, AgentIsDialogue DEF SettledOnce

(* In every request to the model the calls of an answer are followed by their  *)
(* replies at once and in order, and no reply is without its call, however     *)
(* often the invocation is suspended, interrupted and resumed.                *)
THEOREM AgentWiresWellFormed == AgentSpec => []WireIsWellFormed
<1>1. InvocationInv => WireIsWellFormed
  BY OptionsAreKnown, InvocationTypes DEF WireIsWellFormed
<1>2. Tool!Spec => []InvocationInv
  BY OptionsAreKnown, InvocationHolds
<1> QED BY <1>1, <1>2, AgentIsInvocation, PTL

(* What the loop of the roles promises, it promises as part of the process: no  *)
(* call marks as applied an adjustment it has not seen, and no action is begun  *)
(* by a call that an adjustment has overtaken.                                 *)
THEOREM AgentAppliesWhatItSaw == AgentSpec => AppliedWasSeen
  BY OptionsAreKnown, AppliedIsSeen, AgentIsRoles

THEOREM AgentActsUpToDate == AgentSpec => NoObsoleteAction
  BY OptionsAreKnown, ActionIsCurrent, AgentIsRoles

(* No action of the process is lost or done twice.                             *)
THEOREM AgentLosesNoAction == AgentSpec => []SentIsRecorded
  BY OptionsAreKnown, NothingIsLostOrTwice, AgentIsRoles

=============================================================================
