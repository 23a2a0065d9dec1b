------------------------- MODULE TaskOwnershipProofs -------------------------
(***************************************************************************)
(* Proofs about the ownership of a device, for any tasks, claims, faults and   *)
(* either driver: input of two authorities never meets on the device, and an  *)
(* owner the database recognises is the one the journal serves.              *)
(***************************************************************************)
EXTENDS TaskOwnership, TLAPS

(* Numbers only grow, so what was noted is not ahead of its counter. *)
NumbersAgree ==
  /\ gfence <= last /\ kfence <= last + 1
  /\ kpc \in {"taken", "draining", "clear"} => kfence <= last
  /\ \A t \in Task :
       /\ wfence[t] <= last /\ cfence[t] <= last
       /\ wepoch[t] <= epoch[t] /\ cepoch[t] <= epoch[t]
       /\ wpc[t] \in {"draining", "running"} => wfence[t] <= gfence

(* Input on the device was accepted under the guard's authority or an older   *)
(* one, and a request is sent when what is older than its own has ended.      *)
InputsAgree ==
  /\ \A a \in active : /\ a.fence <= gfence
                       /\ a.fence = gfence => a.task = gtask /\ a.epoch = gepoch
  /\ \A e \in flight : e.fence <= gfence /\ DrainedBelow(e.fence)
  /\ \A t \in Task : wpc[t] = "running" => DrainedBelow(wfence[t])

(* The device is of this claim, and no cleanup can take it or free it. *)
Held(t, e, f) ==
  /\ dtask = t /\ depoch = e /\ last = f
  /\ kpc \in {"taken", "draining", "clear"} => kfence # last
  /\ kpc = "read" => kfence # last + 1

Recovering(t) == cpc[t] \in {"claimed", "draining", "restoring"}

DeviceAgrees ==
  \A t \in Task :
    /\ wpc[t] # "off" => Held(t, wepoch[t], wfence[t])
    /\ Recovering(t) => Held(t, cepoch[t], cfence[t])

(* A worker that owns its task is served once it has fenced the journal. *)
GuardAgrees ==
  \A t \in Task : wpc[t] \in {"draining", "running"} /\ Owns(t, wepoch[t]) =>
    ~gclosed /\ gfence = wfence[t] /\ gtask = t /\ gepoch = wepoch[t]

(* A recovery has its task to itself. *)
RecoveriesAgree ==
  \A t \in Task : cpc[t] # "off" =>
    /\ wpc[t] = "off" /\ ~(kpc # "off" /\ ktask = t)
    /\ status[t] = "queued" => cpc[t] = "health" /\ token[t] # 0
    /\ cpc[t] # "health" => Owns(t, cepoch[t])

(* A cleanup is of an epoch that no worker of its task has. *)
CleanupAgrees ==
  kpc # "off" =>
    /\ ktask \in Task /\ kepoch <= epoch[ktask]
    /\ wpc[ktask] # "off" => kepoch < wepoch[ktask]

(* With the driver in process a request is of a worker that runs, so what      *)
(* has been drained stays silent until the next worker does.                  *)
LocalAgrees ==
  ~remote =>
    /\ \A e \in flight : wpc[e.task] = "running"
    /\ \A t \in Task :
         /\ wpc[t] \notin {"closed", "again", "reclose"}
         /\ wpc[t] = "release" /\ quiet[t] => active = {}
         /\ Recovering(t) => \A a \in active : a.fence < cfence[t]
         /\ cpc[t] \in {"claimed", "draining"} => quarantine
         /\ cpc[t] = "restoring" => active = {}
    /\ kpc \in {"taken", "draining", "clear"} /\ kfence = last =>
         /\ \A a \in active : a.fence < kfence
         /\ kpc = "clear" => active = {}
    /\ dtask = NoTask => active = {}

IInv ==
  /\ TypeOK /\ NumbersAgree /\ InputsAgree /\ OneAuthority /\ DeviceAgrees /\ GuardAgrees
  /\ RecoveriesAgree /\ CleanupAgrees /\ LocalAgrees

-----------------------------------------------------------------------------
LEMMA InitHolds == Init => IInv
<1> SUFFICES ASSUME Init PROVE IInv
  OBVIOUS
<1> USE PolicyIsOfTasks, DriversAreKnown, BoundsAreNumbers
<1>1. TypeOK
  <2>1. flight \in SUBSET Authority /\ active \in SUBSET Authority
    BY DEF Init
  <2>2. remote \in BOOLEAN /\ quarantine \in BOOLEAN /\ gclosed \in BOOLEAN
    BY DEF Init
  <2>3. faults \in 0 .. MaxFault[remote]
    BY <2>2 DEF Init
  <2> QED BY <2>1, <2>2, <2>3 DEF Init, TypeOK
<1>2. NumbersAgree /\ InputsAgree /\ OneAuthority /\ DeviceAgrees /\ GuardAgrees
  BY DEF Init, NumbersAgree, InputsAgree, OneAuthority, DeviceAgrees, Recovering, GuardAgrees
<1>3. RecoveriesAgree /\ CleanupAgrees /\ LocalAgrees
  BY DEF Init, RecoveriesAgree, CleanupAgrees, LocalAgrees, Recovering
<1> QED BY <1>1, <1>2, <1>3 DEF IInv

LEMMA TypeKept == ASSUME IInv, [Next]_vars PROVE TypeOK'
<1> USE DEF IInv, TypeOK,
            taskVars, deviceVars, guardVars, inputVars, workerVars, coordVars, cleanVars,
            WorkerFrame, CoordFrame, CleanFrame
<1> USE PolicyIsOfTasks, DriversAreKnown, BoundsAreNumbers
<1>1. ASSUME NEW t \in Task, WorkerClaim(t), UNCHANGED remote
      PROVE  TypeOK'
  BY <1>1 DEF WorkerClaim, Claim
<1>2. ASSUME NEW t \in Task, WorkerFence(t) \/ WorkerFencesAgain(t), UNCHANGED remote
      PROVE  TypeOK'
  <2>1. quarantine' \in BOOLEAN /\ gclosed' \in BOOLEAN /\ quiet' \in [Task -> BOOLEAN]
    BY <1>2 DEF WorkerFence, WorkerFencesAgain, Fence
  <2> QED BY <1>2, <2>1 DEF WorkerFence, WorkerFencesAgain, Fence
<1>3. ASSUME NEW t \in Task,
             WorkerRuns(t) \/ WorkerBlocked(t) \/ WorkerFails(t) \/ WorkerHasNoDriver(t),
             UNCHANGED remote
      PROVE  TypeOK'
  <2>1. quarantine' \in BOOLEAN /\ gclosed' \in BOOLEAN /\ quiet' \in [Task -> BOOLEAN]
    BY <1>3 DEF WorkerBlocked, WorkerFails, WorkerHasNoDriver, WorkerRuns, DrainedBelow
  <2> QED BY <1>3, <2>1 DEF WorkerBlocked, WorkerFails, WorkerHasNoDriver, WorkerRuns, DrainedBelow
<1>4. ASSUME NEW t \in Task, WorkerActs(t), UNCHANGED remote
      PROVE  TypeOK'
  <2>1. quarantine' \in BOOLEAN /\ gclosed' \in BOOLEAN /\ quiet' \in [Task -> BOOLEAN]
    BY <1>4 DEF WorkerActs, Authority
  <2> QED BY <1>4, <2>1 DEF WorkerActs, Authority
<1>5. ASSUME NEW t \in Task, WorkerStops(t, "stopped") \/ WorkerStops(t, "terminal"),
             UNCHANGED remote
      PROVE  TypeOK'
  BY <1>5 DEF WorkerStops
<1>6. ASSUME NEW t \in Task, WorkerCloses(t) \/ WorkerClosesAgain(t), UNCHANGED remote
      PROVE  TypeOK'
  BY <1>6 DEF WorkerCloses, WorkerClosesAgain, CloseExecution
<1>7. ASSUME NEW t \in Task,
             WorkerRetired(t) \/ WorkerReaps(t) \/ WorkerDrainsAgain(t) \/ WorkerCannotClose(t),
             UNCHANGED remote
      PROVE  TypeOK'
  <2>1. quarantine' \in BOOLEAN /\ gclosed' \in BOOLEAN /\ quiet' \in [Task -> BOOLEAN]
    BY <1>7 DEF WorkerCannotClose, WorkerDrainsAgain, WorkerReaps, WorkerRetired, DrainedBelow
  <2> QED BY <1>7, <2>1 DEF WorkerCannotClose, WorkerDrainsAgain, WorkerReaps, WorkerRetired,
                            DrainedBelow
<1>8. ASSUME NEW t \in Task, WorkerReleases(t), UNCHANGED remote
      PROVE  TypeOK'
  <2>1. quarantine' \in BOOLEAN /\ gclosed' \in BOOLEAN /\ quiet' \in [Task -> BOOLEAN]
    BY <1>8 DEF WorkerReleases, Release
  <2> QED BY <1>8, <2>1 DEF WorkerReleases, Release
<1>9. ASSUME NEW t \in Task, RecoverBegins(t) \/ RecoverConflicts(t), UNCHANGED remote
      PROVE  TypeOK'
  BY <1>9 DEF RecoverBegins, RecoverConflicts
<1>10. ASSUME NEW t \in Task, RecoverClaims(t), UNCHANGED remote
      PROVE  TypeOK'
  BY <1>10 DEF RecoverClaims, Claim
<1>11. ASSUME NEW t \in Task, RecoverFences(t), UNCHANGED remote
      PROVE  TypeOK'
  BY <1>11 DEF RecoverFences, Fence
<1>12. ASSUME NEW t \in Task, RecoverDrains(t), UNCHANGED remote
      PROVE  TypeOK'
  BY <1>12 DEF RecoverDrains
<1>13. ASSUME NEW t \in Task, RecoverReady(t) \/ RecoverFails(t), UNCHANGED remote
      PROVE  TypeOK'
  <2>1. quarantine' \in BOOLEAN /\ gclosed' \in BOOLEAN /\ quiet' \in [Task -> BOOLEAN]
    BY <1>13 DEF RecoverFails, RecoverReady, Release
  <2> QED BY <1>13, <2>1 DEF RecoverFails, RecoverReady, Release
<1>14. ASSUME NEW t \in Task, Requeue(t) \/ CancelOrphan(t), UNCHANGED remote
      PROVE  TypeOK'
  BY <1>14 DEF CancelOrphan, Requeue
<1>15. ASSUME NEW t \in Task, Retire(t), UNCHANGED remote
      PROVE  TypeOK'
  BY <1>15 DEF Retire
<1>16. ASSUME NEW t \in Task, RetireCloses(t), UNCHANGED remote
      PROVE  TypeOK'
  BY <1>16 DEF RetireCloses, CloseExecution, Owns
<1>17. ASSUME CleanupBegins, UNCHANGED remote
      PROVE  TypeOK'
  BY <1>17 DEF CleanupBegins
<1>18. ASSUME CleanupTakes, UNCHANGED remote
      PROVE  TypeOK'
  BY <1>18 DEF CleanupTakes
<1>19. ASSUME CleanupFences \/ CleanupCloses, UNCHANGED remote
      PROVE  TypeOK'
  BY <1>19 DEF CleanupCloses, CleanupFences, CloseExecution, Fence
<1>20. ASSUME CleanupFails, UNCHANGED remote
      PROVE  TypeOK'
  BY <1>20 DEF CleanupFails
<1>21. ASSUME CleanupClears, UNCHANGED remote
      PROVE  TypeOK'
  BY <1>21 DEF CleanupClears
<1>22. ASSUME NEW e \in flight, Arrive(e), UNCHANGED remote
      PROVE  TypeOK'
  BY <1>22 DEF Arrive, Serves
<1>23. ASSUME NEW e \in active, InputEnds(e), UNCHANGED remote
      PROVE  TypeOK'
  BY <1>23 DEF InputEnds
<1>24. ASSUME Crash, UNCHANGED remote
      PROVE  TypeOK'
  BY <1>24 DEF Crash
<1>25. CASE UNCHANGED vars
  BY <1>25 DEF vars
<1> QED BY <1>1, <1>2, <1>3, <1>4, <1>5, <1>6, <1>7, <1>8, <1>9, <1>10, <1>11, <1>12, <1>13,
           <1>14, <1>15, <1>16, <1>17, <1>18, <1>19, <1>20, <1>21, <1>22, <1>23, <1>24, <1>25
           DEF Next, WorkerStep, RecoverStep, CleanupStep

LEMMA NumbersKept == ASSUME IInv, [Next]_vars PROVE NumbersAgree'
<1> USE DEF IInv, TypeOK, NumbersAgree,
            taskVars, deviceVars, guardVars, inputVars, workerVars, coordVars, cleanVars,
            WorkerFrame, CoordFrame, CleanFrame
<1>1. ASSUME NEW t \in Task, WorkerClaim(t), UNCHANGED remote
      PROVE  NumbersAgree'
  BY <1>1 DEF WorkerClaim, Claim
<1>2. ASSUME NEW t \in Task, WorkerFence(t) \/ WorkerFencesAgain(t), UNCHANGED remote
      PROVE  NumbersAgree'
  BY <1>2 DEF WorkerFence, WorkerFencesAgain, Fence
<1>3. ASSUME NEW t \in Task,
             WorkerRuns(t) \/ WorkerBlocked(t) \/ WorkerFails(t) \/ WorkerHasNoDriver(t),
             UNCHANGED remote
      PROVE  NumbersAgree'
  <2>1. CASE WorkerRuns(t) \/ WorkerBlocked(t)
    BY <2>1, <1>3 DEF WorkerBlocked, WorkerRuns
  <2>2. CASE WorkerFails(t)
    BY <2>2, <1>3 DEF WorkerFails
  <2>3. CASE WorkerHasNoDriver(t)
    BY <2>3, <1>3 DEF WorkerHasNoDriver
  <2> QED BY <1>3, <2>1, <2>2, <2>3
<1>4. ASSUME NEW t \in Task, WorkerActs(t), UNCHANGED remote
      PROVE  NumbersAgree'
  BY <1>4 DEF WorkerActs, Authority
<1>5. ASSUME NEW t \in Task, WorkerStops(t, "stopped") \/ WorkerStops(t, "terminal"),
             UNCHANGED remote
      PROVE  NumbersAgree'
  BY <1>5 DEF WorkerStops
<1>6. ASSUME NEW t \in Task, WorkerCloses(t) \/ WorkerClosesAgain(t), UNCHANGED remote
      PROVE  NumbersAgree'
  BY <1>6 DEF WorkerCloses, WorkerClosesAgain, CloseExecution
<1>7. ASSUME NEW t \in Task,
             WorkerRetired(t) \/ WorkerReaps(t) \/ WorkerDrainsAgain(t) \/ WorkerCannotClose(t),
             UNCHANGED remote
      PROVE  NumbersAgree'
  BY <1>7 DEF WorkerCannotClose, WorkerDrainsAgain, WorkerReaps, WorkerRetired, DrainedBelow
<1>8. ASSUME NEW t \in Task, WorkerReleases(t), UNCHANGED remote
      PROVE  NumbersAgree'
  BY <1>8 DEF WorkerReleases, Release
<1>9. ASSUME NEW t \in Task, RecoverBegins(t) \/ RecoverConflicts(t), UNCHANGED remote
      PROVE  NumbersAgree'
  BY <1>9 DEF RecoverBegins, RecoverConflicts
<1>10. ASSUME NEW t \in Task, RecoverClaims(t), UNCHANGED remote
      PROVE  NumbersAgree'
  BY <1>10 DEF RecoverClaims, Claim
<1>11. ASSUME NEW t \in Task, RecoverFences(t), UNCHANGED remote
      PROVE  NumbersAgree'
  BY <1>11 DEF RecoverFences, Fence
<1>12. ASSUME NEW t \in Task, RecoverDrains(t), UNCHANGED remote
      PROVE  NumbersAgree'
  BY <1>12 DEF RecoverDrains
<1>13. ASSUME NEW t \in Task, RecoverReady(t) \/ RecoverFails(t), UNCHANGED remote
      PROVE  NumbersAgree'
  BY <1>13 DEF RecoverFails, RecoverReady, Release
<1>14. ASSUME NEW t \in Task, Requeue(t) \/ CancelOrphan(t), UNCHANGED remote
      PROVE  NumbersAgree'
  BY <1>14 DEF CancelOrphan, Requeue
<1>15. ASSUME NEW t \in Task, Retire(t), UNCHANGED remote
      PROVE  NumbersAgree'
  BY <1>15 DEF Retire
<1>16. ASSUME NEW t \in Task, RetireCloses(t), UNCHANGED remote
      PROVE  NumbersAgree'
  BY <1>16 DEF RetireCloses, CloseExecution, Owns
<1>17. ASSUME CleanupBegins, UNCHANGED remote
      PROVE  NumbersAgree'
  BY <1>17 DEF CleanupBegins
<1>18. ASSUME CleanupTakes, UNCHANGED remote
      PROVE  NumbersAgree'
  BY <1>18 DEF CleanupTakes
<1>19. ASSUME CleanupFences \/ CleanupCloses, UNCHANGED remote
      PROVE  NumbersAgree'
  BY <1>19 DEF CleanupCloses, CleanupFences, CloseExecution, Fence
<1>20. ASSUME CleanupFails, UNCHANGED remote
      PROVE  NumbersAgree'
  BY <1>20 DEF CleanupFails
<1>21. ASSUME CleanupClears, UNCHANGED remote
      PROVE  NumbersAgree'
  BY <1>21 DEF CleanupClears
<1>22. ASSUME NEW e \in flight, Arrive(e), UNCHANGED remote
      PROVE  NumbersAgree'
  BY <1>22 DEF Arrive, Serves
<1>23. ASSUME NEW e \in active, InputEnds(e), UNCHANGED remote
      PROVE  NumbersAgree'
  BY <1>23 DEF InputEnds
<1>24. ASSUME Crash, UNCHANGED remote
      PROVE  NumbersAgree'
  BY <1>24 DEF Crash
<1>25. CASE UNCHANGED vars
  BY <1>25 DEF vars
<1> QED BY <1>1, <1>2, <1>3, <1>4, <1>5, <1>6, <1>7, <1>8, <1>9, <1>10, <1>11, <1>12, <1>13,
           <1>14, <1>15, <1>16, <1>17, <1>18, <1>19, <1>20, <1>21, <1>22, <1>23, <1>24, <1>25
           DEF Next, WorkerStep, RecoverStep, CleanupStep

LEMMA InputsKept == ASSUME IInv, [Next]_vars PROVE (InputsAgree /\ OneAuthority)'
<1> USE DEF IInv, TypeOK, InputsAgree, OneAuthority, NumbersAgree, DrainedBelow, Authority,
            taskVars, deviceVars, guardVars, inputVars, workerVars, coordVars, cleanVars,
            WorkerFrame, CoordFrame, CleanFrame
<1>1. ASSUME NEW t \in Task, WorkerClaim(t), UNCHANGED remote
      PROVE  (InputsAgree /\ OneAuthority)'
  BY <1>1 DEF WorkerClaim, Claim
<1>2. ASSUME NEW t \in Task, WorkerFence(t) \/ WorkerFencesAgain(t), UNCHANGED remote
      PROVE  (InputsAgree /\ OneAuthority)'
  BY <1>2 DEF WorkerFence, WorkerFencesAgain, Fence
<1>3. ASSUME NEW t \in Task,
             WorkerRuns(t) \/ WorkerBlocked(t) \/ WorkerFails(t) \/ WorkerHasNoDriver(t),
             UNCHANGED remote
      PROVE  (InputsAgree /\ OneAuthority)'
  BY <1>3 DEF WorkerBlocked, WorkerFails, WorkerHasNoDriver, WorkerRuns
<1>4. ASSUME NEW t \in Task, WorkerActs(t), UNCHANGED remote
      PROVE  (InputsAgree /\ OneAuthority)'
  BY <1>4 DEF WorkerActs
<1>5. ASSUME NEW t \in Task, WorkerStops(t, "stopped") \/ WorkerStops(t, "terminal"),
             UNCHANGED remote
      PROVE  (InputsAgree /\ OneAuthority)'
  BY <1>5 DEF WorkerStops
<1>6. ASSUME NEW t \in Task, WorkerCloses(t) \/ WorkerClosesAgain(t), UNCHANGED remote
      PROVE  (InputsAgree /\ OneAuthority)'
  BY <1>6 DEF WorkerCloses, WorkerClosesAgain, CloseExecution
<1>7. ASSUME NEW t \in Task,
             WorkerRetired(t) \/ WorkerReaps(t) \/ WorkerDrainsAgain(t) \/ WorkerCannotClose(t),
             UNCHANGED remote
      PROVE  (InputsAgree /\ OneAuthority)'
  BY <1>7 DEF WorkerCannotClose, WorkerDrainsAgain, WorkerReaps, WorkerRetired
<1>8. ASSUME NEW t \in Task, WorkerReleases(t), UNCHANGED remote
      PROVE  (InputsAgree /\ OneAuthority)'
  BY <1>8 DEF WorkerReleases, Release
<1>9. ASSUME NEW t \in Task, RecoverBegins(t) \/ RecoverConflicts(t), UNCHANGED remote
      PROVE  (InputsAgree /\ OneAuthority)'
  BY <1>9 DEF RecoverBegins, RecoverConflicts
<1>10. ASSUME NEW t \in Task, RecoverClaims(t), UNCHANGED remote
      PROVE  (InputsAgree /\ OneAuthority)'
  BY <1>10 DEF RecoverClaims, Claim
<1>11. ASSUME NEW t \in Task, RecoverFences(t), UNCHANGED remote
      PROVE  (InputsAgree /\ OneAuthority)'
  BY <1>11 DEF RecoverFences, Fence
<1>12. ASSUME NEW t \in Task, RecoverDrains(t), UNCHANGED remote
      PROVE  (InputsAgree /\ OneAuthority)'
  BY <1>12 DEF RecoverDrains
<1>13. ASSUME NEW t \in Task, RecoverReady(t) \/ RecoverFails(t), UNCHANGED remote
      PROVE  (InputsAgree /\ OneAuthority)'
  BY <1>13 DEF RecoverFails, RecoverReady, Release
<1>14. ASSUME NEW t \in Task, Requeue(t) \/ CancelOrphan(t), UNCHANGED remote
      PROVE  (InputsAgree /\ OneAuthority)'
  BY <1>14 DEF CancelOrphan, Requeue
<1>15. ASSUME NEW t \in Task, Retire(t), UNCHANGED remote
      PROVE  (InputsAgree /\ OneAuthority)'
  BY <1>15 DEF Retire
<1>16. ASSUME NEW t \in Task, RetireCloses(t), UNCHANGED remote
      PROVE  (InputsAgree /\ OneAuthority)'
  BY <1>16 DEF RetireCloses, CloseExecution, Owns
<1>17. ASSUME CleanupBegins, UNCHANGED remote
      PROVE  (InputsAgree /\ OneAuthority)'
  BY <1>17 DEF CleanupBegins
<1>18. ASSUME CleanupTakes, UNCHANGED remote
      PROVE  (InputsAgree /\ OneAuthority)'
  BY <1>18 DEF CleanupTakes
<1>19. ASSUME CleanupFences \/ CleanupCloses, UNCHANGED remote
      PROVE  (InputsAgree /\ OneAuthority)'
  BY <1>19 DEF CleanupCloses, CleanupFences, CloseExecution, Fence
<1>20. ASSUME CleanupFails, UNCHANGED remote
      PROVE  (InputsAgree /\ OneAuthority)'
  BY <1>20 DEF CleanupFails
<1>21. ASSUME CleanupClears, UNCHANGED remote
      PROVE  (InputsAgree /\ OneAuthority)'
  BY <1>21 DEF CleanupClears
<1>22. ASSUME NEW e \in flight, Arrive(e), UNCHANGED remote
      PROVE  (InputsAgree /\ OneAuthority)'
  BY <1>22 DEF Arrive, Serves
<1>23. ASSUME NEW e \in active, InputEnds(e), UNCHANGED remote
      PROVE  (InputsAgree /\ OneAuthority)'
  BY <1>23 DEF InputEnds
<1>24. ASSUME Crash, UNCHANGED remote
      PROVE  (InputsAgree /\ OneAuthority)'
  BY <1>24 DEF Crash
<1>25. CASE UNCHANGED vars
  BY <1>25 DEF vars
<1> QED BY <1>1, <1>2, <1>3, <1>4, <1>5, <1>6, <1>7, <1>8, <1>9, <1>10, <1>11, <1>12, <1>13,
           <1>14, <1>15, <1>16, <1>17, <1>18, <1>19, <1>20, <1>21, <1>22, <1>23, <1>24, <1>25
           DEF Next, WorkerStep, RecoverStep, CleanupStep

LEMMA DeviceKept == ASSUME IInv, [Next]_vars PROVE DeviceAgrees'
<1> USE DEF IInv, TypeOK, DeviceAgrees, Held, Recovering, Owns, NumbersAgree, RecoveriesAgree,
            taskVars, deviceVars, guardVars, inputVars, workerVars, coordVars, cleanVars,
            WorkerFrame, CoordFrame, CleanFrame
<1> USE PolicyIsOfTasks
<1>1. ASSUME NEW t \in Task, WorkerClaim(t), UNCHANGED remote
      PROVE  DeviceAgrees'
  BY <1>1 DEF WorkerClaim, Claim
<1>2. ASSUME NEW t \in Task, WorkerFence(t) \/ WorkerFencesAgain(t), UNCHANGED remote
      PROVE  DeviceAgrees'
  BY <1>2 DEF WorkerFence, WorkerFencesAgain, Fence
<1>3. ASSUME NEW t \in Task,
             WorkerRuns(t) \/ WorkerBlocked(t) \/ WorkerFails(t) \/ WorkerHasNoDriver(t),
             UNCHANGED remote
      PROVE  DeviceAgrees'
  BY <1>3 DEF WorkerBlocked, WorkerFails, WorkerHasNoDriver, WorkerRuns, DrainedBelow
<1>4. ASSUME NEW t \in Task, WorkerActs(t), UNCHANGED remote
      PROVE  DeviceAgrees'
  BY <1>4 DEF WorkerActs, Authority
<1>5. ASSUME NEW t \in Task, WorkerStops(t, "stopped") \/ WorkerStops(t, "terminal"),
             UNCHANGED remote
      PROVE  DeviceAgrees'
  BY <1>5 DEF WorkerStops
<1>6. ASSUME NEW t \in Task, WorkerCloses(t) \/ WorkerClosesAgain(t), UNCHANGED remote
      PROVE  DeviceAgrees'
  BY <1>6 DEF WorkerCloses, WorkerClosesAgain, CloseExecution
<1>7. ASSUME NEW t \in Task,
             WorkerRetired(t) \/ WorkerReaps(t) \/ WorkerDrainsAgain(t) \/ WorkerCannotClose(t),
             UNCHANGED remote
      PROVE  DeviceAgrees'
  BY <1>7 DEF WorkerCannotClose, WorkerDrainsAgain, WorkerReaps, WorkerRetired, DrainedBelow
<1>8. ASSUME NEW t \in Task, WorkerReleases(t), UNCHANGED remote
      PROVE  DeviceAgrees'
  BY <1>8 DEF WorkerReleases, Release
<1>9. ASSUME NEW t \in Task, RecoverBegins(t) \/ RecoverConflicts(t), UNCHANGED remote
      PROVE  DeviceAgrees'
  BY <1>9 DEF RecoverBegins, RecoverConflicts
<1>10. ASSUME NEW t \in Task, RecoverClaims(t), UNCHANGED remote
      PROVE  DeviceAgrees'
  BY <1>10 DEF RecoverClaims, Claim
<1>11. ASSUME NEW t \in Task, RecoverFences(t), UNCHANGED remote
      PROVE  DeviceAgrees'
  BY <1>11 DEF RecoverFences, Fence
<1>12. ASSUME NEW t \in Task, RecoverDrains(t), UNCHANGED remote
      PROVE  DeviceAgrees'
  BY <1>12 DEF RecoverDrains
<1>13. ASSUME NEW t \in Task, RecoverReady(t) \/ RecoverFails(t), UNCHANGED remote
      PROVE  DeviceAgrees'
  BY <1>13 DEF RecoverFails, RecoverReady, Release
<1>14. ASSUME NEW t \in Task, Requeue(t) \/ CancelOrphan(t), UNCHANGED remote
      PROVE  DeviceAgrees'
  BY <1>14 DEF CancelOrphan, Requeue
<1>15. ASSUME NEW t \in Task, Retire(t), UNCHANGED remote
      PROVE  DeviceAgrees'
  BY <1>15 DEF Retire
<1>16. ASSUME NEW t \in Task, RetireCloses(t), UNCHANGED remote
      PROVE  DeviceAgrees'
  BY <1>16 DEF RetireCloses, CloseExecution
<1>17. ASSUME CleanupBegins, UNCHANGED remote
      PROVE  DeviceAgrees'
  BY <1>17 DEF CleanupBegins
<1>18. ASSUME CleanupTakes, UNCHANGED remote
      PROVE  DeviceAgrees'
  BY <1>18 DEF CleanupTakes
<1>19. ASSUME CleanupFences \/ CleanupCloses, UNCHANGED remote
      PROVE  DeviceAgrees'
  BY <1>19 DEF CleanupCloses, CleanupFences, CloseExecution, Fence
<1>20. ASSUME CleanupFails, UNCHANGED remote
      PROVE  DeviceAgrees'
  BY <1>20 DEF CleanupFails
<1>21. ASSUME CleanupClears, UNCHANGED remote
      PROVE  DeviceAgrees'
  BY <1>21 DEF CleanupClears
<1>22. ASSUME NEW e \in flight, Arrive(e), UNCHANGED remote
      PROVE  DeviceAgrees'
  BY <1>22 DEF Arrive, Serves
<1>23. ASSUME NEW e \in active, InputEnds(e), UNCHANGED remote
      PROVE  DeviceAgrees'
  BY <1>23 DEF InputEnds
<1>24. ASSUME Crash, UNCHANGED remote
      PROVE  DeviceAgrees'
  BY <1>24 DEF Crash
<1>25. CASE UNCHANGED vars
  BY <1>25 DEF vars
<1> QED BY <1>1, <1>2, <1>3, <1>4, <1>5, <1>6, <1>7, <1>8, <1>9, <1>10, <1>11, <1>12, <1>13,
           <1>14, <1>15, <1>16, <1>17, <1>18, <1>19, <1>20, <1>21, <1>22, <1>23, <1>24, <1>25
           DEF Next, WorkerStep, RecoverStep, CleanupStep

LEMMA GuardKept == ASSUME IInv, [Next]_vars PROVE GuardAgrees'
<1> USE DEF IInv, TypeOK, GuardAgrees, DeviceAgrees, Held, Recovering, Owns, NumbersAgree,
            RecoveriesAgree, CleanupAgrees,
            taskVars, deviceVars, guardVars, inputVars, workerVars, coordVars, cleanVars,
            WorkerFrame, CoordFrame, CleanFrame
<1> USE PolicyIsOfTasks
<1>1. ASSUME NEW t \in Task, WorkerClaim(t), UNCHANGED remote
      PROVE  GuardAgrees'
  BY <1>1 DEF WorkerClaim, Claim
<1>2. ASSUME NEW t \in Task, WorkerFence(t) \/ WorkerFencesAgain(t), UNCHANGED remote
      PROVE  GuardAgrees'
  BY <1>2 DEF WorkerFence, WorkerFencesAgain, Fence
<1>3. ASSUME NEW t \in Task,
             WorkerRuns(t) \/ WorkerBlocked(t) \/ WorkerFails(t) \/ WorkerHasNoDriver(t),
             UNCHANGED remote
      PROVE  GuardAgrees'
  BY <1>3 DEF WorkerBlocked, WorkerFails, WorkerHasNoDriver, WorkerRuns, DrainedBelow
<1>4. ASSUME NEW t \in Task, WorkerActs(t), UNCHANGED remote
      PROVE  GuardAgrees'
  BY <1>4 DEF WorkerActs, Authority
<1>5. ASSUME NEW t \in Task, WorkerStops(t, "stopped") \/ WorkerStops(t, "terminal"),
             UNCHANGED remote
      PROVE  GuardAgrees'
  BY <1>5 DEF WorkerStops
<1>6. ASSUME NEW t \in Task, WorkerCloses(t) \/ WorkerClosesAgain(t), UNCHANGED remote
      PROVE  GuardAgrees'
  BY <1>6 DEF WorkerCloses, WorkerClosesAgain, CloseExecution
<1>7. ASSUME NEW t \in Task,
             WorkerRetired(t) \/ WorkerReaps(t) \/ WorkerDrainsAgain(t) \/ WorkerCannotClose(t),
             UNCHANGED remote
      PROVE  GuardAgrees'
  BY <1>7 DEF WorkerCannotClose, WorkerDrainsAgain, WorkerReaps, WorkerRetired, DrainedBelow
<1>8. ASSUME NEW t \in Task, WorkerReleases(t), UNCHANGED remote
      PROVE  GuardAgrees'
  BY <1>8 DEF WorkerReleases, Release
<1>9. ASSUME NEW t \in Task, RecoverBegins(t) \/ RecoverConflicts(t), UNCHANGED remote
      PROVE  GuardAgrees'
  BY <1>9 DEF RecoverBegins, RecoverConflicts
<1>10. ASSUME NEW t \in Task, RecoverClaims(t), UNCHANGED remote
      PROVE  GuardAgrees'
  BY <1>10 DEF RecoverClaims, Claim
<1>11. ASSUME NEW t \in Task, RecoverFences(t), UNCHANGED remote
      PROVE  GuardAgrees'
  BY <1>11 DEF RecoverFences, Fence
<1>12. ASSUME NEW t \in Task, RecoverDrains(t), UNCHANGED remote
      PROVE  GuardAgrees'
  BY <1>12 DEF RecoverDrains
<1>13. ASSUME NEW t \in Task, RecoverReady(t) \/ RecoverFails(t), UNCHANGED remote
      PROVE  GuardAgrees'
  BY <1>13 DEF RecoverFails, RecoverReady, Release
<1>14. ASSUME NEW t \in Task, Requeue(t) \/ CancelOrphan(t), UNCHANGED remote
      PROVE  GuardAgrees'
  BY <1>14 DEF CancelOrphan, Requeue
<1>15. ASSUME NEW t \in Task, Retire(t), UNCHANGED remote
      PROVE  GuardAgrees'
  BY <1>15 DEF Retire
<1>16. ASSUME NEW t \in Task, RetireCloses(t), UNCHANGED remote
      PROVE  GuardAgrees'
  BY <1>16 DEF RetireCloses, CloseExecution
<1>17. ASSUME CleanupBegins, UNCHANGED remote
      PROVE  GuardAgrees'
  BY <1>17 DEF CleanupBegins
<1>18. ASSUME CleanupTakes, UNCHANGED remote
      PROVE  GuardAgrees'
  BY <1>18 DEF CleanupTakes
<1>19. ASSUME CleanupFences \/ CleanupCloses, UNCHANGED remote
      PROVE  GuardAgrees'
  BY <1>19 DEF CleanupCloses, CleanupFences, CloseExecution, Fence
<1>20. ASSUME CleanupFails, UNCHANGED remote
      PROVE  GuardAgrees'
  BY <1>20 DEF CleanupFails
<1>21. ASSUME CleanupClears, UNCHANGED remote
      PROVE  GuardAgrees'
  BY <1>21 DEF CleanupClears
<1>22. ASSUME NEW e \in flight, Arrive(e), UNCHANGED remote
      PROVE  GuardAgrees'
  BY <1>22 DEF Arrive, Serves
<1>23. ASSUME NEW e \in active, InputEnds(e), UNCHANGED remote
      PROVE  GuardAgrees'
  BY <1>23 DEF InputEnds
<1>24. ASSUME Crash, UNCHANGED remote
      PROVE  GuardAgrees'
  BY <1>24 DEF Crash
<1>25. CASE UNCHANGED vars
  BY <1>25 DEF vars
<1> QED BY <1>1, <1>2, <1>3, <1>4, <1>5, <1>6, <1>7, <1>8, <1>9, <1>10, <1>11, <1>12, <1>13,
           <1>14, <1>15, <1>16, <1>17, <1>18, <1>19, <1>20, <1>21, <1>22, <1>23, <1>24, <1>25
           DEF Next, WorkerStep, RecoverStep, CleanupStep

LEMMA RecoveriesKept == ASSUME IInv, [Next]_vars PROVE RecoveriesAgree'
<1> USE DEF IInv, TypeOK, RecoveriesAgree, Owns, CleanupAgrees, NumbersAgree,
            taskVars, deviceVars, guardVars, inputVars, workerVars, coordVars, cleanVars,
            WorkerFrame, CoordFrame, CleanFrame
<1>1. ASSUME NEW t \in Task, WorkerClaim(t), UNCHANGED remote
      PROVE  RecoveriesAgree'
  BY <1>1 DEF WorkerClaim, Claim
<1>2. ASSUME NEW t \in Task, WorkerFence(t) \/ WorkerFencesAgain(t), UNCHANGED remote
      PROVE  RecoveriesAgree'
  BY <1>2 DEF WorkerFence, WorkerFencesAgain, Fence
<1>3. ASSUME NEW t \in Task,
             WorkerRuns(t) \/ WorkerBlocked(t) \/ WorkerFails(t) \/ WorkerHasNoDriver(t),
             UNCHANGED remote
      PROVE  RecoveriesAgree'
  BY <1>3 DEF WorkerBlocked, WorkerFails, WorkerHasNoDriver, WorkerRuns, DrainedBelow
<1>4. ASSUME NEW t \in Task, WorkerActs(t), UNCHANGED remote
      PROVE  RecoveriesAgree'
  BY <1>4 DEF WorkerActs, Authority
<1>5. ASSUME NEW t \in Task, WorkerStops(t, "stopped") \/ WorkerStops(t, "terminal"),
             UNCHANGED remote
      PROVE  RecoveriesAgree'
  BY <1>5 DEF WorkerStops
<1>6. ASSUME NEW t \in Task, WorkerCloses(t) \/ WorkerClosesAgain(t), UNCHANGED remote
      PROVE  RecoveriesAgree'
  BY <1>6 DEF WorkerCloses, WorkerClosesAgain, CloseExecution
<1>7. ASSUME NEW t \in Task,
             WorkerRetired(t) \/ WorkerReaps(t) \/ WorkerDrainsAgain(t) \/ WorkerCannotClose(t),
             UNCHANGED remote
      PROVE  RecoveriesAgree'
  BY <1>7 DEF WorkerCannotClose, WorkerDrainsAgain, WorkerReaps, WorkerRetired, DrainedBelow
<1>8. ASSUME NEW t \in Task, WorkerReleases(t), UNCHANGED remote
      PROVE  RecoveriesAgree'
  BY <1>8 DEF WorkerReleases, Release
<1>9. ASSUME NEW t \in Task, RecoverBegins(t) \/ RecoverConflicts(t), UNCHANGED remote
      PROVE  RecoveriesAgree'
  BY <1>9 DEF RecoverBegins, RecoverConflicts
<1>10. ASSUME NEW t \in Task, RecoverClaims(t), UNCHANGED remote
      PROVE  RecoveriesAgree'
  BY <1>10 DEF RecoverClaims, Claim
<1>11. ASSUME NEW t \in Task, RecoverFences(t), UNCHANGED remote
      PROVE  RecoveriesAgree'
  BY <1>11 DEF RecoverFences, Fence
<1>12. ASSUME NEW t \in Task, RecoverDrains(t), UNCHANGED remote
      PROVE  RecoveriesAgree'
  BY <1>12 DEF RecoverDrains
<1>13. ASSUME NEW t \in Task, RecoverReady(t) \/ RecoverFails(t), UNCHANGED remote
      PROVE  RecoveriesAgree'
  BY <1>13 DEF RecoverFails, RecoverReady, Release
<1>14. ASSUME NEW t \in Task, Requeue(t) \/ CancelOrphan(t), UNCHANGED remote
      PROVE  RecoveriesAgree'
  BY <1>14 DEF CancelOrphan, Requeue
<1>15. ASSUME NEW t \in Task, Retire(t), UNCHANGED remote
      PROVE  RecoveriesAgree'
  BY <1>15 DEF Retire
<1>16. ASSUME NEW t \in Task, RetireCloses(t), UNCHANGED remote
      PROVE  RecoveriesAgree'
  BY <1>16 DEF RetireCloses, CloseExecution
<1>17. ASSUME CleanupBegins, UNCHANGED remote
      PROVE  RecoveriesAgree'
  BY <1>17 DEF CleanupBegins
<1>18. ASSUME CleanupTakes, UNCHANGED remote
      PROVE  RecoveriesAgree'
  BY <1>18 DEF CleanupTakes
<1>19. ASSUME CleanupFences \/ CleanupCloses, UNCHANGED remote
      PROVE  RecoveriesAgree'
  BY <1>19 DEF CleanupCloses, CleanupFences, CloseExecution, Fence
<1>20. ASSUME CleanupFails, UNCHANGED remote
      PROVE  RecoveriesAgree'
  BY <1>20 DEF CleanupFails
<1>21. ASSUME CleanupClears, UNCHANGED remote
      PROVE  RecoveriesAgree'
  BY <1>21 DEF CleanupClears
<1>22. ASSUME NEW e \in flight, Arrive(e), UNCHANGED remote
      PROVE  RecoveriesAgree'
  BY <1>22 DEF Arrive, Serves
<1>23. ASSUME NEW e \in active, InputEnds(e), UNCHANGED remote
      PROVE  RecoveriesAgree'
  BY <1>23 DEF InputEnds
<1>24. ASSUME Crash, UNCHANGED remote
      PROVE  RecoveriesAgree'
  BY <1>24 DEF Crash
<1>25. CASE UNCHANGED vars
  BY <1>25 DEF vars
<1> QED BY <1>1, <1>2, <1>3, <1>4, <1>5, <1>6, <1>7, <1>8, <1>9, <1>10, <1>11, <1>12, <1>13,
           <1>14, <1>15, <1>16, <1>17, <1>18, <1>19, <1>20, <1>21, <1>22, <1>23, <1>24, <1>25
           DEF Next, WorkerStep, RecoverStep, CleanupStep

LEMMA CleanupKept == ASSUME IInv, [Next]_vars PROVE CleanupAgrees'
<1> USE DEF IInv, TypeOK, CleanupAgrees, NumbersAgree, RecoveriesAgree,
            taskVars, deviceVars, guardVars, inputVars, workerVars, coordVars, cleanVars,
            WorkerFrame, CoordFrame, CleanFrame
<1>1. ASSUME NEW t \in Task, WorkerClaim(t), UNCHANGED remote
      PROVE  CleanupAgrees'
  BY <1>1 DEF WorkerClaim, Claim
<1>2. ASSUME NEW t \in Task, WorkerFence(t) \/ WorkerFencesAgain(t), UNCHANGED remote
      PROVE  CleanupAgrees'
  BY <1>2 DEF WorkerFence, WorkerFencesAgain, Fence
<1>3. ASSUME NEW t \in Task,
             WorkerRuns(t) \/ WorkerBlocked(t) \/ WorkerFails(t) \/ WorkerHasNoDriver(t),
             UNCHANGED remote
      PROVE  CleanupAgrees'
  BY <1>3 DEF WorkerBlocked, WorkerFails, WorkerHasNoDriver, WorkerRuns, DrainedBelow
<1>4. ASSUME NEW t \in Task, WorkerActs(t), UNCHANGED remote
      PROVE  CleanupAgrees'
  BY <1>4 DEF WorkerActs, Authority
<1>5. ASSUME NEW t \in Task, WorkerStops(t, "stopped") \/ WorkerStops(t, "terminal"),
             UNCHANGED remote
      PROVE  CleanupAgrees'
  BY <1>5 DEF WorkerStops
<1>6. ASSUME NEW t \in Task, WorkerCloses(t) \/ WorkerClosesAgain(t), UNCHANGED remote
      PROVE  CleanupAgrees'
  BY <1>6 DEF WorkerCloses, WorkerClosesAgain, CloseExecution
<1>7. ASSUME NEW t \in Task,
             WorkerRetired(t) \/ WorkerReaps(t) \/ WorkerDrainsAgain(t) \/ WorkerCannotClose(t),
             UNCHANGED remote
      PROVE  CleanupAgrees'
  BY <1>7 DEF WorkerCannotClose, WorkerDrainsAgain, WorkerReaps, WorkerRetired, DrainedBelow
<1>8. ASSUME NEW t \in Task, WorkerReleases(t), UNCHANGED remote
      PROVE  CleanupAgrees'
  BY <1>8 DEF WorkerReleases, Release
<1>9. ASSUME NEW t \in Task, RecoverBegins(t) \/ RecoverConflicts(t), UNCHANGED remote
      PROVE  CleanupAgrees'
  BY <1>9 DEF RecoverBegins, RecoverConflicts
<1>10. ASSUME NEW t \in Task, RecoverClaims(t), UNCHANGED remote
      PROVE  CleanupAgrees'
  BY <1>10 DEF RecoverClaims, Claim
<1>11. ASSUME NEW t \in Task, RecoverFences(t), UNCHANGED remote
      PROVE  CleanupAgrees'
  BY <1>11 DEF RecoverFences, Fence
<1>12. ASSUME NEW t \in Task, RecoverDrains(t), UNCHANGED remote
      PROVE  CleanupAgrees'
  BY <1>12 DEF RecoverDrains
<1>13. ASSUME NEW t \in Task, RecoverReady(t) \/ RecoverFails(t), UNCHANGED remote
      PROVE  CleanupAgrees'
  BY <1>13 DEF RecoverFails, RecoverReady, Release
<1>14. ASSUME NEW t \in Task, Requeue(t) \/ CancelOrphan(t), UNCHANGED remote
      PROVE  CleanupAgrees'
  BY <1>14 DEF CancelOrphan, Requeue
<1>15. ASSUME NEW t \in Task, Retire(t), UNCHANGED remote
      PROVE  CleanupAgrees'
  BY <1>15 DEF Retire
<1>16. ASSUME NEW t \in Task, RetireCloses(t), UNCHANGED remote
      PROVE  CleanupAgrees'
  BY <1>16 DEF RetireCloses, CloseExecution, Owns
<1>17. ASSUME CleanupBegins, UNCHANGED remote
      PROVE  CleanupAgrees'
  BY <1>17 DEF CleanupBegins
<1>18. ASSUME CleanupTakes, UNCHANGED remote
      PROVE  CleanupAgrees'
  BY <1>18 DEF CleanupTakes
<1>19. ASSUME CleanupFences \/ CleanupCloses, UNCHANGED remote
      PROVE  CleanupAgrees'
  BY <1>19 DEF CleanupCloses, CleanupFences, CloseExecution, Fence
<1>20. ASSUME CleanupFails, UNCHANGED remote
      PROVE  CleanupAgrees'
  BY <1>20 DEF CleanupFails
<1>21. ASSUME CleanupClears, UNCHANGED remote
      PROVE  CleanupAgrees'
  BY <1>21 DEF CleanupClears
<1>22. ASSUME NEW e \in flight, Arrive(e), UNCHANGED remote
      PROVE  CleanupAgrees'
  BY <1>22 DEF Arrive, Serves
<1>23. ASSUME NEW e \in active, InputEnds(e), UNCHANGED remote
      PROVE  CleanupAgrees'
  BY <1>23 DEF InputEnds
<1>24. ASSUME Crash, UNCHANGED remote
      PROVE  CleanupAgrees'
  BY <1>24 DEF Crash
<1>25. CASE UNCHANGED vars
  BY <1>25 DEF vars
<1> QED BY <1>1, <1>2, <1>3, <1>4, <1>5, <1>6, <1>7, <1>8, <1>9, <1>10, <1>11, <1>12, <1>13,
           <1>14, <1>15, <1>16, <1>17, <1>18, <1>19, <1>20, <1>21, <1>22, <1>23, <1>24, <1>25
           DEF Next, WorkerStep, RecoverStep, CleanupStep

LEMMA LocalKept == ASSUME IInv, [Next]_vars PROVE LocalAgrees'
<1> USE DEF IInv, TypeOK, LocalAgrees, InputsAgree, DeviceAgrees, Held, Recovering, Owns,
            NumbersAgree, RecoveriesAgree, CleanupAgrees, DrainedBelow, Authority,
            taskVars, deviceVars, guardVars, inputVars, workerVars, coordVars, cleanVars,
            WorkerFrame, CoordFrame, CleanFrame
<1> USE PolicyIsOfTasks
<1>1. ASSUME NEW t \in Task, WorkerClaim(t), UNCHANGED remote
      PROVE  LocalAgrees'
  BY <1>1 DEF WorkerClaim, Claim
<1>2. ASSUME NEW t \in Task, WorkerFence(t) \/ WorkerFencesAgain(t), UNCHANGED remote
      PROVE  LocalAgrees'
  BY <1>2 DEF WorkerFence, WorkerFencesAgain, Fence
<1>3. ASSUME NEW t \in Task,
             WorkerRuns(t) \/ WorkerBlocked(t) \/ WorkerFails(t) \/ WorkerHasNoDriver(t),
             UNCHANGED remote
      PROVE  LocalAgrees'
  BY <1>3 DEF WorkerBlocked, WorkerFails, WorkerHasNoDriver, WorkerRuns
<1>4. ASSUME NEW t \in Task, WorkerActs(t), UNCHANGED remote
      PROVE  LocalAgrees'
  BY <1>4 DEF WorkerActs
<1>5. ASSUME NEW t \in Task, WorkerStops(t, "stopped") \/ WorkerStops(t, "terminal"),
             UNCHANGED remote
      PROVE  LocalAgrees'
  BY <1>5 DEF WorkerStops
<1>6. ASSUME NEW t \in Task, WorkerCloses(t) \/ WorkerClosesAgain(t), UNCHANGED remote
      PROVE  LocalAgrees'
  BY <1>6 DEF WorkerCloses, WorkerClosesAgain, CloseExecution
<1>7. ASSUME NEW t \in Task,
             WorkerRetired(t) \/ WorkerReaps(t) \/ WorkerDrainsAgain(t) \/ WorkerCannotClose(t),
             UNCHANGED remote
      PROVE  LocalAgrees'
  BY <1>7 DEF WorkerCannotClose, WorkerDrainsAgain, WorkerReaps, WorkerRetired
<1>8. ASSUME NEW t \in Task, WorkerReleases(t), UNCHANGED remote
      PROVE  LocalAgrees'
  BY <1>8 DEF WorkerReleases, Release
<1>9. ASSUME NEW t \in Task, RecoverBegins(t) \/ RecoverConflicts(t), UNCHANGED remote
      PROVE  LocalAgrees'
  BY <1>9 DEF RecoverBegins, RecoverConflicts
<1>10. ASSUME NEW t \in Task, RecoverClaims(t), UNCHANGED remote
      PROVE  LocalAgrees'
  BY <1>10 DEF RecoverClaims, Claim
<1>11. ASSUME NEW t \in Task, RecoverFences(t), UNCHANGED remote
      PROVE  LocalAgrees'
  BY <1>11 DEF RecoverFences, Fence
<1>12. ASSUME NEW t \in Task, RecoverDrains(t), UNCHANGED remote
      PROVE  LocalAgrees'
  BY <1>12 DEF RecoverDrains
<1>13. ASSUME NEW t \in Task, RecoverReady(t) \/ RecoverFails(t), UNCHANGED remote
      PROVE  LocalAgrees'
  BY <1>13 DEF RecoverFails, RecoverReady, Release
<1>14. ASSUME NEW t \in Task, Requeue(t) \/ CancelOrphan(t), UNCHANGED remote
      PROVE  LocalAgrees'
  BY <1>14 DEF CancelOrphan, Requeue
<1>15. ASSUME NEW t \in Task, Retire(t), UNCHANGED remote
      PROVE  LocalAgrees'
  BY <1>15 DEF Retire
<1>16. ASSUME NEW t \in Task, RetireCloses(t), UNCHANGED remote
      PROVE  LocalAgrees'
  BY <1>16 DEF RetireCloses, CloseExecution
<1>17. ASSUME CleanupBegins, UNCHANGED remote
      PROVE  LocalAgrees'
  BY <1>17 DEF CleanupBegins
<1>18. ASSUME CleanupTakes, UNCHANGED remote
      PROVE  LocalAgrees'
  BY <1>18 DEF CleanupTakes
<1>19. ASSUME CleanupFences \/ CleanupCloses, UNCHANGED remote
      PROVE  LocalAgrees'
  BY <1>19 DEF CleanupCloses, CleanupFences, CloseExecution, Fence
<1>20. ASSUME CleanupFails, UNCHANGED remote
      PROVE  LocalAgrees'
  BY <1>20 DEF CleanupFails
<1>21. ASSUME CleanupClears, UNCHANGED remote
      PROVE  LocalAgrees'
  BY <1>21 DEF CleanupClears
<1>22. ASSUME NEW e \in flight, Arrive(e), UNCHANGED remote
      PROVE  LocalAgrees'
  BY <1>22 DEF Arrive, Serves
<1>23. ASSUME NEW e \in active, InputEnds(e), UNCHANGED remote
      PROVE  LocalAgrees'
  BY <1>23 DEF InputEnds
<1>24. ASSUME Crash, UNCHANGED remote
      PROVE  LocalAgrees'
  BY <1>24 DEF Crash
<1>25. CASE UNCHANGED vars
  BY <1>25 DEF vars
<1> QED BY <1>1, <1>2, <1>3, <1>4, <1>5, <1>6, <1>7, <1>8, <1>9, <1>10, <1>11, <1>12, <1>13,
           <1>14, <1>15, <1>16, <1>17, <1>18, <1>19, <1>20, <1>21, <1>22, <1>23, <1>24, <1>25
           DEF Next, WorkerStep, RecoverStep, CleanupStep

LEMMA NextKeeps == IInv /\ [Next]_vars => IInv'
BY TypeKept, NumbersKept, InputsKept, DeviceKept, GuardKept, RecoveriesKept, CleanupKept,
   LocalKept DEF IInv

LEMMA InvariantHolds == Spec => []IInv
<1>1. Init => IInv
  BY InitHolds
<1>2. IInv /\ [Next]_vars => IInv'
  BY NextKeeps
<1> QED BY <1>1, <1>2, PTL DEF Spec

-----------------------------------------------------------------------------
(* The rows of the task database and of the guard, and the handlers' places,  *)
(* keep their types.                                                          *)
THEOREM TypeCorrect == Spec => []TypeOK
<1>1. IInv => TypeOK
  BY DEF IInv
<1> QED BY <1>1, InvariantHolds, PTL

(* Input of two authorities is never on the device together, for any number  *)
(* of tasks, claims, crashes and takeovers (claim, isolate).                  *)
THEOREM OneAuthorityHolds == Spec => []OneAuthority
<1>1. IInv => OneAuthority
  BY DEF IInv
<1> QED BY <1>1, InvariantHolds, PTL

(* A running owner the database recognises holds the device and is served by *)
(* the journal: no cleanup, recovery or late release locks it out.            *)
THEOREM OwnerServed == Spec => []OwnerIsServed
<1>1. IInv => OwnerIsServed
  <2> SUFFICES ASSUME IInv, NEW t \in Task, wpc[t] = "running", Owns(t, wepoch[t])
               PROVE  /\ dtask = t /\ depoch = wepoch[t] /\ last = wfence[t]
                      /\ Serves([task |-> t, epoch |-> wepoch[t], fence |-> wfence[t]])
    BY DEF OwnerIsServed
  <2>1. dtask = t /\ depoch = wepoch[t] /\ last = wfence[t]
    BY DEF IInv, DeviceAgrees, Held
  <2>2. ~gclosed /\ gfence = wfence[t] /\ gtask = t /\ gepoch = wepoch[t]
    BY DEF IInv, GuardAgrees
  <2> QED BY <2>1, <2>2 DEF Serves
<1> QED BY <1>1, InvariantHolds, PTL

(* The epoch of a recovery under way stays the task's: nobody else can claim, *)
(* retire or clean up the task, so the StaleOwner exits of _recover are dead. *)
THEOREM RecoveryKeeps == Spec => []RecoveryKeepsOwner
<1>1. IInv => RecoveryKeepsOwner
  BY DEF IInv, RecoveriesAgree, RecoveryKeepsOwner
<1> QED BY <1>1, InvariantHolds, PTL

(* With the driver in process a device that is nobody's has no input on it    *)
(* and no request under way that could still get there.                       *)
THEOREM LocalFree == Spec => []LocalFreeIsSilent
<1>1. IInv => LocalFreeIsSilent
  <2> SUFFICES ASSUME IInv, ~remote, dtask = NoTask
               PROVE  active = {} /\ \A e \in flight : ~Serves(e)
    BY DEF LocalFreeIsSilent, FreeMeansSilent
  <2>1. active = {}
    BY DEF IInv, LocalAgrees
  <2>2. flight = {}
    <3> SUFFICES ASSUME NEW e \in flight PROVE FALSE
      OBVIOUS
    <3>1. e.task \in Task
      BY DEF IInv, TypeOK, Authority
    <3>2. wpc[e.task] = "running"
      BY DEF IInv, LocalAgrees
    <3>3. dtask = e.task
      BY <3>1, <3>2 DEF IInv, DeviceAgrees, Held
    <3> QED BY <3>1, <3>3, PolicyIsOfTasks
  <2> QED BY <2>1, <2>2
<1> QED BY <1>1, InvariantHolds, PTL

(* A fence the database hands out is never one the journal refuses as stale:  *)
(* a crash between the claim and the fence costs a number, not the device.    *)
THEOREM FenceAhead == Spec => []FenceIsAhead
<1>1. IInv => FenceIsAhead
  BY DEF IInv, NumbersAgree, FenceIsAhead
<1> QED BY <1>1, InvariantHolds, PTL
=============================================================================
