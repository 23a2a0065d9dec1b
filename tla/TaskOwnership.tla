---------------------------- MODULE TaskOwnership ----------------------------
(***************************************************************************)
(* Who may drive a device.  The task database keeps, per task, an          *)
(* execution_epoch and a worker_token and, per device, the last            *)
(* device_fence handed out and the task that occupies it                   *)
(* (shared/recovery_store.py: claim, check, quiescent, release).  Workers, *)
(* recovery coordinators, the scanner's safety cleanup and an orderly      *)
(* shutdown change those rows between awaits and fence the execution       *)
(* journal of the driver (shared/recovery_runtime.py, control_api/main.py).*)
(*                                                                         *)
(* The journal appears by what module ExecutionJournal establishes of it:  *)
(* an input needs the guard's authority when it is accepted, and a drain   *)
(* that answers "quiescent" leaves no input of a revoked authority.        *)
(*                                                                         *)
(* remote says which driver runs: the in-process one, whose handlers die   *)
(* with their worker, or a driver process reached by RPC, where an act     *)
(* request outlives the worker that sent it.                               *)
(***************************************************************************)
EXTENDS Integers

CONSTANTS Task,
          SafeAuto,  \* tasks whose recovery_policy is safe_auto
          Drivers,   \* the drivers of this instance: TRUE for one behind RPC
          MaxEpoch,  \* bound: claims of a task
          MaxFault,  \* bound: crashes and drains that find the device busy, per driver
          NoTask

ASSUME PolicyIsOfTasks == SafeAuto \subseteq Task /\ NoTask \notin Task
ASSUME DriversAreKnown == Drivers \subseteq BOOLEAN
ASSUME BoundsAreNumbers == MaxEpoch \in Nat /\ MaxFault \in [BOOLEAN -> Nat]

VARIABLES
  status,                          \* tasks.status, as far as ownership looks at it
  epoch,                           \* tasks.execution_epoch
  token,                           \* tasks.worker_token: its owner's epoch, 0 for NULL
  last, dtask, depoch, quarantine, \* the device_runtime row
  gfence, gtask, gepoch, gclosed,  \* the guards row of the journal
  flight,                          \* act requests on their way to the journal
  active,                          \* inputs the journal has accepted and not ended
  wpc, wepoch, wfence, quiet,      \* run_owned_task of a task
  cpc, cepoch, cfence,             \* _recover of a task
  kpc, ktask, kepoch, kfence,      \* _cleanup_device
  remote,                          \* the driver, for ever
  faults

taskVars == <<status, epoch, token>>
deviceVars == <<last, dtask, depoch, quarantine>>
guardVars == <<gfence, gtask, gepoch, gclosed>>
inputVars == <<flight, active>>
workerVars == <<wpc, wepoch, wfence, quiet>>
coordVars == <<cpc, cepoch, cfence>>
cleanVars == <<kpc, ktask, kepoch, kfence>>
vars == <<taskVars, deviceVars, guardVars, inputVars, workerVars, coordVars, cleanVars, remote,
          faults>>

Init ==
  /\ status = [t \in Task |-> "queued"]
  /\ epoch = [t \in Task |-> 0]
  /\ token = [t \in Task |-> 0]
  /\ last = 0 /\ dtask = NoTask /\ depoch = 0 /\ quarantine = FALSE
  /\ gfence = 0 /\ gtask = NoTask /\ gepoch = 0 /\ gclosed = TRUE
  /\ flight = {} /\ active = {}
  /\ wpc = [t \in Task |-> "off"] /\ wepoch = [t \in Task |-> 0]
  /\ wfence = [t \in Task |-> 0] /\ quiet = [t \in Task |-> FALSE]
  /\ cpc = [t \in Task |-> "off"] /\ cepoch = [t \in Task |-> 0]
  /\ cfence = [t \in Task |-> 0]
  /\ kpc = "off" /\ ktask = NoTask /\ kepoch = 0 /\ kfence = 0
  /\ remote \in Drivers /\ faults = 0

-----------------------------------------------------------------------------
(* The journal (see ExecutionJournal). *)
Serves(e) == ~gclosed /\ gfence = e.fence /\ gtask = e.task /\ gepoch = e.epoch

Fence(f, t, e) ==
  /\ gfence < f \/ (gfence = f /\ gtask = t /\ gepoch = e)
  /\ gfence' = f /\ gtask' = t /\ gepoch' = e /\ gclosed' = FALSE

FenceRefused(f, t, e) == gfence > f \/ (gfence = f /\ <<gtask, gepoch>> # <<t, e>>)

CloseExecution(t, e) ==
  /\ gclosed' = (gclosed \/ (gtask = t /\ gepoch = e))
  /\ UNCHANGED <<gfence, gtask, gepoch>>

(* Mutant: the answer of a drain is not looked at. *)
DrainIsIgnored(f) == TRUE

(* What an answer "quiescent" to a drain with this fence implies. *)
DrainedBelow(f) == \A a \in active : a.fence >= f

(* An act request arrives: accepted under the current authority or refused. *)
Arrive(e) ==
  /\ e \in flight
  /\ flight' = flight \ {e}
  /\ active' = IF Serves(e) THEN active \union {e} ELSE active
  /\ UNCHANGED <<taskVars, deviceVars, guardVars, workerVars, coordVars, cleanVars, faults>>

InputEnds(e) ==
  /\ e \in active
  /\ active' = active \ {e}
  /\ UNCHANGED <<taskVars, deviceVars, guardVars, flight, workerVars, coordVars, cleanVars,
                 faults>>

-----------------------------------------------------------------------------
(* RecoveryStore.claim: the checks, then one transaction over both rows. *)
Claim(t) ==
  /\ epoch[t] < MaxEpoch
  /\ status[t] # "terminal"
  /\ dtask \in {NoTask, t}
  /\ epoch' = [epoch EXCEPT ![t] = @ + 1]
  /\ token' = [token EXCEPT ![t] = epoch[t] + 1]
  /\ last' = last + 1 /\ dtask' = t /\ depoch' = epoch[t] + 1 /\ quarantine' = TRUE

(* RecoveryStore.check with allow_stopped *)
Owns(t, e) == epoch[t] = e /\ token[t] = e

(* Mutant: a device is freed although it is not quiescent. *)
ReleaseAnyway(t, e, isQuiet) ==
  /\ token' = [token EXCEPT ![t] = 0]
  /\ IF dtask = t /\ depoch = e
     THEN last' = last + 1 /\ dtask' = NoTask /\ depoch' = 0 /\ quarantine' = FALSE
     ELSE UNCHANGED deviceVars

(* RecoveryStore.release, once its owner check has passed *)
Release(t, e, isQuiet) ==
  /\ token' = [token EXCEPT ![t] = 0]
  /\ IF isQuiet /\ dtask = t /\ depoch = e
     THEN last' = last + 1 /\ dtask' = NoTask /\ depoch' = 0 /\ quarantine' = FALSE
     ELSE UNCHANGED deviceVars

-----------------------------------------------------------------------------
(* run_owned_task *)
WorkerFrame == UNCHANGED <<coordVars, cleanVars, faults>>

WorkerClaim(t) ==
  /\ wpc[t] = "off" /\ status[t] = "queued" /\ token[t] = 0
  /\ Claim(t)
  /\ wpc' = [wpc EXCEPT ![t] = "claimed"]
  /\ wepoch' = [wepoch EXCEPT ![t] = epoch[t] + 1]
  /\ wfence' = [wfence EXCEPT ![t] = last + 1]
  /\ quiet' = [quiet EXCEPT ![t] = FALSE]
  /\ UNCHANGED <<status, guardVars, inputVars>> /\ WorkerFrame

(* isolate: the journal takes the new authority and starts to drain. *)
WorkerFence(t) ==
  /\ wpc[t] = "claimed"
  /\ Fence(wfence[t], t, wepoch[t])
  /\ wpc' = [wpc EXCEPT ![t] = "draining"]
  /\ UNCHANGED <<taskVars, deviceVars, inputVars, wepoch, wfence, quiet>> /\ WorkerFrame

(* "quiescent": store.quiescent lifts the quarantine and the task runs. *)
WorkerRuns(t) ==
  /\ wpc[t] = "draining"
  /\ DrainedBelow(wfence[t])
  /\ Owns(t, wepoch[t])
  /\ quarantine' = (quarantine /\ last # wfence[t])
  /\ status' = [status EXCEPT ![t] = "running"]
  /\ wpc' = [wpc EXCEPT ![t] = "running"]
  /\ UNCHANGED <<epoch, token, last, dtask, depoch, guardVars, inputVars, wepoch, wfence,
                 quiet>>
  /\ WorkerFrame

(* Old input still runs: recovery_blocked. *)
WorkerBlocked(t) ==
  /\ wpc[t] = "draining"
  /\ ~DrainedBelow(wfence[t])
  /\ wpc' = [wpc EXCEPT ![t] = "closing"]
  /\ status' = [status EXCEPT ![t] = "stopped"]
  /\ UNCHANGED <<epoch, token, deviceVars, guardVars, inputVars, wepoch, wfence, quiet>>
  /\ WorkerFrame

(* Before the fence or during the drain: the driver's recovery protocol, the    *)
(* fence or the call fails, or the handle is cancelled.  The status is left (a  *)
(* cancel writes its own afterwards: CancelOrphan), or the owner's task is to   *)
(* be recovered.                                                                *)
WorkerFails(t) ==
  /\ wpc[t] \in {"claimed", "draining"}
  /\ \/ UNCHANGED status
     \/ Owns(t, wepoch[t]) /\ status' = [status EXCEPT ![t] = "stopped"]
  /\ wpc' = [wpc EXCEPT ![t] = "closing"]
  /\ UNCHANGED <<epoch, token, deviceVars, guardVars, inputVars, wepoch, wfence, quiet>>
  /\ WorkerFrame

(* No driver came of the device: there is nothing to close, and the lock and     *)
(* the children of the backend's own journal are all that is looked at.         *)
WorkerHasNoDriver(t) ==
  /\ wpc[t] = "claimed"
  /\ Owns(t, wepoch[t])
  /\ \/ UNCHANGED status
     \/ status' = [status EXCEPT ![t] = "stopped"]
  /\ wpc' = [wpc EXCEPT ![t] = "reap"]
  /\ UNCHANGED <<epoch, token, deviceVars, guardVars, inputVars, wepoch, wfence, quiet>>
  /\ WorkerFrame

(* T1 checks the owner; the request is then on its way to the journal. *)
WorkerActs(t) ==
  /\ wpc[t] = "running"
  /\ Owns(t, wepoch[t])
  /\ flight' = flight \union {[task |-> t, epoch |-> wepoch[t], fence |-> wfence[t]]}
  /\ UNCHANGED <<taskVars, deviceVars, guardVars, active, workerVars>> /\ WorkerFrame

(* The run ends, whatever is still on its way: done, paused, steered, cancelled. *)
WorkerStops(t, s) ==
  /\ wpc[t] = "running"
  /\ IF Owns(t, wepoch[t]) THEN status' = [status EXCEPT ![t] = s] ELSE UNCHANGED status
  /\ wpc' = [wpc EXCEPT ![t] = "closing"]
  /\ flight' = IF remote THEN flight ELSE {e \in flight : e.task # t}
  /\ UNCHANGED <<epoch, token, deviceVars, guardVars, active, wepoch, wfence, quiet>>
  /\ WorkerFrame

(* finally: only the present owner cleans up. *)
WorkerRetired(t) ==
  /\ wpc[t] \in {"draining", "closing", "release"}
  /\ ~Owns(t, wepoch[t])
  /\ wpc' = [wpc EXCEPT ![t] = "off"]
  /\ UNCHANGED <<taskVars, deviceVars, guardVars, inputVars, wepoch, wfence, quiet>>
  /\ WorkerFrame

WorkerCloses(t) ==
  /\ wpc[t] = "closing"
  /\ Owns(t, wepoch[t])
  /\ CloseExecution(t, wepoch[t])
  /\ wpc' = [wpc EXCEPT ![t] = IF remote THEN "closed" ELSE "reap"]
  /\ UNCHANGED <<taskVars, deviceVars, inputVars, wepoch, wfence, quiet>> /\ WorkerFrame

(* In process: the input lock is free and the children are reaped, or not.  The  *)
(* backend's own journal has no input of a driver behind RPC.                   *)
WorkerReaps(t) ==
  /\ wpc[t] = "reap"
  /\ quiet' = [quiet EXCEPT ![t] = remote \/ DrainedBelow(wfence[t] + 1)]
  /\ wpc' = [wpc EXCEPT ![t] = "release"]
  /\ UNCHANGED <<taskVars, deviceVars, guardVars, inputVars, wepoch, wfence>> /\ WorkerFrame

(* Remote: the same authority is fenced once more, so that the driver drains ... *)
WorkerFencesAgain(t) ==
  /\ wpc[t] = "closed"
  /\ Fence(wfence[t], t, wepoch[t])
  /\ wpc' = [wpc EXCEPT ![t] = "again"]
  /\ UNCHANGED <<taskVars, deviceVars, inputVars, wepoch, wfence, quiet>> /\ WorkerFrame

(* ... which answers for all input it holds at that moment ... *)
WorkerDrainsAgain(t) ==
  /\ wpc[t] = "again"
  /\ quiet' = [quiet EXCEPT ![t] = active = {}]
  /\ wpc' = [wpc EXCEPT ![t] = "reclose"]
  /\ UNCHANGED <<taskVars, deviceVars, guardVars, inputVars, wepoch, wfence>> /\ WorkerFrame

(* ... and closed again; a failing call of the three leaves quiet FALSE. *)
WorkerClosesAgain(t) ==
  /\ wpc[t] = "reclose"
  /\ CloseExecution(t, wepoch[t])
  /\ wpc' = [wpc EXCEPT ![t] = "release"]
  /\ UNCHANGED <<taskVars, deviceVars, inputVars, wepoch, wfence, quiet>> /\ WorkerFrame

WorkerCannotClose(t) ==
  /\ wpc[t] \in {"closing", "closed", "again", "reclose"}
  /\ wpc[t] = "closing" => Owns(t, wepoch[t])
  /\ wpc[t] = "closed" => FenceRefused(wfence[t], t, wepoch[t]) \/ faults < MaxFault[remote]
  /\ wpc[t] # "closed" => faults < MaxFault[remote]
  /\ faults' = IF faults < MaxFault[remote] THEN faults + 1 ELSE faults
  /\ quiet' = [quiet EXCEPT ![t] = FALSE]
  /\ wpc' = [wpc EXCEPT ![t] = "release"]
  /\ UNCHANGED <<taskVars, deviceVars, guardVars, inputVars, wepoch, wfence, coordVars,
                 cleanVars>>

WorkerReleases(t) ==
  /\ wpc[t] = "release"
  /\ Owns(t, wepoch[t])
  /\ Release(t, wepoch[t], quiet[t])
  /\ wpc' = [wpc EXCEPT ![t] = "off"]
  /\ UNCHANGED <<status, epoch, guardVars, inputVars, wepoch, wfence, quiet>> /\ WorkerFrame

-----------------------------------------------------------------------------
(* _recover, under the task's lock and never beside a live handle. *)
CoordFrame == UNCHANGED <<inputVars, workerVars, cleanVars>>

(* Metadata is read, then the device's health is awaited ... *)
RecoverBegins(t) ==
  /\ cpc[t] = "off" /\ wpc[t] = "off"
  /\ ~(kpc # "off" /\ ktask = t)
  /\ status[t] \in {"running", "stopped"} \/ (status[t] = "queued" /\ token[t] # 0)
  /\ cpc' = [cpc EXCEPT ![t] = "health"]
  /\ cepoch' = [cepoch EXCEPT ![t] = epoch[t]]
  /\ UNCHANGED <<taskVars, deviceVars, guardVars, cfence, faults>> /\ CoordFrame

(* ... and the claim takes the task over from whoever had that epoch. *)
RecoverClaims(t) ==
  /\ cpc[t] = "health"
  /\ epoch[t] = cepoch[t]
  /\ Claim(t)
  /\ status' = [status EXCEPT ![t] = "stopped"]
  /\ cpc' = [cpc EXCEPT ![t] = "claimed"]
  /\ cepoch' = [cepoch EXCEPT ![t] = epoch[t] + 1]
  /\ cfence' = [cfence EXCEPT ![t] = last + 1]
  /\ UNCHANGED <<guardVars, faults>> /\ CoordFrame

(* Ownership changed, the task ended or the device belongs to another task. *)
RecoverConflicts(t) ==
  /\ cpc[t] = "health"
  /\ epoch[t] # cepoch[t] \/ status[t] = "terminal" \/ dtask \notin {NoTask, t}
  /\ cpc' = [cpc EXCEPT ![t] = "off"]
  /\ UNCHANGED <<taskVars, deviceVars, guardVars, cepoch, cfence, faults>> /\ CoordFrame

RecoverFences(t) ==
  /\ cpc[t] = "claimed"
  /\ Fence(cfence[t], t, cepoch[t])
  /\ cpc' = [cpc EXCEPT ![t] = "draining"]
  /\ UNCHANGED <<taskVars, deviceVars, cepoch, cfence, faults>> /\ CoordFrame

RecoverDrains(t) ==
  /\ cpc[t] = "draining"
  /\ DrainedBelow(cfence[t])
  /\ Owns(t, cepoch[t])
  /\ quarantine' = (quarantine /\ last # cfence[t])
  /\ cpc' = [cpc EXCEPT ![t] = "restoring"]
  /\ UNCHANGED <<taskVars, last, dtask, depoch, guardVars, cepoch, cfence, faults>>
  /\ CoordFrame

(* The restored task is queued unless it was cancelled meanwhile ... *)
RecoverReady(t) ==
  /\ cpc[t] = "restoring"
  /\ Owns(t, cepoch[t])
  /\ status' = [status EXCEPT ![t] = IF @ = "terminal" THEN @ ELSE "queued"]
  /\ cpc' = [cpc EXCEPT ![t] = "off"]
  /\ Release(t, cepoch[t], ~quarantine)
  /\ UNCHANGED <<epoch, guardVars, cepoch, cfence, faults>> /\ CoordFrame

(* ... or stays blocked; the finally clause reads the quarantine either way. *)
RecoverFails(t) ==
  /\ cpc[t] \in {"claimed", "draining", "restoring"}
  /\ faults < MaxFault[remote] /\ faults' = faults + 1
  /\ Owns(t, cepoch[t])
  /\ cpc' = [cpc EXCEPT ![t] = "off"]
  /\ Release(t, cepoch[t], ~quarantine)
  /\ UNCHANGED <<status, epoch, guardVars, cepoch, cfence>> /\ CoordFrame

-----------------------------------------------------------------------------
(* safety_cleanup: the device of an ended task, or of one that is not          *)
(* recovered without being asked, is drained and freed.                        *)
CleanFrame == UNCHANGED <<inputVars, workerVars, coordVars>>

(* Mutant: the cleanup does not share the lock of an explicit recovery. *)
CleanupIgnoresLock ==
  /\ kpc = "off"
  /\ dtask # NoTask
  /\ wpc[dtask] = "off"
  /\ status[dtask] = "terminal" \/ dtask \notin SafeAuto
  /\ kpc' = "read" /\ ktask' = dtask /\ kepoch' = epoch[dtask] /\ kfence' = last + 1
  /\ UNCHANGED <<taskVars, deviceVars, guardVars, faults>> /\ CleanFrame

(* Mutant: an ended task is not looked at by the scan. *)
CleanupSkipsEnded ==
  /\ kpc = "off"
  /\ dtask # NoTask
  /\ wpc[dtask] = "off" /\ cpc[dtask] = "off"
  /\ dtask \notin SafeAuto
  /\ kpc' = "read" /\ ktask' = dtask /\ kepoch' = epoch[dtask] /\ kfence' = last + 1
  /\ UNCHANGED <<taskVars, deviceVars, guardVars, faults>> /\ CleanFrame

CleanupBegins ==
  /\ kpc = "off"
  /\ dtask # NoTask
  /\ wpc[dtask] = "off" /\ cpc[dtask] = "off"
  /\ status[dtask] = "terminal" \/ dtask \notin SafeAuto
  /\ kpc' = "read" /\ ktask' = dtask /\ kepoch' = epoch[dtask] /\ kfence' = last + 1
  /\ UNCHANGED <<taskVars, deviceVars, guardVars, faults>> /\ CleanFrame

(* The driver was awaited: only an unchanged row is taken. *)
CleanupTakes ==
  /\ kpc = "read"
  /\ IF last + 1 = kfence
     THEN last' = kfence /\ quarantine' = TRUE /\ kpc' = "taken"
     ELSE kpc' = "off" /\ UNCHANGED <<last, quarantine>>
  /\ UNCHANGED <<taskVars, dtask, depoch, guardVars, ktask, kepoch, kfence, faults>>
  /\ CleanFrame

CleanupFences ==
  /\ kpc = "taken"
  /\ Fence(kfence, ktask, kepoch)
  /\ kpc' = "draining"
  /\ UNCHANGED <<taskVars, deviceVars, ktask, kepoch, kfence, faults>> /\ CleanFrame

CleanupFails ==
  /\ \/ kpc = "taken" /\ FenceRefused(kfence, ktask, kepoch) /\ UNCHANGED faults
     \/ kpc \in {"taken", "draining"} /\ faults < MaxFault[remote] /\ faults' = faults + 1
  /\ kpc' = "off"
  /\ UNCHANGED <<taskVars, deviceVars, guardVars, ktask, kepoch, kfence>> /\ CleanFrame

CleanupCloses ==
  /\ kpc = "draining"
  /\ DrainedBelow(kfence)
  /\ CloseExecution(ktask, kepoch)
  /\ kpc' = "clear"
  /\ UNCHANGED <<taskVars, deviceVars, ktask, kepoch, kfence, faults>> /\ CleanFrame

(* Mutant: the row is cleared without the compare-and-set. *)
CleanupClearsBlindly ==
  /\ kpc = "clear"
  /\ dtask' = NoTask /\ depoch' = 0 /\ quarantine' = FALSE
  /\ token' = [token EXCEPT ![ktask] = IF epoch[ktask] = kepoch THEN 0 ELSE @]
  /\ kpc' = "off"
  /\ UNCHANGED <<status, epoch, last, guardVars, ktask, kepoch, kfence, faults>>
  /\ CleanFrame

CleanupClears ==
  /\ kpc = "clear"
  /\ IF last = kfence
     THEN dtask' = NoTask /\ depoch' = 0 /\ quarantine' = FALSE
     ELSE UNCHANGED <<dtask, depoch, quarantine>>
  /\ token' = [token EXCEPT ![ktask] = IF epoch[ktask] = kepoch THEN 0 ELSE @]
  /\ kpc' = "off"
  /\ UNCHANGED <<status, epoch, last, guardVars, ktask, kepoch, kfence, faults>>
  /\ CleanFrame

-----------------------------------------------------------------------------
(* resume: a stopped task is queued again once its handle is gone. *)
Requeue(t) ==
  /\ status[t] = "stopped" /\ wpc[t] = "off" /\ cpc[t] = "off" /\ token[t] = 0
  /\ status' = [status EXCEPT ![t] = "queued"]
  /\ UNCHANGED <<epoch, token, deviceVars, guardVars, inputVars, workerVars, coordVars,
                 cleanVars, faults>>

(* cancel without a live handle: _force_cancel_orphan, also during a recovery. *)
CancelOrphan(t) ==
  /\ status[t] # "terminal" /\ wpc[t] = "off"
  /\ status' = [status EXCEPT ![t] = "terminal"]
  /\ UNCHANGED <<epoch, token, deviceVars, guardVars, inputVars, workerVars, coordVars,
                 cleanVars, faults>>

(* Shutdown retires the owner of a live handle before it cancels it ... *)
Retire(t) ==
  /\ wpc[t] # "off" /\ token[t] # 0 /\ status[t] # "terminal"
  /\ epoch[t] < MaxEpoch
  /\ epoch' = [epoch EXCEPT ![t] = @ + 1]
  /\ token' = [token EXCEPT ![t] = 0]
  /\ status' = [status EXCEPT ![t] = "stopped"]
  /\ UNCHANGED <<deviceVars, guardVars, inputVars, workerVars, coordVars, cleanVars, faults>>

(* ... and closes its authority. *)
RetireCloses(t) ==
  /\ wpc[t] # "off" /\ ~Owns(t, wepoch[t]) /\ ~gclosed
  /\ CloseExecution(t, wepoch[t])
  /\ UNCHANGED <<taskVars, deviceVars, inputVars, workerVars, coordVars, cleanVars, faults>>

(* The backend dies; the database, the journal and what reached it stay. *)
Crash ==
  /\ faults < MaxFault[remote] /\ faults' = faults + 1
  /\ wpc' = [t \in Task |-> "off"]
  /\ cpc' = [t \in Task |-> "off"]
  /\ kpc' = "off"
  /\ flight' = IF remote THEN flight ELSE {}
  /\ UNCHANGED <<taskVars, deviceVars, guardVars, active, wepoch, wfence, quiet, cepoch,
                 cfence, ktask, kepoch, kfence>>

-----------------------------------------------------------------------------
WorkerStep(t) ==
  \/ WorkerClaim(t) \/ WorkerFence(t) \/ WorkerRuns(t) \/ WorkerBlocked(t)
  \/ WorkerFails(t) \/ WorkerHasNoDriver(t) \/ WorkerActs(t) \/ WorkerRetired(t) \/ WorkerCloses(t) \/ WorkerReaps(t)
  \/ WorkerFencesAgain(t) \/ WorkerDrainsAgain(t) \/ WorkerClosesAgain(t)
  \/ WorkerCannotClose(t) \/ WorkerReleases(t)
  \/ \E s \in {"stopped", "terminal"} : WorkerStops(t, s)

RecoverStep(t) ==
  \/ RecoverBegins(t) \/ RecoverClaims(t) \/ RecoverConflicts(t) \/ RecoverFences(t)
  \/ RecoverDrains(t) \/ RecoverReady(t) \/ RecoverFails(t)

CleanupStep ==
  \/ CleanupBegins \/ CleanupTakes \/ CleanupFences \/ CleanupFails \/ CleanupCloses
  \/ CleanupClears

Next ==
  /\ \/ \E t \in Task : \/ WorkerStep(t) \/ RecoverStep(t)
                        \/ Requeue(t) \/ CancelOrphan(t) \/ Retire(t) \/ RetireCloses(t)
     \/ CleanupStep
     \/ \E e \in flight : Arrive(e)
     \/ \E e \in active : InputEnds(e)
     \/ Crash
  /\ UNCHANGED remote

Spec == Init /\ [][Next]_vars

(* The event loop resumes a handler that has begun, the scan loop comes round   *)
(* again to a cleanup that is due, and an input ends (adb commands and RPC      *)
(* calls have time limits).  No fairness is assumed of requests, nor of what     *)
(* begins with one.                                                          *)
Fairness ==
  /\ \A t \in Task : /\ WF_vars(wpc[t] # "off" /\ WorkerStep(t) /\ UNCHANGED remote)
                     /\ WF_vars(cpc[t] # "off" /\ RecoverStep(t) /\ UNCHANGED remote)
  /\ WF_vars(CleanupStep /\ UNCHANGED remote)
  /\ WF_vars((\E e \in active : InputEnds(e)) /\ UNCHANGED remote)

FairSpec == Spec /\ Fairness

-----------------------------------------------------------------------------
Authority == [task : Task, epoch : Nat, fence : Nat]

TypeOK ==
  /\ status \in [Task -> {"queued", "running", "stopped", "terminal"}]
  /\ epoch \in [Task -> Nat] /\ token \in [Task -> Nat]
  /\ last \in Nat
  /\ <<dtask, depoch>> \in {<<NoTask, 0>>} \union (Task \X (Nat \ {0}))
  /\ quarantine \in BOOLEAN
  /\ gfence \in Nat /\ gtask \in Task \union {NoTask} /\ gepoch \in Nat
  /\ gclosed \in BOOLEAN
  /\ flight \in SUBSET Authority /\ active \in SUBSET Authority
  /\ wpc \in [Task -> {"off", "claimed", "draining", "running", "closing", "reap", "closed",
                       "again", "reclose", "release"}]
  /\ wepoch \in [Task -> Nat] /\ wfence \in [Task -> Nat] /\ quiet \in [Task -> BOOLEAN]
  /\ cpc \in [Task -> {"off", "health", "claimed", "draining", "restoring"}]
  /\ cepoch \in [Task -> Nat] /\ cfence \in [Task -> Nat]
  /\ kpc \in {"off", "read", "taken", "draining", "clear"}
  /\ ktask \in Task \union {NoTask} /\ kepoch \in Nat /\ kfence \in Nat
  /\ remote \in BOOLEAN /\ faults \in 0 .. MaxFault[remote]

(* Two authorities never have input on the device together, however claims,     *)
(* takeovers, cleanups, shutdowns and crashes interleave (claim, isolate).       *)
OneAuthority == \A a, b \in active : a = b

(* An owner the database still recognises is the one the journal serves: no      *)
(* cleanup, recovery or late release locks a running task out of its device     *)
(* (the compare-and-set of _cleanup_device, the epoch test of release).         *)
OwnerIsServed ==
  \A t \in Task : (wpc[t] = "running" /\ Owns(t, wepoch[t])) =>
    /\ dtask = t /\ depoch = wepoch[t] /\ last = wfence[t]
    /\ Serves([task |-> t, epoch |-> wepoch[t], fence |-> wfence[t]])

(* Nobody retires the owner of a recovery under way: the scan, an explicit       *)
(* request and the cleanup of the same task share one lock (recover,            *)
(* safety_cleanup), so its StaleOwner exits are never taken.                    *)
RecoveryKeepsOwner ==
  \A t \in Task : cpc[t] \in {"claimed", "draining", "restoring"} => Owns(t, cepoch[t])

(* The database never hands out a fence the journal would refuse as stale. *)
FenceIsAhead == gfence <= last

(* A device without a task is at rest: nothing runs on it, and no request under  *)
(* way can still be accepted: "Devices remain quarantined if quiescence cannot  *)
(* be established" (docs/architecture.md).                                      *)
FreeMeansSilent ==
  dtask = NoTask => active = {} /\ \A e \in flight : ~Serves(e)

(* With the driver in process nothing of the kind is possible: the requests    *)
(* of a worker die with it (run_owned_task closes before it reaps).            *)
LocalFreeIsSilent == ~remote => FreeMeansSilent

(* An ended task gives its device up, whatever crashed or was refused on the     *)
(* way: its worker, a recovery or a safety cleanup frees it (_scan_recovery).   *)
DeviceIsFreed == \A t \in Task : (status[t] = "terminal" /\ dtask = t) ~> dtask # t

=============================================================================
