----------------------------- MODULE DesktopUpdate -----------------------------
(***************************************************************************)
(* Stopping and replacing the program of an installed desktop: the request   *)
(* for an update and its worker (desktop/updates.py), the installer          *)
(* (desktop/upgrade.py), the start and stop of the tray                      *)
(* (desktop/lifecycle.py), and the two files that close the admission of      *)
(* tasks meanwhile, the gate of an update and the lease of a stop             *)
(* (desktop/shutdown.py).                                                   *)
(*                                                                         *)
(* They are processes of their own that share only files and file locks, and  *)
(* each of them may die at any point; the operating system frees its locks.   *)
(* Of the tasks one stands for all: it is started by the user through an       *)
(* admission check, or goes on by itself (recovery, the expiry of a question)  *)
(* without one.                                                             *)
(***************************************************************************)
EXTENDS Naturals, FiniteSets

CONSTANTS Offered, Payload,   \* versions: of the official release, of an installer at hand
          Used,               \* what the user uses beside the update: the installer at
                              \* hand, the tray, the commands of the launcher
          MaxJob              \* bound: updates asked for

UsedIsKnown == Used \subseteq {"manual", "tray", "command"}
VersionsAreNumbers == Offered \in Nat \ {0, 1} /\ Payload \in Nat \ {0, 1}
MaxJobIsNumber == MaxJob \in Nat

VARIABLES
  current,      \* the version current.json names
  svc,          \* the OS service is loaded: its supervisor runs
  up, boot,     \* the version of the backend that answers, or 0; of the one that starts
  task,         \* "none", "admitted", "woken", "dormant"
  op,           \* update-operation.json: [state, job]
  gate,         \* update-maintenance.json: the job it names, or 0
  shut,         \* shutdown-maintenance.json: whose lease runs, or "none"
  native, due,  \* update jobs registered with the OS; those it has yet to run
  asks,         \* requests to prepare that the backend has not handled
  lock,         \* who holds each file lock, or "free"
  pc, job,      \* of each process; the job of the worker
  old, was      \* what a process would restore; its installer saw a backend, and from its
                \* stop on: it has left no service loaded

backend == <<svc, up, boot>>
record == <<op, gate>>
jobs == <<native, due, asks>>
memory == <<job, old, was>>
vars == <<current, backend, task, record, shut, jobs, lock, pc, memory>>

Job == 1..MaxJob
Version == {1, Offered, Payload}
Installer == {"setup", "manual"}           \* run by the worker, and by the user
Restorer == Installer \union {"worker"}
Proc == Restorer \union {"request", "recover", "tray", "command"}
Lock == {"request", "run", "install", "lifecycle"}

ACTIVE == {"queued", "downloading", "installing"}

Init ==
  /\ current = 1 /\ up \in {0, 1} /\ svc = (up # 0) /\ boot = 0
  /\ task = "none"
  /\ op = [state |-> "none", job |-> 0] /\ gate = 0 /\ shut = "none"
  /\ native = {} /\ due = {} /\ asks = {}
  /\ lock = [l \in Lock |-> "free"]
  /\ pc = [p \in Proc |-> "off"]
  /\ job = 0 /\ old = [p \in Restorer |-> 0] /\ was = [p \in Installer |-> FALSE]

-----------------------------------------------------------------------------
(* What every process does.                                                 *)
Goes(p, to) == pc' = [pc EXCEPT ![p] = to]

FreeAll(S) == \A l \in S : lock[l] = "free"
Locks(p, S) == FreeAll(S) /\ lock' = [l \in Lock |-> IF l \in S THEN p ELSE lock[l]]
Unlocks(p) == lock' = [l \in Lock |-> IF lock[l] = p THEN "free" ELSE lock[l]]

(* The worker that waits for an installer sees its result.                  *)
Ends(p, result) ==
  /\ pc' = [q \in Proc |->
              IF q = p THEN IF p = "setup" /\ pc["worker"] = "installing" THEN result ELSE "off"
              ELSE IF p = "worker" /\ pc[q] \in {"done", "failed"} THEN "off" ELSE pc[q]]
  /\ Unlocks(p)
  /\ job' = IF p = "worker" THEN 0 ELSE job
  /\ old' = [q \in Restorer |-> IF q = p THEN 0 ELSE old[q]]
  /\ was' = [q \in Installer |-> was[q] /\ q # p]

(* require_idle, and the list of active tasks of the tray. *)
Idle == task \notin {"admitted", "woken"}
(* backend_status refuses to speak of a backend of another version. *)
Identified == up \in {0, current}

NativeStart == svc' = TRUE /\ UNCHANGED <<up, boot>>
(* The tasks that run are killed: the next backend recovers them. *)
NativeStop ==
  /\ svc' = FALSE /\ up' = 0 /\ boot' = 0
  /\ task' = IF Idle THEN task ELSE "dormant"

(* A service is stopped only if something of it answers: the backend, as the   *)
(* caller has seen it, or the HTTP service beside it.  That one is a child of    *)
(* the supervisor too; it may answer while the service is loaded, or start, or   *)
(* wait after a failure, or not be installed.                                 *)
StopsIfAnswered(seen) ==
  \/ (seen \/ svc) /\ NativeStop
  \/ ~seen /\ UNCHANGED <<backend, task>>

ReleaseLease(p) == shut' = IF shut = p THEN "none" ELSE shut

-----------------------------------------------------------------------------
(* The backend, its supervisor and the tasks.                               *)

(* The supervisor starts what is installed, at once or some time after a failure. *)
Launch ==
  /\ svc /\ up = 0 /\ boot = 0
  /\ boot' = current
  /\ UNCHANGED <<current, svc, up, task, record, shut, jobs, lock, pc, memory>>

(* A backend that starts forgets the lease of a stop. *)
Answers ==
  /\ boot # 0 /\ up' = boot /\ boot' = 0
  /\ shut' = "none"
  /\ UNCHANGED <<current, svc, task, record, jobs, lock, pc, memory>>

BackendCrashes ==
  /\ up # 0 \/ boot # 0
  /\ up' = 0 /\ boot' = 0
  /\ task' = IF Idle THEN task ELSE "dormant"
  /\ UNCHANGED <<current, svc, record, shut, jobs, lock, pc, memory>>

TaskOnly == UNCHANGED <<current, backend, record, shut, jobs, lock, pc, memory>>

(* Mutant: the lease of a stop does not close the admission. *)
AdmitUnderLease ==
  /\ up # 0 /\ task \in {"none", "dormant"}
  /\ gate = 0
  /\ task' = "admitted" /\ TaskOnly

(* require_admission, in one step of the event loop with the new status. *)
Admit ==
  /\ up # 0 /\ task \in {"none", "dormant"}
  /\ gate = 0 /\ shut = "none"
  /\ task' = "admitted" /\ TaskOnly

(* A recovery, or a question that nobody answered: nothing is asked. *)
Wakes == up # 0 /\ task = "dormant" /\ task' = "woken" /\ TaskOnly

TaskRests == up # 0 /\ ~Idle /\ task' \in {"none", "dormant"} /\ TaskOnly

-----------------------------------------------------------------------------
(* request: an update the user has confirmed.                               *)
RequestChecks ==
  /\ pc["request"] = "off" /\ op.job < MaxJob
  /\ op.state \notin ACTIVE /\ gate = 0 /\ Identified /\ Idle
  /\ Locks("request", {"request"}) /\ Goes("request", "checked")
  /\ UNCHANGED <<current, backend, task, record, shut, jobs, memory>>

(* What the OS keeps of an earlier job is not asked for again. *)
RequestWrites ==
  /\ pc["request"] = "checked"
  /\ op' = [state |-> "queued", job |-> op.job + 1]
  /\ native' = {} /\ Goes("request", "written")
  /\ UNCHANGED <<current, backend, task, gate, shut, due, asks, lock, memory>>

RequestSchedules ==
  /\ pc["request"] = "written"
  /\ native' = native \union {op.job} /\ due' = due \union {op.job}
  /\ Goes("request", "off") /\ Unlocks("request")
  /\ UNCHANGED <<current, backend, task, record, shut, asks, memory>>

(* The OS did not take the job, or took it and did not run it; when it did not  *)
(* answer in time, the exception is one that request does not catch.          *)
RequestFails ==
  /\ pc["request"] = "written"
  /\ \/ op' = [op EXCEPT !.state = "failed"] /\ UNCHANGED native
     \/ UNCHANGED op /\ native' \in {native, native \union {op.job}}
  /\ Goes("request", "off") /\ Unlocks("request")
  /\ UNCHANGED <<current, backend, task, gate, shut, due, asks, memory>>

-----------------------------------------------------------------------------
(* run: the worker the OS starts, once, for a job.                          *)
WorkerStarts(j) ==
  /\ j \in due /\ due' = due \ {j}
  /\ pc["worker"] = "off" /\ op = [state |-> "queued", job |-> j]
  /\ Locks("worker", {"run"}) /\ Goes("worker", "downloading")
  /\ op' = [op EXCEPT !.state = "downloading"]
  /\ job' = j /\ old' = [old EXCEPT !["worker"] = current]
  /\ UNCHANGED <<current, backend, task, gate, shut, native, asks, was>>

WorkerIsLate(j) ==
  /\ j \in due /\ due' = due \ {j}
  /\ lock["run"] # "free" \/ op # [state |-> "queued", job |-> j]
  /\ UNCHANGED <<current, backend, task, record, shut, native, asks, lock, pc, memory>>

(* The release is newer than what is installed, and is downloaded. *)
WorkerDownloads ==
  /\ pc["worker"] = "downloading" /\ Offered > current
  /\ Goes("worker", "downloaded")
  /\ UNCHANGED <<current, backend, task, record, shut, jobs, lock, memory>>

WorkerAsks ==
  /\ pc["worker"] = "downloaded"
  /\ asks' = asks \union {job} /\ Goes("worker", "asking")
  /\ UNCHANGED <<current, backend, task, record, shut, native, due, lock, memory>>

(* Mutant: the state of the update is not looked at again. *)
PrepareAnyState(j) ==
  /\ j \in asks /\ up # 0
  /\ shut = "none" /\ op.job = j /\ Idle
  /\ gate' = j /\ asks' = asks \ {j}
  /\ UNCHANGED <<current, backend, task, op, shut, native, due, lock, pc, memory>>

(* prepare, in the backend; it may come to this after the worker gave up.  Its   *)
(* look at the tasks and the write of the gate are one step: no await is between *)
(* them, and admissions are handled by the same event loop.                    *)
Prepare(j) ==
  /\ j \in asks /\ up # 0
  /\ shut = "none" /\ op = [state |-> "downloading", job |-> j] /\ Idle
  /\ gate' = j /\ asks' = asks \ {j}
  /\ UNCHANGED <<current, backend, task, op, shut, native, due, lock, pc, memory>>

(* Refused, lost, or the backend is gone. *)
PrepareFails(j) ==
  /\ j \in asks /\ asks' = asks \ {j}
  /\ UNCHANGED <<current, backend, task, record, shut, native, due, lock, pc, memory>>

WorkerInstalls ==
  /\ pc["worker"] = "asking" /\ gate = job
  /\ pc["setup"] \in {"off", "begin"}
  /\ op' = [op EXCEPT !.state = "installing"]
  /\ pc' = [pc EXCEPT !["worker"] = "installing", !["setup"] = "begin"]
  /\ UNCHANGED <<current, backend, task, gate, shut, jobs, lock, memory>>

WorkerSucceeds ==
  /\ pc["worker"] = "installing" /\ pc["setup"] = "done"
  /\ current = Offered /\ up = current
  /\ op' = [op EXCEPT !.state = "succeeded"]
  /\ pc' = [pc EXCEPT !["worker"] = "clearing", !["setup"] = "off"]
  /\ UNCHANGED <<current, backend, task, gate, shut, jobs, lock, memory>>

StopsWaiting(to) ==
  pc' = [pc EXCEPT !["worker"] = to, !["setup"] = IF @ \in {"done", "failed"} THEN "off" ELSE @]

(* Also when the installer takes too long: what it has started goes on. *)
WorkerFails ==
  /\ \/ pc["worker"] \in {"downloading", "downloaded", "asking"} /\ Goes("worker", "failing")
        /\ UNCHANGED lock
     \/ pc["worker"] = "installing" /\ FreeAll({"install"}) /\ StopsWaiting("restore")
        /\ lock' = [lock EXCEPT !["install"] = "worker"]
     \/ pc["worker"] = "installing" /\ ~FreeAll({"install"}) /\ StopsWaiting("keeping")
        /\ UNCHANGED lock
  /\ UNCHANGED <<current, backend, task, record, shut, jobs, memory>>

(* The record first, the gate after it: a request to prepare that is handled  *)
(* between them is refused.                                                 *)
WorkerRecords ==
  /\ pc["worker"] \in {"failing", "keeping"}
  /\ op' = [op EXCEPT !.state = "failed"]
  /\ IF pc["worker"] = "failing"
     THEN Goes("worker", "clearing") /\ UNCHANGED <<lock, memory>>
     ELSE Ends("worker", "off")
  /\ UNCHANGED <<current, backend, task, gate, shut, jobs>>

ClearGate(j) == gate' = IF gate = j THEN 0 ELSE gate

WorkerClears ==
  /\ pc["worker"] = "clearing" /\ ClearGate(job)
  /\ Ends("worker", "off")
  /\ UNCHANGED <<current, backend, task, op, shut, jobs>>

-----------------------------------------------------------------------------
(* recover: the user clears what an updater that is gone has left. *)
RecoverClears ==
  /\ pc["recover"] = "off" /\ Locks("recover", {"request", "run", "install"})
  /\ op.state = "queued" => op.job \in native
  /\ LET removed == {j \in {op.job} : op.state = "queued"}
     IN native' = native \ removed /\ due' = due \ removed
  /\ ClearGate(op.job) /\ Goes("recover", "cleared")
  /\ UNCHANGED <<current, backend, task, op, shut, asks, memory>>

RecoverRecords ==
  /\ pc["recover"] = "cleared"
  /\ op' = [op EXCEPT !.state = "failed"]
  /\ Goes("recover", "off") /\ Unlocks("recover")
  /\ UNCHANGED <<current, backend, task, gate, shut, jobs, memory>>

-----------------------------------------------------------------------------
(* install, by the worker's installer and by one the user starts.           *)
Brings(p) == IF p = "setup" THEN Offered ELSE Payload

InstallBegins(p) ==
  /\ IF p = "setup" THEN pc[p] = "begin" ELSE p \in Used /\ pc[p] = "off"
  /\ Identified /\ (up # 0 => Idle)
  /\ old' = [old EXCEPT ![p] = current] /\ was' = [was EXCEPT ![p] = up # 0]
  /\ Locks(p, {"install"}) /\ Goes(p, "staged")
  /\ UNCHANGED <<current, backend, task, record, shut, jobs, job>>

(* task_gate; under the gate of an update no lease is asked for. *)
Gates(p) ==
  /\ pc[p] = "staged"
  /\ IF was[p] /\ gate = 0
     THEN up # 0 /\ shut = "none" /\ shut' = p
     ELSE UNCHANGED shut
  /\ Goes(p, "gated")
  /\ UNCHANGED <<current, backend, task, record, jobs, lock, memory>>

(* Mutant: the installer does not take the lifecycle. *)
ChecksIdleUnlocked(p) ==
  /\ pc[p] = "gated" /\ pc["tray"] = "off"
  /\ Identified /\ (was[p] /\ up # 0 => Idle)
  /\ UNCHANGED lock
  /\ Goes(p, "idle")
  /\ UNCHANGED <<current, backend, task, record, shut, jobs, memory>>

(* The lifecycle is taken, the tray leaves, and the last look at the tasks. *)
ChecksIdle(p) ==
  /\ pc[p] = "gated" /\ pc["tray"] = "off"
  /\ Identified /\ (was[p] /\ up # 0 => Idle)
  /\ FreeAll({"lifecycle"}) /\ lock' = [lock EXCEPT !["lifecycle"] = p]
  /\ Goes(p, "idle")
  /\ UNCHANGED <<current, backend, task, record, shut, jobs, memory>>

(* The backend is the one seen at the begin: a service whose children start or  *)
(* wait is left loaded.                                                      *)
Stops(p) ==
  /\ pc[p] = "idle" /\ StopsIfAnswered(was[p])
  /\ Goes(p, "stopped") /\ was' = [was EXCEPT ![p] = ~svc']
  /\ UNCHANGED <<current, record, shut, jobs, lock, job, old>>

Activates(p) ==
  /\ pc[p] = "stopped"
  /\ current' = Brings(p) /\ Goes(p, "activated")
  /\ UNCHANGED <<backend, task, record, shut, jobs, lock, memory>>

Starts(p) ==
  /\ pc[p] = "activated" /\ NativeStart /\ Goes(p, "started")
  /\ UNCHANGED <<current, task, record, shut, jobs, lock, memory>>

(* The gate and the lifecycle are given back before the tray is started. *)
LeavesGate(p) ==
  /\ ReleaseLease(p)
  /\ lock' = [lock EXCEPT !["lifecycle"] = IF @ = p THEN "free" ELSE @]

IsReady(p) ==
  /\ pc[p] = "started" /\ up = current
  /\ LeavesGate(p) /\ Goes(p, "ready")
  /\ UNCHANGED <<current, backend, task, record, jobs, memory>>

(* With no_start the program is only replaced. *)
Finishes(p) ==
  /\ pc[p] = "ready" \/ (pc[p] = "activated" /\ p = "manual")
  /\ ReleaseLease(p) /\ Ends(p, "done")
  /\ UNCHANGED <<current, backend, task, record, jobs>>

(* Before the backend is known to be stopped, nothing is restored. *)
InstallFails(p) ==
  /\ \/ pc[p] \in {"begin", "staged", "gated", "idle", "stopped"}
        /\ Ends(p, "failed") /\ ReleaseLease(p)
     \/ pc[p] \in {"stopped", "activated", "started", "ready"}
        /\ LeavesGate(p) /\ Goes(p, "restore") /\ UNCHANGED memory
  /\ UNCHANGED <<current, backend, task, record, jobs>>

-----------------------------------------------------------------------------
(* restore, by an installer that failed and by the worker. *)
RestoreChecks(p) ==
  /\ pc[p] = "restore" /\ pc["tray"] = "off"
  /\ Identified /\ (up # 0 => Idle)
  /\ Goes(p, "rechecked")
  /\ UNCHANGED <<current, backend, task, record, shut, jobs, lock, memory>>

RestoreStops(p) ==
  /\ pc[p] = "rechecked" /\ Identified /\ StopsIfAnswered(up # 0)
  /\ Goes(p, "restopped")
  /\ UNCHANGED <<current, record, shut, jobs, lock, memory>>

RestorePoints(p) ==
  /\ pc[p] = "restopped"
  /\ current' = old[p] /\ Goes(p, "repointed")
  /\ UNCHANGED <<backend, task, record, shut, jobs, lock, memory>>

RestoreStarts(p) ==
  /\ pc[p] = "repointed" /\ NativeStart /\ Goes(p, "restarted")
  /\ UNCHANGED <<current, task, record, shut, jobs, lock, memory>>

Restoring == {"restore", "rechecked", "restopped", "repointed", "restarted"}

(* It ends in the failure that has led to it, also when it fails itself. *)
RestoreEnds(p) ==
  /\ pc[p] \in Restoring
  /\ IF p = "worker"
     THEN /\ Goes(p, IF pc[p] = "restarted" /\ up = current THEN "failing" ELSE "keeping")
          /\ lock' = [lock EXCEPT !["install"] = "free"] /\ UNCHANGED memory
     ELSE Ends(p, "failed")
  /\ UNCHANGED <<current, backend, task, record, shut, jobs>>

-----------------------------------------------------------------------------
(* start and stop of the tray, which hold the lifecycle.                    *)
TrayStarts ==
  /\ "tray" \in Used /\ pc["tray"] = "off" /\ up = 0 /\ Locks("tray", {"lifecycle"})
  /\ NativeStart /\ Goes("tray", "starting")
  /\ UNCHANGED <<current, task, record, shut, jobs, memory>>

TrayStops ==
  /\ "tray" \in Used /\ pc["tray"] = "off" /\ Locks("tray", {"lifecycle"})
  /\ up = current /\ gate = 0 /\ shut = "none"
  /\ shut' = "tray" /\ Goes("tray", "listing")
  /\ UNCHANGED <<current, backend, task, record, jobs, memory>>

(* No backend, and a service that is still loaded: it is stopped unasked. *)
TrayFindsRest ==
  /\ "tray" \in Used /\ pc["tray"] = "off" /\ Locks("tray", {"lifecycle"})
  /\ up = 0 /\ svc /\ Goes("tray", "idle")
  /\ UNCHANGED <<current, backend, task, record, shut, jobs, memory>>

TrayLists ==
  /\ pc["tray"] = "listing" /\ up # 0
  /\ Goes("tray", IF Idle THEN "confirming" ELSE "asking")
  /\ UNCHANGED <<current, backend, task, record, shut, jobs, lock, memory>>

(* The user has chosen to pause or to cancel: the lease, which may have run    *)
(* out in the dialog, is taken again, and tasks not shown are shown first.   *)
TrayChooses ==
  /\ pc["tray"] = "asking" /\ up # 0
  /\ gate = 0 /\ shut \in {"none", "tray"} /\ shut' = "tray"
  /\ \E to \in {"asking", "waiting"} : Goes("tray", to)
  /\ UNCHANGED <<current, backend, task, record, jobs, lock, memory>>

TrayWaits ==
  /\ pc["tray"] = "waiting" /\ up # 0 /\ Idle /\ Goes("tray", "confirming")
  /\ UNCHANGED <<current, backend, task, record, shut, jobs, lock, memory>>

TrayConfirms ==
  /\ pc["tray"] = "confirming" /\ Identified /\ (up # 0 => Idle)
  /\ Goes("tray", "idle")
  /\ UNCHANGED <<current, backend, task, record, shut, jobs, lock, memory>>

TrayLeaves == ReleaseLease("tray") /\ Goes("tray", "off") /\ Unlocks("tray")

TrayStopsNow ==
  /\ pc["tray"] = "idle" /\ NativeStop /\ TrayLeaves
  /\ UNCHANGED <<current, record, jobs, memory>>

(* Started; the user returns; a task does not end in time; a call fails. *)
TrayReturns ==
  /\ pc["tray"] # "off" /\ TrayLeaves
  /\ UNCHANGED <<current, backend, task, record, jobs, memory>>

-----------------------------------------------------------------------------
(* start, stop and restart of the launcher, which hold no lock.              *)
CommandChecks ==
  /\ "command" \in Used /\ pc["command"] = "off" /\ Identified
  /\ \/ svc /\ (up # 0 => Idle) /\ Goes("command", "idle")
     \/ up = 0 /\ Goes("command", "starting")
  /\ UNCHANGED <<current, backend, task, record, shut, jobs, lock, memory>>

CommandStops ==
  /\ pc["command"] = "idle" /\ NativeStop
  /\ \E to \in {"off", "starting"} : Goes("command", to)
  /\ UNCHANGED <<current, record, shut, jobs, lock, memory>>

CommandStarts ==
  /\ pc["command"] = "starting" /\ NativeStart /\ Goes("command", "off")
  /\ UNCHANGED <<current, task, record, shut, jobs, lock, memory>>

-----------------------------------------------------------------------------
(* A lease of five minutes outlives every step but a dialog.                *)
Expires ==
  /\ shut # "none"
  /\ IF shut \in Proc THEN shut = "tray" /\ pc["tray"] = "asking" ELSE TRUE
  /\ shut' = "none"
  /\ UNCHANGED <<current, backend, task, record, jobs, lock, pc, memory>>

(* Its locks are freed; its lease stays until it runs out. *)
Dies(p) ==
  /\ pc[p] \notin {"off", "done", "failed"}
  /\ Ends(p, "failed") /\ shut' = IF shut = p THEN "orphan" ELSE shut
  /\ UNCHANGED <<current, backend, task, record, jobs>>

Install(p) ==
  \/ InstallBegins(p) \/ Gates(p) \/ ChecksIdle(p) \/ Stops(p) \/ Activates(p)
  \/ Starts(p) \/ IsReady(p) \/ Finishes(p) \/ InstallFails(p)

Restore(p) ==
  \/ RestoreChecks(p) \/ RestoreStops(p) \/ RestorePoints(p) \/ RestoreStarts(p)
  \/ RestoreEnds(p)

Next ==
  \/ Launch \/ Answers \/ BackendCrashes \/ Admit \/ Wakes \/ TaskRests
  \/ RequestChecks \/ RequestWrites \/ RequestSchedules \/ RequestFails
  \/ \E j \in Job : WorkerStarts(j) \/ WorkerIsLate(j) \/ Prepare(j) \/ PrepareFails(j)
  \/ WorkerDownloads \/ WorkerAsks \/ WorkerInstalls \/ WorkerSucceeds
  \/ WorkerFails \/ WorkerRecords \/ WorkerClears
  \/ RecoverClears \/ RecoverRecords
  \/ \E p \in Installer : Install(p)
  \/ \E p \in Restorer : Restore(p)
  \/ TrayStarts \/ TrayStops \/ TrayFindsRest \/ TrayLists \/ TrayChooses \/ TrayWaits
  \/ TrayConfirms \/ TrayStopsNow \/ TrayReturns
  \/ CommandChecks \/ CommandStops \/ CommandStarts
  \/ Expires \/ \E p \in Proc : Dies(p)

Spec == Init /\ [][Next]_vars

-----------------------------------------------------------------------------
WorkerPc == {"downloading", "downloaded", "asking", "installing", "failing", "keeping",
             "clearing"} \union Restoring
InstallerPc == {"begin", "staged", "gated", "idle", "stopped", "activated", "started", "ready",
                "done", "failed"} \union Restoring

TypeOK ==
  /\ current \in Version /\ svc \in BOOLEAN
  /\ up \in Version \union {0} /\ boot \in Version \union {0}
  /\ (up # 0 => svc) /\ (boot # 0 => svc /\ up = 0)
  /\ task \in {"none", "admitted", "woken", "dormant"}
  /\ op \in [state : ACTIVE \union {"none", "succeeded", "failed"}, job : {0} \union Job]
  /\ gate \in {0} \union Job /\ shut \in {"none", "orphan", "tray"} \union Installer
  /\ native \subseteq Job /\ due \subseteq Job /\ asks \subseteq Job
  /\ lock \in [Lock -> {"free"} \union Proc]
  /\ pc["request"] \in {"off", "checked", "written"} /\ pc["recover"] \in {"off", "cleared"}
  /\ pc["worker"] \in {"off"} \union WorkerPc
  /\ pc["tray"] \in {"off", "starting", "listing", "asking", "waiting", "confirming", "idle"}
  /\ pc["command"] \in {"off", "idle", "starting"}
  /\ \A p \in Installer : pc[p] \in {"off"} \union InstallerPc
  /\ job \in {0} \union Job /\ old \in [Restorer -> Version \union {0}] /\ was \in [Installer -> BOOLEAN]

(* A gate that is closed names the update on record, which is not one that    *)
(* waits for its worker: what a worker that died has left closed can always   *)
(* be opened by the user's recovery, which clears the gate of that job only.  *)
GateIsReleasable == gate # 0 => gate = op.job /\ op.state # "queued"

(* A service that is stopped under a gate of an update, or under the stop's    *)
(* own lease, runs no task that was admitted: the last look at the tasks is    *)
(* followed by no admission.                                                *)
SparesAdmitted ==
  (svc /\ ~svc' /\ (gate # 0 \/ \E p \in Proc : pc'[p] # pc[p] /\ shut = p))
    => task # "admitted"
StopSparesAdmitted == [][SparesAdmitted]_vars

(* An installer that has stopped the service, or has found it stopped, switches *)
(* the program while nothing of it runs or is about to: no start of the tray    *)
(* comes between.  The commands of the launcher can.                          *)
SwitchIsDown ==
  \A p \in Installer : was[p] /\ Activates(p) => up = 0 /\ boot = 0 /\ ~svc
SwitchedWhileDown == [][SwitchIsDown]_vars

(* docs/desktop-releases.zh-CN.md:38 says that an upgrade stops the old backend *)
(* and switches the version.  A service that did not answer is not stopped, and *)
(* its backend comes up before the switch.                                    *)
OldIsStopped == \A p \in Installer : pc[p] = "stopped" => up = 0

(* docs/desktop-setup.zh-CN.md:109 says that an update neither cancels nor      *)
(* recovers an operation of a phone by itself.  Of tasks that nobody had to      *)
(* admit it does not hold.                                                   *)
StopSparesTasks ==
  [][(svc /\ ~svc' /\ \E p \in Proc : pc'[p] # pc[p] /\ (gate # 0 \/ shut = p)) => Idle]_vars

(* What a failed installer is to be replaced by is the version it has replaced;  *)
(* the worker has read it before the download.                               *)
RestoresTheLast == pc["worker"] = "installing" /\ pc["setup"] = "begin" => old["worker"] = current

(* "Clearing an interrupted update is offered only when the updater and         *)
(* installer have stopped.  It clears the interrupted state so you can retry"   *)
(* (docs/releases/desktop-0.2.1.md): an update on record with no process behind  *)
(* it can be cleared.                                                        *)
AbandonedIsRecoverable ==
  op.state = "queued" /\ due = {} /\ FreeAll({"request", "run", "install"})
    => op.job \in native
===============================================================================
