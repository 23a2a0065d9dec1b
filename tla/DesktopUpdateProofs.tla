-------------------------- MODULE DesktopUpdateProofs --------------------------
(***************************************************************************)
(* Proofs about the update of an installed desktop (DesktopUpdate): whatever  *)
(* dies wherever, a closed gate can be opened; no admitted task is killed by   *)
(* a stop that closed the admission; and the program, once stopped, is switched *)
(* while it is down.                                                        *)
(*                                                                         *)
(* The three follow from one invariant, which says what the files a process    *)
(* leaves behind have to do with where the others stand: which locks a process *)
(* holds at each step, which record a worker or a request has written, what a   *)
(* restore will put back, and whom the gate and the lease keep out.           *)
(***************************************************************************)
EXTENDS DesktopUpdate, TLAPS

(* The user leaves the commands of the launcher alone: they take no lock. *)
NoCommands == "command" \notin Used

(* An installer between taking its lock and its end. *)
Busy == {"staged", "gated", "idle", "stopped", "activated", "started", "ready"} \union Restoring

(* The steps of the processes are a function on them: TypeOK names the steps  *)
(* one by one, and what changes the step of one has to leave the others'.    *)
IsProgram == pc = [p \in Proc |-> pc[p]]

(* The parts of TypeOK: the program and its tasks, the jobs, the steps.      *)
ProgramOK ==
  /\ current \in Version /\ svc \in BOOLEAN
  /\ up \in Version \union {0} /\ boot \in Version \union {0}
  /\ (up # 0 => svc) /\ (boot # 0 => svc /\ up = 0)
  /\ task \in {"none", "admitted", "woken", "dormant"}
  /\ shut \in {"none", "orphan", "tray"} \union Installer

JobsOK ==
  /\ op \in [state : ACTIVE \union {"none", "succeeded", "failed"}, job : {0} \union Job]
  /\ gate \in {0} \union Job
  /\ native \subseteq Job /\ due \subseteq Job /\ asks \subseteq Job

StepsOK ==
  /\ pc["request"] \in {"off", "checked", "written"} /\ pc["recover"] \in {"off", "cleared"}
  /\ pc["worker"] \in {"off"} \union WorkerPc
  /\ pc["tray"] \in {"off", "starting", "listing", "asking", "waiting", "confirming", "idle"}
  /\ pc["command"] \in {"off", "idle", "starting"}
  /\ \A p \in Installer : pc[p] \in {"off"} \union InstallerPc

(* A process p at the step s holds the lock l. *)
Needs(p, s, l) ==
  \/ p = "request" /\ s # "off" /\ l = "request"
  \/ p = "recover" /\ s # "off" /\ l \in {"request", "run", "install"}
  \/ p = "worker" /\ s # "off" /\ (l = "run" \/ (l = "install" /\ s \in Restoring))
  \/ p \in Installer /\ l = "install" /\ s \in Busy
  \/ p \in Installer /\ l = "lifecycle" /\ s \in {"idle", "stopped", "activated", "started"}
  \/ p = "tray" /\ s # "off" /\ l = "lifecycle"

Held == \A p \in Proc, l \in Lock : Needs(p, pc[p], l) => lock[l] = p

(* The same, of each process by its name. *)
Holders ==
  /\ pc["request"] # "off" => lock["request"] = "request"
  /\ pc["recover"] # "off" => \A l \in {"request", "run", "install"} : lock[l] = "recover"
  /\ pc["worker"] # "off" => lock["run"] = "worker"
  /\ pc["worker"] \in Restoring => lock["install"] = "worker"
  /\ \A p \in Installer :
       /\ pc[p] \in Busy => lock["install"] = p
       /\ pc[p] \in {"idle", "stopped", "activated", "started"} => lock["lifecycle"] = p
  /\ pc["tray"] # "off" => lock["lifecycle"] = "tray"

(* The record, the gate and the jobs the OS has yet to run, by where the worker *)
(* and the request stand: who holds the lock of a run or of a request is the   *)
(* only one to write the record.                                            *)
Record ==
  /\ \A j \in due : j <= op.job
  /\ pc["worker"] # "off" => job \in Job
  /\ pc["worker"] \in {"downloading", "downloaded", "asking"} =>
       op.state = "downloading" /\ op.job = job
  /\ pc["worker"] \in {"installing"} \union Restoring => op.state = "installing" /\ op.job = job
  /\ pc["worker"] \in {"failing", "keeping"} =>
       op.state \in {"downloading", "installing"} /\ op.job = job
  /\ pc["request"] = "checked" => op.state \notin ACTIVE /\ op.job < MaxJob /\ gate = 0
  /\ pc["request"] = "written" =>
       op.state = "queued" /\ op.job \in Job /\ op.job \notin due /\ gate = 0
  /\ GateIsReleasable

(* Between the stop and the switch nothing of the program runs: whoever would  *)
(* start it needs a lock the installer holds.  (An installer that met a loaded  *)
(* service of which nothing answered has not stopped it.)                     *)
Down ==
  NoCommands =>
    /\ pc["command"] = "off"
    /\ \A p \in Installer : pc[p] = "stopped" /\ was[p] => up = 0 /\ boot = 0 /\ ~svc

(* What may yet have to be restored is known. *)
Remembers ==
  \A p \in Restorer :
    pc[p] \in Busy \union {"downloading", "downloaded", "asking", "installing"}
      => old[p] \in Version

(* The steps at which an installer has its lease. *)
Leased == {"gated", "idle", "stopped", "activated", "started"}

(* Whom the gate and a lease keep out: after the last look of the process that *)
(* is about to stop the service, no task is admitted.                        *)
Spared ==
  /\ up = 0 => Idle
  /\ gate # 0 => task # "admitted"
  /\ \A p \in Installer :
       shut = p => pc[p] \in Leased /\ (pc[p] \in {"gated", "idle"} => was[p])
  /\ \A p \in Installer \union {"tray"} :
       shut = p /\ pc[p] = "idle" => task # "admitted"

IInv == TypeOK /\ IsProgram /\ Held /\ Record /\ Down /\ Remembers /\ Spared

-----------------------------------------------------------------------------
LEMMA HeldBy == Held => Holders
<1> SUFFICES ASSUME Held PROVE Holders OBVIOUS
<1> USE DEF Proc, Restorer, Installer, Lock
<1>1. pc["request"] # "off" => lock["request"] = "request"
  BY DEF Held, Needs
<1>2. pc["recover"] # "off" => \A l \in {"request", "run", "install"} : lock[l] = "recover"
  BY DEF Held, Needs
<1>3. pc["worker"] # "off" => lock["run"] = "worker"
  BY DEF Held, Needs
<1>4. pc["worker"] \in Restoring => lock["install"] = "worker"
  BY DEF Held, Needs, Restoring
<1>5. ASSUME NEW p \in Installer
      PROVE  /\ pc[p] \in Busy => lock["install"] = p
             /\ pc[p] \in {"idle", "stopped", "activated", "started"} => lock["lifecycle"] = p
  BY DEF Held, Needs
<1>6. pc["tray"] # "off" => lock["lifecycle"] = "tray"
  BY DEF Held, Needs
<1> QED BY <1>1, <1>2, <1>3, <1>4, <1>5, <1>6 DEF Holders

(* A step of q that leaves the locks of others alone, moves nobody else to a   *)
(* step that needs more, and has what its own step needs, keeps Held.         *)
LEMMA StepKeepsHeld ==
  ASSUME Held, NEW q \in Proc,
         \A l \in Lock : lock[l] \notin {"free", q} => lock'[l] = lock[l],
         \A r \in Proc, l \in Lock : r # q /\ Needs(r, pc'[r], l) => Needs(r, pc[r], l),
         \A l \in Lock : Needs(q, pc'[q], l) => lock'[l] = q
  PROVE  Held'
<1> SUFFICES ASSUME NEW r \in Proc, NEW l \in Lock, Needs(r, pc'[r], l)
             PROVE  lock'[l] = r
  BY DEF Held
<1>1. CASE r = q BY <1>1
<1>2. CASE r # q
  <2>1. lock[l] = r BY <1>2 DEF Held
  <2>2. r # "free" BY DEF Proc, Restorer, Installer
  <2> QED BY <1>2, <2>1, <2>2
<1> QED BY <1>1, <1>2

LEMMA BackendKeeps ==
  ASSUME MaxJobIsNumber, IInv,
         Launch \/ Answers \/ BackendCrashes \/ Admit \/ Wakes \/ TaskRests \/ Expires
  PROVE  IInv'
<1> USE DEF backend, record, jobs, memory, Idle, TaskOnly, Proc, Restorer, Installer, Lock,
      Restoring, Job, WorkerPc, InstallerPc, ACTIVE, Version, NoCommands, MaxJobIsNumber
<1>0. Holders BY HeldBy DEF IInv
<1>1. CASE Launch
  <2>1. TypeOK' BY <1>1 DEF IInv, TypeOK, Launch
  <2>2. IsProgram' /\ Held' /\ Remembers'
    BY <1>1 DEF IInv, IsProgram, Held, Remembers, Launch
  <2>3. Record' BY <1>1 DEF IInv, Record, GateIsReleasable, Launch
  <2>4. Down' BY <1>1 DEF IInv, Down, Launch
  <2>5. Spared' BY <1>1 DEF IInv, Spared, Launch
  <2> QED BY <2>1, <2>2, <2>3, <2>4, <2>5 DEF IInv
<1>2. CASE BackendCrashes
  <2>1. TypeOK' BY <1>2 DEF IInv, TypeOK, BackendCrashes
  <2>2. IsProgram' /\ Held' /\ Remembers'
    BY <1>2 DEF IInv, IsProgram, Held, Remembers, BackendCrashes
  <2>3. Record' BY <1>2 DEF IInv, Record, GateIsReleasable, BackendCrashes
  <2>4. Down' BY <1>2 DEF IInv, Down, BackendCrashes
  <2>5. Spared' BY <1>2 DEF IInv, Spared, BackendCrashes
  <2> QED BY <2>1, <2>2, <2>3, <2>4, <2>5 DEF IInv
<1>3. CASE Admit
  <2>1. TypeOK' BY <1>3 DEF IInv, TypeOK, Admit
  <2>2. IsProgram' /\ Held' /\ Remembers'
    BY <1>3 DEF IInv, IsProgram, Held, Remembers, Admit
  <2>3. Record' BY <1>3 DEF IInv, Record, GateIsReleasable, Admit
  <2>4. Down' BY <1>3 DEF IInv, Down, Admit
  <2>5. Spared' BY <1>3 DEF IInv, Spared, Admit
  <2> QED BY <2>1, <2>2, <2>3, <2>4, <2>5 DEF IInv
<1>4. CASE Wakes
  <2>1. TypeOK' BY <1>4 DEF IInv, TypeOK, Wakes
  <2>2. IsProgram' /\ Held' /\ Remembers'
    BY <1>4 DEF IInv, IsProgram, Held, Remembers, Wakes
  <2>3. Record' BY <1>4 DEF IInv, Record, GateIsReleasable, Wakes
  <2>4. Down' BY <1>4 DEF IInv, Down, Wakes
  <2>5. Spared' BY <1>4 DEF IInv, Spared, Wakes
  <2> QED BY <2>1, <2>2, <2>3, <2>4, <2>5 DEF IInv
<1>5. CASE TaskRests
  <2>1. TypeOK' BY <1>5 DEF IInv, TypeOK, TaskRests
  <2>2. IsProgram' /\ Held' /\ Remembers'
    BY <1>5 DEF IInv, IsProgram, Held, Remembers, TaskRests
  <2>3. Record' BY <1>5 DEF IInv, Record, GateIsReleasable, TaskRests
  <2>4. Down' BY <1>5 DEF IInv, Down, TaskRests
  <2>5. Spared' BY <1>5 DEF IInv, Spared, TaskRests
  <2> QED BY <2>1, <2>2, <2>3, <2>4, <2>5 DEF IInv
<1>6. CASE Expires
  <2>1. TypeOK' BY <1>6 DEF IInv, TypeOK, Expires
  <2>2. IsProgram' /\ Held' /\ Remembers'
    BY <1>6 DEF IInv, IsProgram, Held, Remembers, Expires
  <2>3. Record' BY <1>6 DEF IInv, Record, GateIsReleasable, Expires
  <2>4. Down' BY <1>6 DEF IInv, Down, Expires
  <2>5. Spared' BY <1>6 DEF IInv, Spared, Expires
  <2> QED BY <2>1, <2>2, <2>3, <2>4, <2>5 DEF IInv
<1>7. CASE Answers
  <2>1. TypeOK' BY <1>7 DEF IInv, TypeOK, Answers
  <2>2. IsProgram' /\ Held' /\ Remembers'
    BY <1>7 DEF IInv, IsProgram, Held, Remembers, Answers
  <2>3. Record' BY <1>7 DEF IInv, Record, GateIsReleasable, Answers
  <2>4. Down' BY <1>7 DEF IInv, Down, Answers
  <2>5. Spared' BY <1>7 DEF IInv, Spared, Answers
  <2> QED BY <2>1, <2>2, <2>3, <2>4, <2>5 DEF IInv
<1> QED BY <1>1, <1>2, <1>3, <1>4, <1>5, <1>6, <1>7

LEMMA RequestKeeps ==
  ASSUME MaxJobIsNumber, IInv,
         RequestChecks \/ RequestWrites \/ RequestSchedules \/ RequestFails
  PROVE  IInv'
<1> USE DEF backend, record, jobs, memory, Goes, FreeAll, Locks, Unlocks, Idle, Proc, Restorer,
      Installer, Lock, Restoring, Job, WorkerPc, InstallerPc, ACTIVE, Version, Identified,
      NoCommands, MaxJobIsNumber
<1>0. Holders BY HeldBy DEF IInv
<1>1. CASE RequestChecks
  <2>1. TypeOK' BY <1>1 DEF IInv, TypeOK, RequestChecks
  <2>2. IsProgram' BY <1>1 DEF IInv, IsProgram, RequestChecks
  <2>3. Held'
    <3>1. \A l \in Lock : lock[l] \notin {"free", "request"} => lock'[l] = lock[l]
      BY <1>1 DEF RequestChecks
    <3>2. \A r \in Proc, l \in Lock : r # "request" /\ Needs(r, pc'[r], l) => Needs(r, pc[r], l)
      BY <1>1 DEF IInv, IsProgram, RequestChecks
    <3>3. \A l \in Lock : Needs("request", pc'["request"], l) => lock'[l] = "request"
      BY <1>1 DEF Needs, RequestChecks
    <3> QED BY <3>1, <3>2, <3>3, StepKeepsHeld DEF IInv
  <2>4. Record' BY <1>1 DEF IInv, Record, GateIsReleasable, RequestChecks
  <2>5. Down' BY <1>1 DEF IInv, Down, RequestChecks
  <2>6. Remembers' BY <1>1 DEF IInv, Remembers, RequestChecks
  <2>7. Spared' BY <1>1 DEF IInv, Spared, RequestChecks
  <2> QED BY <2>1, <2>2, <2>3, <2>4, <2>5, <2>6, <2>7 DEF IInv
<1>2. CASE RequestWrites
  <2>1. TypeOK' BY <1>2 DEF IInv, TypeOK, Record, RequestWrites
  <2>2. IsProgram' BY <1>2 DEF IInv, IsProgram, RequestWrites
  <2>3. Held'
    <3>1. \A l \in Lock : lock[l] \notin {"free", "request"} => lock'[l] = lock[l]
      BY <1>2 DEF RequestWrites
    <3>2. \A r \in Proc, l \in Lock : r # "request" /\ Needs(r, pc'[r], l) => Needs(r, pc[r], l)
      BY <1>2 DEF IInv, IsProgram, RequestWrites
    <3>3. \A l \in Lock : Needs("request", pc'["request"], l) => lock'[l] = "request"
      BY <1>2, <1>0 DEF IInv, IsProgram, TypeOK, Needs, Holders, RequestWrites
    <3> QED BY <3>1, <3>2, <3>3, StepKeepsHeld DEF IInv
  <2>4. Record' BY <1>2 DEF IInv, Record, GateIsReleasable, TypeOK, IsProgram, RequestWrites
  <2>5. Down' BY <1>2 DEF IInv, Down, RequestWrites
  <2>6. Remembers' BY <1>2 DEF IInv, Remembers, RequestWrites
  <2>7. Spared' BY <1>2 DEF IInv, Spared, RequestWrites
  <2> QED BY <2>1, <2>2, <2>3, <2>4, <2>5, <2>6, <2>7 DEF IInv
<1>3. CASE RequestSchedules
  <2>1. TypeOK'
    <3>1. ProgramOK' BY <1>3 DEF IInv, TypeOK, ProgramOK, RequestSchedules
    <3>2. JobsOK' BY <1>3 DEF IInv, TypeOK, JobsOK, Record, RequestSchedules
    <3>3. StepsOK' BY <1>3 DEF IInv, TypeOK, StepsOK, RequestSchedules
    <3>4. (job \in {0} \union Job)' /\ (old \in [Restorer -> Version \union {0}])'
      BY <1>3 DEF IInv, TypeOK, RequestSchedules
    <3>5. (lock \in [Lock -> {"free"} \union Proc])'
      BY <1>3 DEF IInv, TypeOK, RequestSchedules
    <3>6. (was \in [Installer -> BOOLEAN])'
      BY <1>3 DEF IInv, TypeOK, RequestSchedules
    <3> QED BY <3>1, <3>2, <3>3, <3>4, <3>5, <3>6 DEF TypeOK, ProgramOK, JobsOK, StepsOK
  <2>2. IsProgram' BY <1>3 DEF IInv, IsProgram, RequestSchedules
  <2>3. Held'
    <3>1. \A l \in Lock : lock[l] \notin {"free", "request"} => lock'[l] = lock[l]
      BY <1>3 DEF RequestSchedules
    <3>2. \A r \in Proc, l \in Lock : r # "request" /\ Needs(r, pc'[r], l) => Needs(r, pc[r], l)
      BY <1>3 DEF IInv, IsProgram, RequestSchedules
    <3>3. \A l \in Lock : Needs("request", pc'["request"], l) => lock'[l] = "request"
      BY <1>3 DEF IInv, IsProgram, TypeOK, Needs, RequestSchedules
    <3> QED BY <3>1, <3>2, <3>3, StepKeepsHeld DEF IInv
  <2>4. Record' BY <1>3 DEF IInv, Record, GateIsReleasable, TypeOK, IsProgram, RequestSchedules
  <2>5. Down' BY <1>3 DEF IInv, Down, RequestSchedules
  <2>6. Remembers' BY <1>3 DEF IInv, Remembers, RequestSchedules
  <2>7. Spared' BY <1>3 DEF IInv, Spared, RequestSchedules
  <2> QED BY <2>1, <2>2, <2>3, <2>4, <2>5, <2>6, <2>7 DEF IInv
<1>4. CASE RequestFails
  <2>1. TypeOK' BY <1>4 DEF IInv, TypeOK, Record, RequestFails
  <2>2. IsProgram' BY <1>4 DEF IInv, IsProgram, RequestFails
  <2>3. Held'
    <3>1. \A l \in Lock : lock[l] \notin {"free", "request"} => lock'[l] = lock[l]
      BY <1>4 DEF RequestFails
    <3>2. \A r \in Proc, l \in Lock : r # "request" /\ Needs(r, pc'[r], l) => Needs(r, pc[r], l)
      BY <1>4 DEF IInv, IsProgram, RequestFails
    <3>3. \A l \in Lock : Needs("request", pc'["request"], l) => lock'[l] = "request"
      BY <1>4 DEF IInv, IsProgram, TypeOK, Needs, RequestFails
    <3> QED BY <3>1, <3>2, <3>3, StepKeepsHeld DEF IInv
  <2>4. Record' BY <1>4 DEF IInv, Record, GateIsReleasable, TypeOK, IsProgram, RequestFails
  <2>5. Down' BY <1>4 DEF IInv, Down, RequestFails
  <2>6. Remembers' BY <1>4 DEF IInv, Remembers, RequestFails
  <2>7. Spared' BY <1>4 DEF IInv, Spared, RequestFails
  <2> QED BY <2>1, <2>2, <2>3, <2>4, <2>5, <2>6, <2>7 DEF IInv
<1> QED BY <1>1, <1>2, <1>3, <1>4

LEMMA WorkerKeeps ==
  ASSUME MaxJobIsNumber, IInv,
         WorkerDownloads \/ WorkerAsks \/ WorkerInstalls \/ WorkerSucceeds \/ WorkerFails \/
         WorkerRecords \/ WorkerClears
  PROVE  IInv'
<1> USE DEF backend, record, jobs, memory, Goes, FreeAll, Unlocks, Ends, Idle, StopsWaiting,
      ClearGate, Proc, Restorer, Installer, Lock, Restoring, Job, WorkerPc, InstallerPc,
      ACTIVE, Version, NoCommands, MaxJobIsNumber
<1>0. Holders BY HeldBy DEF IInv
<1>1. CASE WorkerDownloads
  <2>1. TypeOK' BY <1>1 DEF IInv, TypeOK, WorkerDownloads
  <2>2. IsProgram' BY <1>1 DEF IInv, IsProgram, WorkerDownloads
  <2>3. Held'
    <3>1. \A l \in Lock : lock[l] \notin {"free", "worker"} => lock'[l] = lock[l]
      BY <1>1 DEF WorkerDownloads
    <3>2. \A r \in Proc, l \in Lock : r # "worker" /\ Needs(r, pc'[r], l) => Needs(r, pc[r], l)
      BY <1>1 DEF IInv, IsProgram, WorkerDownloads
    <3>3. \A l \in Lock : Needs("worker", pc'["worker"], l) => lock'[l] = "worker"
      BY <1>1, <1>0 DEF IInv, IsProgram, TypeOK, Needs, Holders, WorkerDownloads
    <3> QED BY <3>1, <3>2, <3>3, StepKeepsHeld DEF IInv
  <2>4. Record' BY <1>1 DEF IInv, Record, GateIsReleasable, WorkerDownloads
  <2>5. Down' BY <1>1 DEF IInv, Down, WorkerDownloads
  <2>6. Remembers' BY <1>1 DEF IInv, Remembers, WorkerDownloads
  <2>7. Spared' BY <1>1 DEF IInv, Spared, WorkerDownloads
  <2> QED BY <2>1, <2>2, <2>3, <2>4, <2>5, <2>6, <2>7 DEF IInv
<1>2. CASE WorkerAsks
  <2>1. TypeOK' BY <1>2 DEF IInv, TypeOK, Record, WorkerAsks
  <2>2. IsProgram' BY <1>2 DEF IInv, IsProgram, WorkerAsks
  <2>3. Held'
    <3>1. \A l \in Lock : lock[l] \notin {"free", "worker"} => lock'[l] = lock[l]
      BY <1>2 DEF WorkerAsks
    <3>2. \A r \in Proc, l \in Lock : r # "worker" /\ Needs(r, pc'[r], l) => Needs(r, pc[r], l)
      BY <1>2 DEF IInv, IsProgram, WorkerAsks
    <3>3. \A l \in Lock : Needs("worker", pc'["worker"], l) => lock'[l] = "worker"
      BY <1>2, <1>0 DEF IInv, IsProgram, TypeOK, Needs, Holders, WorkerAsks
    <3> QED BY <3>1, <3>2, <3>3, StepKeepsHeld DEF IInv
  <2>4. Record' BY <1>2 DEF IInv, Record, GateIsReleasable, WorkerAsks
  <2>5. Down' BY <1>2 DEF IInv, Down, WorkerAsks
  <2>6. Remembers' BY <1>2 DEF IInv, Remembers, WorkerAsks
  <2>7. Spared' BY <1>2 DEF IInv, Spared, WorkerAsks
  <2> QED BY <2>1, <2>2, <2>3, <2>4, <2>5, <2>6, <2>7 DEF IInv
<1>3. CASE WorkerInstalls
  <2>1. TypeOK' BY <1>3 DEF IInv, TypeOK, IsProgram, WorkerInstalls
  <2>2. IsProgram' BY <1>3 DEF IInv, IsProgram, WorkerInstalls
  <2>3. Held'
    <3>1. \A l \in Lock : lock[l] \notin {"free", "worker"} => lock'[l] = lock[l]
      BY <1>3 DEF WorkerInstalls
    <3>2. \A r \in Proc, l \in Lock : r # "worker" /\ Needs(r, pc'[r], l) => Needs(r, pc[r], l)
      BY <1>3 DEF IInv, IsProgram, TypeOK, Needs, Busy, WorkerInstalls
    <3>3. \A l \in Lock : Needs("worker", pc'["worker"], l) => lock'[l] = "worker"
      BY <1>3, <1>0 DEF IInv, IsProgram, TypeOK, Needs, Holders, WorkerInstalls
    <3> QED BY <3>1, <3>2, <3>3, StepKeepsHeld DEF IInv
  <2>4. Record' BY <1>3 DEF IInv, Record, GateIsReleasable, TypeOK, IsProgram, WorkerInstalls
  <2>5. Down' BY <1>3 DEF IInv, Down, IsProgram, WorkerInstalls
  <2>6. Remembers' BY <1>3 DEF IInv, Remembers, IsProgram, Busy, WorkerInstalls
  <2>7. Spared' BY <1>3 DEF IInv, Spared, IsProgram, Leased, WorkerInstalls
  <2> QED BY <2>1, <2>2, <2>3, <2>4, <2>5, <2>6, <2>7 DEF IInv
<1>4. CASE WorkerSucceeds
  <2>1. TypeOK' BY <1>4 DEF IInv, TypeOK, IsProgram, WorkerSucceeds
  <2>2. IsProgram' BY <1>4 DEF IInv, IsProgram, WorkerSucceeds
  <2>3. Held'
    <3>1. \A l \in Lock : lock[l] \notin {"free", "worker"} => lock'[l] = lock[l]
      BY <1>4 DEF WorkerSucceeds
    <3>2. \A r \in Proc, l \in Lock : r # "worker" /\ Needs(r, pc'[r], l) => Needs(r, pc[r], l)
      BY <1>4 DEF IInv, IsProgram, TypeOK, Needs, Busy, WorkerSucceeds
    <3>3. \A l \in Lock : Needs("worker", pc'["worker"], l) => lock'[l] = "worker"
      BY <1>4, <1>0 DEF IInv, IsProgram, TypeOK, Needs, Holders, WorkerSucceeds
    <3> QED BY <3>1, <3>2, <3>3, StepKeepsHeld DEF IInv
  <2>4. Record' BY <1>4 DEF IInv, Record, GateIsReleasable, TypeOK, IsProgram, WorkerSucceeds
  <2>5. Down' BY <1>4 DEF IInv, Down, IsProgram, WorkerSucceeds
  <2>6. Remembers' BY <1>4 DEF IInv, Remembers, IsProgram, Busy, WorkerSucceeds
  <2>7. Spared' BY <1>4 DEF IInv, Spared, IsProgram, Leased, WorkerSucceeds
  <2> QED BY <2>1, <2>2, <2>3, <2>4, <2>5, <2>6, <2>7 DEF IInv
<1>5. CASE WorkerFails
  <2>1. TypeOK' BY <1>5 DEF IInv, TypeOK, IsProgram, WorkerFails
  <2>2. IsProgram' BY <1>5 DEF IInv, IsProgram, WorkerFails
  <2>3. Held'
    <3>1. \A l \in Lock : lock[l] \notin {"free", "worker"} => lock'[l] = lock[l]
      BY <1>5 DEF IInv, TypeOK, WorkerFails
    <3>2. \A r \in Proc, l \in Lock : r # "worker" /\ Needs(r, pc'[r], l) => Needs(r, pc[r], l)
      BY <1>5 DEF IInv, IsProgram, TypeOK, Needs, Busy, WorkerFails
    <3>3. \A l \in Lock : Needs("worker", pc'["worker"], l) => lock'[l] = "worker"
      BY <1>5, <1>0 DEF IInv, IsProgram, TypeOK, Needs, Holders, WorkerFails
    <3> QED BY <3>1, <3>2, <3>3, StepKeepsHeld DEF IInv
  <2>4. Record' BY <1>5 DEF IInv, Record, GateIsReleasable, TypeOK, IsProgram, WorkerFails
  <2>5. Down' BY <1>5 DEF IInv, Down, IsProgram, WorkerFails
  <2>6. Remembers' BY <1>5 DEF IInv, Remembers, IsProgram, Busy, WorkerFails
  <2>7. Spared' BY <1>5 DEF IInv, Spared, IsProgram, Leased, WorkerFails
  <2> QED BY <2>1, <2>2, <2>3, <2>4, <2>5, <2>6, <2>7 DEF IInv
<1>6. CASE WorkerRecords
  <2>1. TypeOK' BY <1>6 DEF IInv, TypeOK, IsProgram, WorkerRecords
  <2>2. IsProgram' BY <1>6 DEF IInv, IsProgram, WorkerRecords
  <2>3. Held'
    <3>1. \A l \in Lock : lock[l] \notin {"free", "worker"} => lock'[l] = lock[l]
      BY <1>6 DEF WorkerRecords
    <3>2. \A r \in Proc, l \in Lock : r # "worker" /\ Needs(r, pc'[r], l) => Needs(r, pc[r], l)
      BY <1>6 DEF IInv, IsProgram, TypeOK, Needs, Busy, WorkerRecords
    <3>3. \A l \in Lock : Needs("worker", pc'["worker"], l) => lock'[l] = "worker"
      BY <1>6, <1>0 DEF IInv, IsProgram, TypeOK, Needs, Holders, WorkerRecords
    <3> QED BY <3>1, <3>2, <3>3, StepKeepsHeld DEF IInv
  <2>4. Record' BY <1>6 DEF IInv, Record, GateIsReleasable, TypeOK, IsProgram, WorkerRecords
  <2>5. Down' BY <1>6 DEF IInv, Down, TypeOK, IsProgram, WorkerRecords
  <2>6. Remembers' BY <1>6 DEF IInv, Remembers, IsProgram, Busy, WorkerRecords
  <2>7. Spared' BY <1>6 DEF IInv, Spared, TypeOK, IsProgram, Leased, WorkerRecords
  <2> QED BY <2>1, <2>2, <2>3, <2>4, <2>5, <2>6, <2>7 DEF IInv
<1>7. CASE WorkerClears
  <2>1. TypeOK' BY <1>7 DEF IInv, TypeOK, WorkerClears
  <2>2. IsProgram' BY <1>7 DEF IInv, IsProgram, WorkerClears
  <2>3. Held'
    <3>1. \A l \in Lock : lock[l] \notin {"free", "worker"} => lock'[l] = lock[l]
      BY <1>7 DEF WorkerClears
    <3>2. \A r \in Proc, l \in Lock : r # "worker" /\ Needs(r, pc'[r], l) => Needs(r, pc[r], l)
      BY <1>7 DEF IInv, IsProgram, TypeOK, Needs, Busy, WorkerClears
    <3>3. \A l \in Lock : Needs("worker", pc'["worker"], l) => lock'[l] = "worker"
      BY <1>7 DEF Needs, WorkerClears
    <3> QED BY <3>1, <3>2, <3>3, StepKeepsHeld DEF IInv
  <2>4. Record' BY <1>7 DEF IInv, Record, GateIsReleasable, WorkerClears
  <2>5. Down' BY <1>7 DEF IInv, Down, WorkerClears
  <2>6. Remembers' BY <1>7 DEF IInv, Remembers, Busy, WorkerClears
  <2>7. Spared' BY <1>7 DEF IInv, Spared, IsProgram, Leased, WorkerClears
  <2> QED BY <2>1, <2>2, <2>3, <2>4, <2>5, <2>6, <2>7 DEF IInv
<1> QED BY <1>1, <1>2, <1>3, <1>4, <1>5, <1>6, <1>7

LEMMA RecoverKeeps ==
  ASSUME MaxJobIsNumber, IInv,
         RecoverClears \/ RecoverRecords
  PROVE  IInv'
<1> USE DEF backend, jobs, memory, Goes, FreeAll, Locks, Unlocks, Idle, ClearGate, Proc,
      Restorer, Installer, Lock, Restoring, Job, WorkerPc, InstallerPc, ACTIVE, Version,
      NoCommands, MaxJobIsNumber
<1>0. Holders BY HeldBy DEF IInv
<1>1. CASE RecoverClears
  <2>1. TypeOK'
    <3>1. ProgramOK' BY <1>1 DEF IInv, TypeOK, ProgramOK, RecoverClears
    <3>2. JobsOK' BY <1>1 DEF IInv, TypeOK, JobsOK, RecoverClears
    <3>3. StepsOK' BY <1>1 DEF IInv, TypeOK, StepsOK, RecoverClears
    <3>4. (job \in {0} \union Job)' /\ (old \in [Restorer -> Version \union {0}])'
      BY <1>1 DEF IInv, TypeOK, RecoverClears
    <3>5. (lock \in [Lock -> {"free"} \union Proc])'
      BY <1>1 DEF IInv, TypeOK, RecoverClears
    <3>6. (was \in [Installer -> BOOLEAN])'
      BY <1>1 DEF IInv, TypeOK, RecoverClears
    <3> QED BY <3>1, <3>2, <3>3, <3>4, <3>5, <3>6 DEF TypeOK, ProgramOK, JobsOK, StepsOK
  <2>2. IsProgram' BY <1>1 DEF IInv, IsProgram, RecoverClears
  <2>3. Held'
    <3>1. \A l \in Lock : lock[l] \notin {"free", "recover"} => lock'[l] = lock[l]
      BY <1>1 DEF RecoverClears
    <3>2. \A r \in Proc, l \in Lock : r # "recover" /\ Needs(r, pc'[r], l) => Needs(r, pc[r], l)
      BY <1>1 DEF IInv, IsProgram, RecoverClears
    <3>3. \A l \in Lock : Needs("recover", pc'["recover"], l) => lock'[l] = "recover"
      BY <1>1 DEF Needs, RecoverClears
    <3> QED BY <3>1, <3>2, <3>3, StepKeepsHeld DEF IInv
  <2>4. Record' BY <1>1 DEF IInv, Record, GateIsReleasable, RecoverClears
  <2>5. Down' BY <1>1 DEF IInv, Down, RecoverClears
  <2>6. Remembers' BY <1>1 DEF IInv, Remembers, RecoverClears
  <2>7. Spared' BY <1>1 DEF IInv, Spared, RecoverClears
  <2> QED BY <2>1, <2>2, <2>3, <2>4, <2>5, <2>6, <2>7 DEF IInv
<1>2. CASE RecoverRecords
  <2>1. TypeOK' BY <1>2 DEF IInv, TypeOK, RecoverRecords
  <2>2. IsProgram' BY <1>2 DEF IInv, IsProgram, RecoverRecords
  <2>3. Held'
    <3>1. \A l \in Lock : lock[l] \notin {"free", "recover"} => lock'[l] = lock[l]
      BY <1>2 DEF RecoverRecords
    <3>2. \A r \in Proc, l \in Lock : r # "recover" /\ Needs(r, pc'[r], l) => Needs(r, pc[r], l)
      BY <1>2 DEF IInv, IsProgram, RecoverRecords
    <3>3. \A l \in Lock : Needs("recover", pc'["recover"], l) => lock'[l] = "recover"
      BY <1>2 DEF IInv, IsProgram, TypeOK, Needs, RecoverRecords
    <3> QED BY <3>1, <3>2, <3>3, StepKeepsHeld DEF IInv
  <2>4. Record' BY <1>2, <1>0 DEF IInv, Record, GateIsReleasable, Holders, RecoverRecords
  <2>5. Down' BY <1>2 DEF IInv, Down, RecoverRecords
  <2>6. Remembers' BY <1>2 DEF IInv, Remembers, RecoverRecords
  <2>7. Spared' BY <1>2 DEF IInv, Spared, RecoverRecords
  <2> QED BY <2>1, <2>2, <2>3, <2>4, <2>5, <2>6, <2>7 DEF IInv
<1> QED BY <1>1, <1>2

LEMMA TrayKeeps ==
  ASSUME MaxJobIsNumber, IInv,
         TrayStarts \/ TrayStops \/ TrayFindsRest \/ TrayLists \/ TrayChooses \/ TrayWaits \/
         TrayConfirms \/ TrayStopsNow \/ TrayReturns
  PROVE  IInv'
<1> USE DEF backend, record, jobs, memory, Goes, FreeAll, Locks, Unlocks, Idle, NativeStart,
      NativeStop, ReleaseLease, TrayLeaves, Proc, Restorer, Installer, Lock, Restoring,
      Job, WorkerPc, InstallerPc, ACTIVE, Version, Identified, NoCommands, MaxJobIsNumber
<1>0. Holders BY HeldBy DEF IInv
<1>1. CASE TrayStarts
  <2>1. TypeOK' BY <1>1 DEF IInv, TypeOK, TrayStarts
  <2>2. IsProgram' BY <1>1 DEF IInv, IsProgram, TrayStarts
  <2>3. Held'
    <3>1. \A l \in Lock : lock[l] \notin {"free", "tray"} => lock'[l] = lock[l]
      BY <1>1 DEF TrayStarts
    <3>2. \A r \in Proc, l \in Lock : r # "tray" /\ Needs(r, pc'[r], l) => Needs(r, pc[r], l)
      BY <1>1 DEF IInv, IsProgram, TrayStarts
    <3>3. \A l \in Lock : Needs("tray", pc'["tray"], l) => lock'[l] = "tray"
      BY <1>1 DEF Needs, TrayStarts
    <3> QED BY <3>1, <3>2, <3>3, StepKeepsHeld DEF IInv
  <2>4. Record' BY <1>1 DEF IInv, Record, GateIsReleasable, TrayStarts
  <2>5. Down' BY <1>1, <1>0 DEF IInv, Down, Holders, Busy, TrayStarts
  <2>6. Remembers' BY <1>1 DEF IInv, Remembers, TrayStarts
  <2>7. Spared' BY <1>1 DEF IInv, Spared, TrayStarts
  <2> QED BY <2>1, <2>2, <2>3, <2>4, <2>5, <2>6, <2>7 DEF IInv
<1>2. CASE TrayStops
  <2>1. TypeOK' BY <1>2 DEF IInv, TypeOK, TrayStops
  <2>2. IsProgram' BY <1>2 DEF IInv, IsProgram, TrayStops
  <2>3. Held'
    <3>1. \A l \in Lock : lock[l] \notin {"free", "tray"} => lock'[l] = lock[l]
      BY <1>2 DEF TrayStops
    <3>2. \A r \in Proc, l \in Lock : r # "tray" /\ Needs(r, pc'[r], l) => Needs(r, pc[r], l)
      BY <1>2 DEF IInv, IsProgram, TrayStops
    <3>3. \A l \in Lock : Needs("tray", pc'["tray"], l) => lock'[l] = "tray"
      BY <1>2 DEF Needs, TrayStops
    <3> QED BY <3>1, <3>2, <3>3, StepKeepsHeld DEF IInv
  <2>4. Record' BY <1>2 DEF IInv, Record, GateIsReleasable, TrayStops
  <2>5. Down' BY <1>2 DEF IInv, Down, TrayStops
  <2>6. Remembers' BY <1>2 DEF IInv, Remembers, TrayStops
  <2>7. Spared' BY <1>2 DEF IInv, Spared, TrayStops
  <2> QED BY <2>1, <2>2, <2>3, <2>4, <2>5, <2>6, <2>7 DEF IInv
<1>3. CASE TrayFindsRest
  <2>1. TypeOK' BY <1>3 DEF IInv, TypeOK, TrayFindsRest
  <2>2. IsProgram' BY <1>3 DEF IInv, IsProgram, TrayFindsRest
  <2>3. Held'
    <3>1. \A l \in Lock : lock[l] \notin {"free", "tray"} => lock'[l] = lock[l]
      BY <1>3 DEF TrayFindsRest
    <3>2. \A r \in Proc, l \in Lock : r # "tray" /\ Needs(r, pc'[r], l) => Needs(r, pc[r], l)
      BY <1>3 DEF IInv, IsProgram, TrayFindsRest
    <3>3. \A l \in Lock : Needs("tray", pc'["tray"], l) => lock'[l] = "tray"
      BY <1>3 DEF Needs, TrayFindsRest
    <3> QED BY <3>1, <3>2, <3>3, StepKeepsHeld DEF IInv
  <2>4. Record' BY <1>3 DEF IInv, Record, GateIsReleasable, TrayFindsRest
  <2>5. Down' BY <1>3 DEF IInv, Down, TrayFindsRest
  <2>6. Remembers' BY <1>3 DEF IInv, Remembers, TrayFindsRest
  <2>7. Spared' BY <1>3 DEF IInv, Spared, TrayFindsRest
  <2> QED BY <2>1, <2>2, <2>3, <2>4, <2>5, <2>6, <2>7 DEF IInv
<1>4. CASE TrayLists
  <2>1. TypeOK' BY <1>4 DEF IInv, TypeOK, TrayLists
  <2>2. IsProgram' BY <1>4 DEF IInv, IsProgram, TrayLists
  <2>3. Held'
    <3>1. \A l \in Lock : lock[l] \notin {"free", "tray"} => lock'[l] = lock[l]
      BY <1>4 DEF TrayLists
    <3>2. \A r \in Proc, l \in Lock : r # "tray" /\ Needs(r, pc'[r], l) => Needs(r, pc[r], l)
      BY <1>4 DEF IInv, IsProgram, TrayLists
    <3>3. \A l \in Lock : Needs("tray", pc'["tray"], l) => lock'[l] = "tray"
      BY <1>4, <1>0 DEF IInv, IsProgram, TypeOK, Needs, Holders, TrayLists
    <3> QED BY <3>1, <3>2, <3>3, StepKeepsHeld DEF IInv
  <2>4. Record' BY <1>4 DEF IInv, Record, GateIsReleasable, TrayLists
  <2>5. Down' BY <1>4 DEF IInv, Down, TrayLists
  <2>6. Remembers' BY <1>4 DEF IInv, Remembers, TrayLists
  <2>7. Spared' BY <1>4 DEF IInv, Spared, TrayLists
  <2> QED BY <2>1, <2>2, <2>3, <2>4, <2>5, <2>6, <2>7 DEF IInv
<1>5. CASE TrayChooses
  <2>1. TypeOK' BY <1>5 DEF IInv, TypeOK, TrayChooses
  <2>2. IsProgram' BY <1>5 DEF IInv, IsProgram, TrayChooses
  <2>3. Held'
    <3>1. \A l \in Lock : lock[l] \notin {"free", "tray"} => lock'[l] = lock[l]
      BY <1>5 DEF TrayChooses
    <3>2. \A r \in Proc, l \in Lock : r # "tray" /\ Needs(r, pc'[r], l) => Needs(r, pc[r], l)
      BY <1>5 DEF IInv, IsProgram, TrayChooses
    <3>3. \A l \in Lock : Needs("tray", pc'["tray"], l) => lock'[l] = "tray"
      BY <1>5, <1>0 DEF IInv, IsProgram, TypeOK, Needs, Holders, TrayChooses
    <3> QED BY <3>1, <3>2, <3>3, StepKeepsHeld DEF IInv
  <2>4. Record' BY <1>5 DEF IInv, Record, GateIsReleasable, TrayChooses
  <2>5. Down' BY <1>5 DEF IInv, Down, TrayChooses
  <2>6. Remembers' BY <1>5 DEF IInv, Remembers, TrayChooses
  <2>7. Spared' BY <1>5 DEF IInv, Spared, TrayChooses
  <2> QED BY <2>1, <2>2, <2>3, <2>4, <2>5, <2>6, <2>7 DEF IInv
<1>6. CASE TrayWaits
  <2>1. TypeOK' BY <1>6 DEF IInv, TypeOK, TrayWaits
  <2>2. IsProgram' BY <1>6 DEF IInv, IsProgram, TrayWaits
  <2>3. Held'
    <3>1. \A l \in Lock : lock[l] \notin {"free", "tray"} => lock'[l] = lock[l]
      BY <1>6 DEF TrayWaits
    <3>2. \A r \in Proc, l \in Lock : r # "tray" /\ Needs(r, pc'[r], l) => Needs(r, pc[r], l)
      BY <1>6 DEF IInv, IsProgram, TrayWaits
    <3>3. \A l \in Lock : Needs("tray", pc'["tray"], l) => lock'[l] = "tray"
      BY <1>6, <1>0 DEF IInv, IsProgram, TypeOK, Needs, Holders, TrayWaits
    <3> QED BY <3>1, <3>2, <3>3, StepKeepsHeld DEF IInv
  <2>4. Record' BY <1>6 DEF IInv, Record, GateIsReleasable, TrayWaits
  <2>5. Down' BY <1>6 DEF IInv, Down, TrayWaits
  <2>6. Remembers' BY <1>6 DEF IInv, Remembers, TrayWaits
  <2>7. Spared' BY <1>6 DEF IInv, Spared, TrayWaits
  <2> QED BY <2>1, <2>2, <2>3, <2>4, <2>5, <2>6, <2>7 DEF IInv
<1>7. CASE TrayConfirms
  <2>1. TypeOK' BY <1>7 DEF IInv, TypeOK, TrayConfirms
  <2>2. IsProgram' BY <1>7 DEF IInv, IsProgram, TrayConfirms
  <2>3. Held'
    <3>1. \A l \in Lock : lock[l] \notin {"free", "tray"} => lock'[l] = lock[l]
      BY <1>7 DEF TrayConfirms
    <3>2. \A r \in Proc, l \in Lock : r # "tray" /\ Needs(r, pc'[r], l) => Needs(r, pc[r], l)
      BY <1>7 DEF IInv, IsProgram, TrayConfirms
    <3>3. \A l \in Lock : Needs("tray", pc'["tray"], l) => lock'[l] = "tray"
      BY <1>7, <1>0 DEF IInv, IsProgram, TypeOK, Needs, Holders, TrayConfirms
    <3> QED BY <3>1, <3>2, <3>3, StepKeepsHeld DEF IInv
  <2>4. Record' BY <1>7 DEF IInv, Record, GateIsReleasable, TrayConfirms
  <2>5. Down' BY <1>7 DEF IInv, Down, TrayConfirms
  <2>6. Remembers' BY <1>7 DEF IInv, Remembers, TrayConfirms
  <2>7. Spared' BY <1>7 DEF IInv, Spared, TrayConfirms
  <2> QED BY <2>1, <2>2, <2>3, <2>4, <2>5, <2>6, <2>7 DEF IInv
<1>8. CASE TrayStopsNow
  <2>1. TypeOK' BY <1>8 DEF IInv, TypeOK, IsProgram, TrayStopsNow
  <2>2. IsProgram' BY <1>8 DEF IInv, IsProgram, TrayStopsNow
  <2>3. Held'
    <3>1. \A l \in Lock : lock[l] \notin {"free", "tray"} => lock'[l] = lock[l]
      BY <1>8 DEF TrayStopsNow
    <3>2. \A r \in Proc, l \in Lock : r # "tray" /\ Needs(r, pc'[r], l) => Needs(r, pc[r], l)
      BY <1>8 DEF IInv, IsProgram, TrayStopsNow
    <3>3. \A l \in Lock : Needs("tray", pc'["tray"], l) => lock'[l] = "tray"
      BY <1>8 DEF IInv, IsProgram, TypeOK, Needs, TrayStopsNow
    <3> QED BY <3>1, <3>2, <3>3, StepKeepsHeld DEF IInv
  <2>4. Record' BY <1>8 DEF IInv, Record, GateIsReleasable, TrayStopsNow
  <2>5. Down' BY <1>8 DEF IInv, Down, TrayStopsNow
  <2>6. Remembers' BY <1>8 DEF IInv, Remembers, TrayStopsNow
  <2>7. Spared' BY <1>8 DEF IInv, Spared, TrayStopsNow
  <2> QED BY <2>1, <2>2, <2>3, <2>4, <2>5, <2>6, <2>7 DEF IInv
<1>9. CASE TrayReturns
  <2>1. TypeOK' BY <1>9 DEF IInv, TypeOK, TrayReturns
  <2>2. IsProgram' BY <1>9 DEF IInv, IsProgram, TrayReturns
  <2>3. Held'
    <3>1. \A l \in Lock : lock[l] \notin {"free", "tray"} => lock'[l] = lock[l]
      BY <1>9 DEF TrayReturns
    <3>2. \A r \in Proc, l \in Lock : r # "tray" /\ Needs(r, pc'[r], l) => Needs(r, pc[r], l)
      BY <1>9 DEF IInv, IsProgram, TrayReturns
    <3>3. \A l \in Lock : Needs("tray", pc'["tray"], l) => lock'[l] = "tray"
      BY <1>9 DEF IInv, IsProgram, TypeOK, Needs, TrayReturns
    <3> QED BY <3>1, <3>2, <3>3, StepKeepsHeld DEF IInv
  <2>4. Record' BY <1>9 DEF IInv, Record, GateIsReleasable, TrayReturns
  <2>5. Down' BY <1>9 DEF IInv, Down, TrayReturns
  <2>6. Remembers' BY <1>9 DEF IInv, Remembers, TrayReturns
  <2>7. Spared' BY <1>9 DEF IInv, Spared, TrayReturns
  <2> QED BY <2>1, <2>2, <2>3, <2>4, <2>5, <2>6, <2>7 DEF IInv
<1> QED BY <1>1, <1>2, <1>3, <1>4, <1>5, <1>6, <1>7, <1>8, <1>9

LEMMA CommandKeeps ==
  ASSUME MaxJobIsNumber, IInv,
         CommandChecks \/ CommandStops \/ CommandStarts
  PROVE  IInv'
<1> USE DEF backend, record, jobs, memory, Goes, Idle, NativeStart, NativeStop, Proc, Restorer,
      Installer, Lock, Restoring, Job, WorkerPc, InstallerPc, ACTIVE, Version, Identified,
      NoCommands, MaxJobIsNumber
<1>0. Holders BY HeldBy DEF IInv
<1>1. CASE CommandChecks
  <2>1. TypeOK' BY <1>1 DEF IInv, TypeOK, IsProgram, CommandChecks
  <2>2. IsProgram' BY <1>1 DEF IInv, IsProgram, CommandChecks
  <2>3. Held'
    <3>1. \A l \in Lock : lock[l] \notin {"free", "command"} => lock'[l] = lock[l]
      BY <1>1 DEF CommandChecks
    <3>2. \A r \in Proc, l \in Lock : r # "command" /\ Needs(r, pc'[r], l) => Needs(r, pc[r], l)
      BY <1>1 DEF IInv, IsProgram, CommandChecks
    <3>3. \A l \in Lock : Needs("command", pc'["command"], l) => lock'[l] = "command"
      BY <1>1 DEF Needs, CommandChecks
    <3> QED BY <3>1, <3>2, <3>3, StepKeepsHeld DEF IInv
  <2>4. Record' BY <1>1 DEF IInv, Record, GateIsReleasable, TypeOK, IsProgram, CommandChecks
  <2>5. Down' BY <1>1 DEF IInv, Down, CommandChecks
  <2>6. Remembers' BY <1>1 DEF IInv, Remembers, IsProgram, CommandChecks
  <2>7. Spared' BY <1>1 DEF IInv, Spared, IsProgram, CommandChecks
  <2> QED BY <2>1, <2>2, <2>3, <2>4, <2>5, <2>6, <2>7 DEF IInv
<1>2. CASE CommandStops
  <2>1. TypeOK'
    <3>1. ProgramOK' BY <1>2 DEF IInv, TypeOK, ProgramOK, CommandStops
    <3>2. JobsOK' BY <1>2 DEF IInv, TypeOK, JobsOK, CommandStops
    <3>3. StepsOK' BY <1>2 DEF IInv, TypeOK, StepsOK, CommandStops
    <3>4. (job \in {0} \union Job)' /\ (old \in [Restorer -> Version \union {0}])'
      BY <1>2 DEF IInv, TypeOK, CommandStops
    <3>5. (lock \in [Lock -> {"free"} \union Proc])'
      BY <1>2 DEF IInv, TypeOK, CommandStops
    <3>6. (was \in [Installer -> BOOLEAN])'
      BY <1>2 DEF IInv, TypeOK, CommandStops
    <3> QED BY <3>1, <3>2, <3>3, <3>4, <3>5, <3>6 DEF TypeOK, ProgramOK, JobsOK, StepsOK
  <2>2. IsProgram' BY <1>2 DEF IInv, IsProgram, CommandStops
  <2>3. Held'
    <3>1. \A l \in Lock : lock[l] \notin {"free", "command"} => lock'[l] = lock[l]
      BY <1>2 DEF CommandStops
    <3>2. \A r \in Proc, l \in Lock : r # "command" /\ Needs(r, pc'[r], l) => Needs(r, pc[r], l)
      BY <1>2 DEF IInv, IsProgram, CommandStops
    <3>3. \A l \in Lock : Needs("command", pc'["command"], l) => lock'[l] = "command"
      BY <1>2 DEF Needs, CommandStops
    <3> QED BY <3>1, <3>2, <3>3, StepKeepsHeld DEF IInv
  <2>4. Record' BY <1>2 DEF IInv, Record, GateIsReleasable, CommandStops
  <2>5. Down' BY <1>2 DEF IInv, Down, CommandStops
  <2>6. Remembers' BY <1>2 DEF IInv, Remembers, CommandStops
  <2>7. Spared' BY <1>2 DEF IInv, Spared, CommandStops
  <2> QED BY <2>1, <2>2, <2>3, <2>4, <2>5, <2>6, <2>7 DEF IInv
<1>3. CASE CommandStarts
  <2>1. TypeOK' BY <1>3 DEF IInv, TypeOK, CommandStarts
  <2>2. IsProgram' BY <1>3 DEF IInv, IsProgram, CommandStarts
  <2>3. Held'
    <3>1. \A l \in Lock : lock[l] \notin {"free", "command"} => lock'[l] = lock[l]
      BY <1>3 DEF CommandStarts
    <3>2. \A r \in Proc, l \in Lock : r # "command" /\ Needs(r, pc'[r], l) => Needs(r, pc[r], l)
      BY <1>3 DEF IInv, IsProgram, CommandStarts
    <3>3. \A l \in Lock : Needs("command", pc'["command"], l) => lock'[l] = "command"
      BY <1>3 DEF Needs, CommandStarts
    <3> QED BY <3>1, <3>2, <3>3, StepKeepsHeld DEF IInv
  <2>4. Record' BY <1>3 DEF IInv, Record, GateIsReleasable, CommandStarts
  <2>5. Down' BY <1>3 DEF IInv, Down, CommandStarts
  <2>6. Remembers' BY <1>3 DEF IInv, Remembers, CommandStarts
  <2>7. Spared' BY <1>3 DEF IInv, Spared, CommandStarts
  <2> QED BY <2>1, <2>2, <2>3, <2>4, <2>5, <2>6, <2>7 DEF IInv
<1> QED BY <1>1, <1>2, <1>3

LEMMA JobKeeps ==
  ASSUME MaxJobIsNumber, IInv, NEW j \in Job,
         WorkerStarts(j) \/ WorkerIsLate(j) \/ Prepare(j) \/ PrepareFails(j)
  PROVE  IInv'
<1> USE DEF backend, record, memory, Goes, FreeAll, Locks, Idle, Proc, Restorer, Installer,
      Lock, Restoring, Job, WorkerPc, InstallerPc, ACTIVE, Version, NoCommands,
      MaxJobIsNumber
<1>0. Holders BY HeldBy DEF IInv
<1>1. CASE WorkerStarts(j)
  <2>1. TypeOK' BY <1>1 DEF IInv, TypeOK, WorkerStarts
  <2>2. IsProgram' BY <1>1 DEF IInv, IsProgram, WorkerStarts
  <2>3. Held'
    <3>1. \A l \in Lock : lock[l] \notin {"free", "worker"} => lock'[l] = lock[l]
      BY <1>1 DEF WorkerStarts
    <3>2. \A r \in Proc, l \in Lock : r # "worker" /\ Needs(r, pc'[r], l) => Needs(r, pc[r], l)
      BY <1>1 DEF IInv, IsProgram, WorkerStarts
    <3>3. \A l \in Lock : Needs("worker", pc'["worker"], l) => lock'[l] = "worker"
      BY <1>1 DEF Needs, WorkerStarts
    <3> QED BY <3>1, <3>2, <3>3, StepKeepsHeld DEF IInv
  <2>4. Record' BY <1>1 DEF IInv, Record, GateIsReleasable, WorkerStarts
  <2>5. Down' BY <1>1 DEF IInv, Down, WorkerStarts
  <2>6. Remembers' BY <1>1 DEF IInv, Remembers, TypeOK, IsProgram, WorkerStarts
  <2>7. Spared' BY <1>1 DEF IInv, Spared, WorkerStarts
  <2> QED BY <2>1, <2>2, <2>3, <2>4, <2>5, <2>6, <2>7 DEF IInv
<1>2. CASE WorkerIsLate(j)
  <2>1. TypeOK' BY <1>2 DEF IInv, TypeOK, WorkerIsLate
  <2>2. IsProgram' /\ Held' /\ Remembers'
    BY <1>2 DEF IInv, IsProgram, Held, Remembers, WorkerIsLate
  <2>3. Record' BY <1>2 DEF IInv, Record, GateIsReleasable, WorkerIsLate
  <2>4. Down' BY <1>2 DEF IInv, Down, WorkerIsLate
  <2>5. Spared' BY <1>2 DEF IInv, Spared, WorkerIsLate
  <2> QED BY <2>1, <2>2, <2>3, <2>4, <2>5 DEF IInv
<1>3. CASE Prepare(j)
  <2>1. TypeOK' BY <1>3 DEF IInv, TypeOK, Prepare
  <2>2. IsProgram' /\ Held' /\ Remembers'
    BY <1>3 DEF IInv, IsProgram, Held, Remembers, Prepare
  <2>3. Record' BY <1>3 DEF IInv, Record, GateIsReleasable, Prepare
  <2>4. Down' BY <1>3 DEF IInv, Down, Prepare
  <2>5. Spared' BY <1>3 DEF IInv, Spared, Prepare
  <2> QED BY <2>1, <2>2, <2>3, <2>4, <2>5 DEF IInv
<1>4. CASE PrepareFails(j)
  <2>1. TypeOK' BY <1>4 DEF IInv, TypeOK, PrepareFails
  <2>2. IsProgram' /\ Held' /\ Remembers'
    BY <1>4 DEF IInv, IsProgram, Held, Remembers, PrepareFails
  <2>3. Record' BY <1>4 DEF IInv, Record, GateIsReleasable, PrepareFails
  <2>4. Down' BY <1>4 DEF IInv, Down, PrepareFails
  <2>5. Spared' BY <1>4 DEF IInv, Spared, PrepareFails
  <2> QED BY <2>1, <2>2, <2>3, <2>4, <2>5 DEF IInv
<1> QED BY <1>1, <1>2, <1>3, <1>4

LEMMA InstallKeeps ==
  ASSUME MaxJobIsNumber, IInv, NEW p \in Installer,
         InstallBegins(p) \/ Gates(p) \/ ChecksIdle(p) \/ Stops(p) \/ Activates(p) \/ Starts(p)
         \/ IsReady(p) \/ Finishes(p) \/ InstallFails(p)
  PROVE  IInv'
<1> USE DEF backend, record, jobs, memory, Goes, FreeAll, Locks, Unlocks, Ends, Idle,
      NativeStart, NativeStop, StopsIfAnswered, ReleaseLease, LeavesGate, Brings, Proc, Restorer,
      Installer, Lock, Restoring, Job, WorkerPc, InstallerPc, ACTIVE, Version, Identified,
      NoCommands, MaxJobIsNumber
<1>0. Holders BY HeldBy DEF IInv
<1>1. CASE InstallBegins(p)
  <2>1. TypeOK' BY <1>1 DEF IInv, TypeOK, InstallBegins
  <2>2. IsProgram' BY <1>1 DEF IInv, IsProgram, InstallBegins
  <2>3. Held'
    <3>1. \A l \in Lock : lock[l] \notin {"free", p} => lock'[l] = lock[l]
      BY <1>1 DEF InstallBegins
    <3>2. \A r \in Proc, l \in Lock : r # p /\ Needs(r, pc'[r], l) => Needs(r, pc[r], l)
      BY <1>1 DEF IInv, IsProgram, InstallBegins
    <3>3. \A l \in Lock : Needs(p, pc'[p], l) => lock'[l] = p
      BY <1>1 DEF Needs, InstallBegins
    <3> QED BY <3>1, <3>2, <3>3, StepKeepsHeld DEF IInv
  <2>4. Record' BY <1>1 DEF IInv, Record, GateIsReleasable, InstallBegins
  <2>5. Down' BY <1>1 DEF IInv, Down, InstallBegins
  <2>6. Remembers' BY <1>1 DEF IInv, Remembers, TypeOK, IsProgram, InstallBegins
  <2>7. Spared' BY <1>1 DEF IInv, Spared, IsProgram, Leased, InstallBegins
  <2> QED BY <2>1, <2>2, <2>3, <2>4, <2>5, <2>6, <2>7 DEF IInv
<1>2. CASE Gates(p)
  <2>1. TypeOK' BY <1>2 DEF IInv, TypeOK, Gates
  <2>2. IsProgram' BY <1>2 DEF IInv, IsProgram, Gates
  <2>3. Held'
    <3>1. \A l \in Lock : lock[l] \notin {"free", p} => lock'[l] = lock[l]
      BY <1>2 DEF Gates
    <3>2. \A r \in Proc, l \in Lock : r # p /\ Needs(r, pc'[r], l) => Needs(r, pc[r], l)
      BY <1>2 DEF IInv, IsProgram, Gates
    <3>3. \A l \in Lock : Needs(p, pc'[p], l) => lock'[l] = p
      BY <1>2, <1>0 DEF IInv, IsProgram, TypeOK, Needs, Holders, Busy, Gates
    <3> QED BY <3>1, <3>2, <3>3, StepKeepsHeld DEF IInv
  <2>4. Record' BY <1>2 DEF IInv, Record, GateIsReleasable, Gates
  <2>5. Down' BY <1>2 DEF IInv, Down, Gates
  <2>6. Remembers' BY <1>2 DEF IInv, Remembers, Busy, Gates
  <2>7. Spared' BY <1>2 DEF IInv, Spared, IsProgram, Leased, Gates
  <2> QED BY <2>1, <2>2, <2>3, <2>4, <2>5, <2>6, <2>7 DEF IInv
<1>3. CASE ChecksIdle(p)
  <2>1. TypeOK' BY <1>3 DEF IInv, TypeOK, ChecksIdle
  <2>2. IsProgram' BY <1>3 DEF IInv, IsProgram, ChecksIdle
  <2>3. Held'
    <3>1. \A l \in Lock : lock[l] \notin {"free", p} => lock'[l] = lock[l]
      BY <1>3 DEF ChecksIdle
    <3>2. \A r \in Proc, l \in Lock : r # p /\ Needs(r, pc'[r], l) => Needs(r, pc[r], l)
      BY <1>3 DEF IInv, IsProgram, ChecksIdle
    <3>3. \A l \in Lock : Needs(p, pc'[p], l) => lock'[l] = p
      BY <1>3, <1>0 DEF IInv, IsProgram, TypeOK, Needs, Holders, Busy, ChecksIdle
    <3> QED BY <3>1, <3>2, <3>3, StepKeepsHeld DEF IInv
  <2>4. Record' BY <1>3 DEF IInv, Record, GateIsReleasable, ChecksIdle
  <2>5. Down' BY <1>3 DEF IInv, Down, ChecksIdle
  <2>6. Remembers' BY <1>3 DEF IInv, Remembers, Busy, ChecksIdle
  <2>7. Spared' BY <1>3 DEF IInv, Spared, IsProgram, Leased, ChecksIdle
  <2> QED BY <2>1, <2>2, <2>3, <2>4, <2>5, <2>6, <2>7 DEF IInv
<1>4. CASE Stops(p)
  <2>1. TypeOK'
    <3>1. ProgramOK' BY <1>4 DEF IInv, TypeOK, ProgramOK, Stops
    <3>2. JobsOK' BY <1>4 DEF IInv, TypeOK, JobsOK, Stops
    <3>3. StepsOK' BY <1>4 DEF IInv, TypeOK, StepsOK, Stops
    <3>4. (job \in {0} \union Job)' /\ (old \in [Restorer -> Version \union {0}])'
      BY <1>4 DEF IInv, TypeOK, Stops
    <3>5. (lock \in [Lock -> {"free"} \union Proc])'
      BY <1>4 DEF IInv, TypeOK, Stops
    <3>6. (was \in [Installer -> BOOLEAN])'
      BY <1>4 DEF IInv, TypeOK, Stops
    <3> QED BY <3>1, <3>2, <3>3, <3>4, <3>5, <3>6 DEF TypeOK, ProgramOK, JobsOK, StepsOK
  <2>2. IsProgram' BY <1>4 DEF IInv, IsProgram, Stops
  <2>3. Held'
    <3>1. \A l \in Lock : lock[l] \notin {"free", p} => lock'[l] = lock[l]
      BY <1>4 DEF Stops
    <3>2. \A r \in Proc, l \in Lock : r # p /\ Needs(r, pc'[r], l) => Needs(r, pc[r], l)
      BY <1>4 DEF IInv, IsProgram, Stops
    <3>3. \A l \in Lock : Needs(p, pc'[p], l) => lock'[l] = p
      BY <1>4, <1>0 DEF IInv, IsProgram, TypeOK, Needs, Holders, Busy, Stops
    <3> QED BY <3>1, <3>2, <3>3, StepKeepsHeld DEF IInv
  <2>4. Record' BY <1>4 DEF IInv, Record, GateIsReleasable, Stops
  <2>5. Down' BY <1>4 DEF IInv, Down, TypeOK, IsProgram, Stops
  <2>6. Remembers' BY <1>4 DEF IInv, Remembers, Busy, Stops
  <2>7. Spared' BY <1>4 DEF IInv, Spared, IsProgram, Leased, Stops
  <2> QED BY <2>1, <2>2, <2>3, <2>4, <2>5, <2>6, <2>7 DEF IInv
<1>5. CASE Activates(p)
  <2>1. TypeOK' BY <1>5 DEF IInv, TypeOK, Activates
  <2>2. IsProgram' BY <1>5 DEF IInv, IsProgram, Activates
  <2>3. Held'
    <3>1. \A l \in Lock : lock[l] \notin {"free", p} => lock'[l] = lock[l]
      BY <1>5 DEF Activates
    <3>2. \A r \in Proc, l \in Lock : r # p /\ Needs(r, pc'[r], l) => Needs(r, pc[r], l)
      BY <1>5 DEF IInv, IsProgram, Activates
    <3>3. \A l \in Lock : Needs(p, pc'[p], l) => lock'[l] = p
      BY <1>5, <1>0 DEF IInv, IsProgram, TypeOK, Needs, Holders, Busy, Activates
    <3> QED BY <3>1, <3>2, <3>3, StepKeepsHeld DEF IInv
  <2>4. Record' BY <1>5 DEF IInv, Record, GateIsReleasable, Activates
  <2>5. Down' BY <1>5 DEF IInv, Down, Activates
  <2>6. Remembers' BY <1>5 DEF IInv, Remembers, Busy, Activates
  <2>7. Spared' BY <1>5 DEF IInv, Spared, IsProgram, Leased, Activates
  <2> QED BY <2>1, <2>2, <2>3, <2>4, <2>5, <2>6, <2>7 DEF IInv
<1>6. CASE Starts(p)
  <2>1. TypeOK' BY <1>6 DEF IInv, TypeOK, Starts
  <2>2. IsProgram' BY <1>6 DEF IInv, IsProgram, Starts
  <2>3. Held'
    <3>1. \A l \in Lock : lock[l] \notin {"free", p} => lock'[l] = lock[l]
      BY <1>6 DEF Starts
    <3>2. \A r \in Proc, l \in Lock : r # p /\ Needs(r, pc'[r], l) => Needs(r, pc[r], l)
      BY <1>6 DEF IInv, IsProgram, Starts
    <3>3. \A l \in Lock : Needs(p, pc'[p], l) => lock'[l] = p
      BY <1>6, <1>0 DEF IInv, IsProgram, TypeOK, Needs, Holders, Busy, Starts
    <3> QED BY <3>1, <3>2, <3>3, StepKeepsHeld DEF IInv
  <2>4. Record' BY <1>6 DEF IInv, Record, GateIsReleasable, Starts
  <2>5. Down' BY <1>6, <1>0 DEF IInv, Down, Holders, Busy, Starts
  <2>6. Remembers' BY <1>6 DEF IInv, Remembers, Busy, Starts
  <2>7. Spared' BY <1>6 DEF IInv, Spared, IsProgram, Leased, Starts
  <2> QED BY <2>1, <2>2, <2>3, <2>4, <2>5, <2>6, <2>7 DEF IInv
<1>7. CASE IsReady(p)
  <2>1. TypeOK' BY <1>7 DEF IInv, TypeOK, IsReady
  <2>2. IsProgram' BY <1>7 DEF IInv, IsProgram, IsReady
  <2>3. Held'
    <3>1. \A l \in Lock : lock[l] \notin {"free", p} => lock'[l] = lock[l]
      BY <1>7 DEF IsReady
    <3>2. \A r \in Proc, l \in Lock : r # p /\ Needs(r, pc'[r], l) => Needs(r, pc[r], l)
      BY <1>7 DEF IInv, IsProgram, IsReady
    <3>3. \A l \in Lock : Needs(p, pc'[p], l) => lock'[l] = p
      BY <1>7, <1>0 DEF IInv, IsProgram, TypeOK, Needs, Holders, Busy, IsReady
    <3> QED BY <3>1, <3>2, <3>3, StepKeepsHeld DEF IInv
  <2>4. Record' BY <1>7 DEF IInv, Record, GateIsReleasable, IsReady
  <2>5. Down' BY <1>7 DEF IInv, Down, IsReady
  <2>6. Remembers' BY <1>7 DEF IInv, Remembers, Busy, IsReady
  <2>7. Spared' BY <1>7 DEF IInv, Spared, IsReady
  <2> QED BY <2>1, <2>2, <2>3, <2>4, <2>5, <2>6, <2>7 DEF IInv
<1>8. CASE Finishes(p)
  <2>1. TypeOK' BY <1>8 DEF IInv, TypeOK, Finishes
  <2>2. IsProgram' BY <1>8 DEF IInv, IsProgram, Finishes
  <2>3. Held'
    <3>1. \A l \in Lock : lock[l] \notin {"free", p} => lock'[l] = lock[l]
      BY <1>8 DEF Finishes
    <3>2. \A r \in Proc, l \in Lock : r # p /\ Needs(r, pc'[r], l) => Needs(r, pc[r], l)
      <4>1. \A r \in Proc : r # p => pc'[r] \in {pc[r], "off"}
        BY <1>8 DEF IInv, IsProgram, Finishes
      <4>2. \A r \in Proc, l \in Lock : ~Needs(r, "off", l)
        BY DEF Needs, Busy
      <4> QED BY <4>1, <4>2
    <3>3. \A l \in Lock : Needs(p, pc'[p], l) => lock'[l] = p
      BY <1>8 DEF IInv, IsProgram, TypeOK, Needs, Busy, Finishes
    <3> QED BY <3>1, <3>2, <3>3, StepKeepsHeld DEF IInv
  <2>4. Record' BY <1>8 DEF IInv, Record, GateIsReleasable, Finishes
  <2>5. Down' BY <1>8 DEF IInv, Down, Finishes
  <2>6. Remembers' BY <1>8 DEF IInv, Remembers, Busy, Finishes
  <2>7. Spared' BY <1>8 DEF IInv, Spared, Finishes
  <2> QED BY <2>1, <2>2, <2>3, <2>4, <2>5, <2>6, <2>7 DEF IInv
<1>9. CASE InstallFails(p)
  <2>1. TypeOK'
    <3>1. ProgramOK' BY <1>9 DEF IInv, TypeOK, ProgramOK, InstallFails
    <3>2. JobsOK' BY <1>9 DEF IInv, TypeOK, JobsOK, InstallFails
    <3>3. StepsOK' BY <1>9 DEF IInv, TypeOK, StepsOK, IsProgram, InstallFails
    <3>4. (job \in {0} \union Job)' /\ (old \in [Restorer -> Version \union {0}])'
      BY <1>9 DEF IInv, TypeOK, InstallFails
    <3>5. (lock \in [Lock -> {"free"} \union Proc])'
      BY <1>9 DEF IInv, TypeOK, InstallFails
    <3>6. (was \in [Installer -> BOOLEAN])'
      BY <1>9 DEF IInv, TypeOK, InstallFails
    <3> QED BY <3>1, <3>2, <3>3, <3>4, <3>5, <3>6 DEF TypeOK, ProgramOK, JobsOK, StepsOK
  <2>2. IsProgram' BY <1>9 DEF IInv, IsProgram, InstallFails
  <2>3. Held'
    <3>1. \A l \in Lock : lock[l] \notin {"free", p} => lock'[l] = lock[l]
      BY <1>9 DEF IInv, TypeOK, InstallFails
    <3>2. \A r \in Proc, l \in Lock : r # p /\ Needs(r, pc'[r], l) => Needs(r, pc[r], l)
      BY <1>9 DEF IInv, IsProgram, InstallFails
    <3>3. \A l \in Lock : Needs(p, pc'[p], l) => lock'[l] = p
      BY <1>9, <1>0 DEF IInv, IsProgram, TypeOK, Needs, Holders, Busy, InstallFails
    <3> QED BY <3>1, <3>2, <3>3, StepKeepsHeld DEF IInv
  <2>4. Record' BY <1>9 DEF IInv, Record, GateIsReleasable, TypeOK, IsProgram, InstallFails
  <2>5. Down' BY <1>9 DEF IInv, Down, IsProgram, InstallFails
  <2>6. Remembers' BY <1>9 DEF IInv, Remembers, IsProgram, Busy, InstallFails
  <2>7. Spared' BY <1>9 DEF IInv, Spared, TypeOK, IsProgram, Leased, InstallFails
  <2> QED BY <2>1, <2>2, <2>3, <2>4, <2>5, <2>6, <2>7 DEF IInv
<1> QED BY <1>1, <1>2, <1>3, <1>4, <1>5, <1>6, <1>7, <1>8, <1>9

LEMMA RestoreKeeps ==
  ASSUME MaxJobIsNumber, IInv, NEW p \in Restorer,
         RestoreChecks(p) \/ RestoreStops(p) \/ RestorePoints(p) \/ RestoreStarts(p) \/
         RestoreEnds(p)
  PROVE  IInv'
<1> USE DEF backend, record, jobs, memory, Goes, Unlocks, Ends, Idle, NativeStart, NativeStop,
      StopsIfAnswered, Proc, Restorer, Installer, Lock, Restoring, Job, WorkerPc,
      InstallerPc, ACTIVE, Version, Identified, NoCommands, MaxJobIsNumber
<1>0. Holders BY HeldBy DEF IInv
<1>1. CASE RestoreChecks(p)
  <2>1. TypeOK' BY <1>1 DEF IInv, TypeOK, RestoreChecks
  <2>2. IsProgram' BY <1>1 DEF IInv, IsProgram, RestoreChecks
  <2>3. Held'
    <3>1. \A l \in Lock : lock[l] \notin {"free", p} => lock'[l] = lock[l]
      BY <1>1 DEF RestoreChecks
    <3>2. \A r \in Proc, l \in Lock : r # p /\ Needs(r, pc'[r], l) => Needs(r, pc[r], l)
      BY <1>1 DEF IInv, IsProgram, RestoreChecks
    <3>3. \A l \in Lock : Needs(p, pc'[p], l) => lock'[l] = p
      BY <1>1, <1>0 DEF IInv, IsProgram, TypeOK, Needs, Holders, Busy, RestoreChecks
    <3> QED BY <3>1, <3>2, <3>3, StepKeepsHeld DEF IInv
  <2>4. Record' BY <1>1 DEF IInv, Record, GateIsReleasable, RestoreChecks
  <2>5. Down' BY <1>1 DEF IInv, Down, RestoreChecks
  <2>6. Remembers' BY <1>1 DEF IInv, Remembers, Busy, RestoreChecks
  <2>7. Spared' BY <1>1 DEF IInv, Spared, IsProgram, Leased, RestoreChecks
  <2> QED BY <2>1, <2>2, <2>3, <2>4, <2>5, <2>6, <2>7 DEF IInv
<1>2. CASE RestoreStops(p)
  <2>1. TypeOK'
    <3>1. ProgramOK'
      <4>1. CASE NativeStop BY <1>2, <4>1 DEF IInv, TypeOK, ProgramOK, RestoreStops
      <4>2. CASE UNCHANGED <<backend, task>>
        BY <1>2, <4>2 DEF IInv, TypeOK, ProgramOK, RestoreStops
      <4> QED BY <1>2, <4>1, <4>2 DEF RestoreStops
    <3>2. JobsOK' BY <1>2 DEF IInv, TypeOK, JobsOK, RestoreStops
    <3>3. StepsOK' BY <1>2 DEF IInv, TypeOK, StepsOK, RestoreStops
    <3>4. (job \in {0} \union Job)' /\ (old \in [Restorer -> Version \union {0}])'
      BY <1>2 DEF IInv, TypeOK, RestoreStops
    <3>5. (lock \in [Lock -> {"free"} \union Proc])'
      BY <1>2 DEF IInv, TypeOK, RestoreStops
    <3>6. (was \in [Installer -> BOOLEAN])'
      BY <1>2 DEF IInv, TypeOK, RestoreStops
    <3> QED BY <3>1, <3>2, <3>3, <3>4, <3>5, <3>6 DEF TypeOK, ProgramOK, JobsOK, StepsOK
  <2>2. IsProgram' BY <1>2 DEF IInv, IsProgram, RestoreStops
  <2>3. Held'
    <3>1. \A l \in Lock : lock[l] \notin {"free", p} => lock'[l] = lock[l]
      BY <1>2 DEF RestoreStops
    <3>2. \A r \in Proc, l \in Lock : r # p /\ Needs(r, pc'[r], l) => Needs(r, pc[r], l)
      BY <1>2 DEF IInv, IsProgram, RestoreStops
    <3>3. \A l \in Lock : Needs(p, pc'[p], l) => lock'[l] = p
      BY <1>2, <1>0 DEF IInv, IsProgram, TypeOK, Needs, Holders, Busy, RestoreStops
    <3> QED BY <3>1, <3>2, <3>3, StepKeepsHeld DEF IInv
  <2>4. Record' BY <1>2 DEF IInv, Record, GateIsReleasable, RestoreStops
  <2>5. Down' BY <1>2 DEF IInv, Down, RestoreStops
  <2>6. Remembers' BY <1>2 DEF IInv, Remembers, Busy, RestoreStops
  <2>7. Spared' BY <1>2 DEF IInv, Spared, IsProgram, Leased, RestoreStops
  <2> QED BY <2>1, <2>2, <2>3, <2>4, <2>5, <2>6, <2>7 DEF IInv
<1>3. CASE RestorePoints(p)
  <2>1. TypeOK'
    <3>1. ProgramOK' BY <1>3 DEF IInv, TypeOK, ProgramOK, Remembers, Busy, RestorePoints
    <3>2. JobsOK' BY <1>3 DEF IInv, TypeOK, JobsOK, RestorePoints
    <3>3. StepsOK' BY <1>3 DEF IInv, TypeOK, StepsOK, RestorePoints
    <3>4. (job \in {0} \union Job)' /\ (old \in [Restorer -> Version \union {0}])'
      BY <1>3 DEF IInv, TypeOK, RestorePoints
    <3>5. (lock \in [Lock -> {"free"} \union Proc])'
      BY <1>3 DEF IInv, TypeOK, RestorePoints
    <3>6. (was \in [Installer -> BOOLEAN])'
      BY <1>3 DEF IInv, TypeOK, RestorePoints
    <3> QED BY <3>1, <3>2, <3>3, <3>4, <3>5, <3>6 DEF TypeOK, ProgramOK, JobsOK, StepsOK
  <2>2. IsProgram' BY <1>3 DEF IInv, IsProgram, RestorePoints
  <2>3. Held'
    <3>1. \A l \in Lock : lock[l] \notin {"free", p} => lock'[l] = lock[l]
      BY <1>3 DEF RestorePoints
    <3>2. \A r \in Proc, l \in Lock : r # p /\ Needs(r, pc'[r], l) => Needs(r, pc[r], l)
      BY <1>3 DEF IInv, IsProgram, RestorePoints
    <3>3. \A l \in Lock : Needs(p, pc'[p], l) => lock'[l] = p
      BY <1>3, <1>0 DEF IInv, IsProgram, TypeOK, Needs, Holders, Busy, RestorePoints
    <3> QED BY <3>1, <3>2, <3>3, StepKeepsHeld DEF IInv
  <2>4. Record' BY <1>3 DEF IInv, Record, GateIsReleasable, RestorePoints
  <2>5. Down' BY <1>3 DEF IInv, Down, RestorePoints
  <2>6. Remembers' BY <1>3 DEF IInv, Remembers, Busy, RestorePoints
  <2>7. Spared' BY <1>3 DEF IInv, Spared, IsProgram, Leased, RestorePoints
  <2> QED BY <2>1, <2>2, <2>3, <2>4, <2>5, <2>6, <2>7 DEF IInv
<1>4. CASE RestoreStarts(p)
  <2>1. TypeOK' BY <1>4 DEF IInv, TypeOK, RestoreStarts
  <2>2. IsProgram' BY <1>4 DEF IInv, IsProgram, RestoreStarts
  <2>3. Held'
    <3>1. \A l \in Lock : lock[l] \notin {"free", p} => lock'[l] = lock[l]
      BY <1>4 DEF RestoreStarts
    <3>2. \A r \in Proc, l \in Lock : r # p /\ Needs(r, pc'[r], l) => Needs(r, pc[r], l)
      BY <1>4 DEF IInv, IsProgram, RestoreStarts
    <3>3. \A l \in Lock : Needs(p, pc'[p], l) => lock'[l] = p
      BY <1>4, <1>0 DEF IInv, IsProgram, TypeOK, Needs, Holders, Busy, RestoreStarts
    <3> QED BY <3>1, <3>2, <3>3, StepKeepsHeld DEF IInv
  <2>4. Record' BY <1>4 DEF IInv, Record, GateIsReleasable, RestoreStarts
  <2>5. Down' BY <1>4, <1>0 DEF IInv, Down, Holders, Busy, RestoreStarts
  <2>6. Remembers' BY <1>4 DEF IInv, Remembers, Busy, RestoreStarts
  <2>7. Spared' BY <1>4 DEF IInv, Spared, IsProgram, Leased, RestoreStarts
  <2> QED BY <2>1, <2>2, <2>3, <2>4, <2>5, <2>6, <2>7 DEF IInv
<1>5. CASE RestoreEnds(p)
  <2>1. TypeOK'
    <3>1. ProgramOK' BY <1>5 DEF IInv, TypeOK, ProgramOK, RestoreEnds
    <3>2. JobsOK' BY <1>5 DEF IInv, TypeOK, JobsOK, RestoreEnds
    <3>3. StepsOK' BY <1>5 DEF IInv, TypeOK, StepsOK, IsProgram, RestoreEnds
    <3>4. (job \in {0} \union Job)' /\ (old \in [Restorer -> Version \union {0}])'
      BY <1>5 DEF IInv, TypeOK, RestoreEnds
    <3>5. (lock \in [Lock -> {"free"} \union Proc])'
      BY <1>5 DEF IInv, TypeOK, RestoreEnds
    <3>6. (was \in [Installer -> BOOLEAN])'
      BY <1>5 DEF IInv, TypeOK, RestoreEnds
    <3> QED BY <3>1, <3>2, <3>3, <3>4, <3>5, <3>6 DEF TypeOK, ProgramOK, JobsOK, StepsOK
  <2>2. IsProgram' BY <1>5 DEF IInv, IsProgram, RestoreEnds
  <2>3. Held'
    <3>1. \A l \in Lock : lock[l] \notin {"free", p} => lock'[l] = lock[l]
      BY <1>5, <1>0 DEF IInv, TypeOK, Holders, RestoreEnds
    <3>2. \A r \in Proc, l \in Lock : r # p /\ Needs(r, pc'[r], l) => Needs(r, pc[r], l)
      BY <1>5 DEF IInv, IsProgram, RestoreEnds
    <3>3. \A l \in Lock : Needs(p, pc'[p], l) => lock'[l] = p
      BY <1>5, <1>0 DEF IInv, IsProgram, TypeOK, Needs, Holders, Busy, RestoreEnds
    <3> QED BY <3>1, <3>2, <3>3, StepKeepsHeld DEF IInv
  <2>4. Record' BY <1>5 DEF IInv, Record, GateIsReleasable, TypeOK, IsProgram, RestoreEnds
  <2>5. Down' BY <1>5 DEF IInv, Down, IsProgram, RestoreEnds
  <2>6. Remembers' BY <1>5 DEF IInv, Remembers, IsProgram, Busy, RestoreEnds
  <2>7. Spared' BY <1>5 DEF IInv, Spared, IsProgram, Leased, RestoreEnds
  <2> QED BY <2>1, <2>2, <2>3, <2>4, <2>5, <2>6, <2>7 DEF IInv
<1> QED BY <1>1, <1>2, <1>3, <1>4, <1>5

LEMMA DeathKeeps ==
  ASSUME MaxJobIsNumber, IInv, NEW p \in Proc,
         Dies(p)
  PROVE  IInv'
<1> USE DEF backend, record, jobs, Unlocks, Ends, Idle, Proc, Restorer, Installer, Lock,
      Restoring, Job, WorkerPc, InstallerPc, ACTIVE, Version, NoCommands, MaxJobIsNumber
<1>0. Holders BY HeldBy DEF IInv
<1>1. CASE Dies(p)
  <2>1. TypeOK' BY <1>1 DEF IInv, TypeOK, Dies
  <2>2. IsProgram' BY <1>1 DEF IInv, IsProgram, Dies
  <2>3. Held'
    <3>1. \A l \in Lock : lock[l] \notin {"free", p} => lock'[l] = lock[l]
      BY <1>1 DEF Dies
    <3>2. \A r \in Proc, l \in Lock : r # p /\ Needs(r, pc'[r], l) => Needs(r, pc[r], l)
      <4>1. \A r \in Proc : r # p => pc'[r] \in {pc[r], "off"}
        BY <1>1 DEF IInv, IsProgram, Dies
      <4>2. \A r \in Proc, l \in Lock : ~Needs(r, "off", l)
        BY DEF Needs, Busy
      <4> QED BY <4>1, <4>2
    <3>3. \A l \in Lock : Needs(p, pc'[p], l) => lock'[l] = p
      BY <1>1 DEF IInv, IsProgram, TypeOK, Needs, Busy, Dies
    <3> QED BY <3>1, <3>2, <3>3, StepKeepsHeld DEF IInv
  <2>4. Record' BY <1>1 DEF IInv, Record, GateIsReleasable, Dies
  <2>5. Down' BY <1>1 DEF IInv, Down, TypeOK, Dies
  <2>6. Remembers' BY <1>1 DEF IInv, Remembers, Busy, Dies
  <2>7. Spared' BY <1>1 DEF IInv, Spared, TypeOK, IsProgram, Leased, Dies
  <2> QED BY <2>1, <2>2, <2>3, <2>4, <2>5, <2>6, <2>7 DEF IInv
<1> QED BY <1>1

-----------------------------------------------------------------------------
LEMMA InitHolds == ASSUME Init PROVE IInv
<1> USE DEF Init, record, Proc, Restorer, Installer, Lock
<1>1. TypeOK
  BY DEF TypeOK, Version, ACTIVE, Job
<1>2. IsProgram
  BY DEF IsProgram
<1>3. Held
  BY DEF Held, Needs, Busy, Restoring
<1>4. Record
  BY DEF Record, GateIsReleasable, Restoring
<1>5. Down
  BY DEF Down
<1>6. Remembers
  BY DEF Remembers, Busy, Restoring
<1>7. Spared
  BY DEF Spared, Idle
<1> QED BY <1>1, <1>2, <1>3, <1>4, <1>5, <1>6, <1>7 DEF IInv

LEMMA StutterKeeps == ASSUME IInv, UNCHANGED vars PROVE IInv'
<1> USE DEF IInv, vars, backend, record, jobs, memory
<1>1. TypeOK' BY DEF TypeOK
<1>2. IsProgram' /\ Held'
  BY DEF IsProgram, Held
<1>3. Record' BY DEF Record, GateIsReleasable
<1>4. Down' /\ Remembers'
  BY DEF Down, Remembers
<1>5. Spared' BY DEF Spared, Idle
<1> QED BY <1>1, <1>2, <1>3, <1>4, <1>5

LEMMA NextKeeps == ASSUME MaxJobIsNumber, IInv, [Next]_vars PROVE IInv'
<1>1. CASE Launch \/ Answers \/ BackendCrashes \/ Admit \/ Wakes \/ TaskRests \/ Expires
  BY <1>1, BackendKeeps
<1>2. CASE RequestChecks \/ RequestWrites \/ RequestSchedules \/ RequestFails
  BY <1>2, RequestKeeps
<1>3. CASE WorkerDownloads \/ WorkerAsks \/ WorkerInstalls \/ WorkerSucceeds
             \/ WorkerFails \/ WorkerRecords \/ WorkerClears
  BY <1>3, WorkerKeeps
<1>4. CASE RecoverClears \/ RecoverRecords
  BY <1>4, RecoverKeeps
<1>5. CASE TrayStarts \/ TrayStops \/ TrayFindsRest \/ TrayLists \/ TrayChooses \/ TrayWaits
             \/ TrayConfirms \/ TrayStopsNow \/ TrayReturns
  BY <1>5, TrayKeeps
<1>6. CASE CommandChecks \/ CommandStops \/ CommandStarts
  BY <1>6, CommandKeeps
<1>7. CASE \E j \in Job : WorkerStarts(j) \/ WorkerIsLate(j) \/ Prepare(j) \/ PrepareFails(j)
  BY <1>7, JobKeeps
<1>8. CASE \E p \in Installer : Install(p)
  BY <1>8, InstallKeeps DEF Install
<1>9. CASE \E p \in Restorer : Restore(p)
  BY <1>9, RestoreKeeps DEF Restore
<1>10. CASE \E p \in Proc : Dies(p)
  BY <1>10, DeathKeeps
<1>11. CASE UNCHANGED vars
  BY <1>11, StutterKeeps
<1> QED BY <1>1, <1>2, <1>3, <1>4, <1>5, <1>6, <1>7, <1>8, <1>9, <1>10, <1>11 DEF Next

(* The strengthened invariant, for any number of updates, any versions and      *)
(* whatever of the tray, the launcher and an installer at hand is used.        *)
THEOREM InvariantHolds == ASSUME MaxJobIsNumber PROVE Spec => []IInv
<1>1. Init => IInv
  BY InitHolds
<1>2. IInv /\ [Next]_vars => IInv'
  BY NextKeeps
<1> QED BY <1>1, <1>2, PTL DEF Spec

(* The program, the records of updates, the locks and the processes that share  *)
(* them are well typed; a service that is not loaded runs no backend.          *)
THEOREM TypeCorrect == ASSUME MaxJobIsNumber PROVE Spec => []TypeOK
<1>1. IInv => TypeOK
  BY DEF IInv
<1> QED BY <1>1, InvariantHolds, PTL

(* Whatever dies wherever, a gate that is closed names the update on record     *)
(* and this one is not queued, so that recover can open it (prepare, request,  *)
(* recover, clear_maintenance).                                             *)
THEOREM GateOpens == ASSUME MaxJobIsNumber PROVE Spec => []GateIsReleasable
<1>1. IInv => GateIsReleasable
  BY DEF IInv, Record
<1> QED BY <1>1, InvariantHolds, PTL

-----------------------------------------------------------------------------
(* What stops the service: an installer, a restore, the tray and the launcher,  *)
(* each of which changes its own step only.                                 *)
LEMMA StopsAre ==
  ASSUME IInv, Next, svc, ~svc'
  PROVE  \/ \E p \in Installer : Stops(p)
         \/ \E p \in Restorer : RestoreStops(p)
         \/ TrayStopsNow \/ CommandStops
<1> USE DEF backend
<1>1. CASE Launch \/ Answers \/ BackendCrashes \/ Admit \/ Wakes \/ TaskRests \/ Expires
  BY <1>1 DEF Launch, Answers, BackendCrashes, Admit, Wakes, TaskRests, Expires, TaskOnly
<1>2. CASE RequestChecks \/ RequestWrites \/ RequestSchedules \/ RequestFails
  BY <1>2 DEF RequestChecks, RequestWrites, RequestSchedules, RequestFails
<1>3. CASE WorkerDownloads \/ WorkerAsks \/ WorkerInstalls \/ WorkerSucceeds
             \/ WorkerFails \/ WorkerRecords \/ WorkerClears
  BY <1>3 DEF WorkerDownloads, WorkerAsks, WorkerInstalls, WorkerSucceeds,
              WorkerFails, WorkerRecords, WorkerClears
<1>4. CASE RecoverClears \/ RecoverRecords
  BY <1>4 DEF RecoverClears, RecoverRecords
<1>5. CASE TrayStarts \/ TrayStops \/ TrayFindsRest \/ TrayLists \/ TrayChooses \/ TrayWaits
             \/ TrayConfirms \/ TrayStopsNow \/ TrayReturns
  BY <1>5 DEF TrayStarts, TrayStops, TrayFindsRest, TrayLists, TrayChooses, TrayWaits,
              TrayConfirms, TrayReturns, NativeStart
<1>6. CASE CommandChecks \/ CommandStops \/ CommandStarts
  BY <1>6 DEF CommandChecks, CommandStarts, NativeStart
<1>7. CASE \E j \in Job : WorkerStarts(j) \/ WorkerIsLate(j) \/ Prepare(j) \/ PrepareFails(j)
  BY <1>7 DEF WorkerStarts, WorkerIsLate, Prepare, PrepareFails
<1>8. CASE \E p \in Installer : Install(p)
  BY <1>8 DEF Install, InstallBegins, Gates, ChecksIdle, Activates, Starts, IsReady, Finishes,
              InstallFails, NativeStart
<1>9. CASE \E p \in Restorer : Restore(p)
  BY <1>9 DEF Restore, RestoreChecks, RestorePoints, RestoreStarts, RestoreEnds, NativeStart
<1>10. CASE \E p \in Proc : Dies(p)
  BY <1>10 DEF Dies
<1> QED BY <1>1, <1>2, <1>3, <1>4, <1>5, <1>6, <1>7, <1>8, <1>9, <1>10 DEF Next

LEMMA StepSpares == ASSUME MaxJobIsNumber, IInv, [Next]_vars PROVE [SparesAdmitted]_vars
<1> SUFFICES ASSUME Next, svc, ~svc', NEW q \in Proc, pc'[q] # pc[q] /\ shut = q, gate = 0
             PROVE  task # "admitted"
  BY DEF IInv, Spared, SparesAdmitted
<1> USE DEF IInv, Spared, Goes, Proc, Restorer, Installer
<1>1. ASSUME NEW p \in Installer, Stops(p) PROVE task # "admitted"
  <2>1. q = p
    BY <1>1 DEF Stops, IsProgram
  <2> QED BY <1>1, <2>1 DEF Stops
<1>2. ASSUME NEW p \in Restorer, RestoreStops(p) PROVE task # "admitted"
  <2>1. q = p
    BY <1>2 DEF RestoreStops, IsProgram
  <2>2. shut # p
    BY <1>2 DEF RestoreStops, Leased, TypeOK
  <2> QED BY <2>1, <2>2
<1>3. CASE TrayStopsNow
  <2>1. q = "tray"
    BY <1>3 DEF TrayStopsNow, TrayLeaves, IsProgram
  <2> QED BY <1>3, <2>1 DEF TrayStopsNow
<1>4. CASE CommandStops
  <2>1. q = "command"
    BY <1>4 DEF CommandStops, IsProgram
  <2> QED BY <2>1 DEF TypeOK
<1> QED BY <1>1, <1>2, <1>3, <1>4, StopsAre

(* No admitted task is killed by a stop under the gate of an update, or under   *)
(* the lease of the process that stops the service (task_gate, stop, prepare). *)
THEOREM AdmittedAreSpared == ASSUME MaxJobIsNumber PROVE Spec => StopSparesAdmitted
<1>1. IInv /\ [Next]_vars => [SparesAdmitted]_vars
  BY StepSpares
<1> QED BY <1>1, InvariantHolds, PTL DEF Spec, StopSparesAdmitted

LEMMA SwitchesDown == ASSUME NoCommands, IInv PROVE SwitchIsDown
  BY DEF IInv, Down, SwitchIsDown, Activates

(* As long as nobody uses the commands of the launcher, an installer that has   *)
(* stopped the service, or has found it stopped, switches the program while no  *)
(* backend runs, starts or can be started (lifecycle_lock, install).          *)
THEOREM SwitchIsSafe == ASSUME MaxJobIsNumber, NoCommands PROVE Spec => SwitchedWhileDown
<1>1. IInv => SwitchIsDown
  BY SwitchesDown
<1> QED BY <1>1, InvariantHolds, PTL DEF SwitchedWhileDown
=============================================================================
