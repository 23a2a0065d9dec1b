-------------------------- MODULE ExecutionJournal --------------------------
(***************************************************************************)
(* The execution journal beside the Driver (driver/execution_journal.py):  *)
(* one SQLite file that deduplicates operation ids and fences device       *)
(* input, the per-device input lock, and the supervised adb processes that *)
(* really touch the phone (driver/adb.py, driver/owned_subprocess.py, the  *)
(* POSIX path).                                                            *)
(*                                                                         *)
(* Every SQLite transaction, lock operation and process event is a step of *)
(* its own: the journal directory is shared by the runtime process, its    *)
(* worker threads and one supervisor process per adb command.              *)
(*                                                                         *)
(* A holder stands for the pair (task_id, epoch) of an envelope, a payload *)
(* for what the journal compares of the action (its digest and task).      *)
(***************************************************************************)
EXTENDS Integers

CONSTANTS Device,    \* device keys
          Op,        \* operation ids
          Holder,    \* (task_id, epoch) pairs
          Payload,   \* what args_digest and task_id tell apart
          Fences,    \* device_fence numbers a caller may present
          Call,      \* act handlers that can be under way at once
          Drain,     \* fence handlers and release-time drains under way at once
          MaxSub,    \* bound: adb commands of one compound action
          MaxCrash,  \* bound: crashes of the runtime process
          SlowStart, \* may a command reach its time limit while it still starts?
          NoEnvelope, NoHolder, Free

ASSUME FencesAreNumbers == Fences \subseteq (Nat \ {0})
ASSUME BoundsAreNumbers == MaxSub \in Nat \ {0} /\ MaxCrash \in Nat
ASSUME SlowStartIsBoolean == SlowStart \in BOOLEAN
ASSUME NullsAreNew == NoHolder \notin Holder /\ Free \notin Call \union Drain
ASSUME NoSharedProcess == Call \intersect Drain = {}

Envelope == [op : Op, device : Device, fence : Fences, holder : Holder, payload : Payload]
ASSUME NoEnvelopeIsNew == NoEnvelope \notin Envelope

Ordinal == 0 .. MaxSub - 1
Command == Op \X Ordinal

VARIABLES
  guard,      \* guards: the authority that may send input to a device
  status,     \* operations.status of an op id, "absent" without a row
  env,        \* the envelope an operation row was inserted for
  issued,     \* number of subactions rows of an op
  started,    \* ghost: how often execute() was entered for an op
  inputLock,  \* holder of input-<device>.lock
  pc,         \* where an act handler (or its worker thread) stands
  req,        \* the envelope an act handler serves
  detached,   \* the coroutine was cancelled, only its worker thread is left
  command,    \* the supervisor process of a subaction
  children,   \* the children table
  phase,      \* where a fence handler or drain stands
  target,     \* the device it drains
  below,      \* ghost: it may report every fence below this quiescent
  seen,       \* the children rows it read
  rows,       \* those it has still to kill
  left,       \* the operations whose child lock it has still to probe
  drained,    \* ghost: every fence below it was reported quiescent
  crashes

rowVars == <<status, env, issued, started>>
callVars == <<pc, req, detached>>
drainVars == <<phase, target, below, seen, rows, left>>
vars == <<guard, rowVars, inputLock, callVars, command, children, drainVars,
          drained, crashes>>

CallPc == {"idle", "admitted", "accepted", "ready", "command"}
DrainPhase == {"idle", "wait", "kill", "probe"}
\* none: not spawned; starting: spawned, no lock yet; locked: child lock taken;
\* checked: guard found current; running: registered, adb command started;
\* orphan: supervisor killed, its adb command still runs; gone: nothing left.
CommandState == {"none", "starting", "locked", "checked", "running", "orphan", "gone"}

NoGuard == [fence |-> 0, holder |-> NoHolder, closed |-> TRUE]

-----------------------------------------------------------------------------
(* ExecutionJournal.check: the guard names exactly this envelope's authority. *)
Authorized(e) ==
  /\ ~guard[e.device].closed
  /\ guard[e.device].fence = e.fence
  /\ guard[e.device].holder = e.holder

(* Every fence below this number has lost its authority over the device. *)
RevokedBelow(d) == IF guard[d].closed THEN guard[d].fence + 1 ELSE guard[d].fence

Touching == {"checked", "running", "orphan"}   \* input is or may be on its way
HoldsChildLock == {"locked", "checked", "running"}
ChildLockHeld(o) == \E i \in Ordinal : command[<<o, i>>] \in HoldsChildLock
Alive == {"starting", "locked", "checked", "running"}

DeviceCommands(d) == {k \in Command : status[k[1]] # "absent" /\ env[k[1]].device = d}
Registered(d) == children \intersect DeviceCommands(d)
DeviceOps(d) == {o \in Op : status[o] # "absent" /\ env[o].device = d}

CurrentCommand(c) == <<req[c].op, issued[req[c].op] - 1>>
MaxOf(m, n) == IF m > n THEN m ELSE n
MinOf(m, n) == IF m < n THEN m ELSE n

Init ==
  /\ guard = [d \in Device |-> NoGuard]
  /\ status = [o \in Op |-> "absent"]
  /\ env = [o \in Op |-> NoEnvelope]
  /\ issued = [o \in Op |-> 0]
  /\ started = [o \in Op |-> 0]
  /\ inputLock = [d \in Device |-> Free]
  /\ pc = [c \in Call |-> "idle"]
  /\ req = [c \in Call |-> NoEnvelope]
  /\ detached = [c \in Call |-> FALSE]
  /\ command = [k \in Command |-> "none"]
  /\ children = {}
  /\ phase = [p \in Drain |-> "idle"]
  /\ target \in [Drain -> Device]
  /\ below = [p \in Drain |-> 0]
  /\ seen = [p \in Drain |-> {}]
  /\ rows = [p \in Drain |-> {}]
  /\ left = [p \in Drain |-> {}]
  /\ drained = [d \in Device |-> 0]
  /\ crashes = 0

-----------------------------------------------------------------------------
(* What leaving _act_locked does to the input lock. *)
Unlock(c) ==
  inputLock' = [d \in Device |-> IF inputLock[d] = c THEN Free ELSE inputLock[d]]

HandlerEnds(c) ==
  /\ pc' = [pc EXCEPT ![c] = "idle"]
  /\ req' = [req EXCEPT ![c] = NoEnvelope]
  /\ detached' = [detached EXCEPT ![c] = FALSE]

(* act: the outer check and _existing_result.  A stale envelope is refused and *)
(* a known id answered from its row; neither changes any state.                *)
Act(c, e) ==
  /\ pc[c] = "idle"
  /\ Authorized(e)
  /\ status[e.op] = "absent"
  /\ pc' = [pc EXCEPT ![c] = "admitted"]
  /\ req' = [req EXCEPT ![c] = e]
  /\ UNCHANGED <<guard, rowVars, inputLock, detached, command, children, drainVars,
                 drained, crashes>>

(* Mutant: the row is not looked up again under the input lock. *)
AcceptWithoutSecondLook(c) ==
  LET e == req[c] IN
  /\ pc[c] = "admitted"
  /\ inputLock[e.device] = Free
  /\ Authorized(e)
  /\ status' = [status EXCEPT ![e.op] = "accepted"]
  /\ env' = [env EXCEPT ![e.op] = e]
  /\ inputLock' = [inputLock EXCEPT ![e.device] = c]
  /\ pc' = [pc EXCEPT ![c] = "accepted"]
  /\ UNCHANGED <<guard, issued, started, req, detached, command, children,
                 drainVars, drained, crashes>>

(* _act_locked up to the INSERT: input lock, guard again, row again, "accepted". *)
Accept(c) ==
  LET e == req[c] IN
  /\ pc[c] = "admitted"
  /\ inputLock[e.device] = Free
  /\ Authorized(e)
  /\ status[e.op] = "absent"
  /\ status' = [status EXCEPT ![e.op] = "accepted"]
  /\ env' = [env EXCEPT ![e.op] = e]
  /\ inputLock' = [inputLock EXCEPT ![e.device] = c]
  /\ pc' = [pc EXCEPT ![c] = "accepted"]
  /\ UNCHANGED <<guard, issued, started, req, detached, command, children,
                 drainVars, drained, crashes>>

(* Lock busy, authority lost or the id answered meanwhile: the handler returns. *)
Refuse(c) ==
  /\ pc[c] = "admitted"
  /\ \/ inputLock[req[c].device] # Free
     \/ ~Authorized(req[c])
     \/ status[req[c].op] # "absent"
  /\ HandlerEnds(c)
  /\ UNCHANGED <<guard, rowVars, inputLock, command, children, drainVars, drained,
                 crashes>>

(* The guard is read once more before execute() is awaited. *)
Execute(c) ==
  /\ pc[c] = "accepted"
  /\ Authorized(req[c])
  /\ started' = [started EXCEPT ![req[c].op] = @ + 1]
  /\ pc' = [pc EXCEPT ![c] = "ready"]
  /\ UNCHANGED <<guard, status, env, issued, inputLock, req, detached, command,
                 children, drainVars, drained, crashes>>

(* The handler ends by an exception: the row keeps "accepted" and no result. *)
Fail(c) ==
  /\ \/ pc[c] = "accepted" /\ ~Authorized(req[c])
     \/ pc[c] = "ready"
  /\ Unlock(c)
  /\ HandlerEnds(c)
  /\ UNCHANGED <<guard, rowVars, command, children, drainVars, drained, crashes>>

(* execute() returned: the receipt is stored before the lock is released. *)
Return(c) ==
  /\ pc[c] = "ready"
  /\ ~detached[c]
  /\ status' = [status EXCEPT ![req[c].op] = "returned"]
  /\ Unlock(c)
  /\ HandlerEnds(c)
  /\ UNCHANGED <<guard, env, issued, started, command, children, drainVars,
                 drained, crashes>>

(* The coroutine is cancelled while its to_thread worker runs: the input lock  *)
(* is released, the thread goes on with the remaining commands of the action.  *)
Cancel(c) ==
  /\ pc[c] \in {"ready", "command"}
  /\ ~detached[c]
  /\ Unlock(c)
  /\ detached' = [detached EXCEPT ![c] = TRUE]
  /\ UNCHANGED <<guard, rowVars, pc, req, command, children, drainVars, drained,
                 crashes>>

-----------------------------------------------------------------------------
(* adb._run: check, begin_subaction, Popen of the supervisor. *)
BeginSubaction(c) ==
  LET o == req[c].op IN
  /\ pc[c] = "ready"
  /\ Authorized(req[c])
  /\ issued[o] < MaxSub
  /\ command' = [command EXCEPT ![<<o, issued[o]>>] = "starting"]
  /\ issued' = [issued EXCEPT ![o] = @ + 1]
  /\ pc' = [pc EXCEPT ![c] = "command"]
  /\ UNCHANGED <<guard, status, env, started, inputLock, req, detached, children,
                 drainVars, drained, crashes>>

(* adb._run gives up on the command: proc.kill() kills the supervisor only.    *)
(* The limit is at least 10 s after the spawn; unless SlowStart, no drain is   *)
(* under way that read the children table before this command was registered.  *)
CommandTimeout(c) ==
  LET k == CurrentCommand(c) IN
  /\ pc[c] = "command"
  /\ command[k] \in Alive
  /\ SlowStart \/ \A p \in Drain : phase[p] \in {"kill", "probe"} /\ target[p] = req[c].device
                                     => k \in seen[p]
  /\ command' = [command EXCEPT ![k] = IF @ = "running" THEN "orphan" ELSE "gone"]
  /\ UNCHANGED <<guard, rowVars, inputLock, callVars, children, drainVars, drained,
                 crashes>>

(* The supervisor has ended: adb._run's finally reaps every registered child of *)
(* the device, or cannot (AccessDenied) and goes on; end_subaction.             *)
EndSubaction(c) ==
  /\ pc[c] = "command"
  /\ command[CurrentCommand(c)] \in {"orphan", "gone"}
  /\ pc' = [pc EXCEPT ![c] = "ready"]
  /\ \/ LET reaped == Registered(req[c].device) IN
        /\ command' = [k \in Command |-> IF k \in reaped THEN "gone" ELSE command[k]]
        /\ children' = children \ reaped
     \/ UNCHANGED <<command, children>>
  /\ UNCHANGED <<guard, rowVars, inputLock, req, detached, drainVars, drained, crashes>>

-----------------------------------------------------------------------------
(* What a supervisor process leaves alone. *)
SupervisorFrame ==
  UNCHANGED <<guard, rowVars, inputLock, callVars, drainVars, drained, crashes>>

(* owned_subprocess.main: take child-<op>.lock, or die because it is held. *)
SupervisorLock(k) ==
  /\ command[k] = "starting"
  /\ command' = [command EXCEPT ![k] = IF ChildLockHeld(k[1]) THEN "gone" ELSE "locked"]
  /\ UNCHANGED children
  /\ SupervisorFrame

(* Mutant: the supervisor does not read the guard itself. *)
SupervisorTrustsItsParent(k) ==
  /\ command[k] = "locked"
  /\ command' = [command EXCEPT ![k] = "checked"]
  /\ UNCHANGED children
  /\ SupervisorFrame

(* Only then is the guard read: a supervisor delayed past a takeover dies here. *)
SupervisorCheck(k) ==
  /\ command[k] = "locked"
  /\ command' = [command EXCEPT ![k] = IF Authorized(env[k[1]]) THEN "checked" ELSE "gone"]
  /\ UNCHANGED children
  /\ SupervisorFrame

(* register_child, then Popen of the adb command in the supervisor's group. *)
SupervisorStart(k) ==
  /\ command[k] = "checked"
  /\ command' = [command EXCEPT ![k] = "running"]
  /\ children' = children \union {k}
  /\ SupervisorFrame

(* The adb command ends; a live supervisor unregisters itself and exits. *)
CommandEnds(k) ==
  /\ command[k] \in {"running", "orphan"}
  /\ command' = [command EXCEPT ![k] = "gone"]
  /\ children' = IF command[k] = "running" THEN children \ {k} ELSE children
  /\ SupervisorFrame

-----------------------------------------------------------------------------
DrainBegins(p, d) ==
  /\ phase[p] = "idle"
  /\ phase' = [phase EXCEPT ![p] = "wait"]
  /\ target' = [target EXCEPT ![p] = d]
  /\ UNCHANGED <<seen, rows, left>>

DrainEnds(p) ==
  /\ phase' = [phase EXCEPT ![p] = "idle"]
  /\ below' = [below EXCEPT ![p] = 0]
  /\ seen' = [seen EXCEPT ![p] = {}]
  /\ rows' = [rows EXCEPT ![p] = {}]
  /\ left' = [left EXCEPT ![p] = {}]
  /\ UNCHANGED target

(* Mutant: an equal fence is granted to another holder. *)
FenceDeviceForAnyHolder(p, d, f, h) ==
  /\ DrainBegins(p, d)
  /\ guard[d].fence <= f
  /\ guard' = [guard EXCEPT ![d] = [fence |-> f, holder |-> h, closed |-> FALSE]]
  /\ below' = [q \in Drain |-> IF q = p THEN f
                               ELSE IF target[q] = d THEN MinOf(below[q], f) ELSE below[q]]
  /\ drained' = [drained EXCEPT ![d] = MinOf(@, f)]
  /\ UNCHANGED <<rowVars, inputLock, callVars, command, children, crashes>>

(* fence: revoke first.  A lower fence, or the same one for another holder, is *)
(* refused (no state change).  Granting a fence again (an equal fence reopens  *)
(* a closed guard) takes back what was, or is about to be, claimed about it.   *)
FenceDevice(p, d, f, h) ==
  /\ DrainBegins(p, d)
  /\ guard[d].fence <= f
  /\ guard[d].fence = f => guard[d].holder = h
  /\ guard' = [guard EXCEPT ![d] = [fence |-> f, holder |-> h, closed |-> FALSE]]
  /\ below' = [q \in Drain |-> IF q = p THEN f
                               ELSE IF target[q] = d THEN MinOf(below[q], f) ELSE below[q]]
  /\ drained' = [drained EXCEPT ![d] = MinOf(@, f)]
  /\ UNCHANGED <<rowVars, inputLock, callVars, command, children, crashes>>

(* run_owned_task drains without granting anything: close_task was called, then *)
(* the input lock is taken and the children are reaped.                        *)
DrainDevice(p, d) ==
  /\ DrainBegins(p, d)
  /\ below' = [below EXCEPT ![p] = RevokedBelow(d)]
  /\ UNCHANGED <<guard, rowVars, inputLock, callVars, command, children, drained,
                 crashes>>

CloseTask(d, h) ==
  /\ guard[d].holder = h
  /\ ~guard[d].closed
  /\ guard' = [guard EXCEPT ![d] = [fence |-> guard[d].fence, holder |-> h, closed |-> TRUE]]
  /\ UNCHANGED <<rowVars, inputLock, callVars, command, children, drainVars,
                 drained, crashes>>

(* The lock is free: read the children of the device. *)
DrainLock(p) ==
  LET d == target[p] IN
  /\ phase[p] = "wait"
  /\ inputLock[d] = Free
  /\ inputLock' = [inputLock EXCEPT ![d] = p]
  /\ phase' = [phase EXCEPT ![p] = "kill"]
  /\ seen' = [seen EXCEPT ![p] = Registered(d)]
  /\ rows' = [rows EXCEPT ![p] = Registered(d)]
  /\ UNCHANGED <<guard, rowVars, callVars, command, children, target, below, left,
                 drained, crashes>>

(* The lock stayed busy until the deadline: {"quiescent": False}. *)
DrainBusy(p) ==
  /\ phase[p] = "wait"
  /\ inputLock[target[p]] # Free
  /\ DrainEnds(p)
  /\ UNCHANGED <<guard, rowVars, inputLock, callVars, command, children, drained,
                 crashes>>

(* _reap_children kills the process group of one row it read. *)
ReapChild(p, k) ==
  /\ phase[p] = "kill"
  /\ k \in rows[p]
  /\ command' = [command EXCEPT ![k] = "gone"]
  /\ rows' = [rows EXCEPT ![p] = @ \ {k}]
  /\ UNCHANGED <<guard, rowVars, inputLock, callVars, children, phase, target,
                 below, seen, left, drained, crashes>>

(* All rows handled: delete them and list the operations whose lock to probe. *)
DeleteRows(p) ==
  /\ phase[p] = "kill"
  /\ rows[p] = {}
  /\ children' = children \ seen[p]
  /\ phase' = [phase EXCEPT ![p] = "probe"]
  /\ left' = [left EXCEPT ![p] = DeviceOps(target[p])]
  /\ UNCHANGED <<guard, rowVars, inputLock, callVars, command, target, below, seen,
                 rows, drained, crashes>>

Probe(p, o) ==
  /\ phase[p] = "probe"
  /\ o \in left[p]
  /\ ~ChildLockHeld(o)
  /\ left' = [left EXCEPT ![p] = @ \ {o}]
  /\ UNCHANGED <<guard, rowVars, inputLock, callVars, command, children, phase,
                 target, below, seen, rows, drained, crashes>>

(* A row could not be killed, or a supervisor holds its lock: not quiescent. *)
DrainFails(p) ==
  /\ \/ phase[p] = "kill" /\ rows[p] # {}
     \/ phase[p] = "probe" /\ \E o \in left[p] : ChildLockHeld(o)
  /\ inputLock' = [inputLock EXCEPT ![target[p]] = Free]
  /\ DrainEnds(p)
  /\ UNCHANGED <<guard, rowVars, callVars, command, children, drained, crashes>>

(* {"quiescent": True} *)
Quiescent(p) ==
  /\ phase[p] = "probe"
  /\ left[p] = {}
  /\ inputLock' = [inputLock EXCEPT ![target[p]] = Free]
  /\ drained' = [drained EXCEPT ![target[p]] = MaxOf(@, below[p])]
  /\ DrainEnds(p)
  /\ UNCHANGED <<guard, rowVars, callVars, command, children, crashes>>

(* The runtime process dies: handlers, threads and flocks are gone, the SQLite  *)
(* file and the supervisor processes (their own sessions) are not.              *)
Crash ==
  /\ crashes < MaxCrash
  /\ crashes' = crashes + 1
  /\ pc' = [c \in Call |-> "idle"]
  /\ req' = [c \in Call |-> NoEnvelope]
  /\ detached' = [c \in Call |-> FALSE]
  /\ phase' = [p \in Drain |-> "idle"]
  /\ below' = [p \in Drain |-> 0]
  /\ seen' = [p \in Drain |-> {}]
  /\ rows' = [p \in Drain |-> {}]
  /\ left' = [p \in Drain |-> {}]
  /\ inputLock' = [d \in Device |-> Free]
  /\ UNCHANGED <<guard, rowVars, command, children, target, drained>>

-----------------------------------------------------------------------------
ActStep(c) ==
  \/ \E e \in Envelope : Act(c, e)
  \/ Accept(c) \/ Refuse(c) \/ Execute(c) \/ Fail(c) \/ Return(c) \/ Cancel(c)
  \/ BeginSubaction(c) \/ CommandTimeout(c) \/ EndSubaction(c)

SupervisorStep(k) ==
  SupervisorLock(k) \/ SupervisorCheck(k) \/ SupervisorStart(k) \/ CommandEnds(k)

DrainStep(p) ==
  \/ \E d \in Device, f \in Fences, h \in Holder : FenceDevice(p, d, f, h)
  \/ \E d \in Device : DrainDevice(p, d)
  \/ DrainLock(p) \/ DrainBusy(p) \/ DeleteRows(p) \/ DrainFails(p) \/ Quiescent(p)
  \/ \E k \in Command : ReapChild(p, k)
  \/ \E o \in Op : Probe(p, o)

Next ==
  \/ \E c \in Call : ActStep(c)
  \/ \E k \in Command : SupervisorStep(k)
  \/ \E p \in Drain : DrainStep(p)
  \/ \E d \in Device, h \in Holder : CloseTask(d, h)
  \/ Crash

Spec == Init /\ [][Next]_vars

-----------------------------------------------------------------------------
TypeOK ==
  /\ guard \in [Device -> [fence : Fences \union {0}, holder : Holder \union {NoHolder}, closed : BOOLEAN]]
  /\ status \in [Op -> {"absent", "accepted", "returned"}]
  /\ env \in [Op -> Envelope \union {NoEnvelope}]
  /\ issued \in [Op -> 0 .. MaxSub]
  /\ started \in [Op -> Nat]
  /\ inputLock \in [Device -> Call \union Drain \union {Free}]
  /\ pc \in [Call -> CallPc]
  /\ req \in [Call -> Envelope \union {NoEnvelope}]
  /\ detached \in [Call -> BOOLEAN]
  /\ command \in [Command -> CommandState]
  /\ children \in SUBSET Command
  /\ phase \in [Drain -> DrainPhase]
  /\ target \in [Drain -> Device]
  /\ below \in [Drain -> Nat]
  /\ seen \in [Drain -> SUBSET Command]
  /\ rows \in [Drain -> SUBSET Command]
  /\ left \in [Drain -> SUBSET Op]
  /\ drained \in [Device -> Nat]
  /\ crashes \in 0 .. MaxCrash

(* Once a device was reported quiescent for a fence, no adb command of an older *)
(* (or closed) authority runs on it or can still start, whatever crashed, was    *)
(* cancelled or started late (fence, _reap_children, owned_subprocess).          *)
DrainedMeansSilent ==
  \A k \in Command : command[k] \in Touching
                       => env[k[1]].fence >= drained[env[k[1]].device]

(* An operation id enters execute() at most once, over duplicates delivered     *)
(* concurrently, refusals, cancellations and restarts: "Reusing an old ID never *)
(* issues input again" (act, _act_locked).                                      *)
ExecutedOnce == \A o \in Op : started[o] <= 1

(* A device's fence never goes back, and never changes hands without growing:   *)
(* two claims of one fence cannot both be served (fence).                       *)
FenceOnlyGrows ==
  [][\A d \in Device :
       /\ guard'[d].fence >= guard[d].fence
       /\ guard'[d].holder # guard[d].holder => guard'[d].fence > guard[d].fence]_guard

-----------------------------------------------------------------------------
(* The inductive strengthening of DrainedMeansSilent and ExecutedOnce, part by *)
(* part.  A handler past the INSERT owns the row of its operation.             *)
CallsOwnTheirRow ==
  \A c \in Call :
    /\ pc[c] # "idle" => req[c] \in Envelope
    /\ pc[c] \in {"accepted", "ready", "command"} =>
         /\ status[req[c].op] # "absent"
         /\ env[req[c].op] = req[c]

RowsAreEnvelopes ==
  \A o \in Op : IF status[o] = "absent" THEN started[o] = 0
                ELSE env[o] \in Envelope /\ env[o].op = o

(* execute() still lies ahead of at most one handler, and not behind it. *)
ExecuteAhead ==
  /\ \A c \in Call : pc[c] = "accepted" => started[req[c].op] = 0
  /\ \A b, c \in Call : (/\ pc[b] = "accepted" /\ pc[c] = "accepted"
                         /\ req[b].op = req[c].op) => b = c

CommandsAreIssued ==
  \A k \in Command :
    /\ k[2] >= issued[k[1]] => command[k] = "none"
    /\ command[k] # "none" => status[k[1]] # "absent"

(* Whatever reached the device, or may, is in the children table. *)
StartedIsRegistered ==
  \A k \in Command :
    /\ command[k] \in {"running", "orphan"} => k \in children
    /\ k \in children => command[k] \in {"running", "orphan", "gone"}

DrainerHoldsLock ==
  \A p \in Drain : phase[p] \in {"kill", "probe"} => inputLock[target[p]] = p

ClaimsAreRevoked ==
  /\ \A d \in Device : drained[d] <= RevokedBelow(d)
  /\ \A p \in Drain : phase[p] # "idle" => below[p] <= RevokedBelow(target[p])

(* What a drain under way has already established. *)
Established(p) ==
  /\ rows[p] \subseteq seen[p]
  /\ \A k \in seen[p] : command[k] \in {"running", "orphan", "gone"}
  /\ phase[p] = "kill" =>
       /\ \A k \in seen[p] \ rows[p] : command[k] = "gone"
       /\ \A k \in DeviceCommands(target[p]) : command[k] = "orphan" => k \in rows[p]
  /\ phase[p] = "probe" =>
       /\ \A k \in seen[p] : command[k] = "gone"
       /\ \A k \in DeviceCommands(target[p]) :
            /\ command[k] # "orphan"
            /\ (k[1] \notin left[p] /\ command[k] \in {"checked", "running"})
                  => env[k[1]].fence >= below[p]

DrainProgress == \A p \in Drain : Established(p)

IInv ==
  /\ TypeOK
  /\ CallsOwnTheirRow /\ RowsAreEnvelopes /\ ExecuteAhead
  /\ CommandsAreIssued /\ StartedIsRegistered
  /\ DrainerHoldsLock /\ ClaimsAreRevoked /\ DrainProgress
  /\ DrainedMeansSilent /\ ExecutedOnce

-----------------------------------------------------------------------------
(* What the journal promises, and the state that promise is about here. *)
Promise == INSTANCE DeviceInput WITH
  authority <- guard, given <- env, executed <- started,
  touching <- {k \in Command : command[k] \in Touching}, silent <- drained

(* Whatever its handlers, supervisors, drains and crashes do, the journal      *)
(* grants, admits, executes, touches and reports as DeviceInput allows:        *)
(* execution_journal.py, owned_subprocess.py and adb._run together.            *)
KeepsPromise == Promise!Spec
=============================================================================
