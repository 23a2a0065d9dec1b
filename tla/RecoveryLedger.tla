--------------------------- MODULE RecoveryLedger ---------------------------
(***************************************************************************)
(* The durable operation ledger of one recovery-enabled task               *)
(* (shared/recovery_store.py): the intent written before an effect (T1,    *)
(* prepare), the receipt written after it (T2, receipt), the step that     *)
(* consumes it (T3, add_step_and_update_state and settle), the device      *)
(* action budget, and the recovery that closes an interrupted step         *)
(* (shared/recovery_runtime.py, _recover and _close_steps).                *)
(*                                                                         *)
(* Three parties interleave: the worker that runs the task, the driver     *)
(* whose journal keeps a receipt of what it did, and the coordinator that  *)
(* takes the task over after a crash or an interruption.  Crash loses what *)
(* the backend keeps in memory.                                            *)
(***************************************************************************)
EXTENDS Integers, FiniteSets

CONSTANTS Op,        \* operation ids
          Source,    \* (source, generation) keys under which a receipt can arrive
          Limit,     \* limits.device_actions
          MaxStep,   \* bound: executor steps
          MaxFault,  \* bound: crashes, interruptions and failed recoveries
          SafeAuto   \* the task's recovery_policy is safe_auto

ASSUME BoundsAreNumbers == Limit \in Nat /\ MaxStep \in Nat /\ MaxFault \in Nat
ASSUME OperationsAreFinite == IsFiniteSet(Op)
ASSUME PolicyIsKnown == SafeAuto \in BOOLEAN

(* What the Executor submits: one primitive, a wait, the two primitives of a *)
(* replace_text with a target, or the two of an authorized skill action.     *)
Shape == {"single", "sleep", "replace", "pair"}
Primitives(s) == IF s \in {"replace", "pair"} THEN 2 ELSE 1
Units(s) == IF s = "sleep" THEN 0 ELSE 1      \* reserved per primitive

(* sent: dispatched; failed: the dispatch failed, which proves nothing;      *)
(* zero: the driver states that it spent no device action.                   *)
Report == {"sent", "failed", "zero"}

VARIABLES
  row,       \* task_operations.status, "absent" without a row
  seq,       \* its step_seq
  wait,      \* its args_json: the operation is a sleep
  result,    \* result_state and result_json: "none", "unknown" or a report
  keys,      \* operation_receipts: the sources a receipt came from
  latest,    \* operation_receipts: the newest one
  reserved, settled, uncertain,          \* budget_ledger
  facts,     \* recovery_fact records
  flight,    \* requests the driver may still carry out
  effect,    \* what the driver did, as its own journal keeps it
  steps,     \* step_commit records
  saved,     \* tasks.state_json
  manifest,  \* the state inside the active manifest
  status, epoch, token,                  \* of the task; token 0 is NULL
  pc, mine, mem, shape, issued,          \* the worker and its memory
  cpc, theirs, cmem, todo,               \* the coordinator and its memory
  faults

rowVars == <<row, seq, wait, result, keys, latest, reserved, settled, uncertain, facts>>
stateVars == <<steps, saved, manifest>>
taskVars == <<status, epoch, token>>
workerVars == <<pc, mine, mem, shape, issued>>
coordVars == <<cpc, theirs, cmem, todo>>
vars == <<rowVars, flight, effect, stateVars, taskVars, workerVars, coordVars, faults>>

Start == [count |-> 0, step |-> 0]       \* execution_count, step_number
Ended == {"succeeded", "failed", "cancelled"}

Init ==
  /\ row = [o \in Op |-> "absent"]
  /\ seq = [o \in Op |-> 0]
  /\ wait = [o \in Op |-> FALSE]
  /\ result = [o \in Op |-> "none"]
  /\ keys = [o \in Op |-> {}]
  /\ latest = [o \in Op |-> "none"]
  /\ reserved = [o \in Op |-> 0]
  /\ settled = [o \in Op |-> 0]
  /\ uncertain = [o \in Op |-> 0]
  /\ facts = [o \in Op |-> 0]
  /\ flight = {} /\ effect = [o \in Op |-> "none"]
  /\ steps = {} /\ saved = Start /\ manifest = Start
  /\ status = "queued" /\ epoch = 0 /\ token = 0
  /\ pc = "off" /\ mine = 0 /\ mem = Start /\ shape = "single" /\ issued = {}
  /\ cpc = "off" /\ theirs = 0 /\ cmem = Start /\ todo = {}
  /\ faults = 0

-----------------------------------------------------------------------------
(* operations(task_id, pending=True) *)
Pending == {o \in Op : row[o] \in {"dispatching", "recorded"}}
Held == Cardinality({o \in Op : reserved[o] = 1})     \* SUM(reserved)

(* Mutant: an unknown outcome is refunded. *)
ChargeUnlessUnknown(o) == IF result[o] \in {"zero", "unknown"} THEN 0 ELSE reserved[o]

(* charge_units: only a known report of zero units gives a reservation back. *)
ChargeUnits(o) == IF result[o] = "zero" THEN 0 ELSE reserved[o]
MaxOf(m, n) == IF m > n THEN m ELSE n

(* receipt: facts are append-only; a committed result is never rewritten. *)
Receipt(o, r, k) ==
  LET new == k \notin keys[o]
      news == new /\ latest[o] # r
  IN /\ keys' = [keys EXCEPT ![o] = @ \union {k}]
     /\ latest' = IF new THEN [latest EXCEPT ![o] = r] ELSE latest
     /\ facts' = IF news /\ row[o] = "committed" THEN [facts EXCEPT ![o] = @ + 1] ELSE facts
     /\ row' = IF news /\ row[o] # "committed" THEN [row EXCEPT ![o] = "recorded"] ELSE row
     /\ result' = IF news /\ row[o] # "committed" THEN [result EXCEPT ![o] = r] ELSE result
     /\ UNCHANGED <<seq, wait, reserved, settled, uncertain>>

(* record_unknown: a result that is already there stays. *)
RecordUnknown(o) ==
  /\ row' = IF result[o] = "none" THEN [row EXCEPT ![o] = "recorded"] ELSE row
  /\ result' = IF result[o] = "none" THEN [result EXCEPT ![o] = "unknown"] ELSE result
  /\ UNCHANGED <<seq, wait, keys, latest, reserved, settled, uncertain, facts>>

(* settle, inside T3: every open operation of the step is charged and closed. *)
Open(s) == {o \in Pending : seq[o] = s}

Settle(S) ==
  /\ settled' = [o \in Op |-> IF o \in S THEN settled[o] + ChargeUnits(o) ELSE settled[o]]
  /\ uncertain' = [o \in Op |-> IF o \in S /\ result[o] = "unknown"
                                THEN uncertain[o] + ChargeUnits(o) ELSE uncertain[o]]
  /\ reserved' = [o \in Op |-> IF o \in S THEN 0 ELSE reserved[o]]
  /\ row' = [o \in Op |-> IF o \in S THEN "committed" ELSE row[o]]
  /\ UNCHANGED <<seq, wait, result, keys, latest, facts>>

(* add_step_and_update_state: the step_commit record admits each seq once. *)
CommitStep(s, state) ==
  IF s \in steps
  THEN UNCHANGED <<rowVars, stateVars>>
  ELSE /\ \A o \in Open(s) : result[o] # "none"
       /\ Settle(Open(s))
       /\ steps' = steps \union {s}
       /\ saved' = state
       /\ manifest' = state

-----------------------------------------------------------------------------
(* run_owned_task: nothing may be pending and nobody may own the task. *)
StartWorker ==
  /\ pc = "off" /\ cpc = "off"
  /\ status = "queued" /\ token = 0
  /\ Pending = {}
  /\ status' = "running"
  /\ epoch' = epoch + 1 /\ token' = epoch + 1 /\ mine' = epoch + 1
  /\ pc' = "decide" /\ mem' = saved
  /\ UNCHANGED <<rowVars, flight, effect, stateVars, shape, issued, coordVars, faults>>

(* submit_executor_step: one unit must be left, whatever the action needs. *)
Submit(s) ==
  /\ pc = "decide"
  /\ mem.step < MaxStep
  /\ mem.count + 1 <= Limit
  /\ pc' = "act" /\ shape' = s /\ issued' = {}
  /\ UNCHANGED <<rowVars, flight, effect, stateVars, taskVars, mine, mem, coordVars, faults>>

(* Mutant: open reservations are not part of the sum. *)
BudgetIgnoresOpen == Units(shape) = 0 \/ mem.count + Units(shape) <= Limit

BudgetAllows == Units(shape) = 0 \/ mem.count + Held + Units(shape) <= Limit

(* T1, prepare: intent, reservation and manifest in one transaction. *)
Prepare(o) ==
  /\ pc = "act"
  /\ token = mine
  /\ Cardinality(issued) < Primitives(shape)
  /\ row[o] = "absent"
  /\ BudgetAllows
  /\ row' = [row EXCEPT ![o] = "dispatching"]
  /\ seq' = [seq EXCEPT ![o] = mem.step]
  /\ wait' = [wait EXCEPT ![o] = shape = "sleep"]
  /\ reserved' = [reserved EXCEPT ![o] = Units(shape)]
  /\ manifest' = mem
  /\ issued' = issued \union {o}
  /\ flight' = flight \union {o}
  /\ pc' = "await"
  /\ UNCHANGED <<result, keys, latest, settled, uncertain, facts, effect, steps, saved,
                 taskVars, mine, mem, shape, coordVars, faults>>

(* The action is suppressed before its first primitive, or ends after one. *)
Finish ==
  /\ pc = "act"
  /\ pc' = "finish"
  /\ UNCHANGED <<rowVars, flight, effect, stateVars, taskVars, mine, mem, shape, issued,
                 coordVars, faults>>

(* TaskBudgetExhausted between two primitives: InfrastructureInterrupted. *)
BudgetStops ==
  /\ pc = "act"
  /\ Cardinality(issued) < Primitives(shape)
  /\ ~BudgetAllows
  /\ status' = "recovering" /\ token' = 0
  /\ pc' = "off"
  /\ UNCHANGED <<rowVars, flight, effect, stateVars, epoch, mine, mem, shape, issued,
                 coordVars, faults>>

(* T2: DurableDriver.act stores what the driver answered. *)
Returned(k) ==
  /\ pc = "await"
  /\ \E o \in issued :
       /\ row[o] = "dispatching"
       /\ effect[o] # "none"
       /\ Receipt(o, effect[o], k)
  /\ pc' = IF Cardinality(issued) < Primitives(shape) THEN "act" ELSE "finish"
  /\ UNCHANGED <<flight, effect, stateVars, taskVars, mine, mem, shape, issued, coordVars,
                 faults>>

(* device_action_units of the finished action, 1 unless the action says so. *)
SpentUnits == IF shape = "pair" THEN Cardinality({o \in issued : result[o] = "sent"}) ELSE 1

(* T3 *)
Complete ==
  LET next == [count |-> mem.count + SpentUnits, step |-> mem.step + 1] IN
  /\ pc = "finish"
  /\ token = mine
  /\ CommitStep(mem.step, next)
  /\ mem' = next
  /\ pc' = "decide"
  /\ UNCHANGED <<flight, effect, taskVars, mine, shape, issued, coordVars, faults>>

(* The task ends; run_owned_task releases its ownership. *)
Succeed ==
  /\ pc = "decide"
  /\ pc' = "off" /\ status' = "succeeded" /\ token' = 0
  /\ UNCHANGED <<rowVars, flight, effect, stateVars, epoch, mine, mem, shape, issued,
                 coordVars, faults>>

(* The driver answers "unknown", the connection fails or the run is steered:   *)
(* the worker releases the task, which is "recovering" from then on.           *)
Interrupted ==
  /\ pc \in {"act", "await", "finish"}
  /\ faults < MaxFault /\ faults' = faults + 1
  /\ \/ UNCHANGED rowVars
     \/ /\ pc = "await"
        /\ \E o \in issued : row[o] = "dispatching" /\ RecordUnknown(o)
  /\ pc' = "off" /\ status' = "recovering" /\ token' = 0
  /\ UNCHANGED <<flight, effect, stateVars, epoch, mine, mem, shape, issued, coordVars>>

(* A cancel ends the task at an await of its run, or without one.  It closes   *)
(* no operation: what was sent and is not known stays that way.               *)
Cancel ==
  /\ status \notin Ended
  /\ status' = "cancelled"
  /\ pc' = "off" /\ token' = IF pc = "off" THEN token ELSE 0
  /\ UNCHANGED <<rowVars, flight, effect, stateVars, epoch, mine, mem, shape, issued,
                 coordVars, faults>>

-----------------------------------------------------------------------------
(* The driver carries out a request, or it is lost on the way. *)
Effect(o, r) ==
  /\ o \in flight
  /\ flight' = flight \ {o}
  /\ effect' = [effect EXCEPT ![o] = r]
  /\ UNCHANGED <<rowVars, stateVars, taskVars, workerVars, coordVars, faults>>

(* The receipt of an operation whose caller is gone arrives after all. *)
LateReceipt(o, k) ==
  /\ effect[o] # "none"
  /\ ~(pc = "await" /\ o \in issued)
  /\ k \notin keys[o]
  /\ Receipt(o, effect[o], k)
  /\ UNCHANGED <<flight, effect, stateVars, taskVars, workerVars, coordVars, faults>>

-----------------------------------------------------------------------------
(* _recover: claim with takeover, under the task's lock.  The scan starts it for *)
(* a task that is recovered of itself, a request for any other (never for one  *)
(* whose policy is "disabled").                                               *)
Takeover ==
  /\ cpc = "off" /\ pc = "off"
  /\ status \in {"running", "recovering"} \/ token # 0
  /\ status \notin Ended
  /\ epoch' = epoch + 1 /\ token' = epoch + 1 /\ theirs' = epoch + 1
  /\ status' = "recovering"
  /\ cpc' = "isolate"
  /\ UNCHANGED <<rowVars, flight, effect, stateVars, workerVars, cmem, todo, faults>>

(* isolate: the old input chain is revoked and drained (see ExecutionJournal). *)
Isolate ==
  /\ cpc = "isolate"
  /\ flight' = {}
  /\ cpc' = "restore"
  /\ UNCHANGED <<rowVars, effect, stateVars, taskVars, workerVars, theirs, cmem, todo, faults>>

(* _load_snapshot: the active manifest or, when its file is damaged, the T1    *)
(* state of the last open operation or else the saved task state.              *)
Restore ==
  /\ cpc = "restore"
  /\ \E base \in {manifest, IF Pending = {} THEN saved ELSE manifest} :
       cmem' = [count |-> MaxOf(saved.count, base.count), step |-> base.step]
  /\ todo' = {o \in Pending : result[o] = "none"}
  /\ cpc' = "collect"
  /\ UNCHANGED <<rowVars, flight, effect, stateVars, taskVars, workerVars, theirs, faults>>

(* Mutant: recovery waits for a receipt instead of recording "unknown". *)
CollectOnlyReceipts(o) ==
  /\ cpc = "collect"
  /\ o \in todo
  /\ token = theirs
  /\ effect[o] # "none"
  /\ \E k \in Source : Receipt(o, effect[o], k)
  /\ todo' = todo \ {o}
  /\ UNCHANGED <<flight, effect, stateVars, taskVars, workerVars, cpc, theirs, cmem, faults>>

(* get_operation answers with the driver's receipt, or without one. *)
Collect(o) ==
  /\ cpc = "collect"
  /\ o \in todo
  /\ token = theirs
  /\ \/ effect[o] # "none" /\ \E k \in Source : Receipt(o, effect[o], k)
     \/ RecordUnknown(o)
  /\ todo' = todo \ {o}
  /\ UNCHANGED <<flight, effect, stateVars, taskVars, workerVars, cpc, theirs, cmem, faults>>

(* Mutant: recovery closes the step and stays on its number. *)
CloseStepInPlace ==
  /\ cpc = "collect" /\ todo = {}
  /\ \E s \in {seq[o] : o \in Pending} :
       LET closed == [count |-> cmem.count + Cardinality({o \in Open(s) : ChargeUnits(o) = 1}),
                      step |-> cmem.step]
       IN /\ \A o \in Pending : s <= seq[o]
          /\ CommitStep(s, closed)
          /\ cmem' = closed
  /\ UNCHANGED <<flight, effect, taskVars, workerVars, cpc, theirs, todo, faults>>

(* _close_steps: the oldest open step, with the charges of its operations. *)
CloseStep ==
  /\ cpc = "collect" /\ todo = {}
  /\ \E s \in {seq[o] : o \in Pending} :
       LET closed == [count |-> cmem.count + Cardinality({o \in Open(s) : ChargeUnits(o) = 1}),
                      step |-> MaxOf(cmem.step, s + 1)]
       IN /\ \A o \in Pending : s <= seq[o]
          /\ CommitStep(s, closed)
          /\ cmem' = closed
  /\ UNCHANGED <<flight, effect, taskVars, workerVars, cpc, theirs, todo, faults>>

(* The restored state goes back to the queue, unless the task was cancelled ... *)
SaveState ==
  /\ cpc = "collect" /\ todo = {} /\ Pending = {}
  /\ saved' = cmem
  /\ status' = IF status = "cancelled" THEN status ELSE "queued"
  /\ cpc' = "publish"
  /\ UNCHANGED <<rowVars, flight, effect, steps, manifest, epoch, token, workerVars, theirs,
                 cmem, todo, faults>>

(* ... and into a manifest, in a transaction of its own; then the release. *)
Publish ==
  /\ cpc = "publish"
  /\ manifest' = cmem
  /\ token' = 0
  /\ cpc' = "off"
  /\ UNCHANGED <<rowVars, flight, effect, steps, saved, status, epoch, workerVars, theirs,
                 cmem, todo, faults>>

(* Isolation, the lookup or the restored context fails: blocked, retried later. *)
(* A cancel during the refresh of the device is such a failure, and a context   *)
(* that no file restores ends the task.                                        *)
RecoveryFails ==
  /\ cpc \in {"isolate", "restore", "collect"}
  /\ \/ faults < MaxFault /\ faults' = faults + 1
     \/ cpc = "collect" /\ Pending = {} /\ status = "cancelled" /\ UNCHANGED faults
  /\ \/ UNCHANGED status
     \/ cpc = "restore" /\ status # "cancelled" /\ status' = "failed"
  /\ cpc' = "off" /\ token' = 0
  /\ UNCHANGED <<rowVars, flight, effect, stateVars, epoch, workerVars, theirs, cmem, todo>>

(* The backend dies.  Status and worker token stay as they were written. *)
Crash ==
  /\ faults < MaxFault /\ faults' = faults + 1
  /\ pc # "off" \/ cpc # "off"
  /\ pc' = "off" /\ cpc' = "off"
  /\ UNCHANGED <<rowVars, flight, effect, stateVars, taskVars, mine, mem, shape, issued,
                 theirs, cmem, todo>>

-----------------------------------------------------------------------------
WorkerStep ==
  \/ StartWorker \/ Finish \/ BudgetStops \/ Complete \/ Succeed
  \/ \E s \in Shape : Submit(s)
  \/ \E o \in Op : Prepare(o)
  \/ \E k \in Source : Returned(k)

RecoveryStep ==
  \/ Isolate \/ Restore \/ CloseStep \/ SaveState \/ Publish
  \/ \E o \in Op : Collect(o)

CoordStep == Takeover \/ RecoveryStep

Next ==
  \/ WorkerStep \/ CoordStep
  \/ Interrupted \/ Cancel \/ RecoveryFails \/ Crash
  \/ \E o \in Op : \/ \E r \in Report : Effect(o, r)
                   \/ \E k \in Source : LateReceipt(o, k)

Spec == Init /\ [][Next]_vars

(* A recovery that has begun goes on, and so does a running worker; the driver   *)
(* answers a request (the RPC and adb time limits end those it does not, by     *)
(* Interrupted).  The scan loop starts a recovery, and starts it again after a  *)
(* failure, of a task whose policy is safe_auto and while its attempts are not  *)
(* used up (MaxFault is below task_recovery_max_auto_attempts); with another    *)
(* policy nothing starts one but a request, of which no fairness is assumed.    *)
FairSpec ==
  /\ Spec
  /\ SafeAuto => WF_vars(Takeover)
  /\ WF_vars(RecoveryStep)
  /\ WF_vars(WorkerStep)
  /\ WF_vars(\E o \in Op, r \in Report : Effect(o, r))

-----------------------------------------------------------------------------
TypeOK ==
  /\ row \in [Op -> {"absent", "dispatching", "recorded", "committed"}]
  /\ seq \in [Op -> Nat]
  /\ wait \in [Op -> BOOLEAN]
  /\ result \in [Op -> Report \union {"none", "unknown"}]
  /\ keys \in [Op -> SUBSET Source]
  /\ latest \in [Op -> Report \union {"none"}]
  /\ reserved \in [Op -> {0, 1}]
  /\ settled \in [Op -> Nat]
  /\ uncertain \in [Op -> Nat]
  /\ facts \in [Op -> Nat]
  /\ flight \in SUBSET Op
  /\ effect \in [Op -> Report \union {"none"}]
  /\ steps \in SUBSET Nat
  /\ {saved, manifest, mem, cmem} \subseteq [count : Nat, step : Nat]
  /\ status \in {"queued", "running", "recovering"} \union Ended
  /\ epoch \in Nat /\ token \in Nat /\ mine \in Nat /\ theirs \in Nat
  /\ pc \in {"off", "decide", "act", "await", "finish"}
  /\ shape \in Shape
  /\ issued \in SUBSET Op
  /\ cpc \in {"off", "isolate", "restore", "collect", "publish"}
  /\ todo \in SUBSET Op
  /\ faults \in 0 .. MaxFault

(* What the task has spent and what open operations may still spend stay within *)
(* the device action limit, across crashes and recoveries (prepare,            *)
(* _close_steps).                                                              *)
BudgetHolds ==
  /\ saved.count + Held <= Limit
  /\ pc # "off" => mem.count + Held <= Limit
  /\ cpc \in {"collect", "publish"} => cmem.count + Held <= Limit

(* An input the driver sent, and whose step is closed, has been charged; only   *)
(* the driver's own word refunds one: uncertainty is never free (settle).       *)
SentIsCharged ==
  \A o \in Op : (row[o] = "committed" /\ effect[o] = "sent" /\ ~wait[o]) => settled[o] = 1

(* Open operations belong to one step, and that step is not committed yet: T3   *)
(* would otherwise skip them and leave their reservations open for ever.        *)
OpenStepIsOpen ==
  \A o, p \in Pending : seq[o] = seq[p] /\ seq[o] \notin steps

(* A closed operation is final: a late receipt adds a fact and changes neither  *)
(* its result nor its charge (receipt, settle).                                 *)
CommittedIsFinal ==
  [][\A o \in Op : row[o] = "committed" =>
       /\ row'[o] = "committed"
       /\ <<result[o], reserved[o], settled[o], uncertain[o]>>'
            = <<result[o], reserved[o], settled[o], uncertain[o]>>]_rowVars

(* Every intent of a task that is recovered of itself is closed in the end, by  *)
(* its step or by a recovery, unless the task is cancelled or its context is    *)
(* beyond recovery: then what is not known of it stays that way.               *)
IntentIsClosed ==
  \A o \in Op : row[o] \in {"dispatching", "recorded"}
                 ~> (row[o] = "committed" \/ status \in {"cancelled", "failed"})

(* An action that was admitted with the unit required_actions asks for is not    *)
(* stopped by the budget between its primitives: "bundles target focus and text *)
(* entry inside that single step" (agent/targeted_input.py).                    *)
AdmittedActionFits == (pc = "act" /\ shape = "replace") => BudgetAllows

-----------------------------------------------------------------------------
(* The inductive strengthening of SentIsCharged and CommittedIsFinal, part by   *)
(* part.  What the ledger believes of an effect came from the driver.           *)
ResultsAreEffects ==
  \A o \in Op :
    /\ o \in flight => effect[o] = "none"
    /\ latest[o] \in {"none", effect[o]}
    /\ result[o] \in {"none", "unknown", effect[o]}

(* Nothing is known of, sent for or charged to an operation before its T1. *)
FreshRowsAreEmpty ==
  \A o \in Op : row[o] = "absent" =>
    /\ o \notin flight /\ o \notin todo
    /\ effect[o] = "none" /\ result[o] = "none"
    /\ reserved[o] = 0 /\ settled[o] = 0

OpenIsReserved ==
  \A o \in Op : row[o] \in {"dispatching", "recorded"} =>
    reserved[o] = (IF wait[o] THEN 0 ELSE 1) /\ settled[o] = 0

ClosedIsSettled ==
  \A o \in Op : row[o] = "committed" =>
    /\ reserved[o] = 0 /\ result[o] # "none"
    /\ (~wait[o] /\ result[o] # "zero") => settled[o] = 1

IInv ==
  /\ TypeOK
  /\ ResultsAreEffects /\ FreshRowsAreEmpty /\ OpenIsReserved /\ ClosedIsSettled
=============================================================================
