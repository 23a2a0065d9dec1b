------------------------ MODULE RecoveryLedgerProofs ------------------------
(***************************************************************************)
(* What TLAPS proves of module RecoveryLedger, for every set of operations *)
(* and sources, every limit and any number of steps and faults: the ledger *)
(* is well typed, a sent input is charged, a closed operation is final, one *)
(* step at most is open, and the budget holds.                             *)
(***************************************************************************)
EXTENDS RecoveryLedger, FiniteSetTheorems, TLAPS

(* Counting some of the operations gives a natural number. *)
LEMMA CountIsNat ==
  ASSUME NEW S \in SUBSET Op
  PROVE  Cardinality(S) \in Nat
  BY OperationsAreFinite, FS_Subset, FS_CardinalityType

(* The invariant over the ledger's rows and what the driver did, without the  *)
(* parts of the state the worker and the coordinator keep to themselves.      *)
RowTypes ==
  /\ row \in [Op -> {"absent", "dispatching", "recorded", "committed"}]
  /\ seq \in [Op -> Nat]
  /\ wait \in [Op -> BOOLEAN]
  /\ result \in [Op -> Report \union {"none", "unknown"}]
  /\ keys \in [Op -> SUBSET Source]
  /\ latest \in [Op -> Report \union {"none"}]
  /\ reserved \in [Op -> {0, 1}]
  /\ settled \in [Op -> Nat]
  /\ uncertain \in [Op -> Nat]
  /\ facts \in [Op -> Nat]

EffectTypes == flight \in SUBSET Op /\ effect \in [Op -> Report \union {"none"}]

StateTypes == steps \in SUBSET Nat /\ {saved, manifest} \subseteq [count : Nat, step : Nat]

ControlTypes ==
  /\ {mem, cmem} \subseteq [count : Nat, step : Nat]
  /\ status \in {"queued", "running", "recovering"} \union Ended
  /\ epoch \in Nat /\ token \in Nat /\ mine \in Nat /\ theirs \in Nat
  /\ pc \in {"off", "decide", "act", "await", "finish"}
  /\ shape \in Shape
  /\ issued \in SUBSET Op
  /\ cpc \in {"off", "isolate", "restore", "collect", "publish"}
  /\ todo \in SUBSET Op
  /\ faults \in 0 .. MaxFault

(* The type invariant is the conjunction of its four groups. *)
LEMMA TypeGroups == TypeOK <=> RowTypes /\ EffectTypes /\ StateTypes /\ ControlTypes
  BY DEF TypeOK, RowTypes, EffectTypes, StateTypes, ControlTypes

Rows == ResultsAreEffects /\ FreshRowsAreEmpty /\ OpenIsReserved /\ ClosedIsSettled

(* The invariant is what its groups say. *)
LEMMA InvariantGroups ==
  IInv <=> RowTypes /\ EffectTypes /\ StateTypes /\ ControlTypes /\ Rows
  BY TypeGroups DEF IInv, Rows

(* The same of the state after a step. *)
LEMMA InvariantGroupsAfter ==
  IInv' <=> RowTypes' /\ EffectTypes' /\ StateTypes' /\ ControlTypes' /\ Rows'
  BY DEF IInv, TypeOK, RowTypes, EffectTypes, StateTypes, ControlTypes, Rows

(* receipt (T2), for what the driver did: a committed row is left as it is. *)
LEMMA ReceiptKeepsRows ==
  ASSUME RowTypes, EffectTypes, Rows, todo \in SUBSET Op,
         NEW o \in Op, NEW k \in Source, effect[o] # "none", Receipt(o, effect[o], k),
         UNCHANGED <<flight, effect>>, todo' \subseteq todo
  PROVE  RowTypes' /\ EffectTypes' /\ Rows'
<1>1. effect[o] \in Report
  BY DEF EffectTypes
<1>2. row[o] # "absent"
  BY DEF Rows, FreshRowsAreEmpty
<1>3. RowTypes' /\ EffectTypes'
  BY <1>1 DEF RowTypes, EffectTypes, Receipt
<1>4. ResultsAreEffects'
  BY <1>1 DEF Rows, ResultsAreEffects, RowTypes, Receipt
<1>5. FreshRowsAreEmpty'
  BY <1>2 DEF Rows, FreshRowsAreEmpty, RowTypes, Receipt
<1>6. OpenIsReserved'
  BY <1>2 DEF Rows, OpenIsReserved, RowTypes, Receipt
<1>7. ClosedIsSettled'
  BY DEF Rows, ClosedIsSettled, RowTypes, Receipt
<1> QED BY <1>3, <1>4, <1>5, <1>6, <1>7 DEF Rows

(* record_unknown: only an operation without any result changes. *)
LEMMA UnknownKeepsRows ==
  ASSUME RowTypes, EffectTypes, Rows,
         NEW o \in Op, row[o] # "absent", RecordUnknown(o),
         UNCHANGED <<flight, effect>>, todo' \subseteq todo
  PROVE  RowTypes' /\ EffectTypes' /\ Rows'
<1>1. RowTypes' /\ EffectTypes'
  BY DEF RowTypes, EffectTypes, RecordUnknown
<1>2. ResultsAreEffects'
  BY DEF Rows, ResultsAreEffects, RowTypes, RecordUnknown
<1>3. FreshRowsAreEmpty'
  BY DEF Rows, FreshRowsAreEmpty, RowTypes, RecordUnknown
<1>4. OpenIsReserved'
  BY DEF Rows, OpenIsReserved, ClosedIsSettled, RowTypes, RecordUnknown
<1>5. ClosedIsSettled'
  BY DEF Rows, ClosedIsSettled, RowTypes, RecordUnknown
<1> QED BY <1>1, <1>2, <1>3, <1>4, <1>5 DEF Rows

(* T3: the operations of a step that have a result are charged and closed. *)
LEMMA CommitKeepsRows ==
  ASSUME RowTypes, EffectTypes, StateTypes, Rows,
         NEW s \in Nat, NEW state \in [count : Nat, step : Nat], CommitStep(s, state),
         UNCHANGED <<flight, effect, todo>>
  PROVE  RowTypes' /\ EffectTypes' /\ StateTypes' /\ Rows'
<1>1. CASE s \in steps
  <2>1. UNCHANGED <<rowVars, stateVars>>
    BY <1>1 DEF CommitStep
  <2> QED BY <2>1 DEF rowVars, stateVars, RowTypes, EffectTypes, StateTypes, Rows,
          ResultsAreEffects, FreshRowsAreEmpty, OpenIsReserved, ClosedIsSettled
<1>2. CASE s \notin steps
  <2>1. /\ Settle(Open(s))
        /\ \A o \in Open(s) : result[o] # "none"
        /\ steps' = steps \union {s} /\ saved' = state /\ manifest' = state
    BY <1>2 DEF CommitStep
  <2>2. \A o \in Open(s) : o \in Op /\ row[o] \in {"dispatching", "recorded"}
    BY DEF Open, Pending
  <2>3. \A o \in Op : ChargeUnits(o) \in {0, 1}
    BY DEF ChargeUnits, RowTypes
  <2>4. RowTypes'
    BY <2>1, <2>3 DEF RowTypes, Settle
  <2>5. EffectTypes' /\ StateTypes'
    BY <2>1 DEF EffectTypes, StateTypes
  <2>6. ResultsAreEffects'
    BY <2>1 DEF Rows, ResultsAreEffects, Settle
  <2>7. FreshRowsAreEmpty'
    BY <2>1, <2>2 DEF Rows, FreshRowsAreEmpty, Settle, RowTypes
  <2>8. OpenIsReserved'
    BY <2>1 DEF Rows, OpenIsReserved, Settle, RowTypes
  <2>9. ClosedIsSettled'
    BY <2>1, <2>2 DEF Rows, ClosedIsSettled, OpenIsReserved, Settle, RowTypes, ChargeUnits
  <2> QED BY <2>4, <2>5, <2>6, <2>7, <2>8, <2>9 DEF Rows
<1> QED BY <1>1, <1>2

(* A step that leaves the rows alone keeps what is said of them. *)
LEMMA RowsStay ==
  ASSUME RowTypes, EffectTypes, Rows, UNCHANGED <<rowVars, effect>>,
         flight' \subseteq flight, todo' \subseteq todo
  PROVE  RowTypes' /\ EffectTypes' /\ Rows'
  BY DEF rowVars, RowTypes, EffectTypes, Rows, ResultsAreEffects, FreshRowsAreEmpty,
     OpenIsReserved, ClosedIsSettled

-----------------------------------------------------------------------------
(* What a step of the worker, the driver or the coordinator does to the rest. *)

(* A worker starts with nothing in memory, so it owes no operation (run_owned_task). *)
LEMMA StartWorkerPreserves == ASSUME IInv, StartWorker PROVE IInv'
<1>1. RowTypes' /\ EffectTypes' /\ Rows'
  BY InvariantGroups, RowsStay DEF StartWorker, coordVars
<1>2. StateTypes' /\ ControlTypes'
  BY InvariantGroups DEF StartWorker, StateTypes, ControlTypes, stateVars, coordVars
<1> QED BY <1>1, <1>2, InvariantGroupsAfter

(* submit_executor_step names the action's operations; they have no row yet. *)
LEMMA SubmitPreserves == ASSUME IInv, NEW s \in Shape, Submit(s) PROVE IInv'
<1>1. RowTypes' /\ EffectTypes' /\ Rows'
  BY InvariantGroups, RowsStay DEF Submit, coordVars
<1>2. StateTypes' /\ ControlTypes'
  BY InvariantGroups DEF Submit, StateTypes, ControlTypes, stateVars, taskVars, coordVars
<1> QED BY <1>1, <1>2, InvariantGroupsAfter

(* T1: the operation enters the ledger reserved, its units and state with it. *)
LEMMA PreparePreserves == ASSUME IInv, NEW o \in Op, Prepare(o) PROVE IInv'
<1>1. Units(shape) = (IF shape = "sleep" THEN 0 ELSE 1)
  BY DEF Units
<1>2. mem \in [count : Nat, step : Nat]
  BY InvariantGroups DEF ControlTypes
<1>3. RowTypes' /\ EffectTypes'
  BY <1>1, <1>2, InvariantGroups DEF Prepare, RowTypes, EffectTypes
<1>4. StateTypes'
  BY <1>2, InvariantGroups DEF Prepare, StateTypes
<1>5. ControlTypes'
  BY InvariantGroups DEF Prepare, ControlTypes, taskVars, coordVars
<1>6. ResultsAreEffects'
  BY InvariantGroups DEF Prepare, Rows, ResultsAreEffects, FreshRowsAreEmpty
<1>7. FreshRowsAreEmpty'
  BY InvariantGroups DEF Prepare, Rows, FreshRowsAreEmpty, RowTypes, coordVars
<1>8. OpenIsReserved'
  BY <1>1, InvariantGroups DEF Prepare, Rows, OpenIsReserved, FreshRowsAreEmpty, RowTypes
<1>9. ClosedIsSettled'
  BY InvariantGroups DEF Prepare, Rows, ClosedIsSettled, RowTypes
<1> QED BY <1>3, <1>4, <1>5, <1>6, <1>7, <1>8, <1>9, InvariantGroupsAfter DEF Rows

(* A result that returns to the worker is stored by receipt (T2). *)
LEMMA ReturnedPreserves == ASSUME IInv, NEW k \in Source, Returned(k) PROVE IInv'
<1>1. PICK o \in issued : effect[o] # "none" /\ Receipt(o, effect[o], k)
  BY DEF Returned
<1>2. o \in Op /\ todo \in SUBSET Op
  BY InvariantGroups DEF ControlTypes
<1>3. RowTypes' /\ EffectTypes' /\ Rows'
  BY <1>1, <1>2, InvariantGroups, ReceiptKeepsRows DEF Returned, coordVars
<1>4. StateTypes' /\ ControlTypes'
  BY InvariantGroups DEF Returned, StateTypes, ControlTypes, stateVars, taskVars, coordVars
<1> QED BY <1>3, <1>4, InvariantGroupsAfter

(* T3 in the worker: add_step_and_update_state charges and closes the step. *)
LEMMA CompletePreserves == ASSUME IInv, Complete PROVE IInv'
<1> DEFINE next == [count |-> mem.count + SpentUnits, step |-> mem.step + 1]
<1>1. mem \in [count : Nat, step : Nat] /\ issued \in SUBSET Op
  BY InvariantGroups DEF ControlTypes
<1>2. SpentUnits \in Nat
  <2>1. {o \in issued : result[o] = "sent"} \in SUBSET Op
    BY <1>1
  <2> QED BY <2>1, CountIsNat DEF SpentUnits
<1>3. next \in [count : Nat, step : Nat] /\ mem.step \in Nat
  BY <1>1, <1>2
<1>4. CommitStep(mem.step, next) /\ mem' = next
  BY DEF Complete
<1> HIDE DEF next
<1>5. RowTypes' /\ EffectTypes' /\ StateTypes' /\ Rows'
  BY <1>3, <1>4, InvariantGroups, CommitKeepsRows DEF Complete, coordVars
<1>6. ControlTypes'
  BY <1>3, <1>4, InvariantGroups DEF Complete, ControlTypes, taskVars, coordVars
<1> QED BY <1>5, <1>6, InvariantGroupsAfter

(* The worker is stopped: what it was waiting for is left reserved. *)
LEMMA InterruptedPreserves == ASSUME IInv, Interrupted PROVE IInv'
<1>1. RowTypes' /\ EffectTypes' /\ Rows'
  <2>1. CASE UNCHANGED rowVars
    BY <2>1, InvariantGroups, RowsStay DEF Interrupted, coordVars
  <2>2. CASE \E o \in issued : row[o] = "dispatching" /\ RecordUnknown(o)
    <3>1. PICK o \in issued : row[o] = "dispatching" /\ RecordUnknown(o)
      BY <2>2
    <3>2. o \in Op
      BY InvariantGroups DEF ControlTypes
    <3> QED BY <3>1, <3>2, InvariantGroups, UnknownKeepsRows DEF Interrupted, coordVars
  <2> QED BY <2>1, <2>2 DEF Interrupted
<1>2. StateTypes' /\ ControlTypes'
  BY InvariantGroups, BoundsAreNumbers
  DEF Interrupted, StateTypes, ControlTypes, stateVars, coordVars
<1> QED BY <1>1, <1>2, InvariantGroupsAfter

(* The worker's steps that write neither a row nor a state. *)
LEMMA QuietWorkerPreserves ==
  ASSUME IInv, Finish \/ BudgetStops \/ Succeed PROVE IInv'
<1>1. RowTypes' /\ EffectTypes' /\ Rows'
  BY InvariantGroups, RowsStay DEF Finish, BudgetStops, Succeed, coordVars
<1>2. StateTypes'
  BY InvariantGroups DEF Finish, BudgetStops, Succeed, StateTypes, stateVars
<1>3. ControlTypes'
  BY InvariantGroups
  DEF Finish, BudgetStops, Succeed, ControlTypes, taskVars, coordVars, Ended
<1> QED BY <1>1, <1>2, <1>3, InvariantGroupsAfter

(* The driver sends the input of a dispatched operation, or fails to. *)
LEMMA EffectPreserves ==
  ASSUME IInv, NEW o \in Op, NEW r \in Report, Effect(o, r) PROVE IInv'
<1>1. RowTypes' /\ EffectTypes' /\ StateTypes' /\ ControlTypes'
  BY InvariantGroups
  DEF Effect, RowTypes, EffectTypes, StateTypes, ControlTypes, rowVars, stateVars, taskVars,
      workerVars, coordVars
<1>2. ResultsAreEffects'
  BY InvariantGroups DEF Effect, Rows, ResultsAreEffects, EffectTypes, rowVars
<1>3. FreshRowsAreEmpty'
  BY InvariantGroups DEF Effect, Rows, FreshRowsAreEmpty, EffectTypes, rowVars, coordVars
<1>4. OpenIsReserved' /\ ClosedIsSettled'
  BY InvariantGroups DEF Effect, Rows, OpenIsReserved, ClosedIsSettled, rowVars
<1> QED BY <1>1, <1>2, <1>3, <1>4, InvariantGroupsAfter DEF Rows

(* A receipt that arrives after the worker has gone stores a fact, or nothing. *)
LEMMA LateReceiptPreserves ==
  ASSUME IInv, NEW o \in Op, NEW k \in Source, LateReceipt(o, k) PROVE IInv'
<1>1. todo \in SUBSET Op
  BY InvariantGroups DEF ControlTypes
<1>2. RowTypes' /\ EffectTypes' /\ Rows'
  BY <1>1, InvariantGroups, ReceiptKeepsRows DEF LateReceipt, coordVars
<1>3. StateTypes' /\ ControlTypes'
  BY InvariantGroups
  DEF LateReceipt, StateTypes, ControlTypes, stateVars, taskVars, workerVars, coordVars
<1> QED BY <1>2, <1>3, InvariantGroupsAfter

(* A recovery reads the last saved state back into its memory. *)
LEMMA RestorePreserves == ASSUME IInv, Restore PROVE IInv'
<1>1. PICK base \in {manifest, IF Pending = {} THEN saved ELSE manifest} :
        cmem' = [count |-> MaxOf(saved.count, base.count), step |-> base.step]
  BY DEF Restore
<1>2. saved \in [count : Nat, step : Nat] /\ base \in [count : Nat, step : Nat]
  BY InvariantGroups DEF StateTypes
<1>3. cmem' \in [count : Nat, step : Nat]
  BY <1>1, <1>2 DEF MaxOf
<1>4. todo' \subseteq {o \in Op : row[o] # "absent"}
  BY DEF Restore, Pending
<1>5. RowTypes' /\ EffectTypes' /\ StateTypes'
  BY InvariantGroups
  DEF Restore, RowTypes, EffectTypes, StateTypes, rowVars, stateVars
<1>6. ControlTypes'
  BY <1>3, <1>4, InvariantGroups DEF Restore, ControlTypes, taskVars, workerVars
<1>7. Rows'
  BY <1>4, InvariantGroups
  DEF Restore, rowVars, Rows, ResultsAreEffects, FreshRowsAreEmpty, OpenIsReserved,
      ClosedIsSettled
<1> QED BY <1>5, <1>6, <1>7, InvariantGroupsAfter

(* A recovery asks the driver's journal for a reserved operation (_recover). *)
LEMMA CollectPreserves == ASSUME IInv, NEW o \in Op, Collect(o) PROVE IInv'
<1>1. todo \in SUBSET Op /\ row[o] # "absent"
  BY InvariantGroups DEF Collect, ControlTypes, Rows, FreshRowsAreEmpty
<1>2. UNCHANGED <<flight, effect>> /\ todo' \subseteq todo
  BY DEF Collect
<1>3. RowTypes' /\ EffectTypes' /\ Rows'
  <2>1. CASE effect[o] # "none" /\ \E k \in Source : Receipt(o, effect[o], k)
    BY <1>1, <1>2, <2>1, InvariantGroups, ReceiptKeepsRows
  <2>2. CASE RecordUnknown(o)
    BY <1>1, <1>2, <2>2, InvariantGroups, UnknownKeepsRows
  <2> QED BY <2>1, <2>2 DEF Collect
<1>4. StateTypes' /\ ControlTypes'
  BY <1>2, InvariantGroups
  DEF Collect, StateTypes, ControlTypes, stateVars, taskVars, workerVars
<1> QED BY <1>3, <1>4, InvariantGroupsAfter

(* A recovery closes the step it found open (_close_steps). *)
LEMMA CloseStepPreserves == ASSUME IInv, CloseStep PROVE IInv'
<1> DEFINE closed(s) ==
      [count |-> cmem.count + Cardinality({o \in Open(s) : ChargeUnits(o) = 1}),
       step |-> MaxOf(cmem.step, s + 1)]
<1>1. PICK s \in {seq[o] : o \in Pending} : CommitStep(s, closed(s)) /\ cmem' = closed(s)
  BY DEF CloseStep
<1>2. s \in Nat
  BY InvariantGroups DEF RowTypes, Pending
<1>3. {o \in Open(s) : ChargeUnits(o) = 1} \in SUBSET Op
  BY DEF Open, Pending
<1>4. cmem \in [count : Nat, step : Nat]
  BY InvariantGroups DEF ControlTypes
<1>5. closed(s) \in [count : Nat, step : Nat]
  BY <1>2, <1>3, <1>4, CountIsNat DEF MaxOf
<1> HIDE DEF closed
<1>6. RowTypes' /\ EffectTypes' /\ StateTypes' /\ Rows'
  BY <1>1, <1>2, <1>5, InvariantGroups, CommitKeepsRows DEF CloseStep
<1>7. ControlTypes'
  BY <1>1, <1>5, InvariantGroups DEF CloseStep, ControlTypes, taskVars, workerVars
<1> QED BY <1>6, <1>7, InvariantGroupsAfter

(* A cancel and the coordinator's steps that write no row. *)
LEMMA QuietCoordPreserves ==
  ASSUME IInv, Cancel \/ Takeover \/ Isolate \/ SaveState \/ Publish \/ RecoveryFails \/ Crash
  PROVE  IInv'
<1>1. UNCHANGED <<rowVars, effect, todo>> /\ flight' \subseteq flight
  BY DEF Cancel, coordVars, Takeover, Isolate, SaveState, Publish, RecoveryFails, Crash
<1>2. RowTypes' /\ EffectTypes' /\ Rows'
  BY <1>1, InvariantGroups, RowsStay
<1>3. cmem \in [count : Nat, step : Nat]
  BY InvariantGroups DEF ControlTypes
<1>4. StateTypes'
  BY <1>3, InvariantGroups
  DEF Cancel, Takeover, Isolate, SaveState, Publish, RecoveryFails, Crash, StateTypes, stateVars
<1>5. ControlTypes'
  <2>1. CASE Takeover \/ Isolate
    BY <2>1, InvariantGroups DEF Takeover, Isolate, ControlTypes, taskVars, workerVars
  <2>2. CASE SaveState \/ Publish
    BY <2>2, InvariantGroups DEF SaveState, Publish, ControlTypes, workerVars
  <2>3. CASE RecoveryFails \/ Crash
    BY <2>3, InvariantGroups, BoundsAreNumbers
    DEF RecoveryFails, Crash, ControlTypes, taskVars, workerVars, Ended
  <2>4. CASE Cancel
    BY <2>4, InvariantGroups DEF Cancel, ControlTypes, coordVars, Ended
  <2> QED BY <2>1, <2>2, <2>3, <2>4
<1> QED BY <1>2, <1>4, <1>5, InvariantGroupsAfter

-----------------------------------------------------------------------------
(* The invariant holds at first ... *)
LEMMA InitEstablishes == Init => IInv
  BY BoundsAreNumbers
  DEF Init, IInv, TypeOK, Start, Shape, ResultsAreEffects, FreshRowsAreEmpty, OpenIsReserved,
      ClosedIsSettled

(* ... and after every step. *)
LEMMA NextPreserves == IInv /\ [Next]_vars => IInv'
<1> SUFFICES ASSUME IInv, [Next]_vars PROVE IInv'
  OBVIOUS
<1>1. CASE WorkerStep
  BY <1>1, StartWorkerPreserves, SubmitPreserves, PreparePreserves, ReturnedPreserves,
     CompletePreserves, QuietWorkerPreserves DEF WorkerStep
<1>2. CASE CoordStep
  BY <1>2, RestorePreserves, CollectPreserves, CloseStepPreserves, QuietCoordPreserves
  DEF CoordStep, RecoveryStep
<1>3. CASE Interrupted \/ Cancel \/ RecoveryFails \/ Crash
  BY <1>3, InterruptedPreserves, QuietCoordPreserves
<1>4. CASE \E o \in Op : \/ \E r \in Report : Effect(o, r)
                         \/ \E k \in Source : LateReceipt(o, k)
  BY <1>4, EffectPreserves, LateReceiptPreserves
<1>5. CASE UNCHANGED vars
  BY <1>5 DEF vars, rowVars, stateVars, taskVars, workerVars, coordVars, IInv, TypeOK,
     ResultsAreEffects, FreshRowsAreEmpty, OpenIsReserved, ClosedIsSettled
<1> QED BY <1>1, <1>2, <1>3, <1>4, <1>5 DEF Next

(* The inductive invariant holds in every reachable state of the ledger. *)
THEOREM InvariantHolds == Spec => []IInv
  BY InitEstablishes, NextPreserves, PTL DEF Spec

(* The ledger and the memory of its parties are well typed. *)
THEOREM TypeCorrect == Spec => []TypeOK
<1>1. IInv => TypeOK
  BY DEF IInv
<1> QED BY <1>1, InvariantHolds, PTL

(* An input the driver sent, and whose step is closed, has been charged.    *)
THEOREM SentInputIsCharged == Spec => []SentIsCharged
<1>1. IInv => SentIsCharged
  BY DEF IInv, ResultsAreEffects, ClosedIsSettled, SentIsCharged
<1> QED BY <1>1, InvariantHolds, PTL

-----------------------------------------------------------------------------
(* What no step may do to a closed operation. *)
ClosedStays ==
  \A o \in Op : row[o] = "committed" =>
    /\ row'[o] = "committed"
    /\ <<result[o], reserved[o], settled[o], uncertain[o]>>'
         = <<result[o], reserved[o], settled[o], uncertain[o]>>

(* A receipt, an unknown result and a commit each leave a closed row as it is. *)
LEMMA RowWritesKeepClosed ==
  ASSUME IInv
  PROVE  /\ \A o \in Op, r \in Report, k \in Source : Receipt(o, r, k) => ClosedStays
         /\ \A o \in Op : RecordUnknown(o) => ClosedStays
         /\ \A s \in Nat, state \in [count : Nat, step : Nat] : CommitStep(s, state)
              => ClosedStays
<1>1. RowTypes /\ ClosedIsSettled
  BY InvariantGroups DEF Rows
<1>2. ASSUME NEW o \in Op, NEW r \in Report, NEW k \in Source, Receipt(o, r, k)
      PROVE  ClosedStays
  BY <1>1, <1>2 DEF ClosedStays, Receipt, RowTypes
<1>3. ASSUME NEW o \in Op, RecordUnknown(o)
      PROVE  ClosedStays
  BY <1>1, <1>3 DEF ClosedStays, ClosedIsSettled, RecordUnknown, RowTypes
<1>4. ASSUME NEW s \in Nat, NEW state \in [count : Nat, step : Nat], CommitStep(s, state)
      PROVE  ClosedStays
  <2>1. CASE s \in steps
    BY <1>4, <2>1 DEF CommitStep, ClosedStays, rowVars
  <2>2. CASE s \notin steps
    <3>1. Settle(Open(s))
      BY <1>4, <2>2 DEF CommitStep
    <3>2. \A o \in Open(s) : row[o] # "committed"
      BY DEF Open, Pending
    <3> QED BY <3>1, <3>2 DEF ClosedStays, Settle
  <2> QED BY <2>1, <2>2
<1> QED BY <1>2, <1>3, <1>4

(* Every step either writes the rows in one of these ways or leaves them alone. *)
LEMMA StepsKeepClosed == IInv /\ [Next]_vars => ClosedStays \/ UNCHANGED rowVars
<1> SUFFICES ASSUME IInv, [Next]_vars PROVE ClosedStays \/ UNCHANGED rowVars
  OBVIOUS
<1> USE InvariantGroups
<1>1. ASSUME NEW o \in Op, effect[o] # "none" PROVE effect[o] \in Report
  BY <1>1 DEF EffectTypes
<1>2. issued \in SUBSET Op /\ mem \in [count : Nat, step : Nat] /\ cmem \in [count : Nat,
        step : Nat]
  BY DEF ControlTypes
<1>3. ASSUME NEW o \in Op, Prepare(o) PROVE ClosedStays
  BY <1>3 DEF Prepare, ClosedStays, RowTypes
<1>4. ASSUME NEW k \in Source, Returned(k) PROVE ClosedStays
  BY <1>1, <1>2, <1>4, RowWritesKeepClosed DEF Returned
<1>5. ASSUME Complete PROVE ClosedStays
  <2>1. PICK next : /\ next = [count |-> mem.count + SpentUnits, step |-> mem.step + 1]
                    /\ CommitStep(mem.step, next)
    BY <1>5 DEF Complete
  <2>2. SpentUnits \in Nat
    <3>1. {o \in issued : result[o] = "sent"} \in SUBSET Op
      BY <1>2
    <3> QED BY <3>1, CountIsNat DEF SpentUnits
  <2>3. next \in [count : Nat, step : Nat] /\ mem.step \in Nat
    BY <1>2, <2>1, <2>2
  <2> QED BY <2>1, <2>3, RowWritesKeepClosed
<1>6. ASSUME CloseStep PROVE ClosedStays
  <2> DEFINE closed(s) ==
        [count |-> cmem.count + Cardinality({o \in Open(s) : ChargeUnits(o) = 1}),
         step |-> MaxOf(cmem.step, s + 1)]
  <2>1. PICK s \in {seq[o] : o \in Pending} : CommitStep(s, closed(s))
    BY <1>6 DEF CloseStep
  <2>2. s \in Nat
    BY DEF RowTypes, Pending
  <2>3. {o \in Open(s) : ChargeUnits(o) = 1} \in SUBSET Op
    BY DEF Open, Pending
  <2>4. closed(s) \in [count : Nat, step : Nat]
    BY <1>2, <2>2, <2>3, CountIsNat DEF MaxOf
  <2> HIDE DEF closed
  <2> QED BY <2>1, <2>2, <2>4, RowWritesKeepClosed
<1>7. ASSUME NEW o \in Op, Collect(o) PROVE ClosedStays
  BY <1>1, <1>7, RowWritesKeepClosed DEF Collect
<1>8. ASSUME NEW o \in Op, NEW k \in Source, LateReceipt(o, k) PROVE ClosedStays
  BY <1>1, <1>8, RowWritesKeepClosed DEF LateReceipt
<1>9. ASSUME Interrupted PROVE ClosedStays \/ UNCHANGED rowVars
  BY <1>2, <1>9, RowWritesKeepClosed DEF Interrupted
<1>10. CASE WorkerStep
  BY <1>3, <1>4, <1>5, <1>10
  DEF WorkerStep, StartWorker, Finish, BudgetStops, Succeed, Submit
<1>11. CASE CoordStep
  BY <1>6, <1>7, <1>11
  DEF CoordStep, RecoveryStep, Takeover, Isolate, Restore, SaveState, Publish
<1>12. CASE Cancel \/ RecoveryFails \/ Crash \/ \E o \in Op, r \in Report : Effect(o, r)
  BY <1>12 DEF Cancel, RecoveryFails, Crash, Effect
<1> QED BY <1>8, <1>9, <1>10, <1>11, <1>12 DEF Next, vars

(* A closed operation is final: a late receipt changes neither its result nor *)
(* its charge, and no later step or recovery opens it again.                  *)
THEOREM ClosedIsFinal == Spec => CommittedIsFinal
<1>1. IInv /\ [Next]_vars => [ClosedStays]_rowVars
  BY StepsKeepClosed
<1> QED BY <1>1, InvariantHolds, PTL DEF Spec, CommittedIsFinal, ClosedStays

-----------------------------------------------------------------------------
(* The budget, and the one step that may be open.  Neither is inductive alone: *)
(* that a commit closes everything that is open rests on all of it carrying    *)
(* the number of the step that is next in the saved state, and that the limit  *)
(* holds rests on what each party remembers agreeing with the ledger.          *)
LedgerAgrees ==
  /\ manifest.step = saved.step
  /\ \A s \in steps : s < saved.step
  /\ \A o \in Pending : seq[o] = saved.step
  /\ saved.count + Held <= Limit /\ manifest.count + Held <= Limit

(* A worker and a coordinator never run at once; the worker's memory is the    *)
(* saved state; the operations of its action are open, and a unit was left for *)
(* them when they were submitted; what a coordinator restored fits the limit.  *)
PartiesAgree ==
  /\ pc = "off" \/ cpc = "off"
  /\ pc # "off" => mem = saved
  /\ cpc \in {"collect", "publish"} => cmem.step = saved.step /\ cmem.count + Held <= Limit
  /\ (pc = "decide" \/ cpc = "publish") => Pending = {}
  /\ pc \in {"act", "await", "finish"} =>
       /\ mem.count + 1 <= Limit
       /\ \A o \in issued : o \in Pending /\ wait[o] = (shape = "sleep")

LInv == IInv /\ LedgerAgrees /\ PartiesAgree

(* What the proofs below use of the types. *)
LEMMA LedgerTypes ==
  ASSUME IInv
  PROVE  /\ saved \in [count : Nat, step : Nat] /\ manifest \in [count : Nat, step : Nat]
         /\ mem \in [count : Nat, step : Nat] /\ cmem \in [count : Nat, step : Nat]
         /\ issued \in SUBSET Op /\ seq \in [Op -> Nat] /\ wait \in [Op -> BOOLEAN]
         /\ reserved \in [Op -> {0, 1}]
         /\ row \in [Op -> {"absent", "dispatching", "recorded", "committed"}]
         /\ Held \in Nat /\ Limit \in Nat
<1>1. Held \in Nat
  BY CountIsNat DEF Held
<1> QED BY <1>1, InvariantGroups, BoundsAreNumbers DEF RowTypes, StateTypes, ControlTypes

(* Only an open operation holds a unit. *)
LEMMA HeldIsOpen == ASSUME IInv, NEW o \in Op, reserved[o] = 1 PROVE o \in Pending
  BY InvariantGroups DEF RowTypes, Rows, FreshRowsAreEmpty, ClosedIsSettled, Pending

(* Operations that hold a unit are no more than the units held. *)
LEMMA FewerThanHeld ==
  ASSUME NEW S \in SUBSET Op, \A o \in S : reserved[o] = 1
  PROVE  Cardinality(S) \in Nat /\ Cardinality(S) <= Held
<1> DEFINE R == {o \in Op : reserved[o] = 1}
<1>1. IsFiniteSet(R) /\ S \subseteq R
  BY OperationsAreFinite, FS_Subset
<1> QED BY <1>1, CountIsNat, FS_Subset DEF Held

(* A receipt and an unknown result open and close nothing. *)
LEMMA ReceiptKeepsOpen ==
  ASSUME IInv, NEW o \in Op, NEW r, NEW k, row[o] # "absent", Receipt(o, r, k)
  PROVE  Pending' = Pending /\ UNCHANGED <<seq, wait, reserved>>
  BY LedgerTypes DEF Receipt, Pending

LEMMA UnknownKeepsOpen ==
  ASSUME IInv, NEW o \in Op, row[o] # "absent", RecordUnknown(o)
  PROVE  Pending' = Pending /\ UNCHANGED <<seq, wait, reserved>>
<1>1. row[o] = "committed" => result[o] # "none"
  BY InvariantGroups DEF Rows, ClosedIsSettled
<1> QED BY <1>1, LedgerTypes DEF RecordUnknown, Pending

(* A step that opens and closes nothing and saves nothing leaves the ledger's  *)
(* side as it is.                                                              *)
LEMMA LedgerStays ==
  ASSUME LedgerAgrees, Pending' = Pending, UNCHANGED <<seq, reserved, steps, saved, manifest>>
  PROVE  LedgerAgrees' /\ Held' = Held
<1>1. Held' = Held
  BY DEF Held
<1> QED BY <1>1 DEF LedgerAgrees

(* A commit of the saved state's next step closes everything that is open.     *)
LEMMA CommitClosesAll ==
  ASSUME LInv, NEW state \in [count : Nat, step : Nat], CommitStep(saved.step, state)
  PROVE  /\ Pending' = {} /\ Held' = 0
         /\ steps' = steps \union {saved.step} /\ saved' = state /\ manifest' = state
<1>1. saved.step \in Nat /\ saved.step \notin steps /\ Open(saved.step) = Pending
  BY LedgerTypes DEF LInv, LedgerAgrees, Open
<1>2. /\ Settle(Pending)
      /\ steps' = steps \union {saved.step} /\ saved' = state /\ manifest' = state
  BY <1>1 DEF CommitStep
<1>3. Pending' = {}
  BY <1>2, LedgerTypes DEF Settle, Pending
<1>4. {o \in Op : reserved[o] = 1}' = {}
  BY <1>2, HeldIsOpen DEF Settle, LInv
<1>5. Held' = 0
  BY <1>4, FS_EmptySet DEF Held
<1> QED BY <1>2, <1>3, <1>5

-----------------------------------------------------------------------------
(* A worker starts from the saved state, when nothing is open (run_owned_task). *)
LEMMA StartWorkerFits ==
  ASSUME LInv, StartWorker PROVE LedgerAgrees' /\ PartiesAgree'
<1>1. Pending' = Pending /\ Pending = {}
  BY DEF StartWorker, rowVars, Pending
<1>2. LedgerAgrees' /\ Held' = Held
  BY <1>1, LedgerStays DEF LInv, StartWorker, rowVars, stateVars
<1> QED BY <1>1, <1>2 DEF LInv, PartiesAgree, StartWorker, coordVars, stateVars

(* submit_executor_step: a unit is left, and the action has no operation yet.   *)
LEMMA SubmitFits ==
  ASSUME LInv, NEW s \in Shape, Submit(s) PROVE LedgerAgrees' /\ PartiesAgree'
<1>1. Pending' = Pending
  BY DEF Submit, rowVars, Pending
<1>2. LedgerAgrees' /\ Held' = Held
  BY <1>1, LedgerStays DEF LInv, Submit, rowVars, stateVars
<1> QED BY <1>1, <1>2 DEF LInv, PartiesAgree, Submit, coordVars, stateVars

(* T1: the unit a primitive reserves is one BudgetAllows found left.            *)
LEMMA PrepareFits ==
  ASSUME LInv, NEW o \in Op, Prepare(o) PROVE LedgerAgrees' /\ PartiesAgree'
<1> USE LedgerTypes DEF LInv
<1>1. /\ mem = saved /\ cpc = "off" /\ pc = "act" /\ pc' = "await" /\ row[o] = "absent"
      /\ UNCHANGED <<mem, shape, cpc, cmem, saved, steps>>
  BY DEF PartiesAgree, Prepare, coordVars
<1>2. Pending' = Pending \union {o}
  BY DEF Prepare, Pending
<1>3. reserved[o] = 0 /\ o \notin Pending
  BY <1>1, InvariantGroups DEF Rows, FreshRowsAreEmpty, Pending
<1>4. saved.count + Held' <= Limit
  <2>1. CASE shape = "sleep"
    <3>1. reserved' = reserved
      BY <1>3, <2>1 DEF Prepare, Units
    <3> QED BY <3>1 DEF Held, LedgerAgrees
  <2>2. CASE shape # "sleep"
    <3> DEFINE R == {p \in Op : reserved[p] = 1}
    <3>1. R' = R \union {o} /\ o \notin R
      BY <1>3, <2>2 DEF Prepare, Units
    <3>2. IsFiniteSet(R)
      BY OperationsAreFinite, FS_Subset
    <3>3. Cardinality(R') = Cardinality(R) + 1
      BY <3>1, <3>2, FS_AddElement
    <3>4. Held' = Held + 1
      BY <3>3 DEF Held
    <3>5. mem.count + Held + 1 <= Limit
      BY <2>2 DEF Prepare, BudgetAllows, Units
    <3> QED BY <1>1, <3>4, <3>5
  <2> QED BY <2>1, <2>2
<1>5. LedgerAgrees'
  <2>1. manifest' = saved
    BY <1>1 DEF Prepare
  <2>2. \A p \in Pending' : seq'[p] = saved.step
    BY <1>1, <1>2 DEF Prepare, LedgerAgrees, Pending
  <2>3. \A s \in steps : s < saved.step
    BY DEF LedgerAgrees
  <2> QED BY <1>1, <1>4, <2>1, <2>2, <2>3 DEF LedgerAgrees
<1>6. \A p \in issued' : p \in Pending' /\ wait'[p] = (shape = "sleep")
  BY <1>1, <1>2 DEF Prepare, PartiesAgree
<1>7. mem.count + 1 <= Limit
  BY <1>1 DEF PartiesAgree
<1> QED BY <1>1, <1>5, <1>6, <1>7 DEF PartiesAgree

(* T2: an answer opens and closes nothing.                                      *)
LEMMA ReturnedFits ==
  ASSUME LInv, NEW k \in Source, Returned(k) PROVE LedgerAgrees' /\ PartiesAgree'
<1>1. PICK o \in issued : row[o] = "dispatching" /\ Receipt(o, effect[o], k)
  BY DEF Returned
<1>2. Pending' = Pending /\ UNCHANGED <<seq, wait, reserved>>
  BY <1>1, ReceiptKeepsOpen, LedgerTypes DEF LInv
<1>3. LedgerAgrees' /\ Held' = Held
  BY <1>2, LedgerStays DEF LInv, Returned, stateVars
<1> QED BY <1>2, <1>3 DEF LInv, PartiesAgree, Returned, coordVars, stateVars

(* T3 in the worker: what the action reports as spent was held for it.          *)
LEMMA CompleteFits == ASSUME LInv, Complete PROVE LedgerAgrees' /\ PartiesAgree'
<1> USE LedgerTypes DEF LInv
<1> DEFINE next == [count |-> mem.count + SpentUnits, step |-> mem.step + 1]
<1>1. mem = saved /\ cpc = "off" /\ pc = "finish"
  BY DEF PartiesAgree, Complete
<1>2. SpentUnits \in Nat /\ saved.count + SpentUnits <= Limit
  <2>1. CASE shape = "pair"
    <3> DEFINE S == {o \in issued : result[o] = "sent"}
    <3>1. \A o \in S : o \in Pending /\ wait[o] = FALSE
      BY <1>1, <2>1 DEF PartiesAgree
    <3>2. S \in SUBSET Op /\ \A o \in S : reserved[o] = 1
      BY <3>1, InvariantGroups DEF Rows, OpenIsReserved, Pending
    <3>3. Cardinality(S) \in Nat /\ Cardinality(S) <= Held
      BY <3>2, FewerThanHeld
    <3>4. SpentUnits = Cardinality(S)
      BY <2>1 DEF SpentUnits
    <3> HIDE DEF S
    <3> QED BY <3>3, <3>4 DEF LedgerAgrees
  <2>2. CASE shape # "pair"
    BY <1>1, <2>2 DEF SpentUnits, PartiesAgree
  <2> QED BY <2>1, <2>2
<1>3. next \in [count : Nat, step : Nat] /\ next.step = saved.step + 1
      /\ next.count = saved.count + SpentUnits
  BY <1>1, <1>2
<1>4. /\ CommitStep(saved.step, next) /\ mem' = next /\ pc' = "decide"
      /\ UNCHANGED <<cpc, cmem, wait, seq>>
  BY <1>1 DEF Complete, CommitStep, Settle, coordVars, rowVars
<1> HIDE DEF next
<1>5. /\ Pending' = {} /\ Held' = 0
      /\ steps' = steps \union {saved.step} /\ saved' = next /\ manifest' = next
  BY <1>3, <1>4, CommitClosesAll
<1>6. \A s \in steps' : s < next.step
  BY <1>3, <1>5, InvariantGroups DEF LedgerAgrees, StateTypes
<1>7. LedgerAgrees'
  BY <1>2, <1>3, <1>5, <1>6 DEF LedgerAgrees
<1> QED BY <1>1, <1>4, <1>5, <1>7 DEF PartiesAgree

(* A worker that is stopped leaves its operations open.                         *)
LEMMA InterruptedFits == ASSUME LInv, Interrupted PROVE LedgerAgrees' /\ PartiesAgree'
<1>1. Pending' = Pending /\ UNCHANGED <<seq, wait, reserved>>
  <2>1. CASE UNCHANGED rowVars
    BY <2>1 DEF rowVars, Pending
  <2>2. CASE \E o \in issued : row[o] = "dispatching" /\ RecordUnknown(o)
    BY <2>2, UnknownKeepsOpen, LedgerTypes DEF LInv
  <2> QED BY <2>1, <2>2 DEF Interrupted
<1>2. LedgerAgrees' /\ Held' = Held
  BY <1>1, LedgerStays DEF LInv, Interrupted, stateVars
<1> QED BY <1>1, <1>2 DEF LInv, PartiesAgree, Interrupted, coordVars, stateVars

(* The worker's other steps, and those of the driver, write no row.             *)
LEMMA QuietWorkerFits ==
  ASSUME LInv, Finish \/ BudgetStops \/ Succeed
  PROVE  LedgerAgrees' /\ PartiesAgree'
<1>1. Pending' = Pending
  BY DEF Finish, BudgetStops, Succeed, rowVars, Pending
<1>2. LedgerAgrees' /\ Held' = Held
  BY <1>1, LedgerStays DEF LInv, Finish, BudgetStops, Succeed, rowVars, stateVars
<1>3. UNCHANGED <<wait, saved, mem, issued, shape, cpc, cmem>>
  BY DEF Finish, BudgetStops, Succeed, rowVars, stateVars, coordVars
<1>4. pc # "off" /\ (pc' = "off" \/ (pc = "act" /\ pc' = "finish"))
  BY DEF Finish, BudgetStops, Succeed
<1> QED BY <1>1, <1>2, <1>3, <1>4 DEF LInv, PartiesAgree

LEMMA DriverFits ==
  ASSUME LInv, NEW o \in Op,
         (\E r \in Report : Effect(o, r)) \/ (\E k \in Source : LateReceipt(o, k))
  PROVE  LedgerAgrees' /\ PartiesAgree'
<1>1. Pending' = Pending /\ UNCHANGED <<seq, wait, reserved>>
  <2>1. CASE \E r \in Report : Effect(o, r)
    BY <2>1 DEF Effect, rowVars, Pending
  <2>2. CASE \E k \in Source : LateReceipt(o, k)
    <3>1. row[o] # "absent"
      BY <2>2, InvariantGroups DEF LateReceipt, LInv, Rows, FreshRowsAreEmpty
    <3> QED BY <2>2, <3>1, ReceiptKeepsOpen DEF LateReceipt, LInv
  <2> QED BY <2>1, <2>2
<1>2. UNCHANGED <<stateVars, workerVars, coordVars>>
  BY DEF Effect, LateReceipt
<1>3. LedgerAgrees' /\ Held' = Held
  BY <1>1, <1>2, LedgerStays DEF LInv, stateVars
<1> QED BY <1>1, <1>2, <1>3 DEF LInv, PartiesAgree, workerVars, coordVars, stateVars

-----------------------------------------------------------------------------
(* A recovery restores a count that fits, whichever state it starts from.       *)
LEMMA RestoreFits == ASSUME LInv, Restore PROVE LedgerAgrees' /\ PartiesAgree'
<1> USE LedgerTypes DEF LInv
<1>1. PICK base \in {manifest, saved} :
        cmem' = [count |-> MaxOf(saved.count, base.count), step |-> base.step]
  BY DEF Restore
<1>2. Pending' = Pending
  BY DEF Restore, rowVars, Pending
<1>3. LedgerAgrees' /\ Held' = Held
  BY <1>2, LedgerStays DEF Restore, rowVars, stateVars
<1>4. cmem'.step = saved.step /\ cmem'.count + Held <= Limit
  BY <1>1 DEF LedgerAgrees, MaxOf
<1>5. pc = "off" /\ UNCHANGED <<pc, saved>> /\ cpc' = "collect"
  BY DEF Restore, PartiesAgree, workerVars, stateVars
<1> QED BY <1>3, <1>4, <1>5 DEF PartiesAgree

(* _recover: the driver's receipt, or its absence, opens and closes nothing.    *)
LEMMA CollectFits ==
  ASSUME LInv, NEW o \in Op, Collect(o) PROVE LedgerAgrees' /\ PartiesAgree'
<1>1. row[o] # "absent"
  BY InvariantGroups DEF LInv, Collect, Rows, FreshRowsAreEmpty
<1>2. Pending' = Pending /\ UNCHANGED <<seq, wait, reserved>>
  BY <1>1, ReceiptKeepsOpen, UnknownKeepsOpen DEF LInv, Collect
<1>3. LedgerAgrees' /\ Held' = Held
  BY <1>2, LedgerStays DEF LInv, Collect, stateVars
<1> QED BY <1>2, <1>3 DEF LInv, PartiesAgree, Collect, workerVars, stateVars

(* _close_steps: what it charges was held by the operations it closes.          *)
LEMMA CloseStepFits == ASSUME LInv, CloseStep PROVE LedgerAgrees' /\ PartiesAgree'
<1> USE LedgerTypes DEF LInv
<1> DEFINE S == {o \in Open(saved.step) : ChargeUnits(o) = 1}
           closed == [count |-> cmem.count + Cardinality(S),
                      step |-> MaxOf(cmem.step, saved.step + 1)]
<1>1. \A o \in Pending : seq[o] = saved.step
  BY DEF LedgerAgrees
<1>2. CommitStep(saved.step, closed) /\ cmem' = closed
  BY <1>1 DEF CloseStep
<1>3. cpc = "collect" /\ pc = "off" /\ UNCHANGED <<pc, cpc>>
  BY DEF CloseStep, PartiesAgree, workerVars
<1>4. cmem.step = saved.step /\ cmem.count + Held <= Limit
  BY <1>3 DEF PartiesAgree
<1>5. Cardinality(S) \in Nat /\ Cardinality(S) <= Held
  <2>1. S \in SUBSET Op /\ \A o \in S : reserved[o] = 1
    BY DEF Open, Pending, ChargeUnits
  <2> QED BY <2>1, FewerThanHeld
<1> HIDE DEF S
<1>6. /\ closed \in [count : Nat, step : Nat]
      /\ closed.step = saved.step + 1 /\ closed.count <= Limit
  BY <1>4, <1>5 DEF MaxOf
<1> HIDE DEF closed
<1>7. /\ Pending' = {} /\ Held' = 0
      /\ steps' = steps \union {saved.step} /\ saved' = closed /\ manifest' = closed
  BY <1>2, <1>6, CommitClosesAll
<1>8. \A s \in steps' : s < closed.step
  BY <1>6, <1>7, InvariantGroups DEF LedgerAgrees, StateTypes
<1>9. LedgerAgrees'
  BY <1>6, <1>7, <1>8 DEF LedgerAgrees
<1> QED BY <1>2, <1>3, <1>6, <1>7, <1>9 DEF PartiesAgree

(* The restored state is saved when nothing is open, and published as it is.    *)
LEMMA SaveFits ==
  ASSUME LInv, SaveState \/ Publish PROVE LedgerAgrees' /\ PartiesAgree'
<1> USE LedgerTypes DEF LInv
<1>1. Pending' = Pending /\ Held' = Held /\ UNCHANGED <<pc, steps, seq, cmem>>
  BY DEF SaveState, Publish, rowVars, workerVars, Pending, Held
<1>2. pc = "off" /\ cmem.step = saved.step /\ cmem.count + Held <= Limit /\ Pending = {}
  BY DEF SaveState, Publish, PartiesAgree
<1>3. LedgerAgrees'
  BY <1>1, <1>2 DEF SaveState, Publish, LedgerAgrees
<1>4. \/ cpc' = "publish" /\ saved' = cmem
      \/ cpc' = "off"
  BY DEF SaveState, Publish
<1> QED BY <1>1, <1>2, <1>3, <1>4 DEF PartiesAgree

(* A cancel, the coordinator's other steps and a crash save nothing.            *)
LEMMA QuietCoordFits ==
  ASSUME LInv, Cancel \/ Takeover \/ Isolate \/ RecoveryFails \/ Crash
  PROVE  LedgerAgrees' /\ PartiesAgree'
<1>1. Pending' = Pending
  BY DEF Cancel, Takeover, Isolate, RecoveryFails, Crash, rowVars, Pending
<1>2. LedgerAgrees' /\ Held' = Held
  BY <1>1, LedgerStays
  DEF LInv, Cancel, Takeover, Isolate, RecoveryFails, Crash, rowVars, stateVars
<1>3. CASE Takeover \/ Isolate \/ RecoveryFails \/ Crash
  <2>1. pc' = "off" /\ cpc' \in {"off", "isolate", "restore"}
    BY <1>3 DEF LInv, PartiesAgree, Takeover, Isolate, RecoveryFails, Crash, workerVars
  <2> QED BY <1>2, <2>1 DEF PartiesAgree
<1>4. CASE Cancel
  <2>1. pc' = "off" /\ UNCHANGED <<cpc, cmem, saved, steps, seq>>
    BY <1>4 DEF Cancel, coordVars, stateVars, rowVars
  <2> QED BY <1>1, <1>2, <2>1 DEF LInv, PartiesAgree
<1> QED BY <1>3, <1>4

-----------------------------------------------------------------------------
LEMMA InitFits == Init => LInv
<1> SUFFICES ASSUME Init PROVE LInv
  OBVIOUS
<1>1. Pending = {}
  BY DEF Init, Pending
<1>2. Held = 0
  <2>1. {o \in Op : reserved[o] = 1} = {}
    BY DEF Init
  <2> QED BY <2>1, FS_EmptySet DEF Held
<1> QED BY <1>1, <1>2, InitEstablishes, BoundsAreNumbers
        DEF Init, Start, LInv, LedgerAgrees, PartiesAgree

LEMMA NextFits == LInv /\ [Next]_vars => LInv'
<1> SUFFICES ASSUME LInv, [Next]_vars PROVE LInv'
  OBVIOUS
<1>1. IInv'
  BY NextPreserves DEF LInv
<1>2. LedgerAgrees' /\ PartiesAgree'
  <2>1. CASE WorkerStep
    BY <2>1, StartWorkerFits, SubmitFits, PrepareFits, ReturnedFits, CompleteFits,
       QuietWorkerFits DEF WorkerStep
  <2>2. CASE CoordStep
    BY <2>2, RestoreFits, CollectFits, CloseStepFits, SaveFits, QuietCoordFits
    DEF CoordStep, RecoveryStep
  <2>3. CASE Interrupted \/ Cancel \/ RecoveryFails \/ Crash
    BY <2>3, InterruptedFits, QuietCoordFits
  <2>4. CASE \E o \in Op : \/ \E r \in Report : Effect(o, r)
                           \/ \E k \in Source : LateReceipt(o, k)
    BY <2>4, DriverFits
  <2>5. CASE UNCHANGED vars
    <3>1. Pending' = Pending
      BY <2>5 DEF vars, rowVars, Pending
    <3>2. LedgerAgrees' /\ Held' = Held
      BY <2>5, <3>1, LedgerStays DEF LInv, vars, rowVars, stateVars
    <3> QED BY <2>5, <3>1, <3>2
            DEF LInv, PartiesAgree, vars, rowVars, stateVars, workerVars, coordVars
  <2> QED BY <2>1, <2>2, <2>3, <2>4, <2>5 DEF Next
<1> QED BY <1>1, <1>2 DEF LInv

(* The ledger and the memory of its parties agree in every reachable state.     *)
THEOREM PartiesAlwaysAgree == Spec => []LInv
  BY InitFits, NextFits, PTL DEF Spec

(* What the task has spent and what its open operations may still spend stay    *)
(* within the device action limit, across crashes and recoveries.               *)
THEOREM BudgetIsKept == Spec => []BudgetHolds
<1>1. LInv => BudgetHolds
  BY DEF LInv, LedgerAgrees, PartiesAgree, BudgetHolds
<1> QED BY <1>1, PartiesAlwaysAgree, PTL

(* Open operations belong to one step, which is not committed yet.              *)
THEOREM OneStepIsOpen == Spec => []OpenStepIsOpen
<1>1. ASSUME LInv PROVE OpenStepIsOpen
  BY <1>1, LedgerTypes DEF LInv, LedgerAgrees, OpenStepIsOpen
<1> QED BY <1>1, PartiesAlwaysAgree, PTL
=============================================================================
