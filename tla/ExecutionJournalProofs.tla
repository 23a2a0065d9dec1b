---------------------- MODULE ExecutionJournalProofs ----------------------
(***************************************************************************)
(* What TLAPS proves of module ExecutionJournal, for every set of devices, *)
(* operations, handlers and drains, and any number of commands and crashes:*)
(* a device reported quiescent is silent, no operation is executed twice,  *)
(* fences only grow.  The invariant assumes, as the journal does, that a   *)
(* command does not reach its time limit while it still starts.            *)
(*                                                                         *)
(* One lemma per action; its second step has the parts of the invariant    *)
(* that do not mention what the action writes.                             *)
(***************************************************************************)
EXTENDS ExecutionJournal, TLAPS

(* Fences are natural numbers, as is the zero of a device that has none. *)
LEMMA FencesInNat == Fences \union {0} \subseteq Nat
  BY FencesAreNumbers

(* What an envelope carries. *)
LEMMA EnvelopeFence ==
  ASSUME NEW e \in Envelope
  PROVE  e.fence \in Nat /\ e.op \in Op /\ e.device \in Device
  BY FencesInNat DEF Envelope

(* The numbers the fence of a device is compared with. *)
LEMMA FenceNumbers ==
  ASSUME TypeOK, NEW d \in Device
  PROVE  guard[d].fence \in Nat /\ drained[d] \in Nat /\ RevokedBelow(d) \in Nat
<1>1. /\ guard[d] \in [fence : Fences \union {0}, holder : Holder \union {NoHolder},
                       closed : BOOLEAN]
      /\ drained[d] \in Nat
  BY DEF TypeOK
<1>2. guard[d].fence \in Fences \union {0}
  BY <1>1
<1>3. guard[d].fence \in Nat
  BY <1>2, FencesInNat
<1> QED BY <1>1, <1>3 DEF RevokedBelow

(* A command there is belongs to an operation with a row, and so to a device. *)
LEMMA CommandHasRow ==
  ASSUME IInv, NEW k \in Command, command[k] # "none"
  PROVE  /\ env[k[1]].fence \in Nat /\ env[k[1]].device \in Device
         /\ \A d \in Device : env[k[1]].device = d => k \in DeviceCommands(d)
<1>1. k[1] \in Op
  BY DEF Command
<1>2. status[k[1]] # "absent"
  BY DEF IInv, CommandsAreIssued
<1>3. env[k[1]] \in Envelope
  BY <1>1, <1>2 DEF IInv, RowsAreEnvelopes
<1> QED BY <1>2, <1>3, EnvelopeFence DEF DeviceCommands


(* act: a new request is only looked up. *)
LEMMA ActPreserves ==
  ASSUME IInv, NEW c \in Call, NEW e \in Envelope, Act(c, e)
  PROVE  IInv'
<1>1. TypeOK'
  BY DEF IInv, TypeOK, Act, rowVars, drainVars, CallPc
<1>2. (RowsAreEnvelopes /\ CommandsAreIssued /\ StartedIsRegistered /\
       DrainerHoldsLock /\ ClaimsAreRevoked /\ DrainProgress /\ DrainedMeansSilent /\
       ExecutedOnce)'
  BY DEF IInv, RowsAreEnvelopes, CommandsAreIssued, StartedIsRegistered,
     DrainerHoldsLock, ClaimsAreRevoked, DrainProgress, DrainedMeansSilent,
     ExecutedOnce, RevokedBelow, Established, DeviceCommands, Touching, Act, rowVars,
     drainVars
<1>3. CallsOwnTheirRow'
  BY DEF IInv, TypeOK, CallsOwnTheirRow, Act, rowVars
<1>4. ExecuteAhead'
  BY DEF IInv, ExecuteAhead, Act, rowVars
<1> QED BY <1>1, <1>2, <1>3, <1>4 DEF IInv

(* _act_locked under the input lock: one handler goes on per operation. *)
LEMMA AcceptPreserves ==
  ASSUME IInv, NEW c \in Call, Accept(c)
  PROVE  IInv'
<1>1. TypeOK'
  BY DEF IInv, TypeOK, Accept, drainVars, CallPc
<1>2. (StartedIsRegistered /\ ClaimsAreRevoked /\ ExecutedOnce)'
  BY DEF IInv, StartedIsRegistered, ClaimsAreRevoked, ExecutedOnce, RevokedBelow,
     Accept, drainVars
<1>3. CallsOwnTheirRow'
  BY DEF IInv, TypeOK, CallsOwnTheirRow, Envelope, Accept
<1>4. RowsAreEnvelopes'
  BY DEF IInv, TypeOK, RowsAreEnvelopes, CallsOwnTheirRow, Accept
<1>5. ExecuteAhead'
  BY DEF IInv, ExecuteAhead, CallsOwnTheirRow, RowsAreEnvelopes, Envelope, Accept
<1>6. CommandsAreIssued'
  BY DEF IInv, CommandsAreIssued, Accept
<1>7. DrainerHoldsLock'
  BY NullsAreNew DEF IInv, DrainerHoldsLock, Accept, drainVars
<1>8. DrainProgress'
  BY DEF IInv, DrainProgress, CommandsAreIssued, Established, DeviceCommands, Accept,
     drainVars
<1>9. DrainedMeansSilent'
  BY DEF IInv, DrainedMeansSilent, CommandsAreIssued, Touching, Accept
<1> QED BY <1>1, <1>2, <1>3, <1>4, <1>5, <1>6, <1>7, <1>8, <1>9 DEF IInv

(* A known id, a closed guard or a busy device: the handler leaves without a trace. *)
LEMMA RefusePreserves ==
  ASSUME IInv, NEW c \in Call, Refuse(c)
  PROVE  IInv'
<1>1. TypeOK'
  BY DEF IInv, TypeOK, Refuse, HandlerEnds, rowVars, drainVars, CallPc
<1>2. (RowsAreEnvelopes /\ CommandsAreIssued /\ StartedIsRegistered /\
       DrainerHoldsLock /\ ClaimsAreRevoked /\ DrainProgress /\ DrainedMeansSilent /\
       ExecutedOnce)'
  BY DEF IInv, RowsAreEnvelopes, CommandsAreIssued, StartedIsRegistered,
     DrainerHoldsLock, ClaimsAreRevoked, DrainProgress, DrainedMeansSilent,
     ExecutedOnce, RevokedBelow, Established, DeviceCommands, Touching, Refuse,
     rowVars, drainVars
<1>3. CallsOwnTheirRow'
  BY DEF IInv, TypeOK, CallsOwnTheirRow, Refuse, HandlerEnds, rowVars
<1>4. ExecuteAhead'
  BY DEF IInv, ExecuteAhead, Refuse, HandlerEnds, rowVars
<1> QED BY <1>1, <1>2, <1>3, <1>4 DEF IInv

(* execute: the only handler of the row enters the driver. *)
LEMMA ExecutePreserves ==
  ASSUME IInv, NEW c \in Call, Execute(c)
  PROVE  IInv'
<1>1. TypeOK'
  BY DEF IInv, TypeOK, Execute, drainVars, CallsOwnTheirRow, Envelope, CallPc
<1>2. (CommandsAreIssued /\ StartedIsRegistered /\ DrainerHoldsLock /\
       ClaimsAreRevoked /\ DrainProgress /\ DrainedMeansSilent)'
  BY DEF IInv, CommandsAreIssued, StartedIsRegistered, DrainerHoldsLock,
     ClaimsAreRevoked, DrainProgress, DrainedMeansSilent, RevokedBelow, Established,
     DeviceCommands, Touching, Execute, drainVars
<1>3. CallsOwnTheirRow'
  BY DEF IInv, CallsOwnTheirRow, Execute
<1>4. RowsAreEnvelopes'
  BY DEF IInv, RowsAreEnvelopes, CallsOwnTheirRow, Execute
<1>5. ExecuteAhead'
  BY DEF IInv, TypeOK, ExecuteAhead, Execute
<1>6. ExecutedOnce'
  BY DEF IInv, ExecutedOnce, ExecuteAhead, Execute
<1> QED BY <1>1, <1>2, <1>3, <1>4, <1>5, <1>6 DEF IInv

(* The driver raises; the row stays accepted. *)
LEMMA FailPreserves ==
  ASSUME IInv, NEW c \in Call, Fail(c)
  PROVE  IInv'
<1>1. TypeOK'
  BY DEF IInv, TypeOK, Fail, HandlerEnds, Unlock, rowVars, drainVars, CallPc
<1>2. (RowsAreEnvelopes /\ CommandsAreIssued /\ StartedIsRegistered /\
       ClaimsAreRevoked /\ DrainProgress /\ DrainedMeansSilent /\ ExecutedOnce)'
  BY DEF IInv, RowsAreEnvelopes, CommandsAreIssued, StartedIsRegistered,
     ClaimsAreRevoked, DrainProgress, DrainedMeansSilent, ExecutedOnce, RevokedBelow,
     Established, DeviceCommands, Touching, Fail, rowVars, drainVars
<1>3. CallsOwnTheirRow'
  BY DEF IInv, TypeOK, CallsOwnTheirRow, Fail, HandlerEnds, rowVars
<1>4. ExecuteAhead'
  BY DEF IInv, TypeOK, ExecuteAhead, Fail, HandlerEnds, rowVars
<1>5. DrainerHoldsLock'
  BY NoSharedProcess DEF IInv, TypeOK, DrainerHoldsLock, Fail, Unlock, drainVars
<1> QED BY <1>1, <1>2, <1>3, <1>4, <1>5 DEF IInv

(* The driver returns; its result is kept in the row. *)
LEMMA ReturnPreserves ==
  ASSUME IInv, NEW c \in Call, Return(c)
  PROVE  IInv'
<1>1. TypeOK'
  BY DEF IInv, TypeOK, Return, HandlerEnds, Unlock, drainVars, CallPc
<1>2. (StartedIsRegistered /\ ClaimsAreRevoked /\ DrainedMeansSilent /\ ExecutedOnce)'
  BY DEF IInv, StartedIsRegistered, ClaimsAreRevoked, DrainedMeansSilent,
     ExecutedOnce, RevokedBelow, Touching, Return, drainVars
<1>3. CallsOwnTheirRow'
  BY DEF IInv, TypeOK, CallsOwnTheirRow, Return, HandlerEnds
<1>4. RowsAreEnvelopes'
  BY DEF IInv, RowsAreEnvelopes, CallsOwnTheirRow, Return
<1>5. ExecuteAhead'
  BY DEF IInv, ExecuteAhead, Return, HandlerEnds
<1>6. CommandsAreIssued'
  BY DEF IInv, CommandsAreIssued, Return
<1>7. DrainerHoldsLock'
  BY NoSharedProcess DEF IInv, TypeOK, DrainerHoldsLock, Return, Unlock, drainVars
<1>8. DrainProgress'
  BY DEF IInv, DrainProgress, CommandsAreIssued, Established, DeviceCommands, Return,
     drainVars
<1> QED BY <1>1, <1>2, <1>3, <1>4, <1>5, <1>6, <1>7, <1>8 DEF IInv

(* A cancelled coroutine gives back the input lock, its thread goes on. *)
LEMMA CancelPreserves ==
  ASSUME IInv, NEW c \in Call, Cancel(c)
  PROVE  IInv'
<1>1. TypeOK'
  BY DEF IInv, TypeOK, Cancel, Unlock, rowVars, drainVars
<1>2. (CallsOwnTheirRow /\ RowsAreEnvelopes /\ ExecuteAhead /\ CommandsAreIssued /\
       StartedIsRegistered /\ ClaimsAreRevoked /\ DrainProgress /\ DrainedMeansSilent /\
       ExecutedOnce)'
  BY DEF IInv, CallsOwnTheirRow, RowsAreEnvelopes, ExecuteAhead, CommandsAreIssued,
     StartedIsRegistered, ClaimsAreRevoked, DrainProgress, DrainedMeansSilent,
     ExecutedOnce, RevokedBelow, Established, DeviceCommands, Touching, Cancel,
     rowVars, drainVars
<1>3. DrainerHoldsLock'
  BY NoSharedProcess DEF IInv, TypeOK, DrainerHoldsLock, Cancel, Unlock, drainVars
<1> QED BY <1>1, <1>2, <1>3 DEF IInv

(* begin_subaction: the next command of an operation has not been used before. *)
LEMMA BeginSubactionPreserves ==
  ASSUME IInv, NEW c \in Call, BeginSubaction(c)
  PROVE  IInv'
<1>1. TypeOK'
  BY BoundsAreNumbers DEF IInv, TypeOK, BeginSubaction, drainVars, CallsOwnTheirRow,
     Command, Ordinal, Envelope, CommandState, CallPc
<1>2. (RowsAreEnvelopes /\ DrainerHoldsLock /\ ClaimsAreRevoked /\ ExecutedOnce)'
  BY DEF IInv, RowsAreEnvelopes, DrainerHoldsLock, ClaimsAreRevoked, ExecutedOnce,
     RevokedBelow, BeginSubaction, drainVars
<1>3. CallsOwnTheirRow'
  BY DEF IInv, CallsOwnTheirRow, BeginSubaction
<1>4. ExecuteAhead'
  BY DEF IInv, ExecuteAhead, BeginSubaction
<1>5. CommandsAreIssued'
  BY DEF IInv, TypeOK, CommandsAreIssued, CallsOwnTheirRow, Command, Ordinal,
     BeginSubaction
<1>6. StartedIsRegistered'
  BY NoSharedProcess DEF IInv, StartedIsRegistered, CommandsAreIssued, Command,
     Ordinal, BeginSubaction
<1>7. DrainProgress'
  <2>. DEFINE k == <<req[c].op, issued[req[c].op]>>
  <2>1. req[c].op \in Op /\ issued[req[c].op] \in Ordinal
    BY EnvelopeFence, BoundsAreNumbers
    DEF BeginSubaction, IInv, TypeOK, CallsOwnTheirRow, Ordinal
  <2>2. k \in Command /\ command[k] = "none" /\ command'[k] = "starting"
    BY <2>1 DEF BeginSubaction, IInv, TypeOK, CommandsAreIssued, Command
  <2>3. \A l \in Command \ {k} : command'[l] = command[l]
    BY DEF BeginSubaction, IInv, TypeOK
  <2>4. \A q \in Drain : k \notin seen[q] /\ seen[q] \subseteq Command
    BY <2>2 DEF IInv, TypeOK, DrainProgress, Established
  <2>. HIDE DEF k
  <2>5. \A d \in Device : /\ DeviceCommands(d)' = DeviceCommands(d)
                          /\ DeviceCommands(d) \subseteq Command
    BY DEF BeginSubaction, DeviceCommands
  <2>6. \A q \in Drain : target[q] \in Device
    BY DEF IInv, TypeOK
  <2> QED BY <2>2, <2>3, <2>4, <2>5, <2>6
          DEF IInv, DrainProgress, Established, BeginSubaction, drainVars
<1>8. DrainedMeansSilent'
  BY DEF IInv, DrainedMeansSilent, Touching, BeginSubaction
<1> QED BY <1>1, <1>2, <1>3, <1>4, <1>5, <1>6, <1>7, <1>8 DEF IInv

(* The time limit kills the supervisor only; a drain under way knows the command. *)
LEMMA CommandTimeoutPreserves ==
  ASSUME IInv, ~SlowStart, NEW c \in Call, CommandTimeout(c)
  PROVE  IInv'
<1>1. TypeOK'
  BY DEF IInv, TypeOK, CommandTimeout, rowVars, callVars, drainVars, CommandState
<1>2. (CallsOwnTheirRow /\ RowsAreEnvelopes /\ ExecuteAhead /\ DrainerHoldsLock /\
       ClaimsAreRevoked /\ ExecutedOnce)'
  BY DEF IInv, CallsOwnTheirRow, RowsAreEnvelopes, ExecuteAhead, DrainerHoldsLock,
     ClaimsAreRevoked, ExecutedOnce, RevokedBelow, CommandTimeout, rowVars, callVars,
     drainVars
<1>3. CommandsAreIssued'
  BY DEF IInv, CommandsAreIssued, CommandTimeout, Alive, rowVars
<1>4. StartedIsRegistered'
  BY DEF IInv, StartedIsRegistered, CommandTimeout
<1>5. DrainProgress'
  <2>. DEFINE k == CurrentCommand(c)
  <2>1. pc[c] = "command" /\ command[k] # "none"
    BY DEF CommandTimeout, Alive
  <2>2. k[1] = req[c].op /\ env[k[1]] = req[c]
    BY <2>1, EnvelopeFence DEF IInv, CallsOwnTheirRow, CurrentCommand
  <2>3. \A d \in Device : d # req[c].device => k \notin DeviceCommands(d)
    BY <2>2 DEF DeviceCommands
  <2>4. \A l : l # k => command'[l] = command[l]
    BY DEF CommandTimeout
  <2>5. /\ command[k] = "running" => command'[k] \in {"orphan", command[k]}
        /\ command[k] # "running" => command'[k] \in {"gone", command[k]}
    BY DEF CommandTimeout, IInv, TypeOK
  <2>6. \A q \in Drain : /\ phase[q] \in {"kill", "probe"}
                         /\ target[q] = req[c].device
                        => k \in seen[q]
    BY DEF CommandTimeout
  <2>. HIDE DEF k
  <2>7. /\ UNCHANGED <<phase, target, below, seen, rows, left, env>>
        /\ \A d \in Device : DeviceCommands(d)' = DeviceCommands(d)
    BY DEF CommandTimeout, DeviceCommands, drainVars, rowVars
  <2>. SUFFICES ASSUME NEW q \in Drain PROVE Established(q)'
    BY DEF DrainProgress
  <2>8. target[q] \in Device /\ rows[q] \subseteq seen[q] /\ Established(q)
    BY DEF IInv, TypeOK, DrainProgress, Established
  <2>9. \A l \in seen[q] : command'[l] \in {"running", "orphan", "gone"}
    BY <2>4, <2>5, <2>8 DEF Established
  <2>10. ASSUME phase[q] = "kill"
         PROVE  /\ \A l \in seen[q] \ rows[q] : command'[l] = "gone"
                /\ \A l \in DeviceCommands(target[q]) :
                     command'[l] = "orphan" => l \in rows[q]
    BY <2>1, <2>3, <2>4, <2>5, <2>6, <2>8, <2>10 DEF Established
  <2>11. ASSUME phase[q] = "probe"
         PROVE  /\ \A l \in seen[q] : command'[l] = "gone"
                /\ \A l \in DeviceCommands(target[q]) :
                     /\ command'[l] # "orphan"
                     /\ (l[1] \notin left[q] /\ command'[l] \in {"checked", "running"})
                           => env[l[1]].fence >= below[q]
    BY <2>1, <2>3, <2>4, <2>5, <2>6, <2>8, <2>11 DEF Established
  <2> QED BY <2>7, <2>8, <2>9, <2>10, <2>11 DEF Established
<1>6. DrainedMeansSilent'
  BY DEF IInv, DrainedMeansSilent, Touching, CommandTimeout, rowVars, drainVars
<1> QED BY <1>1, <1>2, <1>3, <1>4, <1>5, <1>6 DEF IInv

(* adb._run's finally reaps the registered commands of the device. *)
LEMMA EndSubactionPreserves ==
  ASSUME IInv, NEW c \in Call, EndSubaction(c)
  PROVE  IInv'
<1>1. TypeOK'
  BY DEF IInv, TypeOK, EndSubaction, rowVars, drainVars, CommandState, CallPc
<1>2. (RowsAreEnvelopes /\ DrainerHoldsLock /\ ClaimsAreRevoked /\ ExecutedOnce)'
  BY DEF IInv, RowsAreEnvelopes, DrainerHoldsLock, ClaimsAreRevoked, ExecutedOnce,
     RevokedBelow, EndSubaction, rowVars, drainVars
<1>3. CallsOwnTheirRow'
  BY DEF IInv, CallsOwnTheirRow, EndSubaction, rowVars
<1>4. ExecuteAhead'
  BY DEF IInv, ExecuteAhead, EndSubaction, rowVars
<1>5. CommandsAreIssued'
  <2>1. \A k \in Registered(req[c].device) : command[k] # "none"
    BY DEF IInv, StartedIsRegistered, Registered, DeviceCommands
  <2>2. \A k \in Command : command'[k] = "none" <=> command[k] = "none"
    BY <2>1 DEF EndSubaction, IInv, TypeOK
  <2> QED BY <2>2 DEF IInv, TypeOK, EndSubaction, CommandsAreIssued, rowVars
<1>6. StartedIsRegistered'
  BY DEF IInv, StartedIsRegistered, EndSubaction
<1>7. DrainProgress'
  BY DEF IInv, TypeOK, DrainProgress, Established, DeviceCommands, EndSubaction,
     rowVars, drainVars
<1>8. DrainedMeansSilent'
  BY DEF IInv, DrainedMeansSilent, Touching, EndSubaction, rowVars
<1> QED BY <1>1, <1>2, <1>3, <1>4, <1>5, <1>6, <1>7, <1>8 DEF IInv

(* A supervisor takes the child lock. *)
LEMMA SupervisorLockPreserves ==
  ASSUME IInv, NEW k \in Command, SupervisorLock(k)
  PROVE  IInv'
<1>1. TypeOK'
  BY DEF IInv, TypeOK, SupervisorLock, SupervisorFrame, rowVars, callVars, drainVars,
     CommandState
<1>2. (CallsOwnTheirRow /\ RowsAreEnvelopes /\ ExecuteAhead /\ DrainerHoldsLock /\
       ClaimsAreRevoked /\ ExecutedOnce)'
  BY DEF IInv, CallsOwnTheirRow, RowsAreEnvelopes, ExecuteAhead, DrainerHoldsLock,
     ClaimsAreRevoked, ExecutedOnce, RevokedBelow, SupervisorLock, SupervisorFrame,
     rowVars, callVars, drainVars
<1>3. CommandsAreIssued'
  BY DEF IInv, CommandsAreIssued, SupervisorLock, SupervisorFrame, rowVars
<1>4. StartedIsRegistered'
  BY DEF IInv, StartedIsRegistered, SupervisorLock
<1>5. DrainProgress'
  BY DEF IInv, DrainProgress, Established, DeviceCommands, SupervisorLock,
     SupervisorFrame, rowVars, callVars, drainVars
<1>6. DrainedMeansSilent'
  BY DEF IInv, DrainedMeansSilent, Touching, SupervisorLock, SupervisorFrame, rowVars,
     drainVars
<1> QED BY <1>1, <1>2, <1>3, <1>4, <1>5, <1>6 DEF IInv

(* It reads the guard under that lock: an older fence ends here. *)
LEMMA SupervisorCheckPreserves ==
  ASSUME IInv, NEW k \in Command, SupervisorCheck(k)
  PROVE  IInv'
<1>1. TypeOK'
  BY DEF IInv, TypeOK, SupervisorCheck, SupervisorFrame, rowVars, callVars, drainVars,
     CommandState
<1>2. (CallsOwnTheirRow /\ RowsAreEnvelopes /\ ExecuteAhead /\ DrainerHoldsLock /\
       ClaimsAreRevoked /\ ExecutedOnce)'
  BY DEF IInv, CallsOwnTheirRow, RowsAreEnvelopes, ExecuteAhead, DrainerHoldsLock,
     ClaimsAreRevoked, ExecutedOnce, RevokedBelow, SupervisorCheck, SupervisorFrame,
     rowVars, callVars, drainVars
<1>3. CommandsAreIssued'
  BY DEF IInv, CommandsAreIssued, SupervisorCheck, SupervisorFrame, rowVars
<1>4. StartedIsRegistered'
  BY DEF IInv, StartedIsRegistered, SupervisorCheck
<1>5. DrainProgress'
  BY DEF IInv, DrainProgress, ClaimsAreRevoked, Established, DeviceCommands,
     RevokedBelow, SupervisorCheck, SupervisorFrame, Authorized, rowVars, callVars,
     drainVars
<1>6. DrainedMeansSilent'
  BY DEF IInv, DrainedMeansSilent, RowsAreEnvelopes, CommandsAreIssued,
     ClaimsAreRevoked, Touching, Command, Envelope, RevokedBelow, SupervisorCheck,
     SupervisorFrame, Authorized, rowVars, drainVars
<1> QED BY <1>1, <1>2, <1>3, <1>4, <1>5, <1>6 DEF IInv

(* It registers itself and starts the command. *)
LEMMA SupervisorStartPreserves ==
  ASSUME IInv, NEW k \in Command, SupervisorStart(k)
  PROVE  IInv'
<1>1. TypeOK'
  BY DEF IInv, TypeOK, SupervisorStart, SupervisorFrame, rowVars, callVars, drainVars,
     CommandState
<1>2. (CallsOwnTheirRow /\ RowsAreEnvelopes /\ ExecuteAhead /\ DrainerHoldsLock /\
       ClaimsAreRevoked /\ ExecutedOnce)'
  BY DEF IInv, CallsOwnTheirRow, RowsAreEnvelopes, ExecuteAhead, DrainerHoldsLock,
     ClaimsAreRevoked, ExecutedOnce, RevokedBelow, SupervisorStart, SupervisorFrame,
     rowVars, callVars, drainVars
<1>3. CommandsAreIssued'
  BY DEF IInv, CommandsAreIssued, SupervisorStart, SupervisorFrame, rowVars
<1>4. StartedIsRegistered'
  BY DEF IInv, TypeOK, StartedIsRegistered, SupervisorStart
<1>5. DrainProgress'
  BY DEF IInv, DrainProgress, Established, DeviceCommands, SupervisorStart,
     SupervisorFrame, rowVars, callVars, drainVars
<1>6. DrainedMeansSilent'
  BY DEF IInv, DrainedMeansSilent, Touching, SupervisorStart, SupervisorFrame, rowVars
<1> QED BY <1>1, <1>2, <1>3, <1>4, <1>5, <1>6 DEF IInv

(* The command is over; the supervisor removes its row and goes. *)
LEMMA CommandEndsPreserves ==
  ASSUME IInv, NEW k \in Command, CommandEnds(k)
  PROVE  IInv'
<1>1. TypeOK'
  BY DEF IInv, TypeOK, CommandEnds, SupervisorFrame, rowVars, callVars, drainVars,
     CommandState
<1>2. (CallsOwnTheirRow /\ RowsAreEnvelopes /\ ExecuteAhead /\ DrainerHoldsLock /\
       ClaimsAreRevoked /\ ExecutedOnce)'
  BY DEF IInv, CallsOwnTheirRow, RowsAreEnvelopes, ExecuteAhead, DrainerHoldsLock,
     ClaimsAreRevoked, ExecutedOnce, RevokedBelow, CommandEnds, SupervisorFrame,
     rowVars, callVars, drainVars
<1>3. CommandsAreIssued'
  BY DEF IInv, CommandsAreIssued, CommandEnds, SupervisorFrame, rowVars
<1>4. StartedIsRegistered'
  BY DEF IInv, TypeOK, StartedIsRegistered, CommandEnds
<1>5. DrainProgress'
  BY DEF IInv, DrainProgress, Established, DeviceCommands, CommandEnds,
     SupervisorFrame, rowVars, callVars, drainVars
<1>6. DrainedMeansSilent'
  BY DEF IInv, DrainedMeansSilent, Touching, CommandEnds, SupervisorFrame, rowVars
<1> QED BY <1>1, <1>2, <1>3, <1>4, <1>5, <1>6 DEF IInv

(* A fence revokes every older authority before it drains. *)
LEMMA FenceDevicePreserves ==
  ASSUME IInv, NEW p \in Drain, NEW d \in Device, NEW f \in Fences, NEW h \in Holder,
         FenceDevice(p, d, f, h)
  PROVE  IInv'
<1>1. TypeOK'
  BY FencesInNat DEF IInv, TypeOK, FenceDevice, DrainBegins, rowVars, callVars,
     DrainPhase, MinOf
<1>2. (CallsOwnTheirRow /\ RowsAreEnvelopes /\ ExecuteAhead /\ CommandsAreIssued /\
       StartedIsRegistered /\ ExecutedOnce)'
  BY DEF IInv, CallsOwnTheirRow, RowsAreEnvelopes, ExecuteAhead, CommandsAreIssued,
     StartedIsRegistered, ExecutedOnce, FenceDevice, rowVars, callVars
<1>3. DrainerHoldsLock'
  BY DEF IInv, DrainerHoldsLock, FenceDevice, DrainBegins
<1>4. ClaimsAreRevoked'
  BY FencesInNat DEF IInv, TypeOK, ClaimsAreRevoked, RevokedBelow, MinOf, FenceDevice,
     DrainBegins
<1>5. DrainProgress'
  <2>1. f \in Nat /\ \A q \in Drain : below[q] \in Nat
    BY FencesInNat DEF IInv, TypeOK
  <2> SUFFICES ASSUME NEW q \in Drain, phase'[q] = "probe",
                      NEW k \in DeviceCommands(target[q]),
                      k[1] \notin left[q], command[k] \in {"checked", "running"}
               PROVE  env[k[1]].fence >= below'[q]
    BY DEF DrainProgress, Established, IInv, TypeOK, FenceDevice, DrainBegins,
       rowVars,
           callVars, DeviceCommands
  <2>2. q # p
    BY DEF FenceDevice, DrainBegins, IInv, TypeOK
  <2>3. env[k[1]].fence >= below[q]
    BY <2>2 DEF FenceDevice, DrainBegins, IInv, TypeOK, DrainProgress, Established
  <2>4. env[k[1]].fence \in Nat
    BY CommandHasRow DEF DeviceCommands
  <2>5. below'[q] \in Nat /\ below'[q] <= below[q]
    BY <2>1, <2>2 DEF FenceDevice, MinOf, IInv, TypeOK
  <2> QED BY <2>1, <2>3, <2>4, <2>5
<1>6. DrainedMeansSilent'
  <2>1. \A x \in Device : drained'[x] \in Nat /\ drained[x] \in Nat /\ drained'[x] <= drained[x]
    BY FencesInNat DEF FenceDevice, MinOf, IInv, TypeOK
  <2> SUFFICES ASSUME NEW k \in Command, command[k] \in Touching
               PROVE  env[k[1]].fence >= drained'[env[k[1]].device]
    BY DEF DrainedMeansSilent, FenceDevice, rowVars
  <2>2. env[k[1]].fence >= drained[env[k[1]].device]
    BY DEF IInv, DrainedMeansSilent
  <2>3. env[k[1]].fence \in Nat /\ env[k[1]].device \in Device
    BY CommandHasRow DEF Touching
  <2> QED BY <2>1, <2>2, <2>3
<1> QED BY <1>1, <1>2, <1>3, <1>4, <1>5, <1>6 DEF IInv

(* The drain at release drains what the guard has revoked. *)
LEMMA DrainDevicePreserves ==
  ASSUME IInv, NEW p \in Drain, NEW d \in Device, DrainDevice(p, d)
  PROVE  IInv'
<1>1. TypeOK'
  <2>1. RevokedBelow(d) \in Nat
    BY FenceNumbers DEF IInv
  <2> QED BY <2>1 DEF IInv, TypeOK, DrainDevice, DrainBegins, DrainPhase, rowVars, callVars
<1>2. (CallsOwnTheirRow /\ RowsAreEnvelopes /\ ExecuteAhead /\ CommandsAreIssued /\
       StartedIsRegistered /\ DrainedMeansSilent /\ ExecutedOnce)'
  BY DEF IInv, CallsOwnTheirRow, RowsAreEnvelopes, ExecuteAhead, CommandsAreIssued,
     StartedIsRegistered, DrainedMeansSilent, ExecutedOnce, Touching, DrainDevice,
     rowVars, callVars
<1>3. DrainerHoldsLock'
  BY DEF IInv, DrainerHoldsLock, DrainDevice, DrainBegins
<1>4. ClaimsAreRevoked'
  <2>1. \A x \in Device : RevokedBelow(x) \in Nat /\ RevokedBelow(x)' = RevokedBelow(x)
    BY FenceNumbers DEF IInv, DrainDevice, RevokedBelow
  <2> QED BY <2>1 DEF IInv, TypeOK, DrainDevice, DrainBegins, ClaimsAreRevoked
<1>5. DrainProgress'
  BY DEF IInv, DrainProgress, Established, DeviceCommands, DrainDevice, DrainBegins,
     rowVars, callVars
<1> QED BY <1>1, <1>2, <1>3, <1>4, <1>5 DEF IInv

(* Closing an execution revokes its own fence as well. *)
LEMMA CloseTaskPreserves ==
  ASSUME IInv, NEW d \in Device, NEW h \in Holder, CloseTask(d, h)
  PROVE  IInv'
<1>1. TypeOK'
  BY DEF IInv, TypeOK, CloseTask, rowVars, callVars, drainVars
<1>2. (CallsOwnTheirRow /\ RowsAreEnvelopes /\ ExecuteAhead /\ CommandsAreIssued /\
       StartedIsRegistered /\ DrainerHoldsLock /\ DrainProgress /\ DrainedMeansSilent /\
       ExecutedOnce)'
  BY DEF IInv, CallsOwnTheirRow, RowsAreEnvelopes, ExecuteAhead, CommandsAreIssued,
     StartedIsRegistered, DrainerHoldsLock, DrainProgress, DrainedMeansSilent,
     ExecutedOnce, Established, DeviceCommands, Touching, CloseTask, rowVars,
     callVars, drainVars
<1>3. ClaimsAreRevoked'
  <2>1. \A x \in Device : /\ RevokedBelow(x)' \in Nat /\ RevokedBelow(x) \in Nat
                          /\ RevokedBelow(x)' >= RevokedBelow(x)
    BY FenceNumbers DEF CloseTask, RevokedBelow, TypeOK, IInv
  <2> QED BY <2>1, FenceNumbers DEF IInv, TypeOK, ClaimsAreRevoked, CloseTask, drainVars
<1> QED BY <1>1, <1>2, <1>3 DEF IInv

(* The drain takes the input lock and reads the children. *)
LEMMA DrainLockPreserves ==
  ASSUME IInv, NEW p \in Drain, DrainLock(p)
  PROVE  IInv'
<1>1. TypeOK'
  BY DEF IInv, TypeOK, DrainLock, Registered, rowVars, callVars, DrainPhase
<1>2. (CallsOwnTheirRow /\ RowsAreEnvelopes /\ ExecuteAhead /\ CommandsAreIssued /\
       StartedIsRegistered /\ DrainedMeansSilent /\ ExecutedOnce)'
  BY DEF IInv, CallsOwnTheirRow, RowsAreEnvelopes, ExecuteAhead, CommandsAreIssued,
     StartedIsRegistered, DrainedMeansSilent, ExecutedOnce, Touching, DrainLock,
     rowVars, callVars
<1>3. DrainerHoldsLock'
  BY NullsAreNew DEF IInv, TypeOK, DrainerHoldsLock, DrainLock
<1>4. ClaimsAreRevoked'
  BY DEF IInv, ClaimsAreRevoked, RevokedBelow, DrainLock
<1>5. DrainProgress'
  BY DEF IInv, TypeOK, DrainProgress, StartedIsRegistered, Established,
     DeviceCommands, DrainLock, Registered, rowVars, callVars
<1> QED BY <1>1, <1>2, <1>3, <1>4, <1>5 DEF IInv

(* The input lock stays taken until the drain's time is up. *)
LEMMA DrainBusyPreserves ==
  ASSUME IInv, NEW p \in Drain, DrainBusy(p)
  PROVE  IInv'
<1>1. TypeOK'
  BY DEF IInv, TypeOK, DrainBusy, DrainEnds, rowVars, callVars, DrainPhase
<1>2. (CallsOwnTheirRow /\ RowsAreEnvelopes /\ ExecuteAhead /\ CommandsAreIssued /\
       StartedIsRegistered /\ DrainedMeansSilent /\ ExecutedOnce)'
  BY DEF IInv, CallsOwnTheirRow, RowsAreEnvelopes, ExecuteAhead, CommandsAreIssued,
     StartedIsRegistered, DrainedMeansSilent, ExecutedOnce, Touching, DrainBusy,
     rowVars, callVars
<1>3. DrainerHoldsLock'
  BY DEF IInv, DrainerHoldsLock, DrainBusy, DrainEnds
<1>4. ClaimsAreRevoked'
  BY DEF IInv, TypeOK, ClaimsAreRevoked, RevokedBelow, DrainBusy, DrainEnds
<1>5. DrainProgress'
  BY DEF IInv, TypeOK, DrainProgress, Established, DeviceCommands, DrainBusy,
     DrainEnds, rowVars, callVars
<1> QED BY <1>1, <1>2, <1>3, <1>4, <1>5 DEF IInv

(* A registered command is killed, its whole group with it. *)
LEMMA ReapChildPreserves ==
  ASSUME IInv, NEW p \in Drain, NEW k \in Command, ReapChild(p, k)
  PROVE  IInv'
<1>1. TypeOK'
  BY DEF IInv, TypeOK, ReapChild, rowVars, callVars, CommandState
<1>2. (CallsOwnTheirRow /\ RowsAreEnvelopes /\ ExecuteAhead /\ DrainerHoldsLock /\
       ClaimsAreRevoked /\ ExecutedOnce)'
  BY DEF IInv, CallsOwnTheirRow, RowsAreEnvelopes, ExecuteAhead, DrainerHoldsLock,
     ClaimsAreRevoked, ExecutedOnce, RevokedBelow, ReapChild, rowVars, callVars
<1>3. CommandsAreIssued'
  <2>1. command[k] # "none"
    BY DEF ReapChild, IInv, DrainProgress, Established
  <2> QED BY <2>1 DEF IInv, TypeOK, ReapChild, CommandsAreIssued, rowVars
<1>4. StartedIsRegistered'
  BY DEF IInv, StartedIsRegistered, ReapChild
<1>5. DrainProgress'
  BY DEF IInv, TypeOK, DrainProgress, Established, DeviceCommands, ReapChild, rowVars
<1>6. DrainedMeansSilent'
  BY DEF IInv, DrainedMeansSilent, Touching, ReapChild, rowVars
<1> QED BY <1>1, <1>2, <1>3, <1>4, <1>5, <1>6 DEF IInv

(* The rows of the killed commands go, and the probing starts. *)
LEMMA DeleteRowsPreserves ==
  ASSUME IInv, NEW p \in Drain, DeleteRows(p)
  PROVE  IInv'
<1>1. TypeOK'
  BY DEF IInv, TypeOK, DeleteRows, DeviceOps, rowVars, callVars, DrainPhase
<1>2. (CallsOwnTheirRow /\ RowsAreEnvelopes /\ ExecuteAhead /\ CommandsAreIssued /\
       DrainedMeansSilent /\ ExecutedOnce)'
  BY DEF IInv, CallsOwnTheirRow, RowsAreEnvelopes, ExecuteAhead, CommandsAreIssued,
     DrainedMeansSilent, ExecutedOnce, Touching, DeleteRows, rowVars, callVars
<1>3. StartedIsRegistered'
  BY DEF IInv, StartedIsRegistered, DrainProgress, Established, DeleteRows
<1>4. DrainerHoldsLock'
  BY DEF IInv, DrainerHoldsLock, DeleteRows
<1>5. ClaimsAreRevoked'
  BY DEF IInv, ClaimsAreRevoked, RevokedBelow, DeleteRows
<1>6. DrainProgress'
  BY DEF IInv, TypeOK, DrainProgress, Established, DeviceCommands, Command, DeviceOps,
     DeleteRows, rowVars
<1> QED BY <1>1, <1>2, <1>3, <1>4, <1>5, <1>6 DEF IInv

(* A free child lock: whoever takes it later will read the new guard. *)
LEMMA ProbePreserves ==
  ASSUME IInv, NEW p \in Drain, NEW o \in Op, Probe(p, o)
  PROVE  IInv'
<1>1. TypeOK'
  BY DEF IInv, TypeOK, Probe, rowVars, callVars
<1>2. (CallsOwnTheirRow /\ RowsAreEnvelopes /\ ExecuteAhead /\ CommandsAreIssued /\
       StartedIsRegistered /\ DrainerHoldsLock /\ ClaimsAreRevoked /\
       DrainedMeansSilent /\ ExecutedOnce)'
  BY DEF IInv, CallsOwnTheirRow, RowsAreEnvelopes, ExecuteAhead, CommandsAreIssued,
     StartedIsRegistered, DrainerHoldsLock, ClaimsAreRevoked, DrainedMeansSilent,
     ExecutedOnce, RevokedBelow, Touching, Probe, rowVars, callVars
<1>3. DrainProgress'
  <2> SUFFICES ASSUME NEW q \in Drain, phase[q] = "probe",
                      NEW k \in DeviceCommands(target[q]),
                      k[1] \notin left'[q], command[k] \in {"checked", "running"}
               PROVE  env[k[1]].fence >= below[q]
    BY DEF DrainProgress, Established, IInv, Probe, rowVars, callVars, DeviceCommands
  <2>1. CASE k[1] \notin left[q]
    BY <2>1 DEF IInv, DrainProgress, Established
  <2>2. CASE k[1] \in left[q]
    <3>1. k[1] = o
      BY <2>2 DEF Probe, IInv, TypeOK
    <3>2. k = <<o, k[2]>> /\ k[2] \in Ordinal
      BY <3>1 DEF DeviceCommands, Command
    <3> QED BY <3>2 DEF Probe, ChildLockHeld, HoldsChildLock
  <2> QED BY <2>1, <2>2
<1> QED BY <1>1, <1>2, <1>3 DEF IInv

(* A command that cannot be reaped, or still holds its lock. *)
LEMMA DrainFailsPreserves ==
  ASSUME IInv, NEW p \in Drain, DrainFails(p)
  PROVE  IInv'
<1>1. TypeOK'
  BY DEF IInv, TypeOK, DrainFails, DrainEnds, rowVars, callVars, DrainPhase
<1>2. (CallsOwnTheirRow /\ RowsAreEnvelopes /\ ExecuteAhead /\ CommandsAreIssued /\
       StartedIsRegistered /\ DrainedMeansSilent /\ ExecutedOnce)'
  BY DEF IInv, CallsOwnTheirRow, RowsAreEnvelopes, ExecuteAhead, CommandsAreIssued,
     StartedIsRegistered, DrainedMeansSilent, ExecutedOnce, Touching, DrainFails,
     rowVars, callVars
<1>3. DrainerHoldsLock'
  BY DEF IInv, TypeOK, DrainerHoldsLock, DrainFails, DrainEnds
<1>4. ClaimsAreRevoked'
  BY DEF IInv, TypeOK, ClaimsAreRevoked, RevokedBelow, DrainFails, DrainEnds
<1>5. DrainProgress'
  BY DEF IInv, TypeOK, DrainProgress, Established, DeviceCommands, DrainFails,
     DrainEnds, rowVars, callVars
<1> QED BY <1>1, <1>2, <1>3, <1>4, <1>5 DEF IInv

(* Every lock was free: no command of a revoked authority is left. *)
LEMMA QuiescentPreserves ==
  ASSUME IInv, NEW p \in Drain, Quiescent(p)
  PROVE  IInv'
<1>1. TypeOK'
  BY DEF IInv, TypeOK, Quiescent, DrainEnds, rowVars, callVars, DrainPhase, MaxOf
<1>2. (CallsOwnTheirRow /\ RowsAreEnvelopes /\ ExecuteAhead /\ CommandsAreIssued /\
       StartedIsRegistered /\ ExecutedOnce)'
  BY DEF IInv, CallsOwnTheirRow, RowsAreEnvelopes, ExecuteAhead, CommandsAreIssued,
     StartedIsRegistered, ExecutedOnce, Quiescent, rowVars, callVars
<1>3. DrainerHoldsLock'
  BY DEF IInv, TypeOK, DrainerHoldsLock, Quiescent, DrainEnds
<1>4. ClaimsAreRevoked'
  BY DEF IInv, TypeOK, ClaimsAreRevoked, RevokedBelow, MaxOf, Quiescent, DrainEnds
<1>5. DrainProgress'
  BY DEF IInv, TypeOK, DrainProgress, Established, DeviceCommands, Quiescent,
     DrainEnds, rowVars, callVars
<1>6. DrainedMeansSilent'
  <2>1. target[p] \in Device /\ below[p] \in Nat
    BY DEF IInv, TypeOK
  <2> SUFFICES ASSUME NEW k \in Command, command[k] \in Touching
               PROVE  env[k[1]].fence >= drained'[env[k[1]].device]
    BY DEF DrainedMeansSilent, Quiescent, rowVars
  <2>2. command[k] # "none" /\ env[k[1]].fence >= drained[env[k[1]].device]
    BY DEF Touching, IInv, DrainedMeansSilent
  <2>3. CASE env[k[1]].device = target[p]
    <3>1. k \in DeviceCommands(target[p])
      BY <2>1, <2>2, <2>3, CommandHasRow
    <3>2. env[k[1]].fence >= below[p]
      BY <3>1 DEF Quiescent, IInv, DrainProgress, Established, Touching
    <3>3. drained'[target[p]] = MaxOf(drained[target[p]], below[p])
      BY <2>1 DEF Quiescent, IInv, TypeOK
    <3> QED BY <2>2, <2>3, <3>2, <3>3 DEF MaxOf
  <2>4. CASE env[k[1]].device # target[p]
    BY <2>2, <2>4, CommandHasRow DEF Quiescent, IInv, TypeOK
  <2> QED BY <2>3, <2>4
<1> QED BY <1>1, <1>2, <1>3, <1>4, <1>5, <1>6 DEF IInv

(* The runtime process dies; its supervisors go on. *)
LEMMA CrashPreserves ==
  ASSUME IInv, Crash
  PROVE  IInv'
<1>1. TypeOK'
  BY BoundsAreNumbers DEF IInv, TypeOK, Crash, rowVars, CallPc, DrainPhase
<1>2. (RowsAreEnvelopes /\ CommandsAreIssued /\ StartedIsRegistered /\
       DrainedMeansSilent /\ ExecutedOnce)'
  BY DEF IInv, RowsAreEnvelopes, CommandsAreIssued, StartedIsRegistered,
     DrainedMeansSilent, ExecutedOnce, Touching, Crash, rowVars
<1>3. CallsOwnTheirRow'
  BY DEF IInv, CallsOwnTheirRow, Crash
<1>4. ExecuteAhead'
  BY DEF IInv, ExecuteAhead, Crash
<1>5. DrainerHoldsLock'
  BY DEF IInv, DrainerHoldsLock, Crash
<1>6. ClaimsAreRevoked'
  BY DEF IInv, ClaimsAreRevoked, RevokedBelow, Crash
<1>7. DrainProgress'
  BY DEF IInv, DrainProgress, Established, Crash
<1> QED BY <1>1, <1>2, <1>3, <1>4, <1>5, <1>6, <1>7 DEF IInv

-----------------------------------------------------------------------------
(* Nothing is known and nothing is under way at first. *)
LEMMA InitEstablishes == Init => IInv
<1> SUFFICES ASSUME Init PROVE IInv
  OBVIOUS
<1>1. TypeOK
  BY BoundsAreNumbers, FencesInNat DEF Init, NoGuard, TypeOK, Ordinal, Command,
     CommandState, CallPc, DrainPhase
<1>2. ClaimsAreRevoked
  BY DEF Init, NoGuard, ClaimsAreRevoked, RevokedBelow
<1>3. /\ CallsOwnTheirRow /\ RowsAreEnvelopes /\ ExecuteAhead
      /\ CommandsAreIssued /\ StartedIsRegistered /\ DrainerHoldsLock
  BY DEF Init, CallsOwnTheirRow, RowsAreEnvelopes, ExecuteAhead, CommandsAreIssued,
     StartedIsRegistered, DrainerHoldsLock
<1>4. DrainProgress
  BY DEF Init, DrainProgress, Established
<1>5. DrainedMeansSilent /\ ExecutedOnce
  BY DEF Init, DrainedMeansSilent, ExecutedOnce, Touching
<1> QED BY <1>1, <1>2, <1>3, <1>4, <1>5 DEF IInv

(* A step that changes nothing keeps the invariant. *)
LEMMA StutterPreserves == ASSUME IInv, UNCHANGED vars PROVE IInv'
<1>1. (TypeOK /\ CallsOwnTheirRow /\ RowsAreEnvelopes /\ ExecuteAhead)'
  BY DEF IInv, TypeOK, CallsOwnTheirRow, RowsAreEnvelopes, ExecuteAhead, vars, rowVars,
     callVars, drainVars
<1>2. (CommandsAreIssued /\ StartedIsRegistered /\ DrainerHoldsLock /\ ClaimsAreRevoked)'
  BY DEF IInv, CommandsAreIssued, StartedIsRegistered, DrainerHoldsLock, ClaimsAreRevoked,
     RevokedBelow, vars, rowVars, callVars, drainVars
<1>3. (DrainProgress /\ DrainedMeansSilent /\ ExecutedOnce)'
  BY DEF IInv, DrainProgress, Established, DeviceCommands, DrainedMeansSilent, Touching,
     ExecutedOnce, vars, rowVars, callVars, drainVars
<1> QED BY <1>1, <1>2, <1>3 DEF IInv

(* Every step of a handler, a supervisor or a drain keeps the invariant. *)
LEMMA NextPreserves == ~SlowStart /\ IInv /\ [Next]_vars => IInv'
<1> SUFFICES ASSUME ~SlowStart, IInv, [Next]_vars PROVE IInv'
  OBVIOUS
<1>1. ASSUME NEW c \in Call, ActStep(c) PROVE IInv'
  BY <1>1, ActPreserves, AcceptPreserves, RefusePreserves, ExecutePreserves,
     FailPreserves, ReturnPreserves, CancelPreserves, BeginSubactionPreserves,
     CommandTimeoutPreserves, EndSubactionPreserves DEF ActStep
<1>2. ASSUME NEW k \in Command, SupervisorStep(k) PROVE IInv'
  BY <1>2, SupervisorLockPreserves, SupervisorCheckPreserves, SupervisorStartPreserves,
     CommandEndsPreserves DEF SupervisorStep
<1>3. ASSUME NEW p \in Drain, DrainStep(p) PROVE IInv'
  BY <1>3, FenceDevicePreserves, DrainDevicePreserves, DrainLockPreserves,
     DrainBusyPreserves, ReapChildPreserves, DeleteRowsPreserves, ProbePreserves,
     DrainFailsPreserves, QuiescentPreserves DEF DrainStep
<1> QED BY <1>1, <1>2, <1>3, CloseTaskPreserves, CrashPreserves, StutterPreserves DEF Next

(* The inductive invariant holds in every reachable state of the journal. *)
THEOREM InvariantHolds == ASSUME ~SlowStart PROVE Spec => []IInv
<1>1. IInv /\ [Next]_vars => IInv'
  BY NextPreserves
<1> QED BY <1>1, InitEstablishes, PTL DEF Spec

(* The journal, its locks, handlers, commands and drains are well typed. *)
THEOREM TypeCorrect == ASSUME ~SlowStart PROVE Spec => []TypeOK
<1>1. IInv => TypeOK
  BY DEF IInv
<1> QED BY <1>1, InvariantHolds, PTL

(* A device reported quiescent for a fence is silent for every older authority *)
(* (fence, _reap_children, owned_subprocess).                                  *)
THEOREM DrainIsSound == ASSUME ~SlowStart PROVE Spec => []DrainedMeansSilent
<1>1. IInv => DrainedMeansSilent
  BY DEF IInv
<1> QED BY <1>1, InvariantHolds, PTL

(* An operation id enters execute() at most once (act, _act_locked). *)
THEOREM NeverExecutedTwice == ASSUME ~SlowStart PROVE Spec => []ExecutedOnce
<1>1. IInv => ExecutedOnce
  BY DEF IInv
<1> QED BY <1>1, InvariantHolds, PTL

-----------------------------------------------------------------------------
(* What a step may do to the guards. *)
FenceGrows ==
  \A d \in Device :
    /\ guard'[d].fence >= guard[d].fence
    /\ guard'[d].holder # guard[d].holder => guard'[d].fence > guard[d].fence

(* fence: an older number is refused, the same number only for its holder. *)
LEMMA FencingGrows ==
  ASSUME TypeOK, NEW p \in Drain, NEW d \in Device, NEW f \in Fences, NEW h \in Holder,
         FenceDevice(p, d, f, h)
  PROVE  FenceGrows
<1>1. \A x \in Device : guard[x].fence \in Nat
  BY FenceNumbers
<1>2. f \in Nat
  BY FencesInNat
<1>3. \A x \in Device : guard'[x] = IF x = d THEN [fence |-> f, holder |-> h, closed |-> FALSE]
                                  ELSE guard[x]
  BY DEF FenceDevice, TypeOK
<1>4. guard[d].fence <= f /\ (guard[d].fence = f => guard[d].holder = h)
  BY DEF FenceDevice
<1> QED BY <1>1, <1>2, <1>3, <1>4 DEF FenceGrows

(* close_task writes the closed flag only. *)
LEMMA ClosingKeepsFence ==
  ASSUME TypeOK, NEW d \in Device, NEW h \in Holder, CloseTask(d, h)
  PROVE  FenceGrows
<1>1. \A x \in Device : guard[x].fence \in Nat
  BY FenceNumbers
<1> QED BY <1>1 DEF CloseTask, FenceGrows, TypeOK

(* Only fence and close_task write the guards. *)
LEMMA StepsGrowFences == TypeOK /\ [Next]_vars => FenceGrows \/ UNCHANGED guard
<1> SUFFICES ASSUME TypeOK, [Next]_vars PROVE FenceGrows \/ UNCHANGED guard
  OBVIOUS
<1>1. ASSUME NEW c \in Call, ActStep(c) PROVE UNCHANGED guard
  BY <1>1 DEF ActStep, Act, Accept, Refuse, Execute, Fail, Return, Cancel,
     BeginSubaction, CommandTimeout, EndSubaction
<1>2. ASSUME NEW k \in Command, SupervisorStep(k) PROVE UNCHANGED guard
  BY <1>2 DEF SupervisorStep, SupervisorLock, SupervisorCheck, SupervisorStart,
     CommandEnds, SupervisorFrame
<1>3. ASSUME NEW p \in Drain, DrainStep(p) PROVE FenceGrows \/ UNCHANGED guard
  BY <1>3, FencingGrows DEF DrainStep, DrainDevice, DrainLock, DrainBusy, ReapChild,
     DeleteRows, Probe, DrainFails, Quiescent
<1>4. CASE Crash \/ UNCHANGED vars
  BY <1>4 DEF Crash, vars
<1> QED BY <1>1, <1>2, <1>3, <1>4, ClosingKeepsFence DEF Next

(* A device's fence never goes back, and changes hands only by growing (fence). *)
THEOREM FenceIsMonotone == ASSUME ~SlowStart PROVE Spec => FenceOnlyGrows
<1>1. TypeOK /\ [Next]_vars => [FenceGrows]_guard
  BY StepsGrowFences
<1> QED BY <1>1, TypeCorrect, PTL DEF Spec, FenceOnlyGrows, FenceGrows
-----------------------------------------------------------------------------
(* What relates the ghosts of the promise to the journal's own state. *)
AbsentHasNoEnvelope == \A o \in Op : status[o] = "absent" => env[o] = NoEnvelope

IssuedIsExecuted ==
  /\ \A c \in Call : pc[c] \in {"ready", "command"} => started[req[c].op] # 0
  /\ \A k \in Command : command[k] # "none" => started[k[1]] # 0

PInv == AbsentHasNoEnvelope /\ IssuedIsExecuted

(* Rows are inserted with their envelope, and never deleted. *)
LEMMA AbsentPreserved ==
  ASSUME IInv, AbsentHasNoEnvelope, [Next]_vars
  PROVE  AbsentHasNoEnvelope'
<1>1. ASSUME NEW c \in Call, ActStep(c) PROVE AbsentHasNoEnvelope'
  <2>1. CASE Accept(c)
    BY <2>1 DEF Accept, AbsentHasNoEnvelope, IInv, TypeOK
  <2>2. CASE Return(c)
    BY <2>2 DEF Return, AbsentHasNoEnvelope, IInv, TypeOK
  <2> QED BY <1>1, <2>1, <2>2 DEF ActStep, Act, Refuse, Execute, Fail, Cancel, BeginSubaction,
          CommandTimeout, EndSubaction, rowVars, AbsentHasNoEnvelope
<1>2. ASSUME NEW k \in Command, SupervisorStep(k) PROVE AbsentHasNoEnvelope'
  BY <1>2 DEF SupervisorStep, SupervisorLock, SupervisorCheck, SupervisorStart,
     CommandEnds, SupervisorFrame, rowVars, AbsentHasNoEnvelope
<1>3. ASSUME NEW p \in Drain, DrainStep(p) PROVE AbsentHasNoEnvelope'
  BY <1>3 DEF DrainStep, FenceDevice, DrainDevice, DrainLock, DrainBusy, ReapChild,
     DeleteRows, Probe, DrainFails, Quiescent, rowVars, AbsentHasNoEnvelope
<1>4. CASE Crash \/ (\E d \in Device, h \in Holder : CloseTask(d, h)) \/ UNCHANGED vars
  BY <1>4 DEF Crash, CloseTask, vars, rowVars, AbsentHasNoEnvelope
<1> QED BY <1>1, <1>2, <1>3, <1>4 DEF Next

(* No command before execute() was entered. *)
LEMMA IssuedPreserved ==
  ASSUME IInv, IssuedIsExecuted, [Next]_vars
  PROVE  IssuedIsExecuted'
<1>1. ASSUME NEW c \in Call, ActStep(c) PROVE IssuedIsExecuted'
  <2>1. CASE Execute(c)
    BY <2>1 DEF Execute, IssuedIsExecuted, IInv, TypeOK, CallsOwnTheirRow, Envelope
  <2>2. CASE BeginSubaction(c)
    BY <2>2 DEF BeginSubaction, IssuedIsExecuted, IInv, TypeOK, CallsOwnTheirRow
  <2>3. CASE EndSubaction(c)
    BY <2>3 DEF EndSubaction, IssuedIsExecuted, IInv, TypeOK, StartedIsRegistered, Registered,
       rowVars
  <2>4. CASE CommandTimeout(c)
    BY <2>4 DEF CommandTimeout, IssuedIsExecuted, IInv, TypeOK, Alive, rowVars, callVars
  <2>5. CASE Accept(c)
    BY <2>5 DEF Accept, IssuedIsExecuted, IInv, TypeOK
  <2>6. CASE Act(c, req'[c])
    BY <2>6 DEF Act, IssuedIsExecuted, IInv, TypeOK, rowVars
  <2>7. CASE Refuse(c) \/ Fail(c) \/ Return(c) \/ Cancel(c)
    BY <2>7 DEF Refuse, Fail, Return, Cancel, HandlerEnds, IssuedIsExecuted, IInv, TypeOK, rowVars
  <2>8. ASSUME NEW e \in Envelope, Act(c, e) PROVE Act(c, req'[c])
    BY <2>8 DEF Act, IInv, TypeOK
  <2> QED BY <1>1, <2>1, <2>2, <2>3, <2>4, <2>5, <2>6, <2>7, <2>8 DEF ActStep
<1>2. ASSUME NEW k \in Command, SupervisorStep(k) PROVE IssuedIsExecuted'
  BY <1>2 DEF SupervisorStep, SupervisorLock, SupervisorCheck, SupervisorStart,
     CommandEnds, SupervisorFrame, rowVars, callVars, IssuedIsExecuted, IInv, TypeOK
<1>3. ASSUME NEW p \in Drain, DrainStep(p) PROVE IssuedIsExecuted'
  <2>1. ASSUME NEW k \in Command, ReapChild(p, k) PROVE IssuedIsExecuted'
    BY <2>1 DEF ReapChild, IssuedIsExecuted, IInv, TypeOK, DrainProgress, Established, rowVars,
       callVars
  <2> QED BY <1>3, <2>1 DEF DrainStep, FenceDevice, DrainDevice, DrainLock, DrainBusy,
          DeleteRows, Probe, DrainFails, Quiescent, rowVars, callVars, IssuedIsExecuted
<1>4. CASE Crash \/ (\E d \in Device, h \in Holder : CloseTask(d, h)) \/ UNCHANGED vars
  BY <1>4 DEF Crash, CloseTask, vars, rowVars, callVars, IssuedIsExecuted
<1> QED BY <1>1, <1>2, <1>3, <1>4 DEF Next

(* The commands that touch a device, as the promise sees them. *)
Sending == {k \in Command : command[k] \in Touching}

(* A step that only ends commands. *)
LEMMA EndingIsStill ==
  ASSUME Sending' \subseteq Sending, UNCHANGED <<guard, env, started, drained>>
  PROVE  Promise!Next \/ UNCHANGED Promise!vars
<1>1. CASE Sending' = Sending
  BY <1>1 DEF Promise!vars, Sending
<1>2. CASE Sending' # Sending
  <2>1. Sending' \subseteq Sending /\ Sending' # Sending
    BY <1>2
  <2>2. Promise!Still
    <3>1. Sending' \in (SUBSET Sending) \ {Sending}
      BY <2>1, Zenon
    <3> QED BY <3>1 DEF Promise!Still, Sending
  <2> QED BY <2>2 DEF Promise!Next
<1> QED BY <1>1, <1>2

(* The steps of a handler. *)
LEMMA ActKeepsPromise ==
  ASSUME IInv, PInv, NEW c \in Call, ActStep(c)
  PROVE  Promise!Next \/ UNCHANGED Promise!vars
<1>1. CASE Accept(c)
  <2>1. req[c] \in Envelope /\ req[c] \in Promise!Envelope
    BY <1>1 DEF Accept, IInv, CallsOwnTheirRow, Envelope, Promise!Envelope
  <2>2. Promise!Admit(req[c])
    BY <1>1, <2>1, EnvelopeFence DEF Accept, Promise!Admit, Promise!Current, Authorized, PInv,
       AbsentHasNoEnvelope
  <2> QED BY <2>1, <2>2 DEF Promise!Next
<1>2. CASE Execute(c)
  <2>1. req[c] \in Envelope /\ req[c].op \in Op /\ env[req[c].op] = req[c]
    BY <1>2, EnvelopeFence DEF Execute, IInv, CallsOwnTheirRow
  <2>2. started[req[c].op] = 0
    BY <1>2 DEF Execute, IInv, ExecuteAhead
  <2>3. Promise!Execute(req[c].op)
    BY <1>2, <2>1, <2>2, NoEnvelopeIsNew DEF Execute, Promise!Execute, Promise!Current, Authorized
  <2> QED BY <2>1, <2>3 DEF Promise!Next
<1>3. CASE BeginSubaction(c)
  <2>1. command[<<req[c].op, issued[req[c].op]>>] = "none" \/ Sending' = Sending
    BY <1>3 DEF BeginSubaction, IInv, TypeOK, CommandsAreIssued, Sending, Touching, Command,
                Ordinal
  <2>2. Sending' = Sending
    BY <1>3, <2>1 DEF BeginSubaction, IInv, TypeOK, Sending, Touching
  <2> QED BY <1>3, <2>2, EndingIsStill DEF BeginSubaction
<1>4. CASE CommandTimeout(c)
  <2>1. Sending' \subseteq Sending
    BY <1>4 DEF CommandTimeout, Sending, Touching, IInv, TypeOK
  <2> QED BY <1>4, <2>1, EndingIsStill DEF CommandTimeout, rowVars
<1>5. CASE EndSubaction(c)
  <2>1. Sending' \subseteq Sending
    BY <1>5 DEF EndSubaction, Sending, Touching
  <2> QED BY <1>5, <2>1, EndingIsStill DEF EndSubaction, rowVars
<1>6. CASE (\E e \in Envelope : Act(c, e)) \/ Refuse(c) \/ Fail(c) \/ Return(c) \/ Cancel(c)
  BY <1>6 DEF Act, Refuse, Fail, Return, Cancel, rowVars, Promise!vars
<1> QED BY <1>1, <1>2, <1>3, <1>4, <1>5, <1>6 DEF ActStep

(* The steps of a supervisor: the check of the guard is where input begins. *)
LEMMA SupervisorKeepsPromise ==
  ASSUME IInv, PInv, NEW k \in Command, SupervisorStep(k)
  PROVE  Promise!Next \/ UNCHANGED Promise!vars
<1>1. CASE SupervisorCheck(k) /\ Authorized(env[k[1]])
  <2>1. k \notin Sending /\ Sending' = Sending \union {k}
    BY <1>1 DEF SupervisorCheck, Sending, Touching, IInv, TypeOK
  <2>2. started[k[1]] = 1
    <3>1. command[k] # "none" /\ k[1] \in Op
      BY <1>1 DEF SupervisorCheck, Command
    <3>2. started[k[1]] # 0 /\ started[k[1]] <= 1 /\ started[k[1]] \in Nat
      BY <3>1 DEF PInv, IssuedIsExecuted, IInv, ExecutedOnce, TypeOK
    <3> QED BY <3>2
  <2>3. Promise!Touch(k)
    BY <1>1, <2>1, <2>2 DEF SupervisorCheck, SupervisorFrame, rowVars, Promise!Touch,
       Promise!Current, Authorized, Sending
  <2>4. k \in Promise!Command
    BY DEF Promise!Command, Command, Ordinal
  <2> QED BY <2>3, <2>4 DEF Promise!Next
<1>2. CASE SupervisorCheck(k) /\ ~Authorized(env[k[1]])
  <2>1. Sending' \subseteq Sending
    BY <1>2 DEF SupervisorCheck, Sending, Touching, IInv, TypeOK
  <2> QED BY <1>2, <2>1, EndingIsStill DEF SupervisorCheck, SupervisorFrame, rowVars
<1>3. CASE SupervisorLock(k) \/ SupervisorStart(k) \/ CommandEnds(k)
  <2>1. Sending' \subseteq Sending
    BY <1>3 DEF SupervisorLock, SupervisorStart, CommandEnds, Sending, Touching, IInv, TypeOK
  <2> QED BY <1>3, <2>1, EndingIsStill
          DEF SupervisorLock, SupervisorStart, CommandEnds, SupervisorFrame, rowVars
<1> QED BY <1>1, <1>2, <1>3 DEF SupervisorStep

(* A report is true of every command, not only of those the drain has read. *)
LEMMA ReportKeepsPromise ==
  ASSUME IInv, PInv, NEW p \in Drain, Quiescent(p)
  PROVE  Promise!Next
<1>1. target[p] \in Device /\ below[p] \in Nat
  BY DEF IInv, TypeOK
<1>2. below[p] <= RevokedBelow(target[p])
  BY DEF Quiescent, IInv, ClaimsAreRevoked
<1>3. ASSUME NEW k \in Sending, env[k[1]].device = target[p]
      PROVE  env[k[1]].fence >= below[p]
  <2>1. k \in DeviceCommands(target[p])
    BY <1>1, <1>3, CommandHasRow DEF Sending, Touching
  <2>2. command[k] \in {"checked", "running", "orphan"}
    BY DEF Sending, Touching
  <2> QED BY <2>1, <2>2 DEF Quiescent, IInv, DrainProgress, Established
<1>4. below[p] \in 0 .. RevokedBelow(target[p])
  BY <1>1, <1>2, FenceNumbers
<1>5. below[p] \in 0 .. Promise!RevokedBelow(target[p])
  BY <1>4 DEF RevokedBelow, Promise!RevokedBelow
<1>6. Promise!Report(target[p], below[p])
  BY <1>3 DEF Quiescent, Promise!Report, Promise!Higher, MaxOf, rowVars, Sending
<1> QED BY <1>1, <1>5, <1>6 DEF Promise!Next

(* The steps of a drain. *)
LEMMA DrainKeepsPromise ==
  ASSUME IInv, PInv, NEW p \in Drain, DrainStep(p)
  PROVE  Promise!Next \/ UNCHANGED Promise!vars
<1>1. ASSUME NEW d \in Device, NEW f \in Fences, NEW h \in Holder, FenceDevice(p, d, f, h)
      PROVE  Promise!Next
  <2>1. Promise!Grant(d, f, h)
    BY <1>1 DEF FenceDevice, Promise!Grant, Promise!Lower, MinOf, rowVars, IInv, TypeOK
  <2> QED BY <2>1 DEF Promise!Next
<1>2. ASSUME NEW k \in Command, ReapChild(p, k) PROVE Promise!Next \/ UNCHANGED Promise!vars
  <2>1. Sending' \subseteq Sending
    BY <1>2 DEF ReapChild, Sending, Touching
  <2> QED BY <1>2, <2>1, EndingIsStill DEF ReapChild, rowVars
<1>3. CASE \/ \E d \in Device : DrainDevice(p, d)
           \/ DrainLock(p) \/ DrainBusy(p) \/ DeleteRows(p) \/ DrainFails(p)
           \/ \E o \in Op : Probe(p, o)
  BY <1>3 DEF DrainDevice, DrainLock, DrainBusy, DeleteRows, DrainFails, Probe, rowVars,
     Promise!vars
<1> QED BY <1>1, <1>2, <1>3, ReportKeepsPromise DEF DrainStep

(* Every step of the journal is one the promise allows, or no step of it. *)
LEMMA StepKeepsPromise ==
  ASSUME IInv, PInv, [Next]_vars
  PROVE  [Promise!Next]_Promise!vars
<1>1. ASSUME NEW d \in Device, NEW h \in Holder, CloseTask(d, h)
      PROVE  Promise!Next
  <2>1. guard[d].fence = guard[d].fence /\ guard[d] = [fence |-> guard[d].fence,
          holder |-> guard[d].holder, closed |-> guard[d].closed]
    BY DEF IInv, TypeOK
  <2>2. Promise!Close(d)
    BY <1>1, <2>1 DEF CloseTask, Promise!Close, rowVars, IInv, TypeOK
  <2> QED BY <2>2 DEF Promise!Next
<1>2. CASE Crash \/ UNCHANGED vars
  BY <1>2 DEF Crash, vars, rowVars, Promise!vars
<1> QED BY <1>1, <1>2, ActKeepsPromise, SupervisorKeepsPromise, DrainKeepsPromise DEF Next

LEMMA InitKeepsPromise == Init => PInv /\ Promise!Init
  BY DEF Init, PInv, AbsentHasNoEnvelope, IssuedIsExecuted, Promise!Init, NoGuard,
     Promise!NoAuthority, Touching

(* The journal, with its handlers, supervisors, drains and crashes, implements *)
(* the promise: input under one authority at a time, each operation executed    *)
(* once, and a device that was reported quiescent left alone.                   *)
THEOREM JournalKeepsPromise == ASSUME ~SlowStart PROVE Spec => KeepsPromise
<1>1. IInv /\ PInv /\ [Next]_vars => PInv'
  BY AbsentPreserved, IssuedPreserved DEF PInv
<1>2. IInv /\ PInv /\ [Next]_vars => [Promise!Next]_Promise!vars
  BY StepKeepsPromise
<1> QED BY <1>1, <1>2, InitKeepsPromise, InvariantHolds, PTL DEF Spec, KeepsPromise, Promise!Spec
-----------------------------------------------------------------------------
(* What the promise is worth: in every behaviour it allows, no input is under   *)
(* way for a fence older than one its device was reported quiescent for.        *)
Issued ==
  /\ \A o \in Op : started[o] = 1 => env[o] \in Envelope
  /\ \A k \in Sending : env[k[1]] \in Envelope

PromiseHeld == Promise!TypeOK /\ Promise!SilentMeansSilent /\ Issued

LEMMA PromiseStart == Promise!Init => PromiseHeld
  BY DEF Promise!Init, Promise!TypeOK, Promise!SilentMeansSilent, Promise!NoAuthority, Issued,
     Promise!RevokedBelow, PromiseHeld, Sending

LEMMA SameEnvelope == Promise!Envelope = Envelope /\ Promise!Command = Command
  BY DEF Promise!Envelope, Envelope, Promise!Command, Command, Ordinal

LEMMA PromiseStep ==
  ASSUME PromiseHeld, [Promise!Next]_Promise!vars
  PROVE  PromiseHeld'
<1> USE FencesInNat, NoEnvelopeIsNew, SameEnvelope
    DEF PromiseHeld, Promise!TypeOK, Promise!SilentMeansSilent, Issued
<1>0. \A e \in Envelope : e.fence \in Nat /\ e.fence \in Fences /\ e.device \in Device
        /\ e.op \in Op
  BY DEF Envelope
<1>1. ASSUME NEW d \in Device, NEW f \in Fences, NEW h \in Holder, Promise!Grant(d, f, h)
      PROVE  PromiseHeld'
  BY <1>0, <1>1 DEF Promise!Grant, Promise!Lower, Promise!RevokedBelow, Sending
<1>2. ASSUME NEW d \in Device, Promise!Close(d)
      PROVE  PromiseHeld'
  <2>1. guard' \in [Device -> [fence : Fences \union {0}, holder : Holder \union {NoHolder},
                                closed : BOOLEAN]]
    BY <1>2 DEF Promise!Close
  <2>2. \A x \in Device : Promise!RevokedBelow(x) <= Promise!RevokedBelow(x)'
    BY <1>2 DEF Promise!Close, Promise!RevokedBelow
  <2>3. \A x \in Device : Promise!RevokedBelow(x) \in Nat /\ Promise!RevokedBelow(x)' \in Nat
    BY <2>1 DEF Promise!RevokedBelow
  <2> QED BY <1>0, <1>2, <2>1, <2>2, <2>3 DEF Promise!Close, Sending
<1>3. ASSUME NEW d \in Device, NEW n \in 0 .. Promise!RevokedBelow(d), Promise!Report(d, n)
      PROVE  PromiseHeld'
  BY <1>0, <1>3 DEF Promise!Report, Promise!Higher, Promise!RevokedBelow, Sending
<1>4. ASSUME NEW e \in Envelope, Promise!Admit(e)
      PROVE  PromiseHeld'
  BY <1>0, <1>4 DEF Promise!Admit, Promise!RevokedBelow, Sending, Command
<1>5. ASSUME NEW o \in Op, Promise!Execute(o)
      PROVE  PromiseHeld'
  BY <1>0, <1>5 DEF Promise!Execute, Promise!RevokedBelow, Sending
<1>6. ASSUME NEW k \in Command, Promise!Touch(k)
      PROVE  PromiseHeld'
  <2>1. k[1] \in Op
    BY DEF Command
  <2>2. env[k[1]] \in Envelope /\ Promise!Current(env[k[1]])
    BY <1>6, <2>1 DEF Promise!Touch
  <2>3. env[k[1]].fence >= drained[env[k[1]].device]
    BY <1>0, <2>2 DEF Promise!Current, Promise!RevokedBelow
  <2>4. Sending' = Sending \union {k} /\ UNCHANGED <<guard, env, started, drained>>
    BY <1>6 DEF Promise!Touch, Sending
  <2> QED BY <1>0, <2>2, <2>3, <2>4 DEF Promise!RevokedBelow, Sending
<1>7. ASSUME Promise!Still
      PROVE  PromiseHeld'
  BY <1>0, <1>7 DEF Promise!Still, Promise!RevokedBelow, Sending
<1>8. ASSUME UNCHANGED Promise!vars
      PROVE  PromiseHeld'
  BY <1>8 DEF Promise!vars, Promise!RevokedBelow, Sending
<1> QED BY <1>1, <1>2, <1>3, <1>4, <1>5, <1>6, <1>7, <1>8 DEF Promise!Next

(* The abstract specification: a device reported quiescent for a fence is not   *)
(* touched by an older authority, whatever implements the promise.              *)
THEOREM PromiseIsSilent == KeepsPromise => []Promise!SilentMeansSilent
<1>1. PromiseHeld => Promise!SilentMeansSilent
  BY DEF PromiseHeld
<1> QED BY <1>1, PromiseStart, PromiseStep, PTL DEF KeepsPromise, Promise!Spec
=============================================================================
