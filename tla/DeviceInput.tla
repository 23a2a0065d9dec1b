------------------------------ MODULE DeviceInput ------------------------------
(***************************************************************************)
(* What the execution journal promises its callers (driver/                *)
(* execution_journal.py), without its processes, locks and rows: input is   *)
(* sent under one authority at a time, an operation id is executed at most  *)
(* once, and a device that was reported quiescent for a fence is not        *)
(* touched by an older authority.  ExecutionJournal implements it.          *)
(***************************************************************************)
EXTENDS Integers

CONSTANTS Device, Op, Holder, Payload, Fences,
          MaxSub,    \* commands of one operation
          NoEnvelope, NoHolder

Envelope == [op : Op, device : Device, fence : Fences, holder : Holder, payload : Payload]

Command == Op \X (0 .. MaxSub - 1)

VARIABLES
  authority,  \* who may send input to a device
  given,      \* the envelope an operation id stands for
  executed,   \* how often an operation was executed
  touching,   \* commands that are, or may be, sending input
  silent      \* every fence below it was reported quiescent

vars == <<authority, given, executed, touching, silent>>

NoAuthority == [fence |-> 0, holder |-> NoHolder, closed |-> TRUE]

Current(e) ==
  /\ ~authority[e.device].closed
  /\ authority[e.device].fence = e.fence /\ authority[e.device].holder = e.holder

RevokedBelow(d) ==
  IF authority[d].closed THEN authority[d].fence + 1 ELSE authority[d].fence

Lower(m, n) == IF m < n THEN m ELSE n
Higher(m, n) == IF m > n THEN m ELSE n

Init ==
  /\ authority = [d \in Device |-> NoAuthority]
  /\ given = [o \in Op |-> NoEnvelope]
  /\ executed = [o \in Op |-> 0]
  /\ touching = {}
  /\ silent = [d \in Device |-> 0]

(* A newer fence, or the same one again, takes the device.  A promise about    *)
(* the fence that is granted again is taken back.                              *)
Grant(d, f, h) ==
  /\ authority[d].fence <= f
  /\ authority[d].fence = f => authority[d].holder = h
  /\ authority' = [authority EXCEPT ![d] = [fence |-> f, holder |-> h, closed |-> FALSE]]
  /\ silent' = [silent EXCEPT ![d] = Lower(silent[d], f)]
  /\ UNCHANGED <<given, executed, touching>>

Close(d) ==
  /\ ~authority[d].closed
  /\ authority' = [authority EXCEPT ![d].closed = TRUE]
  /\ UNCHANGED <<given, executed, touching, silent>>

Admit(e) ==
  /\ given[e.op] = NoEnvelope /\ Current(e)
  /\ given' = [given EXCEPT ![e.op] = e]
  /\ UNCHANGED <<authority, executed, touching, silent>>

Execute(o) ==
  /\ given[o] # NoEnvelope /\ executed[o] = 0 /\ Current(given[o])
  /\ executed' = [executed EXCEPT ![o] = 1]
  /\ UNCHANGED <<authority, given, touching, silent>>

(* A command of an executed operation starts, under the authority of now. *)
Touch(k) ==
  /\ k \notin touching /\ executed[k[1]] = 1 /\ Current(given[k[1]])
  /\ touching' = touching \union {k}
  /\ UNCHANGED <<authority, given, executed, silent>>

(* Commands end or are killed. *)
Still ==
  /\ touching' \in (SUBSET touching) \ {touching}
  /\ UNCHANGED <<authority, given, executed, silent>>

(* A drain reports: nobody below n touches the device, or may again. *)
Report(d, n) ==
  /\ \A k \in touching : given[k[1]].device = d => given[k[1]].fence >= n
  /\ silent' = [silent EXCEPT ![d] = Higher(silent[d], n)]
  /\ UNCHANGED <<authority, given, executed, touching>>

Next ==
  \/ \E d \in Device :
       \/ \E f \in Fences, h \in Holder : Grant(d, f, h)
       \/ Close(d)
       \/ \E n \in 0 .. RevokedBelow(d) : Report(d, n)
  \/ \E e \in Envelope : Admit(e)
  \/ \E o \in Op : Execute(o)
  \/ \E k \in Command : Touch(k)
  \/ Still

Spec == Init /\ [][Next]_vars

-----------------------------------------------------------------------------
TypeOK ==
  /\ authority \in [Device -> [fence : Fences \union {0}, holder : Holder \union {NoHolder},
                               closed : BOOLEAN]]
  /\ given \in [Op -> Envelope \union {NoEnvelope}]
  /\ executed \in [Op -> 0..1]
  /\ touching \subseteq Command
  /\ silent \in [Device -> Nat]

(* A device that was reported quiescent for a fence is not touched by an older *)
(* authority, nor is it once that report is out of date (fence).               *)
SilentMeansSilent ==
  /\ \A d \in Device : silent[d] <= RevokedBelow(d)
  /\ \A k \in touching : given[k[1]].fence >= silent[given[k[1]].device]
=============================================================================
