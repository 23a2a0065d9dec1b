---------------------------- MODULE StreamSession ----------------------------
(***************************************************************************)
(* The video stream of one device shared by its consumers                   *)
(* (driver/scrcpy_stream.py, ScrcpySession over LocalStreamSource): leases,  *)
(* the first lease starts a transport, the last one arms an idle timer that  *)
(* stops it, or stops it at once in a registry without an idle time, and one  *)
(* pump copies what it reads to the subscribers.                             *)
(*                                                                         *)
(* A transport is a number: its server process and its video stream, which  *)
(* may end at different times.  Whoever stops the source has left the        *)
(* lifecycle lock before it does.  Parsing and the queues of the subscribers *)
(* are left out.                                                            *)
(***************************************************************************)
EXTENDS Integers, Sequences, FiniteSets

CONSTANTS Consumer,  \* who takes leases
          IdleTimes, \* the registries of this instance: TRUE for one with an idle time
          MaxStart,  \* bound: transports
          MaxGen,    \* bound: generations
          MaxDeath   \* bound: processes that exit by themselves

BoundsAreNumbers == {MaxStart, MaxDeath} \subseteq Nat /\ MaxGen \in Nat \ {0}
ConsumersAreFinite == IsFiniteSet(Consumer) /\ "nobody" \notin Consumer

VARIABLES
  leases,
  lock,      \* who holds the lifecycle lock over a start, or "nobody"
  started, generation,
  idle,      \* the generation the idle timer was armed for, 0 without a timer
  stops,     \* calls of source.stop() that have been decided and not begun
  conn,      \* the transport the source holds, 0 for none
  alive,     \* its process runs and it is connected
  open,      \* transports whose stream has not ended
  used,      \* transports there have been
  pump,      \* the transport the pump reads, 0 without a pump
  made,      \* generation |-> the transport it was counted for
  labelled,  \* <<generation, transport>> of the units consumers were given
  closed,    \* the registry has shut the session down
  timed,     \* idle_shutdown_seconds > 0, for ever
  deaths

sessionVars == <<leases, lock, started, generation, idle, stops, pump, made, closed>>
sourceVars == <<conn, alive, open, used>>
vars == <<sessionVars, sourceVars, labelled, timed, deaths>>

Init ==
  /\ leases = {} /\ lock = "nobody" /\ started = FALSE /\ generation = 0 /\ idle = 0
  /\ stops = 0 /\ pump = 0 /\ made = <<>> /\ closed = FALSE
  /\ conn = 0 /\ alive = FALSE /\ open = {} /\ used = 0
  /\ labelled = {} /\ timed \in IdleTimes /\ deaths = 0

Free == lock = "nobody"

(* start has returned: the state and the lease are published together.  The   *)
(* pump of before goes on if it has not ended.                                *)
Publish(c, transport) ==
  /\ started' = TRUE /\ generation' = generation + 1
  /\ made' = Append(made, transport)
  /\ pump' = IF pump = 0 THEN transport ELSE pump
  /\ leases' = leases \union {c} /\ lock' = "nobody"

(* acquire: a timer is cancelled.  A running source is shared, or counted     *)
(* again when a stop of it has been decided; a new one is started.            *)
Acquire(c) ==
  /\ Free /\ c \notin leases /\ ~closed /\ generation < MaxGen
  /\ idle' = 0
  /\ CASE started /\ alive ->
            /\ leases' = leases \union {c}
            /\ UNCHANGED <<lock, started, generation, pump, made, sourceVars>>
       [] ~started /\ alive -> Publish(c, conn) /\ UNCHANGED sourceVars
       [] ~alive ->
            /\ used < MaxStart /\ used' = used + 1 /\ conn' = used + 1 /\ lock' = c
            /\ UNCHANGED <<leases, started, generation, pump, made, alive, open>>
  /\ UNCHANGED <<stops, closed, labelled, deaths>>

StartSucceeds(c) ==
  /\ lock = c /\ conn = used /\ alive' = TRUE /\ open' = open \union {conn}
  /\ Publish(c, conn)
  /\ UNCHANGED <<idle, stops, conn, used, closed, labelled, deaths>>

(* The start fails or the caller is cancelled: the source is stopped before   *)
(* the lock is given up.                                                     *)
StartFails(c) ==
  /\ lock = c /\ lock' = "nobody" /\ started' = FALSE
  /\ conn' = 0 /\ alive' = FALSE /\ open' = open \ {conn}
  /\ UNCHANGED <<leases, generation, idle, stops, used, pump, made, closed, labelled, deaths>>

Detach == started' = FALSE /\ pump' = 0 /\ idle' = 0

(* Mutant: the last release arms no timer. *)
ReleaseOnly(c) ==
  /\ Free /\ c \in leases /\ leases' = leases \ {c}
  /\ CASE leases' # {} -> UNCHANGED <<idle, started, pump, stops>>
       [] leases' = {} /\ timed -> idle' = 0 /\ UNCHANGED <<started, pump, stops>>
       [] leases' = {} /\ ~timed -> Detach /\ stops' = stops + 1
  /\ UNCHANGED <<lock, generation, made, closed, sourceVars, labelled, deaths>>

(* release of the last lease arms the timer, or detaches the source to stop it *)
(* once the lock is left.                                                     *)
Release(c) ==
  /\ Free /\ c \in leases /\ leases' = leases \ {c}
  /\ CASE leases' # {} -> UNCHANGED <<idle, started, pump, stops>>
       [] leases' = {} /\ timed -> idle' = generation /\ UNCHANGED <<started, pump, stops>>
       [] leases' = {} /\ ~timed -> Detach /\ stops' = stops + 1
  /\ UNCHANGED <<lock, generation, made, closed, sourceVars, labelled, deaths>>

IdleFires ==
  /\ idle # 0 /\ Free
  /\ IF leases = {} /\ idle = generation
     THEN Detach /\ stops' = stops + 1
     ELSE idle' = 0 /\ UNCHANGED <<started, pump, stops>>
  /\ UNCHANGED <<leases, lock, generation, made, closed, sourceVars, labelled, deaths>>

(* shutdown of the registry; a stop under way is cancelled and made again. *)
Shutdown ==
  /\ Free /\ ~closed /\ closed' = TRUE
  /\ leases' = {} /\ Detach /\ stops' = 1
  /\ UNCHANGED <<lock, generation, made, sourceVars, labelled, deaths>>

(* source.stop(): it takes whatever the source holds by now, but a start that  *)
(* has no process yet is not touched.                                         *)
StopRuns ==
  /\ stops > 0 /\ stops' = stops - 1
  /\ \/ conn' = 0 /\ alive' = FALSE /\ open' = open \ {conn}
     \/ ~Free /\ UNCHANGED <<conn, alive, open>>
  /\ UNCHANGED <<leases, lock, started, generation, idle, pump, made, closed, used, labelled, deaths>>

-----------------------------------------------------------------------------
(* The process exits by itself; a stream ends. *)
SourceDies ==
  /\ alive /\ deaths < MaxDeath /\ alive' = FALSE /\ deaths' = deaths + 1
  /\ UNCHANGED <<sessionVars, conn, open, used, labelled>>

StreamEnds(t) ==
  /\ t \in open /\ ~(t = conn /\ alive) /\ open' = open \ {t}
  /\ UNCHANGED <<sessionVars, conn, alive, used, labelled, deaths>>

PumpEnds ==
  /\ pump # 0 /\ pump \notin open /\ pump' = 0
  /\ UNCHANGED <<leases, lock, started, generation, idle, stops, made, closed, sourceVars,
                 labelled, deaths>>

(* A unit read by the pump; the consumer labels it with the generation of now. *)
Unit ==
  /\ pump \in open /\ leases # {}
  /\ labelled' = labelled \union {<<generation, pump>>}
  /\ UNCHANGED <<sessionVars, sourceVars, deaths>>

Next ==
  /\ \/ \E c \in Consumer : Acquire(c) \/ StartSucceeds(c) \/ StartFails(c) \/ Release(c)
     \/ IdleFires \/ Shutdown \/ StopRuns \/ SourceDies \/ PumpEnds \/ Unit
     \/ \E t \in open : StreamEnds(t)
  /\ UNCHANGED timed

Spec == Init /\ [][Next]_vars

(* A start ends in time, the timer fires and a stop that was decided is run. *)
Fairness ==
  /\ WF_vars(IdleFires /\ UNCHANGED timed) /\ WF_vars(StopRuns /\ UNCHANGED timed)
  /\ \A c \in Consumer : WF_vars((StartSucceeds(c) \/ StartFails(c)) /\ UNCHANGED timed)

-----------------------------------------------------------------------------
TypeOK ==
  /\ leases \subseteq Consumer /\ lock \in Consumer \union {"nobody"}
  /\ {started, alive, closed} \subseteq BOOLEAN /\ timed \in IdleTimes
  /\ generation \in 0..MaxGen /\ idle \in 0..generation /\ stops \in 0..MaxGen
  /\ used \in 0..MaxStart /\ {conn, pump} \subseteq 0..used /\ open \subseteq 1..used
  /\ made \in [1..generation -> 1..used]
  /\ labelled \subseteq (1..generation) \X (1..used) /\ deaths \in 0..MaxDeath

(* A source nobody uses is stopped in the end. *)
UnusedStops == (conn # 0 /\ leases = {}) ~> (conn = 0 \/ leases # {})

(* Consumers own the source through their leases: no stop takes it from them.  *)
StopSparesLeases ==
  [][ (alive /\ ~alive' /\ deaths' = deaths /\ ~closed) => (leases = {}) ]_vars

(* What is queried as one generation came from the start of that generation.  *)
FramesAreOfTheirGeneration == \A x \in labelled : made[x[1]] = x[2]
===============================================================================
