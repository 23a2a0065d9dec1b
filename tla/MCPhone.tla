------------------------------- MODULE MCPhone -------------------------------
(* What the host keeps with one phone: the ring of its interactions, the lease *)
(* of its screen, the channel to its collector, the session of its video       *)
(* stream, the frames taken from it and the task that occupies it.  Each has    *)
(* its state to itself; they meet in the calls of the driver.  A behaviour here *)
(* is one of one of them, which `part` names.  The constants are those of all   *)
(* of them but the owner, whose theorems are its own module's.                 *)
EXTENDS FrameBoundary

CONSTANTS Port, AdbRestarts,     \* of CollectorChannel
          Restarts, MaxCount, MaxAge, ReadLimit, MaxEvents, MaxTime,  \* of InteractionRing
          Late, TTL, Margin, MaxSession, MaxWire,                     \* of ScreenLease
          Consumer, IdleTimes, MaxStart, MaxStreamGen, MaxDeath       \* of StreamSession

VARIABLES
  part,
  now, life, events, sequence, happened, ringPc, cursor, batch, ack,
  lease, left, mine, locks, replaced, timers, wire, reply, session, screenPc, released,
  table, strays, live, port, sock, sockTask, fwdTask, sockFailed, fwdFailed, owed,
  channelPc, spent, channelClosed,
  leases, lock, started, streamGen, idle, stops, conn, streamAlive, open, used, pump,
  made, labelled, streamClosed, timed, deaths,
  status, claims, token, last, dtask, depoch, quarantine, gfence, gtask, gepoch, gclosed,
  flight, active, wpc, wepoch, wfence, quiet, cpc, cepoch, cfence, kpc, ktask, kepoch, kfence,
  remote, faults

ringVars == <<now, life, events, sequence, happened, ringPc, cursor, batch, ack>>
screenVars == <<lease, left, mine, locks, replaced, timers, wire, reply, session, screenPc,
                released>>
channelVars == <<table, strays, live, port, sock, sockTask, fwdTask, sockFailed, fwdFailed,
                 owed, channelPc, spent, channelClosed>>
sessionVars == <<leases, lock, started, streamGen, idle, stops, conn, streamAlive, open, used,
                 pump, made, labelled, streamClosed, timed, deaths>>
ownerVars == <<status, claims, token, last, dtask, depoch, quarantine, gfence, gtask, gepoch,
               gclosed, flight, active, wpc, wepoch, wfence, quiet, cpc, cepoch, cfence, kpc,
               ktask, kepoch, kfence, remote, faults>>
phoneVars == <<part, ringVars, screenVars, channelVars, sessionVars, ownerVars, vars>>

Ring == INSTANCE InteractionRing
  WITH pc <- ringPc, ring <- events
Screen == INSTANCE ScreenLease
  WITH pc <- screenPc
Channel == INSTANCE CollectorChannel
  WITH pc <- channelPc, closed <- channelClosed
Stream == INSTANCE StreamSession
  WITH MaxGen <- MaxStreamGen, generation <- streamGen, alive <- streamAlive, closed <- streamClosed
Owner == INSTANCE TaskOwnership
  WITH Task <- {"t"}, SafeAuto <- {"t"}, Drivers <- BOOLEAN, MaxEpoch <- 3,
       MaxFault <- [r \in BOOLEAN |-> 2], NoTask <- "none", epoch <- claims

ASSUME OptionsAreKnown ==
  /\ Ring!RestartsIsBoolean /\ Ring!LimitsAreNumbers
  /\ Screen!LateIsBoolean /\ Screen!PeriodsAreNumbers
  /\ Channel!RestartsIsBoolean
  /\ Stream!BoundsAreNumbers /\ Stream!ConsumersAreFinite
  /\ LingerIsBoolean /\ BoundsAreNumbers

PhoneInit ==
  /\ part \in {"ring", "screen", "channel", "stream", "frames", "owner"}
  /\ Ring!Init /\ Screen!Init /\ Channel!Init /\ Stream!Init /\ Owner!Init /\ Init
  /\ part # "owner" => ~remote
  /\ part # "stream" => timed = (TRUE \in IdleTimes)

PhoneNext ==
  \/ /\ part = "ring" /\ Ring!Next
     /\ UNCHANGED <<part, screenVars, channelVars, sessionVars, ownerVars, vars>>
  \/ /\ part = "screen" /\ Screen!Next
     /\ UNCHANGED <<part, ringVars, channelVars, sessionVars, ownerVars, vars>>
  \/ /\ part = "channel" /\ Channel!Next
     /\ UNCHANGED <<part, ringVars, screenVars, sessionVars, ownerVars, vars>>
  \/ /\ part = "stream" /\ Stream!Next
     /\ UNCHANGED <<part, ringVars, screenVars, channelVars, ownerVars, vars>>
  \/ /\ part = "frames" /\ Next
     /\ UNCHANGED <<part, ringVars, screenVars, channelVars, sessionVars, ownerVars>>
  \/ /\ part = "owner" /\ Owner!Next
     /\ UNCHANGED <<part, ringVars, screenVars, channelVars, sessionVars, vars>>

PhoneSpec == PhoneInit /\ [][PhoneNext]_phoneVars

(* No action that fairness is stated of can be taken in the first state of its *)
(* part, where it remains when the behaviour is of another.                    *)
FairPhoneSpec == PhoneSpec /\ Screen!Fairness /\ Stream!Fairness /\ Owner!Fairness

(* The state of every part is of its type. *)
PartsTypeOK ==
  /\ part = "ring" => Ring!TypeOK
  /\ part = "screen" => Screen!TypeOK
  /\ part = "channel" => Channel!TypeOK
  /\ part = "stream" => Stream!TypeOK
  /\ part = "frames" => TypeOK

(* What the modules say of their part; PixelsFollowTheAction is of             *)
(* FrameBoundary.                                                             *)
CompleteMissesNone == Ring!CompleteMissesNone
GetsDark == Screen!GetsDark
ClosedIsClosed == Channel!ClosedIsClosed
UnusedStops == Stream!UnusedStops
DeviceIsFreed == Owner!DeviceIsFreed
=============================================================================
