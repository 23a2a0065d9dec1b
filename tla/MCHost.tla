-------------------------------- MODULE MCHost --------------------------------
(* What the host keeps on its disk beside the tasks: the files of the artifact *)
(* store, the journal of a learning job, the skill library and the installed   *)
(* program.  Each has its state to itself; a behaviour here is one of one of   *)
(* them, which `part` names with its options: "update" is one update beside    *)
(* everything but the launcher's commands, "twice" two of them, "launcher"      *)
(* none and the commands.  The constants are those of the artifact store.     *)
EXTENDS ArtifactPins

CONSTANTS MaxEffects,              \* of ResearchEnvironment
          Target, Depends, MaxEdit \* of SkillPublication

VARIABLES
  part,
  harness, env, saved, content, flying, intent, jobPc, wanted, reset, late,
  library, frozen, status, accepted, asked, written, marking, originals, edits,
  current, svc, up, boot, task, op, gate, shut, native, due, asks, held, doing, job, old, was

storeVars == <<files, named, lock, phase, pending, pinned, work, pc, reg>>
jobVars == <<harness, env, saved, content, flying, intent, jobPc, wanted, reset, late>>
libraryVars == <<library, frozen, status, accepted, asked, written, marking, originals, edits>>
programVars == <<current, svc, up, boot, task, op, gate, shut, native, due, asks, held, doing, job,
                 old, was>>
hostVars == <<part, storeVars, jobVars, libraryVars, programVars>>

Learn == INSTANCE ResearchEnvironment WITH pc <- jobPc

Skills == INSTANCE SkillPublication

(* Three patches in a chain. *)
Chain == [a |-> {}, b |-> {"a"}, c |-> {"a", "b"}]

Updates == INSTANCE DesktopUpdate
  WITH Offered <- 2, Payload <- 3, Used <- {"manual", "tray"}, MaxJob <- 1, lock <- held,
       pc <- doing
Twice == INSTANCE DesktopUpdate
  WITH Offered <- 2, Payload <- 3, Used <- {"manual"}, MaxJob <- 2, lock <- held, pc <- doing
Launcher == INSTANCE DesktopUpdate
  WITH Offered <- 2, Payload <- 3, Used <- {"manual", "tray", "command"}, MaxJob <- 0,
       lock <- held, pc <- doing

ASSUME OptionsAreKnown ==
  /\ KeptAreSlots /\ AgainIsBoolean /\ MaxPinsIsNumber
  /\ Learn!MaxEffectsIsNumber
  /\ Skills!DependsIsAcyclic /\ Skills!MaxEditIsNumber
  /\ Updates!VersionsAreNumbers /\ Updates!UsedIsKnown /\ Updates!MaxJobIsNumber
  /\ Twice!UsedIsKnown /\ Twice!MaxJobIsNumber
  /\ Launcher!UsedIsKnown /\ Launcher!MaxJobIsNumber

HostInit ==
  /\ part \in {"store", "research", "skills", "update", "twice", "launcher"}
  /\ Init /\ Learn!Init /\ Skills!Init /\ Updates!Init
  /\ part # "research" => ~harness.verifier /\ ~harness.fixture
  /\ part \notin {"update", "twice", "launcher"} => up = 1

HostNext ==
  \/ part = "store" /\ Next /\ UNCHANGED <<part, jobVars, libraryVars, programVars>>
  \/ part = "research" /\ Learn!Next /\ UNCHANGED <<part, storeVars, libraryVars, programVars>>
  \/ part = "skills" /\ Skills!Next /\ UNCHANGED <<part, storeVars, jobVars, programVars>>
  \/ part = "update" /\ Updates!Next /\ UNCHANGED <<part, storeVars, jobVars, libraryVars>>
  \/ part = "twice" /\ Twice!Next /\ UNCHANGED <<part, storeVars, jobVars, libraryVars>>
  \/ part = "launcher" /\ Launcher!Next /\ UNCHANGED <<part, storeVars, jobVars, libraryVars>>

HostSpec == HostInit /\ [][HostNext]_hostVars

(* What the modules say of their part; NamedIsThere is of ArtifactPins. *)
CleanIsRestored == Learn!CleanIsRestored
ReplayAgrees == Learn!ReplayAgrees
DependenciesInPlace == Skills!DependenciesInPlace
GateIsReleasable == Updates!GateIsReleasable
StopSparesAdmitted == Updates!StopSparesAdmitted
SwitchedWhileDown == [][part # "launcher" => Updates!SwitchIsDown]_hostVars
=============================================================================
