---------------------------- MODULE FrameBoundary ----------------------------
(***************************************************************************)
(* Which decoded frame may stand for the screen after an action             *)
(* (driver/scrcpy_observation.py; act and the pixel capture of              *)
(* driver/android.py).  The decoder keeps the newest picture back until its  *)
(* rate limit lets it publish it; only a published frame has an id.  An      *)
(* action remembers the newest id before it is dispatched, and a capture     *)
(* accepts a greater id of the same generation.                             *)
(*                                                                         *)
(* Pictures are known by the epoch they were decoded in: the number of       *)
(* dispatches before.  One task acts and captures in turn; the decoder and   *)
(* the source go on beside it, and a viewer peeks at any time.              *)
(***************************************************************************)
EXTENDS Integers, FiniteSets

CONSTANTS Linger,     \* the decoder task may outlive its source for a while
          MaxFrame,   \* bound: published frames of a generation
          MaxAct,     \* bound: dispatches
          MaxGen      \* bound: generations

LingerIsBoolean == Linger \in BOOLEAN
BoundsAreNumbers == {MaxFrame, MaxAct, MaxGen} \subseteq Nat

VARIABLES
  generation, alive,  \* of the session: its generation, and its source runs
  task,      \* the decoder task runs
  healthy,   \* the decoder's status is "healthy"
  held,      \* the pending picture: a set of at most one [gen, epoch]
  ring,      \* published frames: [gen, id, epoch]
  ids,       \* ring._next_ids: the last id of each generation
  epoch,     \* dispatches so far
  boundary,  \* _action_frame_boundary: a set of at most one [gen, id]
  acted,     \* the epoch of the newest action that succeeded
  pc, start, \* what the task does; the boundary or the [gen, id] it waits from
  reset,     \* this capture has reset the video
  shown      \* frames the captures chose: [epoch, acted]

streamVars == <<generation, alive, task>>
decoderVars == <<healthy, held, ring, ids>>
taskVars == <<epoch, boundary, acted, pc, start, reset>>
vars == <<streamVars, decoderVars, taskVars, shown>>

Generation == 1..MaxGen
Position == [gen : Generation, id : Nat]
Frame == [gen : Generation, id : Nat, epoch : Nat]

Init ==
  /\ generation = 1 /\ alive = TRUE /\ task = TRUE
  /\ healthy = FALSE /\ held = {} /\ ring = {} /\ ids = [g \in Generation |-> 0]
  /\ epoch = 0 /\ boundary = {} /\ acted = 0 /\ pc = "idle" /\ start = {} /\ reset = FALSE
  /\ shown = {}

(* append gives a frame the next id of its generation. *)
Numbered(p) == [gen |-> p.gen, id |-> ids[p.gen] + 1, epoch |-> p.epoch]

(* Mutant: every frame is the first. *)
CountedOnce(pictures) ==
  [g \in Generation |-> IF \E p \in pictures : p.gen = g THEN 1 ELSE ids[g]]

Counted(pictures) ==
  [g \in Generation |-> IF \E p \in pictures : p.gen = g THEN ids[g] + 1 ELSE ids[g]]

(* What is held is published; old frames may be trimmed for it. *)
Publish(pictures) ==
  LET frames == {Numbered(p) : p \in pictures}
  IN /\ ids' = Counted(pictures)
     /\ \/ ring' = ring \union frames
        \/ frames # {} /\ ring' = frames

(* The newest id the ring has of the generation, 0 without one. *)
LatestId(frames) ==
  IF \E f \in frames : f.gen = generation
  THEN (CHOOSE f \in frames :
          f.gen = generation /\ \A g \in frames : g.gen = generation => g.id <= f.id).id
  ELSE 0

(* frame_boundary: what is held is published before the newest id is read. *)
Flush == Publish(held) /\ held' = {}

-----------------------------------------------------------------------------
(* The decoder is fed: a picture takes the place of the one that was held, a  *)
(* packet need not make one, and what is there is published or held.          *)
Feed ==
  /\ task /\ ids[generation] < MaxFrame /\ healthy' = TRUE
  /\ \E pending \in {held, {[gen |-> generation, epoch |-> epoch]}} :
       \/ held' = pending /\ UNCHANGED <<ring, ids>>
       \/ Publish(pending) /\ held' = {}
  /\ UNCHANGED <<streamVars, taskVars, shown>>

(* A packet is refused; the context stays. *)
FeedFails ==
  /\ task /\ healthy /\ healthy' = FALSE
  /\ UNCHANGED <<streamVars, held, ring, ids, taskVars, shown>>

(* The source dies; the decoder task ends when it meets the end of the stream. *)
SourceDies ==
  /\ alive /\ generation < MaxGen /\ alive' = FALSE
  /\ task' = (task /\ Linger)
  /\ UNCHANGED <<generation, decoderVars, taskVars, shown>>

TaskEnds ==
  /\ task /\ ~alive /\ task' = FALSE
  /\ UNCHANGED <<generation, alive, decoderVars, taskVars, shown>>

-----------------------------------------------------------------------------
(* act: the snapshot is taken before the command, and committed after it. *)
Dispatch ==
  /\ pc = "idle" /\ epoch < MaxAct
  /\ Flush
  /\ start' = IF alive THEN {[gen |-> generation, id |-> LatestId(ring')]} ELSE {}
  /\ epoch' = epoch + 1 /\ pc' = "acting"
  /\ UNCHANGED <<streamVars, healthy, boundary, acted, reset, shown>>

ActEnds ==
  /\ pc = "acting" /\ pc' = "idle" /\ start' = {}
  /\ \/ boundary' = start /\ acted' = epoch
     \/ UNCHANGED <<boundary, acted>>
  /\ UNCHANGED <<streamVars, decoderVars, epoch, reset, shown>>

(* start of the provider: a decoder task that runs is kept, whatever its      *)
(* source does; otherwise the decoder and the ring start from nothing.        *)
ProviderStarts ==
  /\ pc = "idle" /\ pc' = "started"
  /\ IF task THEN UNCHANGED <<streamVars, decoderVars>>
     ELSE /\ task' = TRUE /\ alive' = TRUE
          /\ generation' = IF alive THEN generation ELSE generation + 1
          /\ healthy' = FALSE /\ held' = {} /\ ring' = {} /\ UNCHANGED ids
  /\ UNCHANGED <<epoch, boundary, acted, start, reset, shown>>

(* The capture takes its own boundary, 0 without one. *)
CaptureBegins ==
  /\ pc = "started" /\ pc' = "waiting" /\ reset' = FALSE
  /\ Flush
  /\ start' = {[gen |-> generation, id |-> IF alive THEN LatestId(ring') ELSE 0]}
  /\ UNCHANGED <<streamVars, healthy, epoch, boundary, acted, shown>>

(* Mutant: any frame will do. *)
AfterNothing(f) == f.id > 0

(* _scrcpy_frame_after_action *)
AfterAction(f) == \A b \in boundary : f.gen = b.gen /\ f.id > b.id

Shows(f) == shown' = {[epoch |-> f.epoch, acted |-> acted]}

(* A frame after the start is found: it is the pixels of the observation if   *)
(* it comes after the action too, else ADB takes them.                        *)
FrameIsFound ==
  /\ pc = "waiting"
  /\ Flush
  /\ \E f \in ring' :
       /\ \A s \in start : f.gen = s.gen /\ f.id > s.id
       /\ \A g \in ring' : g.gen = f.gen => g.id <= f.id
       /\ IF AfterAction(f) THEN Shows(f) /\ pc' = "tree"
          ELSE pc' = "idle" /\ UNCHANGED shown
  /\ start' = {}
  /\ UNCHANGED <<streamVars, healthy, epoch, boundary, acted, reset>>

(* RESET_VIDEO, once the generation has had a frame: nothing decoded before   *)
(* is kept.                                                                   *)
Reset ==
  /\ pc = "waiting" /\ ~reset /\ alive /\ reset' = TRUE
  /\ \E f \in ring : f.gen = generation
  /\ ring' = {} /\ held' = {} /\ healthy' = FALSE
  /\ UNCHANGED <<streamVars, ids, epoch, boundary, acted, pc, start, shown>>

GivesUp ==
  /\ pc = "waiting" /\ pc' = "idle" /\ start' = {}
  /\ UNCHANGED <<streamVars, decoderVars, epoch, boundary, acted, reset, shown>>

(* current *)
Current(frames) ==
  {f \in frames : /\ alive /\ task /\ healthy /\ f.gen = generation /\ AfterAction(f)
                  /\ \A g \in frames : g.gen < f.gen \/ (g.gen = f.gen /\ g.id <= f.id)}

(* The tree is there: a newer frame of the stream takes the place. *)
FinalPixels ==
  /\ pc = "tree" /\ pc' = "idle"
  /\ Flush
  /\ \/ \E f \in Current(ring') : Shows(f)
     \/ Current(ring') = {} /\ UNCHANGED shown
  /\ UNCHANGED <<streamVars, healthy, epoch, boundary, acted, start, reset>>

(* close, at the end of a task. *)
Close ==
  /\ pc = "idle" /\ task /\ task' = FALSE
  /\ held' = {} /\ boundary' = {} /\ acted' = 0 /\ shown' = {}
  /\ UNCHANGED <<generation, alive, healthy, ring, ids, epoch, pc, start, reset>>

Next ==
  \/ Feed \/ FeedFails \/ SourceDies \/ TaskEnds \/ Dispatch \/ ActEnds \/ ProviderStarts
  \/ CaptureBegins \/ FrameIsFound \/ Reset \/ GivesUp \/ FinalPixels \/ Close

Spec == Init /\ [][Next]_vars

-----------------------------------------------------------------------------
TypeOK ==
  /\ generation \in Generation /\ {alive, task, healthy, reset} \subseteq BOOLEAN
  /\ held \subseteq [gen : Generation, epoch : 0..epoch] /\ Cardinality(held) <= 1
  /\ ring \subseteq Frame /\ ids \in [Generation -> Nat] /\ \A f \in ring : f.id <= ids[f.gen]
  /\ epoch \in 0..MaxAct /\ acted \in 0..epoch
  /\ boundary \subseteq Position /\ start \subseteq Position
  /\ Cardinality(boundary) <= 1 /\ Cardinality(start) <= 1
  /\ pc \in {"idle", "acting", "started", "waiting", "tree"}
  /\ shown \subseteq [epoch : Nat, acted : Nat]

(* The id of a frame says when it was decoded: what was decoded before the    *)
(* action has no greater id, though it may be published after, and what was   *)
(* decoded after it has one, though the ring was cleared meanwhile.           *)
BoundaryIsCausal ==
  \A b \in boundary, f \in ring : f.gen = b.gen => (f.id > b.id <=> f.epoch >= acted)

(* The pixels of an observation were decoded after the newest action that     *)
(* succeeded before it.                                                       *)
PixelsFollowTheAction == \A s \in shown : s.epoch >= s.acted

===============================================================================
