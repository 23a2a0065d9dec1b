------------------------------ MODULE PhoneProofs ------------------------------
(***************************************************************************)
(* Proofs about what the host keeps with a phone.  Of the frames, for any      *)
(* number of them, of actions and of generations: the pixels an action is     *)
(* judged by are newer than it.  Of the channel to the collector, for any set *)
(* of ports: its sockets and its forwards are never forgotten, a close that    *)
(* succeeded left none, an answer is never read for another request, and the   *)
(* forward of somebody else stays as long as the ADB server does.  Of the ring *)
(* of interactions, for any limits of it: a read that says it is complete      *)
(* misses nothing since its cursor.  Of the lease of the screen, for any        *)
(* periods: a lease with time left is bright, and one that was released is      *)
(* dark.  Of the video stream, for any consumers: a source without a lease is   *)
(* watched.                                                                   *)
(***************************************************************************)
EXTENDS MCPhone, FiniteSetTheorems, SequenceTheorems, WellFoundedInduction, TLAPS

(* No frame is of the future, and the newest id of a generation that has a     *)
(* frame belongs to a frame.                                                  *)
NewestIsThere ==
  \A f \in ring : f.epoch <= epoch /\ \E g \in ring : g.gen = f.gen /\ g.id = ids[f.gen]

(* The decoder task does not outlive its source, and another can follow it.   *)
TaskHasSource == (task => alive) /\ (~alive => generation < MaxGen)

(* At most one picture is held back. *)
HeldIsOne == held = {} \/ \E p \in held : held = {p}

(* What the decoder holds back was decoded after the last action that         *)
(* succeeded: every dispatch publishes what is held.                          *)
HeldIsFresh ==
  /\ \A p \in held : p.epoch >= acted
  /\ pc = "acting" => \A p \in held : p.epoch = epoch

(* The ids tell what was decoded before an action from what came after it,    *)
(* for the action under way and for the last that succeeded.                  *)
Separates(b, e) ==
  \A f \in ring : f.gen = b.gen => (f.id > b.id <=> f.epoch >= e)

IdsSeparate ==
  /\ \A b \in boundary : b.id <= ids[b.gen] /\ Separates(b, acted)
  /\ pc = "acting" => \A s \in start : s.id <= ids[s.gen] /\ Separates(s, epoch)

(* Without a boundary there was no source during the action: the ring of the  *)
(* provider that was started since has nothing older.                         *)
NoBoundaryNoOldFrame ==
  /\ pc = "acting" /\ start = {} => ~task
  /\ boundary = {} /\ (task \/ pc \in {"started", "waiting", "tree"})
       => \A f \in ring : f.epoch >= acted

IInv ==
  /\ TypeOK
  /\ NewestIsThere /\ TaskHasSource /\ HeldIsOne /\ HeldIsFresh
  /\ IdsSeparate /\ NoBoundaryNoOldFrame
  /\ BoundaryIsCausal /\ PixelsFollowTheAction

(* A set of one element, or none, has at most one. *)
LEMMA FewElements ==
  /\ Cardinality({}) <= 1 /\ \A x : Cardinality({x}) <= 1
  BY FS_EmptySet, FS_Singleton

(* The same of the ring after a step that dispatches nothing. *)
NewestAfter ==
  \A f \in ring' : f.epoch <= epoch /\ \E g \in ring' : g.gen = f.gen /\ g.id = ids'[f.gen]

(* What publishing a picture does to the ring and the numbers. *)
LEMMA Publishing ==
  ASSUME TypeOK, NewestIsThere,
         NEW S, S \subseteq [gen : Generation, epoch : 0..epoch],
         S = {} \/ \E p \in S : S = {p},
         Publish(S)
  PROVE  /\ ids' \in [Generation -> Nat]
         /\ \A g \in Generation : ids'[g] >= ids[g]
         /\ ring' \subseteq Frame
         /\ \A f \in ring' : f.id <= ids'[f.gen]
         /\ NewestAfter
         /\ \A f \in ring' : \/ f \in ring
                             \/ \E p \in S : /\ f.gen = p.gen /\ f.epoch = p.epoch
                                             /\ f.id = ids[p.gen] + 1
<1>1. CASE S = {}
  <2>1. ids' = [g \in Generation |-> ids[g]] /\ ring' = ring
    BY <1>1 DEF Publish, Counted
  <2>2. ids' = ids
    BY <2>1 DEF TypeOK
  <2> QED BY <2>1, <2>2 DEF TypeOK, NewestIsThere, NewestAfter, Frame
<1>2. CASE \E p \in S : S = {p}
  <2>1. PICK p \in S : S = {p}
    BY <1>2
  <2> DEFINE n == [gen |-> p.gen, id |-> ids[p.gen] + 1, epoch |-> p.epoch]
  <2>2. p.gen \in Generation /\ p.epoch \in 0..epoch /\ epoch \in Nat
    BY <2>1 DEF TypeOK
  <2>3. {Numbered(q) : q \in S} = {n}
    BY <2>1 DEF Numbered
  <2>4. n \in Frame /\ n.gen = p.gen /\ n.id = ids[p.gen] + 1 /\ n.epoch = p.epoch
    BY <2>2 DEF Frame, TypeOK
  <2>5. ids' = [g \in Generation |-> IF p.gen = g THEN ids[g] + 1 ELSE ids[g]]
    BY <2>1 DEF Publish, Counted
  <2>6. ring' = ring \union {n} \/ ring' = {n}
    BY <2>3 DEF Publish
  <2>7. ids' \in [Generation -> Nat] /\ \A g \in Generation : ids'[g] >= ids[g]
    BY <2>5 DEF TypeOK
  <2>8. ring' \subseteq Frame
    BY <2>4, <2>6 DEF TypeOK
  <2>9. \A f \in ring' : f.gen \in Generation /\ f.id <= ids'[f.gen]
    BY <2>2, <2>4, <2>5, <2>6 DEF TypeOK, Frame
  <2>10. n \in ring' /\ n.id = ids'[n.gen]
    BY <2>2, <2>4, <2>5, <2>6
  <2>11. NewestAfter
    <3> SUFFICES ASSUME NEW f \in ring'
                 PROVE  f.epoch <= epoch /\ \E g \in ring' : g.gen = f.gen /\ g.id = ids'[f.gen]
      BY DEF NewestAfter
    <3>0. f.epoch <= epoch
      BY <2>2, <2>4, <2>6 DEF NewestIsThere
    <3>1. CASE f.gen = p.gen
      BY <3>0, <3>1, <2>4, <2>10
    <3>2. CASE f.gen # p.gen
      <4>1. f \in ring /\ ring' = ring \union {n}
        BY <3>2, <2>4, <2>6
      <4>2. PICK g \in ring : g.gen = f.gen /\ g.id = ids[f.gen]
        BY <4>1 DEF NewestIsThere
      <4>3. ids'[f.gen] = ids[f.gen]
        BY <3>2, <2>5, <2>9
      <4> QED BY <3>0, <4>1, <4>2, <4>3
    <3> QED BY <3>0, <3>1, <3>2
  <2>12. \A f \in ring' : f \in ring \/ f = n
    BY <2>6
  <2> HIDE DEF n
  <2> QED BY <2>1, <2>4, <2>7, <2>8, <2>9, <2>11, <2>12
<1> QED BY <1>1, <1>2

(* The newest id of a ring that is in order. *)
LEMMA Latest ==
  ASSUME NEW frames \in SUBSET Frame, NEW top \in Nat, generation \in Generation,
         \A f \in frames : f.gen = generation => f.id <= top,
         \A f \in frames : f.gen = generation =>
            \E g \in frames : g.gen = generation /\ g.id = top
  PROVE  /\ LatestId(frames) \in Nat
         /\ (\E f \in frames : f.gen = generation) => LatestId(frames) = top
         /\ (~\E f \in frames : f.gen = generation) => LatestId(frames) = 0
<1>1. CASE \E f \in frames : f.gen = generation
  <2> DEFINE Newest(f) == f.gen = generation
                          /\ \A g \in frames : g.gen = generation => g.id <= f.id
             c == CHOOSE f \in frames : Newest(f)
  <2>1. \E f \in frames : Newest(f)
    BY <1>1
  <2>2. c \in frames /\ Newest(c)
    BY <2>1
  <2>3. c.id \in Nat
    BY <2>2 DEF Frame
  <2>4. c.id = top
    BY <1>1, <2>2, <2>3
  <2>5. LatestId(frames) = c.id
    BY <1>1 DEF LatestId
  <2> HIDE DEF c
  <2> QED BY <1>1, <2>3, <2>4, <2>5
<1>2. CASE ~\E f \in frames : f.gen = generation
  BY <1>2 DEF LatestId
<1> QED BY <1>1, <1>2

(* A picture decoded since keeps what an id separates. *)
LEMMA Separation ==
  ASSUME TypeOK, NEW S, S \subseteq [gen : Generation, epoch : 0..epoch],
         NEW e \in Nat, \A p \in S : p.epoch >= e,
         ids' \in [Generation -> Nat], \A g \in Generation : ids'[g] >= ids[g],
         \A f \in ring' : \/ f \in ring
                          \/ \E p \in S : /\ f.gen = p.gen /\ f.epoch = p.epoch
                                          /\ f.id = ids[p.gen] + 1,
         NEW b \in Position, b.id <= ids[b.gen], Separates(b, e)
  PROVE  b.id <= ids'[b.gen] /\ \A f \in ring' : f.gen = b.gen => (f.id > b.id <=> f.epoch >= e)
<1>1. b.gen \in Generation /\ b.id \in Nat /\ ids[b.gen] \in Nat /\ ids'[b.gen] \in Nat
  BY DEF Position, TypeOK
<1>2. b.id <= ids'[b.gen]
  BY <1>1
<1>3. ASSUME NEW f \in ring', f.gen = b.gen
      PROVE  f.id > b.id <=> f.epoch >= e
  <2>1. CASE f \in ring
    BY <1>3, <2>1 DEF Separates
  <2>2. CASE \E p \in S : f.gen = p.gen /\ f.epoch = p.epoch /\ f.id = ids[p.gen] + 1
    BY <1>1, <1>3, <2>2
  <2> QED BY <2>1, <2>2
<1> QED BY <1>2, <1>3

LEMMA InitIsInvariant ==
  ASSUME BoundsAreNumbers, MaxGen >= 1, Init
  PROVE  IInv
<1>0. Cardinality(held) <= 1 /\ Cardinality(boundary) <= 1 /\ Cardinality(start) <= 1
  BY FewElements DEF Init
<1>1. TypeOK
  <2>1. MaxGen \in Nat /\ MaxAct \in Nat /\ 1 \in Generation
    BY DEF BoundsAreNumbers, Generation
  <2>2. ids \in [Generation -> Nat]
    BY DEF Init
  <2>5. {alive, task, healthy, reset} \subseteq BOOLEAN
    BY DEF Init
  <2>6. epoch = 0 /\ acted = 0
    BY DEF Init
  <2>3. {alive, task, healthy, reset} \subseteq BOOLEAN /\ epoch \in 0..MaxAct
          /\ acted \in 0..epoch
    BY <2>1, <2>5, <2>6
  <2>4. held = {} /\ ring = {} /\ boundary = {} /\ start = {} /\ shown = {}
        /\ generation = 1 /\ pc = "idle"
    BY DEF Init
  <2> QED BY <1>0, <2>1, <2>2, <2>3, <2>4 DEF TypeOK
<1>2. /\ held = {} /\ ring = {} /\ boundary = {} /\ start = {} /\ shown = {} /\ pc = "idle"
      /\ alive
  BY DEF Init
<1>3. NewestIsThere /\ TaskHasSource /\ HeldIsOne /\ HeldIsFresh
  BY <1>2 DEF NewestIsThere, TaskHasSource, HeldIsOne, HeldIsFresh
<1>4. IdsSeparate /\ NoBoundaryNoOldFrame /\ BoundaryIsCausal /\ PixelsFollowTheAction
  BY <1>2 DEF IdsSeparate, NoBoundaryNoOldFrame, BoundaryIsCausal, PixelsFollowTheAction
<1> QED BY <1>1, <1>3, <1>4 DEF IInv

(* The steps that publish what is held, or a picture of now: what is said of   *)
(* the action under way, of the last one and of their ids holds of the new    *)
(* ring too.                                                                  *)
SeparatesAfter(b, e) ==
  b.id <= ids'[b.gen] /\ \A f \in ring' : f.gen = b.gen => (f.id > b.id <=> f.epoch >= e)

LEMMA PublishKeeps ==
  ASSUME IInv, NEW S, S \subseteq [gen : Generation, epoch : 0..epoch],
         S = {} \/ \E p \in S : S = {p},
         \A p \in S : p.epoch >= acted /\ (pc = "acting" => p.epoch = epoch),
         Publish(S)
  PROVE  /\ ids' \in [Generation -> Nat] /\ ring' \subseteq Frame
         /\ \A f \in ring' : f.id <= ids'[f.gen]
         /\ NewestAfter
         /\ \A b \in boundary : SeparatesAfter(b, acted)
         /\ pc = "acting" => \A s \in start : SeparatesAfter(s, epoch)
         /\ boundary = {} /\ (task \/ pc \in {"started", "waiting", "tree"})
              => \A f \in ring' : f.epoch >= acted
<1>0. TypeOK /\ acted \in Nat /\ epoch \in Nat /\ \A p \in S : p.epoch \in 0..epoch
  BY DEF IInv, TypeOK
<1>1. /\ ids' \in [Generation -> Nat] /\ \A g \in Generation : ids'[g] >= ids[g]
      /\ ring' \subseteq Frame /\ \A f \in ring' : f.id <= ids'[f.gen]
      /\ NewestAfter
      /\ \A f \in ring' : \/ f \in ring
                          \/ \E p \in S : /\ f.gen = p.gen /\ f.epoch = p.epoch
                                          /\ f.id = ids[p.gen] + 1
  BY Publishing DEF IInv
<1>3. ASSUME NEW b \in boundary
      PROVE  SeparatesAfter(b, acted)
  <2>1. b \in Position /\ b.id <= ids[b.gen] /\ Separates(b, acted)
    BY <1>0 DEF IInv, IdsSeparate, TypeOK
  <2> QED BY <1>0, <1>1, <2>1, Separation DEF SeparatesAfter
<1>4. ASSUME pc = "acting", NEW s \in start
      PROVE  SeparatesAfter(s, epoch)
  <2>1. s \in Position /\ s.id <= ids[s.gen] /\ Separates(s, epoch)
    BY <1>0, <1>4 DEF IInv, IdsSeparate, TypeOK
  <2>2. \A p \in S : p.epoch >= epoch
    BY <1>0, <1>4
  <2> QED BY <1>0, <1>1, <2>1, <2>2, Separation DEF SeparatesAfter
<1>5. boundary = {} /\ (task \/ pc \in {"started", "waiting", "tree"})
        => \A f \in ring' : f.epoch >= acted
  BY <1>0, <1>1 DEF IInv, NoBoundaryNoOldFrame
<1> QED BY <1>1, <1>3, <1>4, <1>5

(* What is held may be published at any time. *)
LEMMA HeldCanBePublished ==
  ASSUME IInv
  PROVE  /\ held \subseteq [gen : Generation, epoch : 0..epoch]
         /\ held = {} \/ \E p \in held : held = {p}
         /\ \A p \in held : p.epoch >= acted /\ (pc = "acting" => p.epoch = epoch)
<1> QED BY DEF IInv, TypeOK, HeldIsOne, HeldIsFresh

LEMMA FeedKeeps ==
  ASSUME IInv, Feed
  PROVE  IInv'
<1> DEFINE fed == [gen |-> generation, epoch |-> epoch]
<1>1. /\ TypeOK /\ acted \in Nat /\ epoch \in Nat /\ acted <= epoch
      /\ fed \in [gen : Generation, epoch : 0..epoch] /\ fed.epoch = epoch
  BY DEF IInv, TypeOK
<1>2. UNCHANGED <<streamVars, taskVars, shown>> /\ healthy' = TRUE
  BY DEF Feed
<1>3. PICK pending \in {held, {fed}} :
        \/ held' = pending /\ UNCHANGED <<ring, ids>>
        \/ Publish(pending) /\ held' = {}
  BY DEF Feed
<1>4. /\ pending \subseteq [gen : Generation, epoch : 0..epoch]
      /\ pending = {} \/ \E p \in pending : pending = {p}
      /\ \A p \in pending : p.epoch >= acted /\ (pc = "acting" => p.epoch = epoch)
  <2> HIDE DEF fed
  <2>1. CASE pending = held
    BY <2>1, HeldCanBePublished
  <2>2. CASE pending = {fed}
    BY <1>1, <2>2
  <2> QED BY <2>1, <2>2, <1>3
<1> HIDE DEF fed
<1>5. CASE held' = pending /\ UNCHANGED <<ring, ids>>
  <2>1. Cardinality(held') <= 1
    BY <1>4, <1>5, FewElements
  <2>2. TypeOK'
    BY <1>1, <1>2, <1>4, <1>5, <2>1 DEF TypeOK, streamVars, taskVars
  <2>3. HeldIsOne' /\ HeldIsFresh'
    BY <1>2, <1>4, <1>5 DEF HeldIsOne, HeldIsFresh, taskVars
  <2> QED
    BY <1>2, <1>5, <2>2, <2>3 DEF IInv, NewestIsThere, TaskHasSource, IdsSeparate, Separates,
       NoBoundaryNoOldFrame, BoundaryIsCausal, PixelsFollowTheAction, streamVars, taskVars
<1>6. CASE Publish(pending) /\ held' = {}
  <2>1. /\ ids' \in [Generation -> Nat] /\ ring' \subseteq Frame
        /\ \A f \in ring' : f.id <= ids'[f.gen]
        /\ NewestAfter
        /\ \A b \in boundary : SeparatesAfter(b, acted)
        /\ pc = "acting" => \A s \in start : SeparatesAfter(s, epoch)
        /\ boundary = {} /\ (task \/ pc \in {"started", "waiting", "tree"})
             => \A f \in ring' : f.epoch >= acted
    BY <1>4, <1>6, PublishKeeps
  <2>2. TypeOK'
    BY <1>1, <1>2, <1>6, <2>1, FewElements DEF TypeOK, streamVars, taskVars
  <2>3. HeldIsOne' /\ HeldIsFresh' /\ PixelsFollowTheAction' /\ TaskHasSource'
    BY <1>2, <1>6 DEF IInv, HeldIsOne, HeldIsFresh, PixelsFollowTheAction, TaskHasSource,
                      streamVars
  <2>4. IdsSeparate' /\ BoundaryIsCausal' /\ NoBoundaryNoOldFrame'
    BY <1>2, <2>1 DEF IInv, IdsSeparate, Separates, SeparatesAfter, BoundaryIsCausal,
       NoBoundaryNoOldFrame, streamVars, taskVars
  <2>5. NewestIsThere'
    BY <1>2, <2>1 DEF NewestIsThere, NewestAfter, taskVars
  <2> QED BY <2>2, <2>3, <2>4, <2>5 DEF IInv
<1> QED BY <1>3, <1>5, <1>6

(* What a step that publishes what is held leaves, whatever it does else.      *)
LEMMA FlushKeeps ==
  ASSUME IInv, Flush
  PROVE  /\ held' = {} /\ Cardinality(held') <= 1 /\ HeldIsOne' /\ HeldIsFresh'
         /\ ids' \in [Generation -> Nat] /\ ring' \subseteq Frame
         /\ \A f \in ring' : f.id <= ids'[f.gen]
         /\ NewestAfter
         /\ \A b \in boundary : SeparatesAfter(b, acted)
         /\ pc = "acting" => \A s \in start : SeparatesAfter(s, epoch)
         /\ boundary = {} /\ (task \/ pc \in {"started", "waiting", "tree"})
              => \A f \in ring' : f.epoch >= acted
<1>1. Publish(held) /\ held' = {}
  BY DEF Flush
<1>2. Cardinality(held') <= 1 /\ HeldIsOne' /\ HeldIsFresh'
  BY <1>1, FewElements DEF HeldIsOne, HeldIsFresh
<1> QED BY <1>1, <1>2, HeldCanBePublished, PublishKeeps

(* A step that leaves the action and its boundary alone keeps what is said of *)
(* them, when it has published what is held.                                  *)
LEMMA FlushKeepsAction ==
  ASSUME IInv, Flush, UNCHANGED <<streamVars, epoch, boundary, acted>>,
         pc' # "acting", pc' \in {"started", "waiting", "tree"} => pc \in {"started",
         "waiting", "tree"}
  PROVE  TaskHasSource' /\ NewestIsThere' /\ IdsSeparate' /\ NoBoundaryNoOldFrame'
         /\ BoundaryIsCausal'
<1>1. TaskHasSource'
  BY DEF IInv, TaskHasSource, streamVars
<1>2. NewestIsThere'
  BY FlushKeeps DEF NewestIsThere, NewestAfter
<1>3. IdsSeparate' /\ BoundaryIsCausal'
  BY FlushKeeps DEF IdsSeparate, Separates, SeparatesAfter, BoundaryIsCausal
<1>4. NoBoundaryNoOldFrame'
  BY FlushKeeps DEF NoBoundaryNoOldFrame, streamVars
<1> QED BY <1>1, <1>2, <1>3, <1>4

(* The snapshot of an action separates what was decoded so far from the rest. *)
LEMMA DispatchKeeps ==
  ASSUME IInv, BoundsAreNumbers, Dispatch
  PROVE  IInv'
<1> USE FlushKeeps
<1>0. TypeOK /\ epoch \in Nat /\ acted \in 0..epoch /\ epoch < MaxAct /\ MaxAct \in Nat
  BY DEF IInv, TypeOK, Dispatch, BoundsAreNumbers
<1>1. /\ Flush /\ pc = "idle" /\ epoch' = epoch + 1 /\ pc' = "acting"
      /\ start' = IF alive THEN {[gen |-> generation, id |-> LatestId(ring')]} ELSE {}
      /\ UNCHANGED <<streamVars, healthy, boundary, acted, reset, shown>>
  BY DEF Dispatch
<1>2. LatestId(ring') \in Nat /\ LatestId(ring') <= ids'[generation]
      /\ \A f \in ring' : f.gen = generation => f.id <= LatestId(ring')
  <2>1. generation \in Generation /\ ids'[generation] \in Nat
    BY <1>0, <1>1 DEF TypeOK
  <2>2. ring' \in SUBSET Frame
    BY <1>1
  <2>3. \A f \in ring' : f.gen = generation => f.id <= ids'[generation]
    BY <1>1
  <2>4. \A f \in ring' : f.gen = generation =>
          \E g \in ring' : g.gen = generation /\ g.id = ids'[generation]
    BY <1>1 DEF NewestAfter
  <2>5. /\ LatestId(ring') \in Nat
        /\ (\E f \in ring' : f.gen = generation) => LatestId(ring') = ids'[generation]
        /\ (~\E f \in ring' : f.gen = generation) => LatestId(ring') = 0
    BY <2>1, <2>2, <2>3, <2>4, Latest
  <2> QED BY <2>1, <2>3, <2>5
<1> DEFINE here == [gen |-> generation, id |-> LatestId(ring')]
<1>11. here \in Position /\ here.gen = generation /\ here.id = LatestId(ring')
  BY <1>0, <1>2 DEF Position, TypeOK
<1>12. start' = {} \/ start' = {here}
  BY <1>1
<1> HIDE DEF here
<1>3. start' \subseteq Position /\ Cardinality(start') <= 1
  BY <1>11, <1>12, FewElements
<1>4. TypeOK'
  BY <1>0, <1>1, <1>3 DEF TypeOK, streamVars
<1>5. \A s \in start' : s.id <= ids'[s.gen] /\ Separates(s, epoch)'
  <2>1. \A f \in ring' : f.id \in Nat /\ f.epoch \in Nat /\ f.epoch <= epoch
    BY <1>1 DEF Frame, NewestAfter
  <2>2. \A f \in ring' : f.gen = here.gen => (f.id > here.id <=> f.epoch >= epoch')
    BY <1>0, <1>1, <1>2, <1>11, <2>1
  <2>3. here.id <= ids'[here.gen]
    BY <1>2, <1>11
  <2> QED BY <1>12, <2>2, <2>3 DEF Separates
<1>6. IdsSeparate' /\ BoundaryIsCausal'
  BY <1>1, <1>5 DEF IdsSeparate, Separates, SeparatesAfter, BoundaryIsCausal
<1>7. NewestIsThere' /\ TaskHasSource' /\ PixelsFollowTheAction'
  BY <1>0, <1>1 DEF IInv, NewestIsThere, NewestAfter, TaskHasSource, PixelsFollowTheAction,
                    streamVars, Frame
<1>8. NoBoundaryNoOldFrame'
  BY <1>0, <1>1 DEF IInv, NoBoundaryNoOldFrame, TaskHasSource, streamVars
<1>9. HeldIsOne' /\ HeldIsFresh'
  BY <1>1
<1> QED BY <1>4, <1>6, <1>7, <1>8, <1>9 DEF IInv

(* A capture chooses a frame that was decoded after the last action. *)
LEMMA ChosenIsFresh ==
  ASSUME IInv, Flush, pc \in {"started", "waiting", "tree"},
         NEW f \in ring', AfterAction(f)
  PROVE  f.epoch \in Nat /\ f.epoch >= acted
<1>1. f \in Frame /\ TypeOK
  BY FlushKeeps DEF IInv
<1>2. CASE boundary = {}
  BY <1>1, <1>2, FlushKeeps DEF Frame
<1>3. CASE \E b \in boundary : TRUE
  <2>1. PICK b \in boundary : TRUE
    BY <1>3
  <2>2. f.gen = b.gen /\ f.id > b.id
    BY <2>1 DEF AfterAction
  <2> QED BY <1>1, <2>1, <2>2, FlushKeeps DEF SeparatesAfter, Frame
<1> QED BY <1>2, <1>3

LEMMA FrameIsFoundKeeps ==
  ASSUME IInv, FrameIsFound
  PROVE  IInv'
<1>1. /\ Flush /\ pc = "waiting" /\ pc' \in {"tree", "idle"} /\ start' = {}
      /\ UNCHANGED <<streamVars, healthy, epoch, boundary, acted, reset>>
      /\ \/ UNCHANGED shown
         \/ \E f \in ring' : AfterAction(f) /\ Shows(f)
  BY DEF FrameIsFound
<1>2. TypeOK /\ acted \in Nat
  BY DEF IInv, TypeOK
<1>3. shown' \subseteq [epoch : Nat, acted : Nat] /\ PixelsFollowTheAction'
  <2>1. CASE UNCHANGED shown
    BY <1>2, <2>1 DEF IInv, TypeOK, PixelsFollowTheAction
  <2>2. CASE \E f \in ring' : AfterAction(f) /\ Shows(f)
    BY <1>1, <1>2, <2>2, ChosenIsFresh DEF Shows, PixelsFollowTheAction
  <2> QED BY <1>1, <2>1, <2>2
<1>4. TypeOK'
  BY <1>1, <1>2, <1>3, FlushKeeps, FewElements DEF TypeOK, streamVars
<1>5. TaskHasSource' /\ NewestIsThere' /\ IdsSeparate' /\ NoBoundaryNoOldFrame'
      /\ BoundaryIsCausal'
  BY <1>1, FlushKeepsAction
<1> QED BY <1>1, <1>3, <1>4, <1>5, FlushKeeps DEF IInv

LEMMA FinalPixelsKeeps ==
  ASSUME IInv, FinalPixels
  PROVE  IInv'
<1>1. /\ Flush /\ pc = "tree" /\ pc' = "idle"
      /\ UNCHANGED <<streamVars, healthy, epoch, boundary, acted, start, reset>>
      /\ \/ UNCHANGED shown
         \/ \E f \in ring' : AfterAction(f) /\ Shows(f)
  BY DEF FinalPixels, Current
<1>2. TypeOK /\ acted \in Nat
  BY DEF IInv, TypeOK
<1>3. shown' \subseteq [epoch : Nat, acted : Nat] /\ PixelsFollowTheAction'
  <2>1. CASE UNCHANGED shown
    BY <1>2, <2>1 DEF IInv, TypeOK, PixelsFollowTheAction
  <2>2. CASE \E f \in ring' : AfterAction(f) /\ Shows(f)
    BY <1>1, <1>2, <2>2, ChosenIsFresh DEF Shows, PixelsFollowTheAction
  <2> QED BY <1>1, <2>1, <2>2
<1>4. TypeOK'
  BY <1>1, <1>2, <1>3, FlushKeeps DEF TypeOK, streamVars
<1>5. TaskHasSource' /\ NewestIsThere' /\ IdsSeparate' /\ NoBoundaryNoOldFrame'
      /\ BoundaryIsCausal'
  BY <1>1, FlushKeepsAction
<1> QED BY <1>1, <1>3, <1>4, <1>5, FlushKeeps DEF IInv

LEMMA CaptureBeginsKeeps ==
  ASSUME IInv, CaptureBegins
  PROVE  IInv'
<1>1. /\ Flush /\ pc = "started" /\ pc' = "waiting" /\ reset' = FALSE
      /\ UNCHANGED <<streamVars, healthy, epoch, boundary, acted, shown>>
  BY DEF CaptureBegins
<1> DEFINE here == [gen |-> generation, id |-> IF alive THEN LatestId(ring') ELSE 0]
<1>2. start' = {here}
  BY DEF CaptureBegins
<1>3. TypeOK /\ generation \in Generation /\ ids'[generation] \in Nat
  BY <1>1, FlushKeeps DEF IInv, TypeOK
<1>4. LatestId(ring') \in Nat
  BY <1>1, <1>3, FlushKeeps, Latest DEF NewestAfter
<1>5. here \in Position
  BY <1>3, <1>4 DEF Position
<1> HIDE DEF here
<1>6. start' \subseteq Position /\ Cardinality(start') <= 1
  BY <1>2, <1>5, FewElements
<1>7. TypeOK'
  BY <1>1, <1>3, <1>6, FlushKeeps DEF TypeOK, streamVars
<1>8. TaskHasSource' /\ NewestIsThere' /\ IdsSeparate' /\ NoBoundaryNoOldFrame'
      /\ BoundaryIsCausal'
  BY <1>1, FlushKeepsAction
<1>9. PixelsFollowTheAction'
  BY <1>1 DEF IInv, PixelsFollowTheAction
<1> QED BY <1>1, <1>7, <1>8, <1>9, FlushKeeps DEF IInv

(* The steps that clear the ring, or leave it alone. *)
LEMMA ProviderStartsKeeps ==
  ASSUME IInv, BoundsAreNumbers, ProviderStarts
  PROVE  IInv'
<1>1. /\ pc = "idle" /\ pc' = "started"
      /\ UNCHANGED <<epoch, boundary, acted, start, reset, shown, ids>>
  BY DEF ProviderStarts, decoderVars
<1>2. CASE task
  <2>1. UNCHANGED <<streamVars, decoderVars>>
    BY <1>2 DEF ProviderStarts
  <2> QED
    BY <1>1, <1>2, <2>1 DEF IInv, TypeOK, NewestIsThere, TaskHasSource, HeldIsOne, HeldIsFresh,
       IdsSeparate, Separates, NoBoundaryNoOldFrame, BoundaryIsCausal, PixelsFollowTheAction,
       streamVars, decoderVars
<1>3. CASE ~task
  <2>1. /\ task' = TRUE /\ alive' = TRUE /\ healthy' = FALSE /\ held' = {} /\ ring' = {}
        /\ generation' = IF alive THEN generation ELSE generation + 1
    BY <1>3 DEF ProviderStarts
  <2>2. generation' \in Generation
    BY <2>1 DEF IInv, TypeOK, TaskHasSource, Generation, BoundsAreNumbers
  <2>3. TypeOK'
    BY <1>1, <2>1, <2>2, FewElements DEF IInv, TypeOK
  <2>4. NewestIsThere' /\ TaskHasSource' /\ HeldIsOne' /\ HeldIsFresh'
    BY <2>1 DEF NewestIsThere, TaskHasSource, HeldIsOne, HeldIsFresh
  <2>5. IdsSeparate' /\ NoBoundaryNoOldFrame' /\ BoundaryIsCausal' /\ PixelsFollowTheAction'
    BY <1>1, <2>1 DEF IInv, IdsSeparate, Separates, NoBoundaryNoOldFrame, BoundaryIsCausal,
       PixelsFollowTheAction
  <2> QED BY <2>3, <2>4, <2>5 DEF IInv
<1> QED BY <1>2, <1>3

LEMMA ResetKeeps ==
  ASSUME IInv, Reset
  PROVE  IInv'
<1>1. /\ ring' = {} /\ held' = {} /\ healthy' = FALSE /\ reset' = TRUE
      /\ UNCHANGED <<streamVars, ids, epoch, boundary, acted, pc, start, shown>>
  BY DEF Reset
<1>2. TypeOK'
  BY <1>1, FewElements DEF IInv, TypeOK, streamVars
<1>3. NewestIsThere' /\ TaskHasSource' /\ HeldIsOne' /\ HeldIsFresh'
  BY <1>1 DEF IInv, NewestIsThere, TaskHasSource, HeldIsOne, HeldIsFresh, streamVars
<1>4. IdsSeparate' /\ NoBoundaryNoOldFrame' /\ BoundaryIsCausal' /\ PixelsFollowTheAction'
  BY <1>1 DEF IInv, IdsSeparate, Separates, NoBoundaryNoOldFrame, BoundaryIsCausal,
     PixelsFollowTheAction, streamVars
<1> QED BY <1>2, <1>3, <1>4 DEF IInv

LEMMA ActEndsKeeps ==
  ASSUME IInv, ActEnds
  PROVE  IInv'
<1>1. /\ pc = "acting" /\ pc' = "idle" /\ start' = {}
      /\ UNCHANGED <<streamVars, decoderVars, epoch, reset, shown>>
      /\ (boundary' = start /\ acted' = epoch) \/ UNCHANGED <<boundary, acted>>
  BY DEF ActEnds
<1>2. TypeOK'
  BY <1>1, FewElements DEF IInv, TypeOK, streamVars, decoderVars
<1>3. NewestIsThere' /\ TaskHasSource' /\ HeldIsOne' /\ PixelsFollowTheAction'
  BY <1>1 DEF IInv, NewestIsThere, TaskHasSource, HeldIsOne, PixelsFollowTheAction,
     streamVars, decoderVars
<1>4. HeldIsFresh'
  BY <1>1 DEF IInv, TypeOK, HeldIsFresh, decoderVars
<1>5. IdsSeparate' /\ BoundaryIsCausal'
  BY <1>1 DEF IInv, IdsSeparate, Separates, BoundaryIsCausal, decoderVars
<1>6. NoBoundaryNoOldFrame'
  BY <1>1 DEF IInv, NoBoundaryNoOldFrame, streamVars, decoderVars
<1> QED BY <1>2, <1>3, <1>4, <1>5, <1>6 DEF IInv

(* The steps of the source and the decoder task, and a capture given up. *)
LEMMA StreamStepsKeep ==
  ASSUME IInv, ~Linger, FeedFails \/ SourceDies \/ TaskEnds \/ GivesUp
  PROVE  IInv'
<1>1. /\ UNCHANGED <<generation, held, ring, ids, epoch, boundary, acted, shown, reset>>
      /\ \/ UNCHANGED <<pc, start>>
         \/ pc = "waiting" /\ pc' = "idle" /\ start' = {}
  BY DEF FeedFails, SourceDies, TaskEnds, GivesUp, streamVars, decoderVars, taskVars
<1>2. alive' \in BOOLEAN /\ task' \in BOOLEAN /\ healthy' \in BOOLEAN
  <2>1. alive \in BOOLEAN /\ task \in BOOLEAN /\ healthy \in BOOLEAN
    BY DEF IInv, TypeOK
  <2>2. /\ alive' = alive \/ alive' = FALSE
        /\ task' = task \/ task' = FALSE
        /\ healthy' = healthy \/ healthy' = FALSE
    BY DEF FeedFails, SourceDies, TaskEnds, GivesUp, streamVars, decoderVars
  <2> QED BY <2>1, <2>2
<1>3. task' => task
  BY DEF FeedFails, SourceDies, TaskEnds, GivesUp, streamVars
<1>4. TypeOK'
  BY <1>1, <1>2, FewElements DEF IInv, TypeOK
<1>5. TaskHasSource'
  <2>1. CASE SourceDies
    BY <1>1, <2>1 DEF SourceDies, TaskHasSource
  <2>2. CASE FeedFails \/ TaskEnds \/ GivesUp
    BY <1>1, <2>2 DEF IInv, TaskHasSource, FeedFails, TaskEnds, GivesUp, streamVars
  <2> QED BY <2>1, <2>2
<1>6. NewestIsThere' /\ HeldIsOne' /\ HeldIsFresh' /\ PixelsFollowTheAction' /\ BoundaryIsCausal'
  BY <1>1 DEF IInv, NewestIsThere, HeldIsOne, HeldIsFresh, PixelsFollowTheAction, BoundaryIsCausal
<1>7. IdsSeparate'
  BY <1>1 DEF IInv, IdsSeparate, Separates
<1>8. NoBoundaryNoOldFrame'
  BY <1>1, <1>3 DEF IInv, NoBoundaryNoOldFrame
<1> QED BY <1>4, <1>5, <1>6, <1>7, <1>8 DEF IInv

LEMMA CloseKeeps ==
  ASSUME IInv, Close
  PROVE  IInv'
<1>1. /\ pc = "idle" /\ task' = FALSE
      /\ held' = {} /\ boundary' = {} /\ acted' = 0 /\ shown' = {}
      /\ UNCHANGED <<generation, alive, healthy, ring, ids, epoch, pc, start, reset>>
  BY DEF Close
<1>2. TypeOK'
  <2>1. TypeOK /\ epoch \in Nat
    BY DEF IInv, TypeOK
  <2>2. {alive', task', healthy', reset'} \subseteq BOOLEAN
    BY <1>1, <2>1 DEF TypeOK
  <2>3. acted' \in 0..epoch'
    BY <1>1, <2>1
  <2> QED BY <1>1, <2>1, <2>2, <2>3, FewElements DEF TypeOK
<1>3. NewestIsThere' /\ TaskHasSource' /\ HeldIsOne' /\ HeldIsFresh'
  BY <1>1 DEF IInv, NewestIsThere, TaskHasSource, HeldIsOne, HeldIsFresh
<1>4. IdsSeparate' /\ NoBoundaryNoOldFrame' /\ BoundaryIsCausal' /\ PixelsFollowTheAction'
  BY <1>1 DEF IInv, IdsSeparate, NoBoundaryNoOldFrame, BoundaryIsCausal, PixelsFollowTheAction
<1> QED BY <1>2, <1>3, <1>4 DEF IInv

LEMMA NextKeeps ==
  ASSUME BoundsAreNumbers, ~Linger, IInv, [Next]_vars
  PROVE  IInv'
<1>1. CASE UNCHANGED vars
  BY <1>1 DEF IInv, TypeOK, NewestIsThere, TaskHasSource, HeldIsOne, HeldIsFresh,
     IdsSeparate, Separates, NoBoundaryNoOldFrame, BoundaryIsCausal, PixelsFollowTheAction,
     vars, streamVars, decoderVars, taskVars
<1> QED
  BY <1>1, FeedKeeps, StreamStepsKeep, DispatchKeeps, ActEndsKeeps, ProviderStartsKeeps,
     CaptureBeginsKeeps, FrameIsFoundKeeps, ResetKeeps, FinalPixelsKeeps, CloseKeeps DEF Next

(* The inductive invariant holds when the decoder task ends with its source.  *)
THEOREM InvariantHolds ==
  ASSUME BoundsAreNumbers, MaxGen >= 1, ~Linger
  PROVE  Spec => []IInv
<1>1. Init => IInv
  BY InitIsInvariant
<1>2. IInv /\ [Next]_vars => IInv'
  BY NextKeeps
<1> QED BY <1>1, <1>2, PTL DEF Spec

(* The frames, ids and boundaries of a phone are well typed. *)
THEOREM TypeCorrect ==
  ASSUME BoundsAreNumbers, MaxGen >= 1, ~Linger
  PROVE  Spec => []TypeOK
<1>1. IInv => TypeOK
  BY DEF IInv
<1> QED BY <1>1, InvariantHolds, PTL

(* The pixels of an observation were decoded after the newest action that     *)
(* succeeded before it, whatever is published late, cleared or restarted       *)
(* (frame_boundary, wait_frame_after, _scrcpy_frame_after_action).             *)
THEOREM PixelsAreFresh ==
  ASSUME BoundsAreNumbers, MaxGen >= 1, ~Linger
  PROVE  Spec => []PixelsFollowTheAction
<1>1. IInv => PixelsFollowTheAction
  BY DEF IInv
<1> QED BY <1>1, InvariantHolds, PTL

(* The id of a frame says whether it was decoded before or after an action.   *)
THEOREM IdsAreCausal ==
  ASSUME BoundsAreNumbers, MaxGen >= 1, ~Linger
  PROVE  Spec => []BoundaryIsCausal
<1>1. IInv => BoundaryIsCausal
  BY DEF IInv
<1> QED BY <1>1, InvariantHolds, PTL

-----------------------------------------------------------------------------
(* The channel to the collector, of which MCPhone has an instance.            *)
NoneIsNoPort == Channel!None \notin Port

(* The socket: a cleanup task belongs to one that is being closed, and it is  *)
(* open to the phone until its task is done.                                 *)
SocketIsOwned ==
  /\ sock = "none" => live = 0 /\ sockTask = "none" /\ ~sockFailed
  /\ sock = "open" => sockTask = "none" /\ ~sockFailed
  /\ sock = "closing" => sockTask # "none" \/ sockFailed
  /\ sock # "none" => (live = 0 <=> sockTask = "done")
  /\ sockFailed => sockTask = "none"

(* The forward: a removal belongs to a port, and is over when it is gone.     *)
ForwardIsOwned ==
  /\ port = Channel!None => fwdTask = "none" /\ ~fwdFailed
  /\ fwdFailed => fwdTask = "none"
  /\ fwdTask = "done" => table[port] # "mine" \/ port \in strays
  /\ \A p \in Port : table[p] = "mine" => p = port \/ p \in strays

(* What the request may count on at each of its steps. *)
PcAgrees ==
  /\ sock = "open" => channelPc \in {"free", "greeting", "exchange", "awaiting"}
  /\ sock = "open" /\ channelPc \in {"free", "exchange"} => ~owed
  /\ channelPc \in {"forward", "connect"} => sock = "none"
  /\ channelPc = "forward" => port = Channel!None
  /\ channelPc \in {"cleaning", "closing", "aborting"} =>
       /\ sock # "none" => sockTask # "none"
       /\ port # Channel!None => fwdTask # "none"
  /\ channelClosed => channelPc \in {"free", "closing", "aborting"}
  /\ channelClosed /\ channelPc = "free" => sock = "none" /\ port = Channel!None

ChannelInv == Channel!TypeOK /\ SocketIsOwned /\ ForwardIsOwned /\ PcAgrees

(* A forward that is not being looked for, and whose removal has not failed,  *)
(* is the one the channel made.  Only a restart of the server breaks this.    *)
RemovesItsOwn ==
  port # Channel!None /\ (fwdTask = "removing" \/ (fwdTask = "none" /\ ~fwdFailed))
    => table[port] = "mine"

-----------------------------------------------------------------------------
LEMMA ChannelInitHolds == ASSUME NoneIsNoPort, Channel!Init PROVE ChannelInv /\ RemovesItsOwn
<1>1. Channel!TypeOK
  <2>1. table \in [Port -> {Channel!None, "mine", "other"}] /\ strays \subseteq Port
          /\ live \in 0..1
    BY DEF Channel!Init
  <2>2. /\ sockFailed \in BOOLEAN /\ fwdFailed \in BOOLEAN
        /\ owed \in BOOLEAN /\ spent \in BOOLEAN /\ channelClosed \in BOOLEAN
    BY DEF Channel!Init
  <2> QED BY <2>1, <2>2 DEF Channel!Init, Channel!TypeOK, Channel!None, Channel!Task
<1>2. SocketIsOwned /\ ForwardIsOwned /\ PcAgrees /\ RemovesItsOwn
  BY DEF Channel!Init, SocketIsOwned, ForwardIsOwned, PcAgrees, RemovesItsOwn, Channel!None,
      NoneIsNoPort
<1> QED BY <1>1, <1>2 DEF ChannelInv

LEMMA ServerKeeps ==
  ASSUME NoneIsNoPort, ChannelInv, Channel!OtherForwards \/ Channel!AdbRestart
           \/ Channel!RemovesForward \/ Channel!ListsForwards
  PROVE  ChannelInv'
<1> USE DEF ChannelInv, Channel!TypeOK, SocketIsOwned, ForwardIsOwned, PcAgrees, Channel!None,
    Channel!Task, NoneIsNoPort,
            Channel!request, Channel!cleanup, Channel!flags, Channel!adb
<1>1. CASE Channel!OtherForwards
  BY <1>1 DEF Channel!OtherForwards
<1>2. CASE Channel!AdbRestart
  BY <1>2 DEF Channel!AdbRestart
<1>3. CASE Channel!RemovesForward
  BY <1>3 DEF Channel!RemovesForward
<1>4. CASE Channel!ListsForwards
  BY <1>4 DEF Channel!ListsForwards
<1> QED BY <1>1, <1>2, <1>3, <1>4

LEMMA QuietKeeps ==
  ASSUME NoneIsNoPort, ChannelInv, Channel!SocketCleanup \/ Channel!DeadlinePasses
           \/ Channel!Greeted \/ Channel!Sends \/ Channel!Answers
  PROVE  ChannelInv'
<1> USE DEF ChannelInv, Channel!TypeOK, SocketIsOwned, ForwardIsOwned, PcAgrees, Channel!None,
    Channel!Task, NoneIsNoPort,
            Channel!request, Channel!cleanup, Channel!flags, Channel!adb, Channel!Unmoved
<1>1. CASE Channel!SocketCleanup
  BY <1>1 DEF Channel!SocketCleanup
<1>2. CASE Channel!DeadlinePasses
  BY <1>2 DEF Channel!DeadlinePasses
<1>3. CASE Channel!Greeted
  BY <1>3 DEF Channel!Greeted
<1>4. CASE Channel!Sends
  BY <1>4 DEF Channel!Sends
<1>5. CASE Channel!Answers
  BY <1>5 DEF Channel!Answers
<1> QED BY <1>1, <1>2, <1>3, <1>4, <1>5

LEMMA ConnectKeeps ==
  ASSUME NoneIsNoPort, ChannelInv, Channel!Forwards \/ Channel!Connects
  PROVE  ChannelInv'
<1> USE DEF ChannelInv, Channel!TypeOK, SocketIsOwned, ForwardIsOwned, PcAgrees, Channel!None,
    Channel!Task, NoneIsNoPort,
            Channel!request, Channel!cleanup, Channel!flags, Channel!adb, Channel!Unmoved
<1>1. CASE Channel!Forwards
  BY <1>1 DEF Channel!Forwards
<1>2. CASE Channel!Connects
  <2>1. live = 0
    BY <1>2 DEF Channel!Connects
  <2>2. owed' \in BOOLEAN
    BY <1>2 DEF Channel!Connects
  <2>3. live' \in 0..1 /\ live' # 0
    BY <1>2, <2>1 DEF Channel!Connects
  <2>4. SocketIsOwned'
    BY <1>2, <2>1, <2>3 DEF Channel!Connects
  <2>5. PcAgrees' /\ ForwardIsOwned'
    BY <1>2, <2>1 DEF Channel!Connects
  <2>6. Channel!TypeOK'
    BY <1>2, <2>2, <2>3 DEF Channel!Connects
  <2> QED BY <2>4, <2>5, <2>6
<1> QED BY <1>1, <1>2

(* The record of the cleanup state, as harvested and as closing leaves it. *)
Kept(s) ==
  /\ s \in [sock: {"none", "open", "closing"}, port: {Channel!None} \union Port,
            sockTask: {"none", "running"}, fwdTask: {"none", "listing", "removing"},
            sockFailed: BOOLEAN, fwdFailed: BOOLEAN]
  /\ s.sock = "none" => live = 0 /\ s.sockTask = "none" /\ ~s.sockFailed
  /\ s.sock = "open" => s.sockTask = "none" /\ ~s.sockFailed
  /\ s.sock = "closing" => s.sockTask # "none" \/ s.sockFailed
  /\ s.sock # "none" => live # 0
  /\ s.sockFailed => s.sockTask = "none"
  /\ s.port = Channel!None => s.fwdTask = "none" /\ ~s.fwdFailed
  /\ s.fwdFailed => s.fwdTask = "none"
  /\ \A p \in Port : table[p] = "mine" => p = s.port \/ p \in strays

(* Nothing that is to be cleaned up waits for somebody to begin. *)
Begun(s) == (s.sock # "none" => s.sockTask # "none")
  /\ (s.port # Channel!None => s.fwdTask # "none")

LEMMA RefreshedIsKept ==
  ASSUME NoneIsNoPort, ChannelInv
  PROVE  /\ Kept(Channel!Refreshed)
         /\ Channel!Refreshed.sock = "open" <=> sock = "open"
         /\ channelPc \in {"forward", "connect"} => Channel!Refreshed.sock = "none"
         /\ channelPc = "forward" => Channel!Refreshed.port = Channel!None
         /\ channelPc \in {"cleaning", "closing", "aborting"}
              /\ Channel!Settled(Channel!Refreshed) =>
              Channel!Refreshed.sock = "none" /\ Channel!Refreshed.port = Channel!None
<1> USE DEF ChannelInv, Channel!TypeOK, SocketIsOwned, ForwardIsOwned, PcAgrees, Channel!None,
    NoneIsNoPort, Channel!Task,
            Channel!Refreshed, Channel!Failed, Channel!Ended
<1>1. Channel!Refreshed \in [sock: {"none", "open", "closing"}, port: {Channel!None} \union Port,
            sockTask: {"none", "running"}, fwdTask: {"none", "listing", "removing"},
            sockFailed: BOOLEAN, fwdFailed: BOOLEAN]
  <2>1. Channel!Failed(sockTask, sockFailed) \in BOOLEAN
          /\ Channel!Failed(fwdTask, fwdFailed) \in BOOLEAN
    BY DEF Channel!Failed
  <2> QED BY <2>1
<1>2. Kept(Channel!Refreshed)
  <2>1. /\ Channel!Refreshed.sock = (IF sockTask = "done" THEN "none" ELSE sock)
        /\ Channel!Refreshed.port = (IF fwdTask = "done" THEN Channel!None ELSE port)
        /\ Channel!Refreshed.sockTask = (IF sockTask \in Channel!Ended THEN "none" ELSE sockTask)
        /\ Channel!Refreshed.fwdTask = (IF fwdTask \in Channel!Ended THEN "none" ELSE fwdTask)
        /\ Channel!Refreshed.sockFailed = Channel!Failed(sockTask, sockFailed)
        /\ Channel!Refreshed.fwdFailed = Channel!Failed(fwdTask, fwdFailed)
    OBVIOUS
  <2> HIDE DEF Channel!Refreshed
  <2>2. /\ Channel!Refreshed.sock = "none" =>
             live = 0 /\ Channel!Refreshed.sockTask = "none" /\ ~Channel!Refreshed.sockFailed
        /\ Channel!Refreshed.sock = "open" => Channel!Refreshed.sockTask = "none"
             /\ ~Channel!Refreshed.sockFailed
        /\ Channel!Refreshed.sock = "closing" => Channel!Refreshed.sockTask # "none"
             \/ Channel!Refreshed.sockFailed
        /\ Channel!Refreshed.sock # "none" => live # 0
        /\ Channel!Refreshed.sockFailed => Channel!Refreshed.sockTask = "none"
    BY <2>1
  <2>3. /\ Channel!Refreshed.port = Channel!None =>
             Channel!Refreshed.fwdTask = "none" /\ ~Channel!Refreshed.fwdFailed
        /\ Channel!Refreshed.fwdFailed => Channel!Refreshed.fwdTask = "none"
        /\ \A p \in Port : table[p] = "mine" => p = Channel!Refreshed.port \/ p \in strays
    BY <2>1
  <2> QED BY <1>1, <2>2, <2>3 DEF Kept
<1>3. channelPc \in {"cleaning", "closing", "aborting"} /\ Channel!Settled(Channel!Refreshed) =>
        Channel!Refreshed.sock = "none" /\ Channel!Refreshed.port = Channel!None
  BY DEF Channel!Settled, Channel!Pending
<1> QED BY <1>2, <1>3

LEMMA ClosingIsKept ==
  ASSUME NoneIsNoPort, NEW s, Kept(s), spent' \in BOOLEAN, NEW retry \in BOOLEAN
  PROVE  /\ Kept(Channel!Closing(s, retry))
         /\ Channel!Closing(s, retry).sock # "open"
         /\ retry /\ ~spent' => Begun(Channel!Closing(s, retry))
         /\ Channel!Settled(Channel!Closing(s, retry)) =>
              Channel!Closing(s, retry).sock = "none"
                /\ Channel!Closing(s, retry).port = Channel!None
<1> USE DEF Kept, Channel!None, NoneIsNoPort
<1> DEFINE again == retry /\ ~spent'
           closes == s.sock # "none" /\ s.sockTask = "none" /\ (~s.sockFailed \/ again)
           removes == s.port # Channel!None /\ s.fwdTask = "none" /\ (~s.fwdFailed \/ again)
           noSock == s.sockFailed /\ ~closes
           noFwd == s.fwdFailed /\ ~removes
           t == Channel!Closing(s, retry)
<1>1. /\ t = [s EXCEPT !.sock = IF @ = "none" THEN @ ELSE "closing",
                !.sockTask = IF closes THEN "running" ELSE @,
                !.sockFailed = @ /\ ~closes,
                !.fwdTask = IF ~removes THEN @
                            ELSE IF s.fwdFailed THEN "listing" ELSE "removing",
                !.fwdFailed = @ /\ ~removes]
  BY DEF Channel!Closing
<1>2. again \in BOOLEAN /\ closes \in BOOLEAN /\ removes \in BOOLEAN
  BY DEF again, closes, removes
<1>3. /\ t.sock = IF s.sock = "none" THEN "none" ELSE "closing"
      /\ t.port = s.port
      /\ t.sockTask = IF closes THEN "running" ELSE s.sockTask
      /\ t.sockFailed = (s.sockFailed /\ ~closes)
      /\ t.fwdTask = IF ~removes THEN s.fwdTask
                     ELSE IF s.fwdFailed THEN "listing" ELSE "removing"
      /\ t.fwdFailed = (s.fwdFailed /\ ~removes)
  BY <1>1
<1>4. t \in [sock: {"none", "open", "closing"}, port: {Channel!None} \union Port,
            sockTask: {"none", "running"}, fwdTask: {"none", "listing", "removing"},
            sockFailed: BOOLEAN, fwdFailed: BOOLEAN]
  <2>1. noSock \in BOOLEAN /\ noFwd \in BOOLEAN
    OBVIOUS
  <2>2. t = [sock |-> t.sock, port |-> t.port, sockTask |-> t.sockTask,
             fwdTask |-> t.fwdTask, sockFailed |-> noSock, fwdFailed |-> noFwd]
    BY <1>1
  <2>3. /\ t.sock \in {"none", "open", "closing"} /\ t.port \in {Channel!None} \union Port
        /\ t.sockTask \in {"none", "running"} /\ t.fwdTask \in {"none", "listing", "removing"}
    BY <1>3
  <2> HIDE DEF t, noSock, noFwd
  <2> QED BY <2>1, <2>2, <2>3
<1> HIDE DEF t
<1>5. Kept(t)
  BY <1>3, <1>4
<1>6. (again => Begun(t)) /\ (Channel!Settled(t) => t.sock = "none" /\ t.port = Channel!None)
  BY <1>3 DEF Begun, Channel!Settled, Channel!Pending
<1> QED BY <1>3, <1>5, <1>6 DEF t

(* What holds of the record holds of the variables that become it. *)
LEMMA BecomesKept ==
  ASSUME NEW s, Kept(s), Channel!Become(s), UNCHANGED <<Channel!adb, live>>
  PROVE  /\ SocketIsOwned' /\ ForwardIsOwned'
         /\ port' \in {Channel!None} \union Port /\ sock' \in {"none", "open", "closing"}
         /\ sockTask' \in {"none", "running"} /\ fwdTask' \in {"none", "listing", "removing"}
         /\ sockFailed' \in BOOLEAN /\ fwdFailed' \in BOOLEAN
  BY DEF Kept, Channel!Become, SocketIsOwned, ForwardIsOwned, Channel!adb, Channel!None

LEMMA BeginKeeps ==
  ASSUME NoneIsNoPort, ChannelInv, Channel!Begins
  PROVE  ChannelInv'
<1> USE NoneIsNoPort DEF Channel!Unmoved
<1>1. Kept(Channel!Refreshed) /\ (Channel!Refreshed.sock = "open" <=> sock = "open")
  BY RefreshedIsKept
<1>2. PICK s : /\ Kept(s) /\ Channel!Become(s)
               /\ \/ s.sock = "open" /\ sock = "open" /\ channelPc' = "exchange"
                  \/ s.sock = "none" /\ s.port = Channel!None /\ channelPc' = "forward"
                  \/ s.sock # "open" /\ Begun(s) /\ channelPc' = "cleaning"
  <2>1. CASE Channel!Connected(Channel!Refreshed) /\ Channel!Become(Channel!Refreshed)
               /\ channelPc' = "exchange"
    BY <1>1, <2>1 DEF Channel!Connected
  <2>2. CASE /\ Channel!Refreshed.port = Channel!None /\ Channel!Settled(Channel!Refreshed)
             /\ ~Channel!Connected(Channel!Refreshed)
             /\ Channel!Become(Channel!Refreshed) /\ channelPc' = "forward"
    BY <1>1, <2>2 DEF Channel!Connected, Channel!Settled, Channel!Pending, Kept
  <2>3. CASE Channel!Become(Channel!Closing(Channel!Refreshed, TRUE)) /\ channelPc' = "cleaning"
    <3>1. spent' = FALSE
      BY DEF Channel!Begins
    <3> QED BY <1>1, <2>3, <3>1, ClosingIsKept
  <2> QED BY <2>1, <2>2, <2>3 DEF Channel!Begins
<1>3. UNCHANGED <<Channel!adb, live, owed>> /\ spent' = FALSE /\ channelClosed' = FALSE
        /\ channelPc = "free"
  BY DEF Channel!Begins
<1>4. /\ SocketIsOwned' /\ ForwardIsOwned'
      /\ port' \in {Channel!None} \union Port /\ sock' \in {"none", "open", "closing"}
      /\ sockTask' \in {"none", "running"} /\ fwdTask' \in {"none", "listing", "removing"}
      /\ sockFailed' \in BOOLEAN /\ fwdFailed' \in BOOLEAN
  BY <1>2, <1>3, BecomesKept
<1>5. Channel!TypeOK'
  BY <1>2, <1>3, <1>4 DEF ChannelInv, Channel!TypeOK, Channel!Task, Channel!adb
<1>6. PcAgrees'
  BY <1>2, <1>3 DEF ChannelInv, PcAgrees, Channel!Become, Begun
<1> QED BY <1>4, <1>5, <1>6 DEF ChannelInv

LEMMA FailKeeps ==
  ASSUME NoneIsNoPort, ChannelInv, Channel!Fails, UNCHANGED <<Channel!adb, live, owed>>,
         channelPc \in {"cleaning", "forward", "connect", "greeting", "exchange", "awaiting"}
  PROVE  ChannelInv' /\ (port = Channel!None /\ channelPc = "forward" => port' = Channel!None)
<1> USE NoneIsNoPort
<1> DEFINE s == Channel!Closing(Channel!Refreshed, FALSE)
<1>1. Kept(Channel!Refreshed) /\ (channelPc = "forward" => Channel!Refreshed.port = Channel!None)
  BY RefreshedIsKept
<1>2. spent' \in BOOLEAN
  BY DEF ChannelInv, Channel!TypeOK, Channel!Fails
<1>3. Kept(s) /\ s.sock # "open" /\ s.port = Channel!Refreshed.port
  <2>1. Kept(s) /\ s.sock # "open"
    BY <1>1, <1>2, ClosingIsKept
  <2>2. s.port = Channel!Refreshed.port
    BY <1>1 DEF Channel!Closing, Kept
  <2> QED BY <2>1, <2>2
<1>4. Channel!Become(s) /\ channelPc' = "failing" /\ UNCHANGED <<spent, channelClosed>>
  BY DEF Channel!Fails
<1> HIDE DEF s
<1>5. /\ SocketIsOwned' /\ ForwardIsOwned'
      /\ port' \in {Channel!None} \union Port /\ sock' \in {"none", "open", "closing"}
      /\ sockTask' \in {"none", "running"} /\ fwdTask' \in {"none", "listing", "removing"}
      /\ sockFailed' \in BOOLEAN /\ fwdFailed' \in BOOLEAN
  BY <1>3, <1>4, BecomesKept
<1>6. Channel!TypeOK'
  BY <1>4, <1>5 DEF ChannelInv, Channel!TypeOK, Channel!Task, Channel!adb
<1>7. PcAgrees'
  BY <1>3, <1>4 DEF ChannelInv, PcAgrees, Channel!Become
<1> QED BY <1>1, <1>3, <1>4, <1>5, <1>6, <1>7 DEF ChannelInv, Channel!Become

LEMMA LostKeeps ==
  ASSUME NoneIsNoPort, ChannelInv, Channel!ForwardIsLost
  PROVE  ChannelInv'
<1> USE NoneIsNoPort
<1> DEFINE s == Channel!Closing(Channel!Refreshed, FALSE)
<1>1. Kept(Channel!Refreshed) /\ Channel!Refreshed.port = Channel!None
  BY RefreshedIsKept DEF Channel!ForwardIsLost
<1>2. spent' \in BOOLEAN
  BY DEF ChannelInv, Channel!TypeOK, Channel!ForwardIsLost, Channel!Fails
<1>3. Kept(s) /\ s.sock # "open" /\ s.port = Channel!None
  <2>1. Kept(s) /\ s.sock # "open"
    BY <1>1, <1>2, ClosingIsKept
  <2>2. s.port = Channel!Refreshed.port
    BY <1>1 DEF Channel!Closing, Kept
  <2> QED BY <1>1, <2>1, <2>2
<1>4. /\ Channel!Become(s) /\ channelPc' = "failing"
      /\ UNCHANGED <<live, owed, spent, channelClosed>>
      /\ channelPc = "forward"
  BY DEF Channel!ForwardIsLost, Channel!Fails
<1>5. PICK p \in Port : /\ table' = [table EXCEPT ![p] = "mine"]
                        /\ strays' = strays \union {p}
  BY DEF Channel!ForwardIsLost
<1> HIDE DEF s
<1>6. SocketIsOwned'
  BY <1>3, <1>4 DEF Kept, Channel!Become, SocketIsOwned
<1>7. ForwardIsOwned'
  BY <1>3, <1>4, <1>5 DEF Kept, Channel!Become, ForwardIsOwned, ChannelInv, Channel!TypeOK,
      Channel!None
<1>8. Channel!TypeOK'
  BY <1>3, <1>4, <1>5 DEF Kept, Channel!Become, ChannelInv, Channel!TypeOK, Channel!Task
<1>9. PcAgrees'
  BY <1>3, <1>4 DEF ChannelInv, PcAgrees, Channel!Become
<1> QED BY <1>6, <1>7, <1>8, <1>9 DEF ChannelInv

LEMMA CleanKeeps ==
  ASSUME NoneIsNoPort, ChannelInv, Channel!Cleaned \/ Channel!CleanupWaited
  PROVE  ChannelInv'
<1> USE NoneIsNoPort DEF Channel!Unmoved
<1>1. Kept(Channel!Refreshed)
  BY RefreshedIsKept
<1>2. CASE Channel!Cleaned /\ Channel!Fails
  BY <1>2, FailKeeps DEF Channel!Cleaned
<1>3. CASE \/ Channel!CleanupWaited
           \/ /\ Channel!Cleaned /\ Channel!Settled(Channel!Refreshed)
                   /\ Channel!Become(Channel!Refreshed) /\ channelPc' = "forward"
              /\ UNCHANGED <<spent, channelClosed>>
  <2>1. /\ Channel!Become(Channel!Refreshed)
        /\ UNCHANGED <<Channel!adb, live, owed, spent, channelClosed>>
        /\ \/ channelPc = "failing" /\ channelPc' = "free"
           \/ channelPc = "cleaning" /\ Channel!Settled(Channel!Refreshed)
                /\ channelPc' = "forward"
    BY <1>3 DEF Channel!CleanupWaited, Channel!Cleaned
  <2>2. /\ SocketIsOwned' /\ ForwardIsOwned'
        /\ port' \in {Channel!None} \union Port /\ sock' \in {"none", "open", "closing"}
        /\ sockTask' \in {"none", "running"} /\ fwdTask' \in {"none", "listing", "removing"}
        /\ sockFailed' \in BOOLEAN /\ fwdFailed' \in BOOLEAN
    BY <1>1, <2>1, BecomesKept
  <2>3. Channel!TypeOK'
    BY <2>1, <2>2 DEF ChannelInv, Channel!TypeOK, Channel!Task, Channel!adb
  <2>4. /\ Channel!Refreshed.sock = "open" <=> sock = "open"
        /\ channelPc = "cleaning" /\ Channel!Settled(Channel!Refreshed) =>
             Channel!Refreshed.sock = "none" /\ Channel!Refreshed.port = Channel!None
    BY RefreshedIsKept
  <2>5. PcAgrees'
    BY <2>1, <2>4 DEF ChannelInv, PcAgrees, Channel!Become
  <2> QED BY <2>2, <2>3, <2>5 DEF ChannelInv
<1> QED BY <1>2, <1>3 DEF Channel!Cleaned

LEMMA ChannelCloseKeeps ==
  ASSUME NoneIsNoPort, ChannelInv, Channel!Close \/ Channel!CloseAborted
  PROVE  ChannelInv'
<1> USE NoneIsNoPort DEF Channel!Unmoved
<1>1. Kept(Channel!Refreshed)
  BY RefreshedIsKept
<1>2. PICK retry \in BOOLEAN :
        /\ Channel!Become(Channel!Closing(Channel!Refreshed, retry)) /\ spent' \in BOOLEAN
        /\ UNCHANGED <<Channel!adb, live, owed>>
        /\ \/ retry /\ ~spent' /\ channelPc = "free" /\ channelPc' = "closing"
                /\ UNCHANGED channelClosed
           \/ /\ channelPc = "aborting" /\ channelPc' = "free"
              /\ channelClosed' = Channel!Settled(Channel!Closing(Channel!Refreshed, retry))
  BY DEF Channel!Close, Channel!CloseAborted, ChannelInv, Channel!TypeOK
<1> DEFINE s == Channel!Closing(Channel!Refreshed, retry)
<1>3. /\ Kept(s) /\ s.sock # "open" /\ (retry /\ ~spent' => Begun(s))
      /\ Channel!Settled(s) => s.sock = "none" /\ s.port = Channel!None
  BY <1>1, <1>2, ClosingIsKept
<1>4. Channel!Become(s) /\ channelClosed' \in BOOLEAN
  BY <1>2 DEF ChannelInv, Channel!TypeOK, Channel!Settled
<1>5. s.sock = "none" \/ s.sock = "closing"
  BY <1>3 DEF Kept
<1> HIDE DEF s
<1>6. /\ SocketIsOwned' /\ ForwardIsOwned'
      /\ port' \in {Channel!None} \union Port /\ sock' \in {"none", "open", "closing"}
      /\ sockTask' \in {"none", "running"} /\ fwdTask' \in {"none", "listing", "removing"}
      /\ sockFailed' \in BOOLEAN /\ fwdFailed' \in BOOLEAN
  BY <1>2, <1>3, <1>4, BecomesKept
<1>7. Channel!TypeOK'
  BY <1>2, <1>4, <1>6 DEF ChannelInv, Channel!TypeOK, Channel!Task, Channel!adb
<1>8. PcAgrees'
  <2>1. CASE channelPc' = "closing"
    BY <1>2, <1>3, <1>4, <1>5, <2>1 DEF ChannelInv, PcAgrees, Channel!Become, Begun
  <2>2. CASE channelPc' = "free"
    <3>1. channelClosed' = Channel!Settled(s)
      BY <1>2, <2>2 DEF s
    <3> QED BY <1>3, <1>4, <1>5, <2>2, <3>1 DEF PcAgrees, Channel!Become
  <2> QED BY <1>2, <2>1, <2>2
<1> QED BY <1>6, <1>7, <1>8 DEF ChannelInv

LEMMA CloseWaitKeeps ==
  ASSUME NoneIsNoPort, ChannelInv, Channel!CloseWaited
  PROVE  ChannelInv'
<1> USE NoneIsNoPort DEF Channel!Unmoved
<1>1. /\ Kept(Channel!Refreshed)
      /\ Channel!Refreshed.sock = "open" <=> sock = "open"
      /\ Channel!Settled(Channel!Refreshed) => Channel!Refreshed.sock = "none"
           /\ Channel!Refreshed.port = Channel!None
  BY RefreshedIsKept DEF Channel!CloseWaited
<1>2. CASE channelPc' = "aborting"
  <2>1. /\ spent' = TRUE
        /\ UNCHANGED <<Channel!adb, live, owed, channelClosed, port, sock, Channel!flags>>
        /\ sockTask' = Channel!Abort(sockTask) /\ fwdTask' = Channel!Abort(fwdTask)
             /\ channelPc = "closing"
    BY <1>2 DEF Channel!CloseWaited
  <2>2. Channel!TypeOK'
    BY <1>2, <2>1 DEF ChannelInv, Channel!TypeOK, Channel!Task, Channel!Abort, Channel!adb,
        Channel!flags
  <2>3. SocketIsOwned' /\ ForwardIsOwned' /\ PcAgrees'
    BY <1>2, <2>1 DEF ChannelInv, SocketIsOwned, ForwardIsOwned, PcAgrees, Channel!Abort,
        Channel!Running, Channel!Ended,
                      Channel!adb, Channel!flags
  <2> QED BY <2>2, <2>3 DEF ChannelInv
<1>3. CASE channelPc' # "aborting"
  <2>1. /\ Channel!Become(Channel!Refreshed) /\ channelPc = "closing" /\ channelPc' = "free"
        /\ channelClosed' = Channel!Settled(Channel!Refreshed) /\ channelClosed' \in BOOLEAN
        /\ UNCHANGED <<Channel!adb, live, owed, spent>>
    BY <1>3 DEF Channel!CloseWaited, Channel!Settled
  <2>2. /\ SocketIsOwned' /\ ForwardIsOwned'
        /\ port' \in {Channel!None} \union Port /\ sock' \in {"none", "open", "closing"}
        /\ sockTask' \in {"none", "running"} /\ fwdTask' \in {"none", "listing", "removing"}
        /\ sockFailed' \in BOOLEAN /\ fwdFailed' \in BOOLEAN
    BY <1>1, <2>1, BecomesKept
  <2>3. Channel!TypeOK'
    BY <2>1, <2>2 DEF ChannelInv, Channel!TypeOK, Channel!Task, Channel!adb
  <2>4. PcAgrees'
    BY <1>1, <2>1 DEF ChannelInv, PcAgrees, Channel!Become
  <2> QED BY <2>2, <2>3, <2>4 DEF ChannelInv
<1> QED BY <1>2, <1>3

LEMMA ChannelStutterKeeps == ASSUME ChannelInv, UNCHANGED Channel!vars PROVE ChannelInv'
  BY DEF ChannelInv, Channel!TypeOK, SocketIsOwned, ForwardIsOwned, PcAgrees, Channel!vars,
      Channel!adb, Channel!cleanup, Channel!flags, Channel!request

LEMMA ChannelNextKeeps == ASSUME NoneIsNoPort, ChannelInv, [Channel!Next]_(Channel!vars)
  PROVE ChannelInv'
  BY ServerKeeps, QuietKeeps, ConnectKeeps, BeginKeeps, FailKeeps, LostKeeps, CleanKeeps,
     ChannelCloseKeeps, CloseWaitKeeps, ChannelStutterKeeps
     DEF Channel!Next, Channel!Step, Channel!StepFails, Channel!Unmoved

-----------------------------------------------------------------------------
LEMMA ChannelInvariantHolds == ASSUME NoneIsNoPort PROVE Channel!Spec => []ChannelInv
<1>1. Channel!Init => ChannelInv
  BY ChannelInitHolds
<1>2. ChannelInv /\ [Channel!Next]_(Channel!vars) => ChannelInv'
  BY ChannelNextKeeps
<1> QED BY <1>1, <1>2, PTL DEF Channel!Spec

(* The variables of the channel have their types: there is never a second     *)
(* connection, and a port belongs to the channel or is none.                 *)
THEOREM ChannelTypeCorrect == ASSUME NoneIsNoPort PROVE Channel!Spec => []Channel!TypeOK
<1>1. ChannelInv => Channel!TypeOK
  BY DEF ChannelInv
<1> QED BY <1>1, ChannelInvariantHolds, PTL

(* What a close() without an error says is true: no socket is open, no port   *)
(* is forwarded for the channel, and nothing is still being cleaned up.       *)
THEOREM CloseIsTrue == ASSUME NoneIsNoPort PROVE Channel!Spec => []Channel!ClosedIsClosed
<1>1. ChannelInv => Channel!ClosedIsClosed
  BY DEF ChannelInv, Channel!ClosedIsClosed, PcAgrees, SocketIsOwned
<1> QED BY <1>1, ChannelInvariantHolds, PTL

(* Cleanup that fails, comes late or is harvested by another request keeps    *)
(* the socket and the port for the next try, whatever ADB did of it.          *)
THEOREM CleanupIsKept == ASSUME NoneIsNoPort PROVE Channel!Spec => []Channel!NothingIsForgotten
<1>1. ChannelInv => Channel!NothingIsForgotten
  BY DEF ChannelInv, Channel!NothingIsForgotten, ForwardIsOwned, SocketIsOwned
<1> QED BY <1>1, ChannelInvariantHolds, PTL

(* A request never reads the answer of another: the connection that is kept   *)
(* has been read to the end.                                                *)
THEOREM AnswersAreOfTheRequest == ASSUME NoneIsNoPort
  PROVE Channel!Spec => []Channel!KeptConnectionIsClean
<1>1. ChannelInv => Channel!KeptConnectionIsClean
  BY DEF ChannelInv, Channel!KeptConnectionIsClean, PcAgrees
<1> QED BY <1>1, ChannelInvariantHolds, PTL

-----------------------------------------------------------------------------
LEMMA RefreshedIsOwn ==
  ASSUME NoneIsNoPort, ChannelInv, RemovesItsOwn
  PROVE  LET s == Channel!Refreshed
         IN  s.port # Channel!None
               /\ (s.fwdTask = "removing" \/ (s.fwdTask = "none" /\ ~s.fwdFailed))
               => table[s.port] = "mine"
  BY DEF ChannelInv, Channel!TypeOK, RemovesItsOwn, Channel!Refreshed, Channel!Failed,
      Channel!Ended, Channel!Task, ForwardIsOwned

LEMMA ClosingIsOwn ==
  ASSUME NEW s, Kept(s), NEW retry \in BOOLEAN,
         s.port # Channel!None /\ (s.fwdTask = "removing" \/ (s.fwdTask = "none" /\ ~s.fwdFailed))
           => table[s.port] = "mine"
  PROVE  LET t == Channel!Closing(s, retry)
         IN  t.port # Channel!None
               /\ (t.fwdTask = "removing" \/ (t.fwdTask = "none" /\ ~t.fwdFailed))
               => table[t.port] = "mine"
  BY DEF Channel!Closing, Kept

LEMMA OwnIsKept ==
  ASSUME NoneIsNoPort, ~AdbRestarts, ChannelInv, RemovesItsOwn, [Channel!Next]_(Channel!vars)
  PROVE  RemovesItsOwn'
<1> USE NoneIsNoPort DEF Channel!Unmoved, RemovesItsOwn, Channel!adb, Channel!cleanup,
    Channel!flags, Channel!request
<1>1. CASE Channel!Become(Channel!Refreshed) /\ UNCHANGED Channel!adb
  BY <1>1, RefreshedIsOwn DEF Channel!Become
<1>2. CASE \E retry \in BOOLEAN : Channel!Become(Channel!Closing(Channel!Refreshed, retry))
             /\ UNCHANGED Channel!adb
  BY <1>2, RefreshedIsOwn, RefreshedIsKept, ClosingIsOwn DEF Channel!Become
<1>3. CASE Channel!OtherForwards \/ Channel!AdbRestart
  BY <1>3 DEF Channel!OtherForwards, Channel!AdbRestart, ChannelInv, Channel!TypeOK,
      Channel!None
<1>4. CASE Channel!SocketCleanup \/ Channel!DeadlinePasses \/ Channel!Connects
             \/ Channel!Greeted \/ Channel!Sends \/ Channel!Answers
  BY <1>4 DEF Channel!SocketCleanup, Channel!DeadlinePasses, Channel!Connects,
      Channel!Greeted, Channel!Sends, Channel!Answers
<1>5. CASE Channel!ListsForwards
  BY <1>5 DEF Channel!ListsForwards
<1>6. CASE Channel!RemovesForward
  BY <1>6 DEF Channel!RemovesForward, ChannelInv, ForwardIsOwned
<1>7. CASE Channel!Forwards
  BY <1>7 DEF Channel!Forwards, ChannelInv, Channel!TypeOK, PcAgrees
<1>8. CASE Channel!ForwardIsLost
  <2>1. Channel!Refreshed.port = Channel!None /\ Kept(Channel!Refreshed)
    BY <1>8, RefreshedIsKept DEF Channel!ForwardIsLost
  <2>2. Channel!Closing(Channel!Refreshed, FALSE).port = Channel!None
    BY <2>1 DEF Channel!Closing, Kept
  <2> QED BY <1>8, <2>2 DEF Channel!ForwardIsLost, Channel!Fails, Channel!Become
<1>9. CASE channelPc' = "aborting" /\ Channel!CloseWaited
  BY <1>9 DEF Channel!CloseWaited, Channel!Abort, Channel!Running, Channel!Ended, ChannelInv,
      Channel!TypeOK, Channel!Task
<1>10. CASE UNCHANGED Channel!vars
  BY <1>10 DEF Channel!vars
<1>11. CASE Channel!Begins \/ Channel!Close \/ Channel!Cleaned \/ Channel!StepFails
              \/ Channel!CleanupWaited \/ Channel!CloseAborted
  <2>1. UNCHANGED Channel!adb
    BY <1>11 DEF Channel!Begins, Channel!Close, Channel!Cleaned, Channel!StepFails,
        Channel!CleanupWaited, Channel!CloseAborted
  <2>2. \/ Channel!Become(Channel!Refreshed)
        \/ Channel!Become(Channel!Closing(Channel!Refreshed, TRUE))
        \/ Channel!Become(Channel!Closing(Channel!Refreshed, FALSE))
    BY <1>11 DEF Channel!Begins, Channel!Close, Channel!Cleaned, Channel!StepFails,
        Channel!Fails, Channel!CleanupWaited, Channel!CloseAborted
  <2> HIDE DEF Channel!adb, RemovesItsOwn
  <2> QED BY <1>1, <1>2, <2>1, <2>2
<1>12. CASE Channel!CloseWaited /\ channelPc' # "aborting"
  <2>1. Channel!Become(Channel!Refreshed) /\ UNCHANGED Channel!adb
    BY <1>12 DEF Channel!CloseWaited
  <2> QED BY <1>1, <2>1
<1> QED
  BY <1>3, <1>4, <1>5, <1>6, <1>7, <1>8, <1>9, <1>10, <1>11, <1>12 DEF Channel!Next,
      Channel!Step

(* While the ADB server goes on, the removal of a forward never hits the port *)
(* of somebody else: a removal that failed is looked up before it is tried    *)
(* again.                                                                   *)
THEOREM OthersKeepTheirs ==
  ASSUME NoneIsNoPort, ~AdbRestarts PROVE Channel!Spec => Channel!NeverRemovesOthers
<1>1. Channel!Init => ChannelInv /\ RemovesItsOwn
  BY ChannelInitHolds
<1>2. ChannelInv /\ RemovesItsOwn /\ [Channel!Next]_(Channel!vars)
        => (ChannelInv /\ RemovesItsOwn)'
  BY ChannelNextKeeps, OwnIsKept
<1> DEFINE Keeps ==
      \A p \in Port : (table[p] = "other" /\ fwdTask' # fwdTask) => table'[p] = "other"
<1>3. ChannelInv /\ RemovesItsOwn /\ [Channel!Next]_(Channel!vars) => [Keeps]_(Channel!vars)
  <2> SUFFICES ASSUME ChannelInv, RemovesItsOwn, Channel!Next PROVE Keeps
    OBVIOUS
  <2> USE DEF ChannelInv, Channel!TypeOK, RemovesItsOwn, ForwardIsOwned, Channel!adb,
      Channel!cleanup, Channel!flags, Channel!request, Channel!Unmoved
  <2>1. CASE UNCHANGED table \/ UNCHANGED fwdTask
    BY <2>1
  <2>2. CASE Channel!RemovesForward
    BY <2>2 DEF Channel!RemovesForward
  <2>3. CASE Channel!ForwardIsLost
    BY <2>3 DEF Channel!ForwardIsLost, Channel!None
  <2>4. CASE Channel!OtherForwards \/ Channel!AdbRestart \/ Channel!Forwards
    BY <2>1, <2>4 DEF Channel!OtherForwards, Channel!AdbRestart, Channel!Forwards
  <2>5. CASE \/ Channel!Begins \/ Channel!Close \/ Channel!DeadlinePasses
             \/ Channel!SocketCleanup \/ Channel!ListsForwards
             \/ Channel!Cleaned \/ Channel!Connects \/ Channel!Greeted \/ Channel!Sends
                  \/ Channel!Answers \/ Channel!StepFails
             \/ Channel!CleanupWaited \/ Channel!CloseWaited \/ Channel!CloseAborted
    <3>1. UNCHANGED table
      BY <2>5 DEF Channel!Begins, Channel!Close, Channel!DeadlinePasses,
          Channel!SocketCleanup, Channel!ListsForwards, Channel!Cleaned, Channel!Connects,
             Channel!Greeted, Channel!Sends, Channel!Answers, Channel!StepFails,
               Channel!CleanupWaited, Channel!CloseWaited, Channel!CloseAborted
    <3> QED BY <2>1, <3>1
  <2> QED BY <2>2, <2>3, <2>4, <2>5 DEF Channel!Next, Channel!Step
<1>4. Channel!NeverRemovesOthers <=> [][Keeps]_(Channel!vars)
  BY DEF Channel!NeverRemovesOthers
<1> HIDE DEF Keeps
<1> QED BY <1>1, <1>2, <1>3, <1>4, PTL DEF Channel!Spec
-----------------------------------------------------------------------------
(* A set of numbers has a least one. *)
LessThan == {pair \in Nat \X Nat : pair[1] < pair[2]}

LEMMA LeastNumber ==
  ASSUME NEW T \in SUBSET Nat, T # {} PROVE \E n \in T : \A m \in T : n <= m
<1>1. LessThan = OpToRel(<, Nat)
  BY DEF LessThan, OpToRel
<1>2. IsWellFoundedOn(LessThan, Nat)
  BY <1>1, NatLessThanWellFounded
<1>3. \E n \in T : \A m \in T : ~(<<m, n>> \in LessThan)
  BY <1>2, WFMin
<1>4. ASSUME NEW n \in T, NEW m \in T, ~(<<m, n>> \in LessThan) PROVE n <= m
  BY <1>4 DEF LessThan
<1> QED BY <1>3, <1>4

(* Where a condition begins to hold in 1..n, or n + 1. *)
LEMMA FirstOf ==
  ASSUME NEW n \in Nat, NEW S \in SUBSET (1..n)
  PROVE  \E k \in 0..n : (\A i \in 1..k : i \notin S) /\ (k < n => k + 1 \in S)
<1>1. CASE S = {}
  BY <1>1
<1>2. CASE S # {}
  <2>1. PICK f \in S : \A g \in S : f <= g
    BY <1>2, LeastNumber
  <2>2. f - 1 \in 0..n /\ (\A i \in 1..(f - 1) : i \notin S) /\ (f - 1) + 1 \in S
    BY <2>1
  <2> QED BY <2>2
<1> QED BY <1>1, <1>2

(* What is left of a sequence without its first k. *)
LEMMA SuffixOf ==
  ASSUME NEW S, NEW s \in Seq(S), NEW k \in 0..Len(s)
  PROVE  LET t == SubSeq(s, k + 1, Len(s)) IN
         /\ t \in Seq(S) /\ Len(t) = Len(s) - k
         /\ \A i \in 1..Len(t) : t[i] = s[k + i]
<1>1. Len(s) \in Nat
  BY LenProperties
<1>2. \A i \in (k + 1)..Len(s) : s[i] \in S
  BY <1>1, ElementOfSeq
<1>3. SubSeq(s, k + 1, Len(s)) \in Seq(S)
      /\ Len(SubSeq(s, k + 1, Len(s))) = (IF k + 1 <= Len(s) THEN Len(s) - (k + 1) + 1 ELSE 0)
      /\ \A i \in 1..Len(s) - (k + 1) + 1 : SubSeq(s, k + 1, Len(s))[i] = s[(k + 1) + i - 1]
  BY <1>1, SubSeqProperties
<1> QED BY <1>1, <1>3

-----------------------------------------------------------------------------
(* The numbers of what is kept are the last, and an event that is new enough is *)
(* where its number says.                                                    *)
Ordered(s, top) ==
  /\ s \in Seq(Ring!Event) /\ Len(s) <= top
  /\ \A i \in 1..Len(s) : s[i].seq = top - Len(s) + i

Holds(s, top, e) == e.seq > top - Len(s) => s[e.seq - (top - Len(s))] = e

(* Of what happened since the cursor, in this life of the collector, the ring  *)
(* holds all that is as new as what it holds.                                *)
RingIsTrue ==
  \A e \in happened :
    /\ e.life <= life
    /\ e.life = life => e.seq \in 1..sequence /\ Holds(events, sequence, e)

(* The cursor is of this life of the collector or of an earlier one, and is     *)
(* read once.                                                                *)
CursorIsPast ==
  /\ \A c \in cursor : c.life \in {1, 2} /\ c.seq \in Nat /\ c.life <= life
  /\ ringPc # "idle" => batch = {}

RingInv ==
  /\ Ring!TypeOK /\ Ordered(events, sequence)
  /\ RingIsTrue /\ CursorIsPast /\ Ring!CompleteMissesNone

LEMMA EvictedIsSuffix ==
  ASSUME Ring!LimitsAreNumbers, NEW S, NEW s \in Seq(S)
  PROVE  LET t == Ring!Evicted(s) IN
         /\ t \in Seq(S) /\ Len(t) <= MaxCount
         /\ \E k \in 0..Len(s) : Len(t) = Len(s) - k /\ \A i \in 1..Len(t) : t[i] = s[k + i]
<1> DEFINE many == IF Len(s) > MaxCount THEN Len(s) - MaxCount ELSE 0
           few == SubSeq(s, many + 1, Len(s))
           t == Ring!Evicted(s)
<1>1. /\ Len(s) \in Nat /\ MaxCount \in Nat /\ many \in 0..Len(s)
      /\ Len(s) - many <= MaxCount
  BY LenProperties DEF Ring!LimitsAreNumbers
<1>2. SubSeq(s, IF Len(s) > MaxCount THEN Len(s) - MaxCount + 1 ELSE 1, Len(s)) = few
  BY <1>1
<1> HIDE DEF many
<1>3. /\ few \in Seq(S) /\ Len(few) = Len(s) - many /\ Len(few) \in Nat
      /\ Len(few) <= MaxCount /\ \A i \in 1..Len(few) : few[i] = s[many + i]
  BY <1>1, SuffixOf
<1>4. t = SubSeq(few, Ring!Aged(few) + 1, Len(few))
  BY <1>2 DEF Ring!Evicted
<1> HIDE DEF few, t
<1>5. Ring!Aged(few) \in 0..Len(few)
  <2> DEFINE fresh == {i \in 1..Len(few) : Ring!Young(few[i])}
  <2>0. fresh \in SUBSET (1..Len(few))
    OBVIOUS
  <2> HIDE DEF fresh
  <2>1. PICK n \in 0..Len(few) : (\A i \in 1..n : i \notin fresh)
                                /\ (n < Len(few) => n + 1 \in fresh)
    BY <1>3, <2>0, FirstOf
  <2>2. (\A i \in 1..n : ~Ring!Young(few[i])) /\ (n < Len(few) => Ring!Young(few[n + 1]))
    BY <1>3, <2>1 DEF fresh
  <2> QED BY <2>2 DEF Ring!Aged
<1> DEFINE aged == Ring!Aged(few)
           k == many + aged
<1> HIDE DEF aged
<1>6. /\ t \in Seq(S) /\ Len(t) = Len(few) - aged /\ aged \in 0..Len(few)
      /\ \A i \in 1..Len(t) : t[i] = few[aged + i]
  BY <1>3, <1>4, <1>5, SuffixOf DEF aged
<1>7. k \in 0..Len(s) /\ Len(t) = Len(s) - k /\ Len(t) <= MaxCount
  BY <1>1, <1>3, <1>6
<1>8. \A i \in 1..Len(t) : t[i] = s[k + i]
  <2> TAKE i \in 1..Len(t)
  <2>1. aged + i \in 1..Len(few) /\ many + (aged + i) = k + i
    BY <1>1, <1>3, <1>6
  <2> QED BY <1>3, <1>6, <2>1
<1> QED BY <1>6, <1>7, <1>8 DEF t

(* Without its oldest events the ring is as true as before. *)
LEMMA EvictedIsTrue ==
  ASSUME Ring!LimitsAreNumbers, NEW top \in Nat, NEW s, Ordered(s, top)
  PROVE  /\ Ordered(Ring!Evicted(s), top) /\ Len(Ring!Evicted(s)) <= MaxCount
         /\ \A i \in 1..Len(Ring!Evicted(s)) : Ring!Evicted(s)[i] \in Ring!Event
         /\ \A e : e.seq \in 1..top /\ Holds(s, top, e) => Holds(Ring!Evicted(s), top, e)
<1>1. s \in Seq(Ring!Event) /\ Len(s) \in Nat
  BY LenProperties DEF Ordered
<1> DEFINE t == Ring!Evicted(s)
<1>2. t \in Seq(Ring!Event) /\ Len(t) <= MaxCount
  BY <1>1, EvictedIsSuffix
<1>3. PICK k \in 0..Len(s) : Len(t) = Len(s) - k /\ \A i \in 1..Len(t) : t[i] = s[k + i]
  BY <1>1, EvictedIsSuffix
<1> HIDE DEF t
<1>4. \A i \in 1..Len(t) : t[i] \in Ring!Event
  BY <1>2, ElementOfSeq
<1>5. Ordered(t, top)
  <2>1. ASSUME NEW i \in 1..Len(t) PROVE t[i].seq = top - Len(t) + i
    <3>1. k + i \in 1..Len(s) /\ t[i] = s[k + i]
      BY <1>1, <1>3
    <3>2. s[k + i].seq = top - Len(s) + (k + i)
      BY <3>1 DEF Ordered
    <3> QED BY <1>1, <1>3, <3>1, <3>2
  <2>2. Len(t) <= top
    BY <1>1, <1>3 DEF Ordered
  <2> QED BY <1>2, <2>1, <2>2 DEF Ordered
<1>6. ASSUME NEW e, e.seq \in 1..top, Holds(s, top, e) PROVE Holds(t, top, e)
  <2> SUFFICES ASSUME e.seq > top - Len(t) PROVE t[e.seq - (top - Len(t))] = e
    BY DEF Holds
  <2> DEFINE i == e.seq - (top - Len(t))
  <2>1. Len(s) <= top /\ Len(t) \in Nat
    BY <1>1, <1>3 DEF Ordered
  <2>2. i \in 1..Len(t) /\ k + i = e.seq - (top - Len(s)) /\ e.seq > top - Len(s)
    BY <1>1, <1>3, <1>6, <2>1
  <2> HIDE DEF i
  <2>3. t[i] = s[k + i]
    BY <1>3, <2>2
  <2>4. s[k + i] = e
    BY <1>6, <2>2 DEF Holds
  <2> QED BY <2>3, <2>4 DEF i
<1> QED BY <1>2, <1>4, <1>5, <1>6 DEF t

LEMMA SeenIsInFront ==
  ASSUME NEW s, NEW after, NEW m \in 0..Len(s), \A i \in 1..m : s[i].seq <= after,
         m < Len(s) => s[m + 1].seq > after
  PROVE  Ring!Seen(s, after) \in 0..Len(s) /\ \A i \in 1..Ring!Seen(s, after) : s[i].seq <= after
BY DEF Ring!Seen

(* A read that is not cut off has every event after the cursor that is kept.    *)
LEMMA RowsAreAll ==
  ASSUME Ring!LimitsAreNumbers, NEW s \in Seq(Ring!Event), NEW after \in Nat,
         Len(Ring!Rows(s, after)) < ReadLimit,
         \A i \in 1..Len(s) : s[i].seq \in Nat,
         NEW j \in 1..Len(s), s[j].seq > after
  PROVE  \E i \in 1..Len(Ring!Rows(s, after)) : Ring!Rows(s, after)[i] = s[j]
<1> DEFINE later == {i \in 1..Len(s) : s[i].seq > after}
           seen == Ring!Seen(s, after)
           rows == Ring!Rows(s, after)
<1>1. Len(s) \in Nat /\ ReadLimit \in Nat /\ later \in SUBSET (1..Len(s))
  BY LenProperties DEF Ring!LimitsAreNumbers
<1>2. \E m \in 0..Len(s) : (\A i \in 1..m : s[i].seq <= after)
                           /\ (m < Len(s) => s[m + 1].seq > after)
  <2> HIDE DEF later
  <2>1. PICK m \in 0..Len(s) : (\A i \in 1..m : i \notin later) /\ (m < Len(s) => m + 1 \in later)
    BY <1>1, FirstOf
  <2>2. (\A i \in 1..m : s[i].seq <= after) /\ (m < Len(s) => s[m + 1].seq > after)
    BY <1>1, <2>1 DEF later
  <2> QED BY <2>2
<1>3. seen \in 0..Len(s) /\ \A i \in 1..seen : s[i].seq <= after
  BY <1>2, SeenIsInFront
<1>4. rows = SubSeq(s, seen + 1, IF Len(s) - seen > ReadLimit THEN seen + ReadLimit ELSE Len(s))
  BY DEF Ring!Rows
<1>5. Len(rows) < ReadLimit
  OBVIOUS
<1> HIDE DEF seen, rows, later
<1>6. j > seen
  BY <1>1, <1>3
<1>7. CASE Len(s) - seen > ReadLimit
  <2>1. rows = SubSeq(s, seen + 1, seen + ReadLimit) /\ seen + 1 \in Int
          /\ seen + ReadLimit \in Int
    BY <1>1, <1>3, <1>4, <1>7
  <2>2. \A i \in (seen + 1)..(seen + ReadLimit) : s[i] \in Ring!Event
    BY <1>1, <1>3, <1>7, ElementOfSeq
  <2>3. Len(rows) = IF seen + 1 <= seen + ReadLimit THEN (seen + ReadLimit) - (seen + 1) + 1 ELSE 0
    BY <2>1, <2>2, SubSeqProperties
  <2>4. Len(rows) = ReadLimit
    BY <1>1, <1>3, <2>3
  <2> QED BY <1>1, <1>5, <2>4
<1>8. CASE ~(Len(s) - seen > ReadLimit)
  <2>1. rows = SubSeq(s, seen + 1, Len(s))
    BY <1>4, <1>8
  <2>2. Len(rows) = Len(s) - seen /\ \A i \in 1..Len(rows) : rows[i] = s[seen + i]
    BY <1>3, <2>1, SuffixOf
  <2>3. j - seen \in 1..Len(rows) /\ seen + (j - seen) = j
    BY <1>1, <1>3, <1>6, <2>2
  <2> QED BY <2>2, <2>3 DEF rows
<1> QED BY <1>7, <1>8

-----------------------------------------------------------------------------
LEMMA RingInitHolds == ASSUME Ring!LimitsAreNumbers, Ring!Init PROVE RingInv
<1>1. events \in Seq(Ring!Event) /\ Len(events) = 0
  BY EmptySeq DEF Ring!Init
<1>2. /\ MaxTime \in Nat /\ MaxEvents \in Nat /\ MaxCount \in Nat
  BY DEF Ring!LimitsAreNumbers
<1> QED BY <1>1, <1>2
    DEF Ring!Init, RingInv, Ring!TypeOK, Ordered, RingIsTrue, CursorIsPast,
          Ring!CompleteMissesNone, Ring!JustRead

(* What a number of the ring says. *)
LEMMA RingIsTyped ==
  ASSUME RingInv
  PROVE  /\ events \in Seq(Ring!Event) /\ Len(events) \in Nat /\ sequence \in Nat
         /\ now \in Int /\ life \in {1, 2}
         /\ \A e \in Ring!Event : e.seq \in Nat /\ e.seq >= 1 /\ e.life \in {1, 2}
<1>1. events \in Seq(Ring!Event) /\ Len(events) \in Nat
  BY LenProperties DEF RingInv, Ordered
<1>2. sequence \in Nat /\ now \in Int /\ life \in {1, 2}
  BY DEF RingInv, Ring!TypeOK
<1>3. \A e \in Ring!Event : e.seq \in Nat /\ e.seq >= 1 /\ e.life \in {1, 2}
  BY DEF Ring!Event
<1> QED BY <1>1, <1>2, <1>3

LEMMA RecordKeeps ==
  ASSUME Ring!LimitsAreNumbers, RingInv, NEW hit \in BOOLEAN, Ring!Record(hit) PROVE RingInv'
<1> DEFINE event == [life |-> life, seq |-> sequence + 1, at |-> now, hit |-> hit]
           longer == Append(events, event)
<1>1. /\ sequence < MaxEvents /\ sequence' = sequence + 1 /\ events' = Ring!Evicted(longer)
      /\ happened' = IF ringPc = "idle" THEN happened ELSE happened \union {event}
      /\ UNCHANGED <<now, life, ringPc, cursor, batch, ack>>
  BY DEF Ring!Record, Ring!host
<1>2. /\ event \in Ring!Event /\ event.seq = sequence + 1 /\ event.life = life
  BY <1>1 DEF Ring!Event, RingInv, Ring!TypeOK, Ring!LimitsAreNumbers
<1> HIDE DEF event
<1>3. /\ longer \in Seq(Ring!Event) /\ Len(longer) = Len(events) + 1
      /\ \A i \in 1..Len(events) : longer[i] = events[i]
      /\ longer[Len(events) + 1] = event
  BY <1>2, RingIsTyped, AppendProperties
<1> HIDE DEF longer
<1>4. Ordered(longer, sequence + 1)
  <2>1. ASSUME NEW i \in 1..Len(longer) PROVE longer[i].seq = (sequence + 1) - Len(longer) + i
    <3>1. CASE i = Len(events) + 1
      BY <1>2, <1>3, <3>1, RingIsTyped
    <3>2. CASE i \in 1..Len(events)
      <4>1. events[i].seq = sequence - Len(events) + i
        BY <3>2 DEF RingInv, Ordered
      <4> QED BY <1>3, <3>2, <4>1, RingIsTyped
    <3> QED BY <1>3, <3>1, <3>2, RingIsTyped
  <2>2. Len(longer) <= sequence + 1
    BY <1>3, RingIsTyped DEF RingInv, Ordered
  <2> QED BY <1>3, <2>1, <2>2 DEF Ordered
<1>5. ASSUME NEW e, e.seq \in 1..sequence, Holds(events, sequence, e)
      PROVE  Holds(longer, sequence + 1, e)
  <2> SUFFICES ASSUME e.seq > (sequence + 1) - Len(longer)
               PROVE  longer[e.seq - ((sequence + 1) - Len(longer))] = e
    BY DEF Holds
  <2> DEFINE i == e.seq - (sequence - Len(events))
  <2>1. i \in 1..Len(events) /\ i = e.seq - ((sequence + 1) - Len(longer)) /\ events[i] = e
    BY <1>3, <1>5, RingIsTyped DEF Holds
  <2> HIDE DEF i
  <2> QED BY <1>3, <2>1
<1>6. Holds(longer, sequence + 1, event)
  BY <1>2, <1>3, RingIsTyped DEF Holds
<1>7. /\ Ordered(events', sequence + 1) /\ Len(events') <= MaxCount
      /\ \A i \in 1..Len(events') : events'[i] \in Ring!Event
      /\ \A e : e.seq \in 1..(sequence + 1) /\ Holds(longer, sequence + 1, e)
               => Holds(events', sequence + 1, e)
  BY <1>1, <1>4, EvictedIsTrue, RingIsTyped
<1>8. Ring!TypeOK'
  BY <1>1, <1>2, <1>7, RingIsTyped DEF RingInv, Ring!TypeOK, Ordered, Ring!LimitsAreNumbers
<1>9. ASSUME NEW e \in happened'
      PROVE  e.life <= life
        /\ (e.life = life => e.seq \in 1..sequence' /\ Holds(events', sequence', e))
  <2>1. CASE e \in happened
    <3>1. /\ e.life <= life
          /\ e.life = life => e.seq \in 1..sequence /\ Holds(events, sequence, e)
      BY <2>1 DEF RingInv, RingIsTrue
    <3>2. e.life = life => e.seq \in 1..(sequence + 1)
      BY <3>1, RingIsTyped
    <3> QED BY <1>1, <1>5, <1>7, <3>1, <3>2
  <2>2. CASE e = event
    <3>1. event.seq \in 1..(sequence + 1) /\ event.life <= life
      BY <1>2, RingIsTyped
    <3> QED BY <1>1, <1>6, <1>7, <2>2, <3>1
  <2> QED BY <1>1, <2>1, <2>2
<1>10. Ring!CompleteMissesNone'
  BY <1>1, RingIsTyped DEF RingInv, RingIsTrue, Ring!CompleteMissesNone, Ring!JustRead, Ring!After
<1> QED BY <1>1, <1>7, <1>8, <1>9, <1>10 DEF RingInv, RingIsTrue, CursorIsPast

LEMMA ReadKeeps ==
  ASSUME Ring!LimitsAreNumbers, RingInv, Ring!Read PROVE RingInv'
<1>1. /\ ringPc = "dispatched" /\ ringPc' = "idle" /\ batch = {}
      /\ UNCHANGED <<now, life, sequence, happened, cursor>>
  BY DEF Ring!Read, RingInv, CursorIsPast
<1>2. CASE ack' = "unavailable" /\ UNCHANGED <<events, batch>>
  BY <1>1, <1>2 DEF RingInv, Ring!TypeOK, Ordered, RingIsTrue, Holds, CursorIsPast,
     Ring!CompleteMissesNone, Ring!JustRead
<1>3. ASSUME NEW c \in cursor, events' = Ring!Evicted(events),
               batch' = {Ring!ReadAfter(events', c.seq)},
             ack' = Ring!Acknowledged(Ring!ReadAfter(events', c.seq))
      PROVE  RingInv'
  <2> DEFINE s == events'
             rows == Ring!Rows(s, c.seq)
  <2>1. /\ Ordered(s, sequence) /\ Len(s) <= MaxCount
        /\ \A i \in 1..Len(s) : s[i] \in Ring!Event
        /\ \A e : e.seq \in 1..sequence /\ Holds(events, sequence, e) => Holds(s, sequence, e)
    BY <1>3, EvictedIsTrue, RingIsTyped DEF RingInv
  <2>2. /\ s \in Seq(Ring!Event) /\ Len(s) \in Nat
        /\ \A i \in 1..Len(s) : s[i].seq = sequence - Len(s) + i
    BY <2>1, LenProperties DEF Ordered
  <2>3. c.seq \in Nat /\ \A d \in cursor : d = c
    BY DEF RingInv, Ring!TypeOK, CursorIsPast
  <2>4. Ring!TypeOK'
    BY <1>1, <1>3, <2>1, <2>2 DEF RingInv, Ring!TypeOK, Ring!Acknowledged
  <2>5. RingIsTrue'
    BY <1>1, <2>1 DEF RingInv, RingIsTrue
  <2>6. Ordered(events, sequence)' /\ CursorIsPast'
    BY <1>1, <2>1 DEF RingInv, CursorIsPast, Ordered
  <2>7. ASSUME Ring!ReadAfter(s, c.seq).complete, Len(rows) < ReadLimit, life = c.life,
               NEW e \in Ring!After(c)
        PROVE  \E i \in 1..Len(rows) : rows[i] = e
    <3>1. /\ e \in happened /\ e.life = life /\ e.seq > c.seq /\ e.seq \in 1..sequence
          /\ Holds(events, sequence, e)
      BY <2>7 DEF Ring!After, RingInv, RingIsTrue
    <3>2. c.seq >= (IF s = <<>> THEN sequence + 1 ELSE s[1].seq) - 1
      BY <2>7 DEF Ring!ReadAfter, Ring!Oldest
    <3>3. s # <<>> /\ Len(s) >= 1
      BY <1>1, <2>2, <2>3, <3>1, <3>2, RingIsTyped, EmptySeq
    <3>4. c.seq >= sequence - Len(s)
      BY <2>2, <3>2, <3>3, RingIsTyped
    <3> DEFINE j == e.seq - (sequence - Len(s))
    <3>5. j \in 1..Len(s) /\ s[j] = e
      BY <2>1, <2>2, <2>3, <3>1, <3>4, RingIsTyped DEF Holds
    <3>6. \A i \in 1..Len(s) : s[i].seq \in Nat
      BY <2>1, RingIsTyped
    <3> HIDE DEF j, s
    <3> QED BY <2>2, <2>3, <2>7, <3>1, <3>5, <3>6, RowsAreAll
  <2>8. Ring!CompleteMissesNone'
    BY <1>1, <1>3, <2>3, <2>7 DEF Ring!CompleteMissesNone, Ring!JustRead, Ring!After,
         Ring!ReadAfter
  <2> QED BY <2>4, <2>5, <2>6, <2>8 DEF RingInv
<1> QED BY <1>2, <1>3 DEF Ring!Read

LEMMA RingNextKeeps ==
  ASSUME Ring!LimitsAreNumbers, RingInv, [Ring!Next]_(Ring!vars) PROVE RingInv'
<1> USE DEF RingInv, Ring!TypeOK, Ordered, RingIsTrue, Holds, CursorIsPast,
    Ring!CompleteMissesNone, Ring!JustRead, Ring!After
<1>1. CASE Ring!Tick
  BY <1>1, RingIsTyped DEF Ring!Tick, Ring!host, Ring!LimitsAreNumbers
<1>2. CASE Ring!Restart
  <2>1. events' \in Seq(Ring!Event) /\ Len(events') = 0
    BY <1>2, EmptySeq DEF Ring!Restart
  <2> QED BY <1>2, <2>1, RingIsTyped DEF Ring!Restart, Ring!host, Ring!LimitsAreNumbers
<1>3. CASE Ring!TakeCursor
  BY <1>3, RingIsTyped DEF Ring!TakeCursor, Ring!phone
<1>4. CASE Ring!Dispatch
  BY <1>4, RingIsTyped DEF Ring!Dispatch, Ring!phone
<1>5. CASE UNCHANGED Ring!vars
  BY <1>5 DEF Ring!vars, Ring!phone, Ring!host
<1> QED BY <1>1, <1>2, <1>3, <1>4, <1>5, RecordKeeps, ReadKeeps DEF Ring!Next

LEMMA RingHolds == ASSUME Ring!LimitsAreNumbers PROVE Ring!Spec => []RingInv
<1>1. Ring!Init => RingInv
  BY RingInitHolds
<1>2. RingInv /\ [Ring!Next]_(Ring!vars) => RingInv'
  BY RingNextKeeps
<1> QED BY <1>1, <1>2, PTL DEF Ring!Spec

(* A read of the interactions that says it is complete, and is not cut off, has *)
(* every event since the cursor: readAfter of InteractionEventRing.kt.        *)
THEOREM ReadMissesNone ==
  ASSUME Ring!LimitsAreNumbers PROVE Ring!Spec => []Ring!CompleteMissesNone
<1>1. RingInv => Ring!CompleteMissesNone
  BY DEF RingInv
<1> QED BY <1>1, RingHolds, PTL

-----------------------------------------------------------------------------
(* The lease of the screen (ScreenLease).  First what is of its types and what    *)
(* keeps it bright, then what the order of its requests keeps.                  *)
Request == [op : {"acquire", "again", "renew", "release"}, id : Screen!Session, awaited : BOOLEAN]

WireIsSequence == wire \in Seq(Request)

(* One lock of each kind at most, and no other than the lease's and the ones  *)
(* that a renewal has yet to give back; without a lease there is none.        *)
LocksAgree ==
  /\ \A k, l \in locks : k.lock = l.lock => k = l
  /\ \A l \in locks : l.lock = mine \/ l.lock \in replaced
  /\ lease = 0 => locks = {} /\ replaced = {}

(* The lock of a lease lasts longer than the lease. *)
LockOutlasts == lease # 0 /\ left > 0 => \E l \in locks : l.lock = mine /\ l.left > left

SessionHasBegun == screenPc # "idle" => session # 0

(* TypeOK but for what follows from the parts above. *)
LeaseScalars ==
  /\ lease \in {0} \union Screen!Session /\ left \in 0..TTL /\ mine \in {0, 1}
  /\ locks \subseteq [lock : {0, 1}, left : 1..TTL + Margin]
  /\ replaced \subseteq {0, 1} \ {mine}
  /\ timers \subseteq [id : Screen!Session, left : 0..TTL]
  /\ Len(wire) <= MaxWire
  /\ reply \subseteq [state : {"active", "error", "stale", "released"},
                      holder : {0} \union Screen!Session]
  /\ session \in {0} \union Screen!Session /\ released \in BOOLEAN
  /\ screenPc \in {"idle", "beginning", "active", "renewing", "reacquiring", "failed", "ending"}

LeaseInv == LeaseScalars /\ WireIsSequence /\ LocksAgree /\ LockOutlasts /\ SessionHasBegun

(* Only the last request is waited for; it is what the host is doing.          *)
AwaitedIsLast ==
  \A i \in 1..Len(wire) :
    wire[i].awaited =>
      i = Len(wire) /\ screenPc \in DOMAIN Screen!Asks /\ wire[i].op = Screen!Asks[screenPc]
      /\ wire[i].id = session

(* A reply is that of the last request, behind which none is on its way, and   *)
(* what it says of there being no lease is still so.                         *)
ReplyIsLatest ==
  /\ reply # {} => wire = <<>> /\ screenPc \in DOMAIN Screen!Asks
  /\ \A r \in reply : r.state = "released" \/ (r.state = "stale" /\ r.holder = 0) => lease = 0

(* Who was told that its lease is released has none, and no request under way. *)
ReleasedIsQuiet == released => screenPc = "idle" /\ lease = 0 /\ wire = <<>>

(* A session that asks again found no lease; until it is answered no other     *)
(* request is in front, so that the lease can only have become its own.       *)
AgainIsFirst ==
  /\ \A i \in 1..Len(wire) :
       wire[i].op = "again" =>
         /\ lease \in {0, wire[i].id}
         /\ \A j \in 1..i : wire[j].op = "again" /\ wire[j].id = wire[i].id
  /\ screenPc = "reacquiring" =>
       /\ lease \in {0, session}
       /\ \A j \in 1..Len(wire) : wire[j].op = "again" /\ wire[j].id = session

OrderInv == AwaitedIsLast /\ ReplyIsLatest /\ ReleasedIsQuiet /\ AgainIsFirst

(* A request is taken off the wire: those behind it move up. *)
LEMMA WithoutIs ==
  ASSUME WireIsSequence, NEW i \in 1..Len(wire), wire' = Screen!Without(i)
  PROVE  /\ wire' \in Seq(Request) /\ Len(wire) \in Nat /\ Len(wire') = Len(wire) - 1
         /\ \A j \in 1..Len(wire') : wire'[j] = wire[IF j < i THEN j ELSE j + 1]
<1> DEFINE a == SubSeq(wire, 1, i - 1)
           b == SubSeq(wire, i + 1, Len(wire))
<1>1. wire \in Seq(Request) /\ Len(wire) \in Nat /\ i \in Nat /\ 1 <= i /\ i <= Len(wire)
  BY LenProperties DEF WireIsSequence
<1>2. a \in Seq(Request) /\ Len(a) = i - 1 /\ \A j \in 1..i - 1 : a[j] = wire[j]
  BY <1>1, SubSeqProperties
<1>3. /\ b \in Seq(Request) /\ Len(b) = Len(wire) - i
      /\ \A j \in 1..Len(wire) - i : b[j] = wire[j + i]
  BY <1>1, SubSeqProperties
<1> HIDE DEF a, b
<1>4. /\ a \o b \in Seq(Request) /\ Len(a \o b) = Len(a) + Len(b)
      /\ \A j \in 1..Len(a) + Len(b) :
           (a \o b)[j] = IF j <= Len(a) THEN a[j] ELSE b[j - Len(a)]
  BY <1>2, <1>3, ConcatProperties
<1>6. Len(a) + Len(b) = Len(wire) - 1
  BY <1>1, <1>2, <1>3
<1>5. ASSUME NEW j \in 1..Len(wire) - 1
      PROVE  (a \o b)[j] = wire[IF j < i THEN j ELSE j + 1]
  <2>0. j \in Nat /\ j \in 1..Len(a) + Len(b)
    BY <1>1, <1>6
  <2>1. CASE j < i
    BY <1>1, <1>2, <1>4, <2>0, <2>1
  <2>2. CASE j >= i
    <3>1. j - (i - 1) \in 1..Len(wire) - i /\ (j - (i - 1)) + i = j + 1
      BY <1>1, <2>0, <2>2
    <3> QED BY <1>1, <1>2, <1>3, <1>4, <2>0, <2>2, <3>1
  <2>3. j < i \/ j >= i
    BY <1>1, <2>0
  <2> QED BY <2>1, <2>2, <2>3
<1> QED BY <1>1, <1>4, <1>5, <1>6 DEF Screen!Without, a, b

(* What was sent is only not waited for any more. *)
LEMMA AbandonedIs ==
  ASSUME WireIsSequence
  PROVE  /\ Screen!Abandoned \in Seq(Request) /\ Len(wire) \in Nat
         /\ Len(Screen!Abandoned) = Len(wire)
         /\ \A j \in 1..Len(wire) :
              /\ Screen!Abandoned[j].op = wire[j].op /\ Screen!Abandoned[j].id = wire[j].id
              /\ Screen!Abandoned[j].awaited = FALSE
<1>1. Len(wire) \in Nat /\ \A j \in 1..Len(wire) : wire[j] \in Request
  BY LenProperties, ElementOfSeq DEF WireIsSequence
<1>2. \A j \in 1..Len(wire) : /\ [wire[j] EXCEPT !.awaited = FALSE] \in Request
                              /\ [wire[j] EXCEPT !.awaited = FALSE].op = wire[j].op
                              /\ [wire[j] EXCEPT !.awaited = FALSE].id = wire[j].id
                              /\ [wire[j] EXCEPT !.awaited = FALSE].awaited = FALSE
  BY <1>1 DEF Request
<1>3. Screen!Abandoned \in [1..Len(wire) -> Request]
  BY <1>2 DEF Screen!Abandoned
<1>4. Screen!Abandoned \in Seq(Request) /\ Len(Screen!Abandoned) = Len(wire)
  BY <1>1, <1>3
<1> QED BY <1>1, <1>2, <1>4 DEF Screen!Abandoned

LEMMA SentIs ==
  ASSUME Screen!PeriodsAreNumbers, WireIsSequence, NEW op \in {"acquire", "again", "renew",
                                                               "release"},
         NEW id \in Screen!Session, Screen!Send(op, id)
  PROVE  /\ wire' \in Seq(Request) /\ Len(wire) \in Nat /\ Len(wire') = Len(wire) + 1
         /\ Len(wire') <= MaxWire /\ reply' = {}
         /\ wire'[Len(wire')] = [op |-> op, id |-> id, awaited |-> TRUE]
         /\ \A j \in 1..Len(wire) :
              wire'[j].op = wire[j].op /\ wire'[j].id = wire[j].id /\ wire'[j].awaited = FALSE
<1> DEFINE new == [op |-> op, id |-> id, awaited |-> TRUE]
<1>1. new \in Request
  BY DEF Request
<1>2. wire' = Append(Screen!Abandoned, new) /\ reply' = {} /\ Len(wire) < MaxWire
  BY DEF Screen!Send
<1>3. /\ Screen!Abandoned \in Seq(Request) /\ Len(wire) \in Nat
      /\ Len(Screen!Abandoned) = Len(wire)
      /\ \A j \in 1..Len(wire) :
           /\ Screen!Abandoned[j].op = wire[j].op /\ Screen!Abandoned[j].id = wire[j].id
           /\ Screen!Abandoned[j].awaited = FALSE
  BY AbandonedIs
<1> HIDE DEF new
<1>4. /\ wire' \in Seq(Request) /\ Len(wire') = Len(wire) + 1 /\ wire'[Len(wire) + 1] = new
      /\ \A j \in 1..Len(wire) : wire'[j] = Screen!Abandoned[j]
  BY <1>1, <1>2, <1>3, AppendProperties
<1> QED BY <1>2, <1>3, <1>4 DEF new, Screen!PeriodsAreNumbers

(* At most two different locks are held. *)
LEMMA TwoLocks ==
  ASSUME LeaseInv
  PROVE  Cardinality(locks) <= 2
<1> DEFINE zero == CHOOSE l \in locks : l.lock = 0
           one == CHOOSE l \in locks : l.lock = 1
<1>1. \A l \in locks : l.lock \in {0, 1}
  BY DEF LeaseInv, LeaseScalars
<1>2. locks \subseteq {zero} \union {one}
  <2> SUFFICES ASSUME NEW l \in locks PROVE l \in {zero, one}
    OBVIOUS
  <2>1. CASE l.lock = 0
    <3>1. zero \in locks /\ zero.lock = 0
      BY <2>1
    <3> QED BY <2>1, <3>1 DEF LeaseInv, LocksAgree
  <2>2. CASE l.lock = 1
    <3>1. one \in locks /\ one.lock = 1
      BY <2>2
    <3> QED BY <2>2, <3>1 DEF LeaseInv, LocksAgree
  <2> QED BY <1>1, <2>1, <2>2
<1> HIDE DEF zero, one
<1>3. IsFiniteSet({zero}) /\ Cardinality({zero}) = 1
  BY FS_Singleton
<1>4. /\ IsFiniteSet({zero} \union {one})
      /\ Cardinality({zero} \union {one}) \in {1, 2}
  BY <1>3, FS_AddElement
<1>5. IsFiniteSet(locks) /\ Cardinality(locks) <= Cardinality({zero} \union {one})
  BY <1>2, <1>4, FS_Subset
<1>6. Cardinality(locks) \in Nat
  BY <1>5, FS_CardinalityType
<1> QED BY <1>4, <1>5, <1>6

LEMMA LeaseTypes == LeaseInv => Screen!TypeOK
<1> SUFFICES ASSUME LeaseInv PROVE Screen!TypeOK
  OBVIOUS
<1>1. \A i \in 1..Len(wire) : wire[i] \in Request
  BY ElementOfSeq DEF LeaseInv, WireIsSequence
<1>2. \A i \in 1..Len(wire) :
        wire[i] \in [op : {"acquire", "again", "renew", "release"}, id : Screen!Session,
                    awaited : BOOLEAN]
  BY <1>1 DEF Request
<1>3. Cardinality(locks) <= 2
  BY TwoLocks DEF LeaseInv
<1>4. LeaseScalars
  BY DEF LeaseInv
<1>5. Screen!Cardinality(locks) <= 2
  BY <1>3 DEF Cardinality, Screen!Cardinality
<1> QED BY <1>2, <1>4, <1>5 DEF LeaseScalars, Screen!TypeOK

LEMMA LeaseInitHolds ==
  ASSUME Screen!PeriodsAreNumbers, Screen!Init
  PROVE  LeaseInv
<1>1. <<>> \in Seq(Request) /\ Len(<<>>) = 0
  BY EmptySeq
<1> QED BY <1>1 DEF Screen!Init, LeaseInv, LeaseScalars, WireIsSequence, LocksAgree,
    LockOutlasts, SessionHasBegun, Screen!PeriodsAreNumbers

LEMMA TickKeeps ==
  ASSUME Screen!PeriodsAreNumbers, LeaseInv, Screen!Tick
  PROVE  LeaseInv'
<1> USE DEF LeaseInv
<1> DEFINE Shorter(l) == [l EXCEPT !.left = Screen!Less(l.left)]
<1>1. ASSUME NEW l \in locks, l.left > 1
      PROVE  /\ Shorter(l) \in [lock : {0, 1}, left : 1..TTL + Margin]
             /\ Shorter(l).lock = l.lock /\ Shorter(l).left = l.left - 1
  BY <1>1 DEF LeaseScalars, Screen!Less, Screen!PeriodsAreNumbers
<1>2. \A t \in timers : [t EXCEPT !.left = Screen!Less(t.left)] \in [id : Screen!Session,
      left : 0..TTL]
  BY DEF LeaseScalars, Screen!Less, Screen!PeriodsAreNumbers
<1>3. locks' = {Shorter(l) : l \in {k \in locks : k.left > 1}}
  BY DEF Screen!Tick
<1> HIDE DEF Shorter
<1>4. left' \in 0..TTL /\ (left' > 0 => left > 1 /\ left' = left - 1)
  BY DEF Screen!Tick, Screen!Less, LeaseScalars, Screen!PeriodsAreNumbers
<1>5. LeaseScalars'
  BY <1>1, <1>2, <1>3, <1>4 DEF Screen!Tick, LeaseScalars, Screen!host
<1>6. LocksAgree'
  <2>1. \A k, l \in locks' : k.lock = l.lock => k = l
    BY <1>1, <1>3 DEF LocksAgree
  <2> QED BY <1>1, <1>3, <2>1 DEF LocksAgree, Screen!Tick
<1>7. LockOutlasts'
  <2> SUFFICES ASSUME lease' # 0, left' > 0
               PROVE  \E l \in locks' : l.lock = mine' /\ l.left > left'
    BY DEF LockOutlasts
  <2>1. PICK l \in locks : l.lock = mine /\ l.left > left
    BY <1>4 DEF LockOutlasts, Screen!Tick, LeaseScalars
  <2>2. l.left \in Nat /\ left \in Nat
    BY DEF LeaseScalars, Screen!PeriodsAreNumbers
  <2>3. l.left > 1 /\ l.left - 1 > left'
    BY <1>4, <2>1, <2>2
  <2>4. Shorter(l) \in locks' /\ Shorter(l).lock = mine /\ Shorter(l).left > left'
    BY <1>1, <1>3, <2>1, <2>3
  <2> QED BY <2>4 DEF Screen!Tick
<1> QED BY <1>5, <1>6, <1>7 DEF Screen!Tick, WireIsSequence, SessionHasBegun, Screen!host

LEMMA PhoneKeeps ==
  ASSUME Screen!PeriodsAreNumbers, LeaseInv,
         \/ Screen!PhoneRestarts \/ Screen!ReleasesReplaced
         \/ \E t \in timers : Screen!Expire(t)
  PROVE  LeaseInv'
<1> USE DEF LeaseInv, LeaseScalars, WireIsSequence, LocksAgree, LockOutlasts, SessionHasBegun,
            Screen!host
<1>1. CASE Screen!PhoneRestarts
  <2>1. <<>> \in Seq(Request) /\ Len(<<>>) = 0
    BY EmptySeq
  <2> QED BY <1>1, <2>1 DEF Screen!PhoneRestarts, Screen!PeriodsAreNumbers
<1>2. CASE Screen!ReleasesReplaced
  BY <1>2 DEF Screen!ReleasesReplaced
<1>3. ASSUME NEW t \in timers, Screen!Expire(t)
      PROVE  LeaseInv'
  <2>1. CASE lease = t.id /\ left = t.left
    BY <1>3, <2>1 DEF Screen!Expire, Screen!PeriodsAreNumbers
  <2>2. CASE ~(lease = t.id /\ left = t.left)
    BY <1>3, <2>2 DEF Screen!Expire
  <2> QED BY <2>1, <2>2
<1> QED BY <1>1, <1>2, <1>3

LEMMA TakesIs ==
  ASSUME Screen!PeriodsAreNumbers, LeaseInv, NEW i, NEW state, NEW holder, Screen!Takes(i, state,
                                                                                        holder),
         state \in {"active", "error", "stale", "released"}, holder \in {0} \union Screen!Session
  PROVE  /\ WireIsSequence' /\ Len(wire') <= MaxWire /\ i \in 1..Len(wire)
         /\ replaced = {} /\ wire[i] \in Request
         /\ reply' \subseteq [state : {"active", "error", "stale", "released"},
                              holder : {0} \union Screen!Session]
<1>1. i \in 1..Len(wire) /\ wire' = Screen!Without(i) /\ replaced = {}
  BY DEF Screen!Takes
<1>2. wire' \in Seq(Request) /\ Len(wire) \in Nat /\ Len(wire') = Len(wire) - 1
  BY <1>1, WithoutIs DEF LeaseInv
<1>3. Len(wire') <= MaxWire
  BY <1>2 DEF LeaseInv, LeaseScalars, Screen!PeriodsAreNumbers
<1>4. wire[i] \in Request
  BY <1>1, ElementOfSeq DEF LeaseInv, WireIsSequence
<1>5. reply' \subseteq [state : {"active", "error", "stale", "released"},
                        holder : {0} \union Screen!Session]
  BY DEF Screen!Takes, LeaseInv, LeaseScalars
<1> QED BY <1>1, <1>2, <1>3, <1>4, <1>5 DEF WireIsSequence

LEMMA AcquiredKeeps ==
  ASSUME Screen!PeriodsAreNumbers, LeaseInv, NEW i, Screen!Acquired(i)
  PROVE  LeaseInv'
<1> USE DEF LeaseInv
<1>0. i \in 1..Len(wire) /\ wire[i] \in Request
  BY ElementOfSeq DEF WireIsSequence, Screen!Acquired, Screen!Takes
<1>1. wire[i].id \in Screen!Session /\ wire[i].id # 0
  BY <1>0 DEF Request, Screen!Session
<1>2. /\ WireIsSequence' /\ Len(wire') <= MaxWire /\ replaced = {}
      /\ reply' \subseteq [state : {"active", "error", "stale", "released"},
                           holder : {0} \union Screen!Session]
  BY <1>1, TakesIs DEF Screen!Acquired
<1> DEFINE new == [lock |-> mine', left |-> TTL + Margin]
<1>3. /\ lease' = wire[i].id /\ left' = TTL /\ mine' = 1 - mine
      /\ locks' = locks \union {new}
      /\ replaced' = {l.lock : l \in locks}
      /\ timers' \subseteq timers \union {[id |-> lease', left |-> TTL]}
      /\ UNCHANGED Screen!host
  BY DEF Screen!Acquired
<1>4. mine' \in {0, 1} /\ mine' # mine /\ \A l \in locks : l.lock = mine
  BY <1>2, <1>3 DEF LeaseScalars, LocksAgree
<1>5. new \in [lock : {0, 1}, left : 1..TTL + Margin] /\ new.lock = mine' /\ new.left > TTL
  BY <1>4 DEF Screen!PeriodsAreNumbers
<1>6. [id |-> lease', left |-> TTL] \in [id : Screen!Session, left : 0..TTL]
  BY <1>1, <1>3 DEF Screen!PeriodsAreNumbers
<1> HIDE DEF new
<1>7. LeaseScalars'
  <2>1. left' \in 0..TTL
    BY <1>3 DEF Screen!PeriodsAreNumbers
  <2>2. replaced' \subseteq {0, 1} \ {mine'}
    BY <1>3, <1>4 DEF LeaseScalars
  <2>3. locks' \subseteq [lock : {0, 1}, left : 1..TTL + Margin]
    BY <1>3, <1>5 DEF LeaseScalars
  <2>4. timers' \subseteq [id : Screen!Session, left : 0..TTL]
    BY <1>3, <1>6 DEF LeaseScalars
  <2> QED BY <1>1, <1>2, <1>3, <1>4, <2>1, <2>2, <2>3, <2>4 DEF LeaseScalars, Screen!host
<1>8. LocksAgree'
  <2>1. \A k, l \in locks' : k.lock = l.lock => k = l
    BY <1>3, <1>4, <1>5 DEF LocksAgree
  <2>2. \A l \in locks' : l.lock = mine' \/ l.lock \in replaced'
    BY <1>3, <1>5
  <2> QED BY <1>1, <1>3, <2>1, <2>2 DEF LocksAgree
<1>9. LockOutlasts' /\ SessionHasBegun'
  BY <1>3, <1>5 DEF LockOutlasts, SessionHasBegun, Screen!host
<1> QED BY <1>2, <1>7, <1>8, <1>9

LEMMA ControllerKeeps ==
  ASSUME Screen!PeriodsAreNumbers, LeaseInv, NEW i \in 1..Len(wire), Screen!Controller(i)
           \/ Screen!Lost(i)
  PROVE  LeaseInv'
<1>1. lease \in {0} \union Screen!Session
  BY DEF LeaseInv, LeaseScalars
<1>2. CASE Screen!AcquireFails(i) \/ Screen!RenewIsStale(i)
  <2>1. /\ WireIsSequence' /\ Len(wire') <= MaxWire
        /\ reply' \subseteq [state : {"active", "error", "stale", "released"},
                             holder : {0} \union Screen!Session]
    BY <1>1, <1>2, TakesIs DEF Screen!AcquireFails, Screen!RenewIsStale
  <2> QED BY <1>2, <2>1 DEF Screen!AcquireFails, Screen!RenewIsStale, LeaseInv, LeaseScalars,
      LocksAgree, LockOutlasts, SessionHasBegun, Screen!phone, Screen!host
<1>3. CASE Screen!Released(i)
  <2>1. /\ WireIsSequence' /\ Len(wire') <= MaxWire /\ replaced = {}
        /\ reply' \subseteq [state : {"active", "error", "stale", "released"},
                             holder : {0} \union Screen!Session]
    BY <1>1, <1>3, TakesIs DEF Screen!Released
  <2>2. CASE lease = wire[i].id
    <3>1. lease' = 0 /\ left' = 0 /\ locks' = {} /\ timers' \subseteq timers
      BY <1>3, <2>2 DEF Screen!Released, Screen!Cancelled
    <3> QED BY <1>3, <2>1, <3>1 DEF Screen!Released, LeaseInv, LeaseScalars, LocksAgree,
        LockOutlasts, SessionHasBegun, Screen!host, Screen!PeriodsAreNumbers
  <2>3. CASE lease # wire[i].id
    BY <1>3, <2>1, <2>3 DEF Screen!Released, LeaseInv, LeaseScalars, LocksAgree, LockOutlasts,
        SessionHasBegun, Screen!host
  <2> QED BY <2>2, <2>3
<1>4. CASE Screen!Lost(i)
  <2>1. wire' \in Seq(Request) /\ Len(wire) \in Nat /\ Len(wire') = Len(wire) - 1
    BY <1>4, WithoutIs DEF LeaseInv, Screen!Lost
  <2>2. Len(wire') <= MaxWire
    BY <2>1 DEF LeaseInv, LeaseScalars, Screen!PeriodsAreNumbers
  <2> QED BY <1>4, <2>1, <2>2 DEF Screen!Lost, LeaseInv, LeaseScalars, WireIsSequence,
      LocksAgree, LockOutlasts, SessionHasBegun, Screen!phone, Screen!host
<1> QED BY <1>2, <1>3, <1>4, AcquiredKeeps DEF Screen!Controller

(* The host's steps leave the phone alone. *)
LEMMA SendsKeep ==
  ASSUME Screen!PeriodsAreNumbers, LeaseInv,
         Screen!Begin \/ Screen!Retry \/ Screen!Renew \/ Screen!End \/ Screen!Renewed
  PROVE  LeaseInv'
<1> USE DEF LeaseInv
<1>1. screenPc # "idle" => session \in Screen!Session
  BY DEF LeaseScalars, SessionHasBegun
<1>2. ASSUME NEW op \in {"acquire", "again", "renew", "release"}, NEW id \in Screen!Session,
             Screen!Send(op, id), UNCHANGED Screen!phone, SessionHasBegun',
             session' \in {0} \union Screen!Session /\ released' \in BOOLEAN,
             screenPc' \in {"beginning", "active", "renewing", "reacquiring", "ending"}
      PROVE  LeaseInv'
  <2>1. wire' \in Seq(Request) /\ Len(wire') <= MaxWire /\ reply' = {}
    BY <1>2, SentIs
  <2> QED BY <1>2, <2>1 DEF LeaseScalars, WireIsSequence, LocksAgree, LockOutlasts, Screen!phone
<1>3. CASE Screen!Begin
  <2>1. session' \in Screen!Session /\ session' # 0
    BY <1>3 DEF Screen!Begin, Screen!Session, LeaseScalars, Screen!PeriodsAreNumbers
  <2>2. Screen!Send("acquire", session') /\ UNCHANGED Screen!phone /\ released' = FALSE
        /\ screenPc' = "beginning"
    BY <1>3 DEF Screen!Begin
  <2> QED BY <1>2, <2>1, <2>2 DEF SessionHasBegun
<1>4. CASE Screen!Retry
  <2>1. screenPc \in DOMAIN Screen!Asks /\ Screen!Send(Screen!Asks[screenPc], session)
        /\ UNCHANGED Screen!phone /\ UNCHANGED Screen!host
    BY <1>4 DEF Screen!Retry
  <2>2. /\ Screen!Asks[screenPc] \in {"acquire", "again", "renew", "release"}
        /\ screenPc \in {"beginning", "renewing", "reacquiring", "ending"}
    BY <2>1 DEF Screen!Asks
  <2> QED BY <1>1, <1>2, <2>1, <2>2 DEF SessionHasBegun, Screen!host, LeaseScalars
<1>5. CASE Screen!Renew
  <2>1. Screen!Send("renew", session) /\ UNCHANGED Screen!phone /\ screenPc = "active"
        /\ screenPc' = "renewing"
        /\ UNCHANGED <<session, released>>
    BY <1>5 DEF Screen!Renew, Screen!Goes
  <2> QED BY <1>1, <1>2, <2>1 DEF SessionHasBegun, LeaseScalars
<1>6. CASE Screen!End
  <2>1. Screen!Send("release", session) /\ UNCHANGED Screen!phone /\ screenPc # "idle"
        /\ screenPc' = "ending"
        /\ UNCHANGED <<session, released>>
    BY <1>6 DEF Screen!End, Screen!Goes
  <2> QED BY <1>1, <1>2, <2>1 DEF SessionHasBegun, LeaseScalars
<1>7. CASE Screen!Renewed
  <2>1. screenPc # "idle" /\ UNCHANGED Screen!phone /\ UNCHANGED <<session, released>>
    BY <1>7 DEF Screen!Renewed, Screen!Goes
  <2>2. CASE Screen!Send("again", session) /\ screenPc' = "reacquiring"
    BY <1>1, <1>2, <2>1, <2>2 DEF SessionHasBegun, LeaseScalars
  <2>3. CASE reply' = {} /\ screenPc' = "active" /\ UNCHANGED wire
    BY <1>1, <2>1, <2>3 DEF SessionHasBegun, LeaseScalars, WireIsSequence, LocksAgree,
        LockOutlasts, Screen!phone, Screen!Session
  <2> QED BY <1>7, <2>2, <2>3 DEF Screen!Renewed, Screen!Goes
<1> QED BY <1>3, <1>4, <1>5, <1>6, <1>7

LEMMA HostKeeps ==
  ASSUME Screen!PeriodsAreNumbers, LeaseInv,
         Screen!Begun \/ Screen!GivesUp \/ Screen!StopsRenewing \/ Screen!Ended
           \/ Screen!HostCrashes
  PROVE  LeaseInv'
<1> USE DEF LeaseInv
<1>1. /\ UNCHANGED Screen!phone /\ session' = session /\ screenPc # "idle"
      /\ reply' \subseteq reply /\ (wire' = wire \/ wire' = Screen!Abandoned)
      /\ screenPc' \in {"idle", "active", "failed"} /\ released' \in BOOLEAN
  BY DEF Screen!Begun, Screen!GivesUp, Screen!StopsRenewing, Screen!Ended, Screen!HostCrashes,
         Screen!Goes, Screen!Asks, LeaseScalars
<1>2. WireIsSequence' /\ Len(wire') <= MaxWire
  BY <1>1, AbandonedIs DEF WireIsSequence, LeaseScalars
<1> QED BY <1>1, <1>2 DEF LeaseScalars, LocksAgree, LockOutlasts, SessionHasBegun, Screen!phone

LEMMA LeaseStepKeeps ==
  ASSUME Screen!PeriodsAreNumbers, LeaseInv, [Screen!Next]_(Screen!vars)
  PROVE  LeaseInv'
<1>1. CASE UNCHANGED Screen!vars
  BY <1>1 DEF Screen!vars, Screen!phone, Screen!host, LeaseInv, LeaseScalars, WireIsSequence,
              LocksAgree, LockOutlasts, SessionHasBegun
<1>2. CASE Screen!Next
  BY <1>2, TickKeeps, PhoneKeeps, ControllerKeeps, SendsKeep, HostKeeps DEF Screen!Next
<1> QED BY <1>1, <1>2

LEMMA LeaseHolds == Screen!PeriodsAreNumbers => (Screen!Spec => []LeaseInv)
<1> SUFFICES ASSUME Screen!PeriodsAreNumbers PROVE Screen!Spec => []LeaseInv
  OBVIOUS
<1>1. Screen!Init => LeaseInv
  BY LeaseInitHolds
<1>2. LeaseInv /\ [Screen!Next]_(Screen!vars) => LeaseInv'
  BY LeaseStepKeeps
<1> QED BY <1>1, <1>2, PTL DEF Screen!Spec

LEMMA OrderInitHolds == Screen!Init => OrderInv
<1> SUFFICES ASSUME Screen!Init PROVE OrderInv
  OBVIOUS
<1>1. Len(wire) = 0 /\ screenPc = "idle" /\ reply = {} /\ lease = 0 /\ wire = <<>>
  BY EmptySeq DEF Screen!Init
<1> QED BY <1>1 DEF OrderInv, AwaitedIsLast, ReplyIsLatest, ReleasedIsQuiet, AgainIsFirst

(* Requests are lost, or all of them, and the lease may end. *)
LEMMA NothingKeepsOrder ==
  ASSUME LeaseInv, OrderInv, lease' \in {0, lease}, wire' = wire \/ wire' = <<>>,
         UNCHANGED <<reply, Screen!host>>
  PROVE  OrderInv'
<1> USE DEF OrderInv, AwaitedIsLast, ReplyIsLatest, ReleasedIsQuiet, AgainIsFirst, Screen!host
<1>1. CASE wire' = wire
  BY <1>1
<1>2. CASE wire' = <<>>
  <2>1. Len(wire') = 0
    BY <1>2, EmptySeq
  <2> QED BY <1>2, <2>1
<1> QED BY <1>1, <1>2

(* What is left after one request was taken keeps its order. *)
LEMMA LeftKeepsOrder ==
  ASSUME LeaseInv, OrderInv, NEW i \in 1..Len(wire), wire' = Screen!Without(i),
         UNCHANGED Screen!host
  PROVE  /\ AwaitedIsLast' /\ ~released /\ reply = {}
         /\ \A j \in 1..Len(wire') :
              wire'[j].op = "again" =>
                \A k \in 1..j : wire'[k].op = "again" /\ wire'[k].id = wire'[j].id
         /\ \A j \in 1..Len(wire') :
              wire'[j].op = "again" => lease \in {0, wire'[j].id} /\ wire'[j].id = wire[1].id
         /\ screenPc = "reacquiring" =>
              /\ wire[1].id = session
              /\ \A j \in 1..Len(wire') : wire'[j].op = "again" /\ wire'[j].id = session
<1>1. /\ Len(wire) \in Nat /\ Len(wire') = Len(wire) - 1
      /\ \A j \in 1..Len(wire') : wire'[j] = wire[IF j < i THEN j ELSE j + 1]
  BY WithoutIs DEF LeaseInv
<1>2. \A j \in 1..Len(wire') : /\ (IF j < i THEN j ELSE j + 1) \in 1..Len(wire)
                               /\ (IF j < i THEN j ELSE j + 1) = Len(wire) => j = Len(wire')
  BY <1>1
<1>3. AwaitedIsLast'
  BY <1>1, <1>2 DEF OrderInv, AwaitedIsLast, Screen!host
<1>4. wire # <<>>
  BY <1>1, EmptySeq
<1>5. 1 \in 1..Len(wire)
  BY <1>1
<1>6. ASSUME NEW j \in 1..Len(wire'), wire'[j].op = "again"
      PROVE  /\ lease \in {0, wire'[j].id} /\ wire'[j].id = wire[1].id
             /\ \A k \in 1..j : wire'[k].op = "again" /\ wire'[k].id = wire'[j].id
  <2> DEFINE m == IF j < i THEN j ELSE j + 1
  <2>1. m \in 1..Len(wire) /\ wire'[j] = wire[m] /\ j <= m
    BY <1>1, <1>2
  <2>2. /\ lease \in {0, wire[m].id}
        /\ \A k \in 1..m : wire[k].op = "again" /\ wire[k].id = wire[m].id
    BY <1>6, <2>1 DEF OrderInv, AgainIsFirst
  <2>3. \A k \in 1..j : /\ k \in 1..Len(wire') /\ (IF k < i THEN k ELSE k + 1) \in 1..m
                        /\ wire'[k] = wire[IF k < i THEN k ELSE k + 1]
    BY <1>1, <2>1
  <2>4. 1 \in 1..m
    BY <2>1
  <2> HIDE DEF m
  <2> QED BY <2>1, <2>2, <2>3, <2>4
<1>7. ASSUME screenPc = "reacquiring"
      PROVE  /\ wire[1].id = session
             /\ \A j \in 1..Len(wire') : wire'[j].op = "again" /\ wire'[j].id = session
  <2>1. \A j \in 1..Len(wire) : wire[j].op = "again" /\ wire[j].id = session
    BY <1>7 DEF OrderInv, AgainIsFirst
  <2> QED BY <1>1, <1>2, <1>5, <2>1
<1>8. ~released /\ reply = {}
  BY <1>4 DEF OrderInv, ReleasedIsQuiet, ReplyIsLatest
<1> QED BY <1>3, <1>6, <1>7, <1>8

LEMMA LostKeepsOrder ==
  ASSUME LeaseInv, OrderInv, NEW i, Screen!Lost(i)
  PROVE  OrderInv'
<1>1. i \in 1..Len(wire) /\ wire' = Screen!Without(i) /\ UNCHANGED <<lease, reply, Screen!host>>
  BY DEF Screen!Lost, Screen!phone
<1> QED BY <1>1, LeftKeepsOrder DEF OrderInv, ReplyIsLatest, ReleasedIsQuiet, AgainIsFirst,
    Screen!host

(* A request is answered, which may make its own session the holder. *)
LEMMA TakesKeepsOrder ==
  ASSUME ~Late, LeaseInv, OrderInv, NEW i, NEW state, NEW holder, Screen!Takes(i, state, holder),
         lease' \in {0, lease, wire[1].id}, UNCHANGED Screen!host,
         state = "released" \/ (state = "stale" /\ holder = 0) => lease' = 0
  PROVE  OrderInv'
<1>1. i = 1 /\ 1 \in 1..Len(wire) /\ wire' = Screen!Without(1)
  BY DEF Screen!Takes
<1>2. Len(wire) \in Nat /\ Len(wire') = Len(wire) - 1
  BY <1>1, WithoutIs DEF LeaseInv
<1>3. ReplyIsLatest'
  <2>1. CASE wire[1].awaited
    <3>1. Len(wire') = 0 /\ screenPc \in DOMAIN Screen!Asks
      BY <1>1, <1>2, <2>1 DEF OrderInv, AwaitedIsLast
    <3>2. wire' = <<>>
      BY <1>1, <3>1, WithoutIs, EmptySeq DEF LeaseInv
    <3>3. reply' = {[state |-> state, holder |-> holder]}
      BY <1>1, <2>1 DEF Screen!Takes
    <3> QED BY <3>1, <3>2, <3>3 DEF ReplyIsLatest, Screen!host
  <2>2. CASE ~wire[1].awaited
    <3>1. reply' = {}
      BY <1>1, <2>2, LeftKeepsOrder DEF Screen!Takes
    <3> QED BY <3>1 DEF ReplyIsLatest
  <2> QED BY <2>1, <2>2
<1>4. AwaitedIsLast' /\ ReleasedIsQuiet'
  BY <1>1, LeftKeepsOrder DEF ReleasedIsQuiet, Screen!host
<1>5. AgainIsFirst'
  <2>1. \A j \in 1..Len(wire') : wire'[j].op = "again" => lease' \in {0, wire'[j].id}
    BY <1>1, LeftKeepsOrder
  <2>2. screenPc' = "reacquiring" => lease' \in {0, session'}
    BY <1>1, LeftKeepsOrder DEF OrderInv, AgainIsFirst, Screen!host
  <2> QED BY <1>1, <2>1, <2>2, LeftKeepsOrder DEF AgainIsFirst, Screen!host
<1> QED BY <1>3, <1>4, <1>5 DEF OrderInv

LEMMA ControllerKeepsOrder ==
  ASSUME ~Late, LeaseInv, OrderInv, NEW i, Screen!Controller(i)
  PROVE  OrderInv'
<1>1. CASE Screen!Acquired(i)
  <2>1. Screen!Takes(i, "active", wire[i].id) /\ lease' = wire[i].id /\ i = 1
        /\ UNCHANGED Screen!host
    BY <1>1 DEF Screen!Acquired, Screen!Takes
  <2> QED BY <2>1, TakesKeepsOrder
<1>2. CASE Screen!AcquireFails(i)
  BY <1>2, TakesKeepsOrder DEF Screen!AcquireFails, Screen!phone
<1>3. CASE Screen!RenewIsStale(i)
  BY <1>3, TakesKeepsOrder DEF Screen!RenewIsStale, Screen!phone
<1>4. CASE Screen!Released(i)
  <2> DEFINE state == IF lease \in {0, wire[i].id} THEN "released" ELSE "stale"
  <2>1. Screen!Takes(i, state, lease) /\ UNCHANGED Screen!host
          /\ lease' = IF lease = wire[i].id THEN 0 ELSE lease
    BY <1>4 DEF Screen!Released
  <2>2. state = "released" \/ (state = "stale" /\ lease = 0) => lease' = 0
    BY <2>1
  <2> HIDE DEF state
  <2>3. lease' \in {0, lease, wire[1].id}
    BY <2>1
  <2> QED BY <2>1, <2>2, <2>3, TakesKeepsOrder
<1> QED BY <1>1, <1>2, <1>3, <1>4 DEF Screen!Controller

(* The host sends what it does; it asks again only where nothing else is under  *)
(* way and no other session has the lease.                                   *)
LEMMA SendKeepsOrder ==
  ASSUME Screen!PeriodsAreNumbers, LeaseInv, OrderInv, screenPc' \in DOMAIN Screen!Asks,
         session' \in Screen!Session,
         Screen!Send(Screen!Asks[screenPc'], session'), ~released', lease' = lease,
         screenPc' = "reacquiring" =>
           /\ lease \in {0, session'}
           /\ \A j \in 1..Len(wire) : wire[j].op = "again" /\ wire[j].id = session'
  PROVE  OrderInv'
<1>1. /\ Screen!Asks[screenPc'] \in {"acquire", "again", "renew", "release"}
      /\ Screen!Asks[screenPc'] = "again" <=> screenPc' = "reacquiring"
  BY DEF Screen!Asks
<1>2. /\ Len(wire) \in Nat /\ Len(wire') = Len(wire) + 1 /\ reply' = {}
      /\ wire'[Len(wire')] = [op |-> Screen!Asks[screenPc'], id |-> session', awaited |-> TRUE]
      /\ \A j \in 1..Len(wire) :
           wire'[j].op = wire[j].op /\ wire'[j].id = wire[j].id /\ wire'[j].awaited = FALSE
  BY <1>1, SentIs DEF LeaseInv
<1>3. \A j \in 1..Len(wire') : j = Len(wire') \/ j \in 1..Len(wire)
  BY <1>2
<1>4. AwaitedIsLast' /\ ReplyIsLatest' /\ ReleasedIsQuiet'
  BY <1>2, <1>3 DEF AwaitedIsLast, ReplyIsLatest, ReleasedIsQuiet
<1>5. screenPc' = "reacquiring" =>
        \A j \in 1..Len(wire') : wire'[j].op = "again" /\ wire'[j].id = session'
  BY <1>1, <1>2, <1>3
<1>6. ASSUME NEW j \in 1..Len(wire'), wire'[j].op = "again"
      PROVE  /\ lease' \in {0, wire'[j].id}
             /\ \A k \in 1..j : wire'[k].op = "again" /\ wire'[k].id = wire'[j].id
  <2>1. CASE screenPc' = "reacquiring"
    <3>1. \A k \in 1..j : k \in 1..Len(wire')
      BY <1>2
    <3> QED BY <1>5, <2>1, <3>1
  <2>2. CASE screenPc' # "reacquiring"
    <3>1. j \in 1..Len(wire)
      BY <1>1, <1>2, <1>3, <1>6, <2>2
    <3>2. \A k \in 1..j : k \in 1..Len(wire)
      BY <1>2, <3>1
    <3>3. /\ lease \in {0, wire[j].id}
          /\ \A k \in 1..j : wire[k].op = "again" /\ wire[k].id = wire[j].id
      BY <1>2, <1>6, <3>1 DEF OrderInv, AgainIsFirst
    <3> QED BY <1>2, <3>1, <3>2, <3>3
  <2> QED BY <2>1, <2>2
<1> QED BY <1>4, <1>5, <1>6 DEF OrderInv, AgainIsFirst

LEMMA SendsKeepOrder ==
  ASSUME Screen!PeriodsAreNumbers, LeaseInv, OrderInv, Screen!Begin \/ Screen!Retry
           \/ Screen!Renew \/ Screen!End
  PROVE  OrderInv'
<1>1. screenPc # "idle" => session \in Screen!Session /\ ~released
  BY DEF LeaseInv, LeaseScalars, SessionHasBegun, OrderInv, ReleasedIsQuiet
<1>2. CASE Screen!Begin
  <2>1. /\ session' \in Screen!Session /\ screenPc' = "beginning" /\ released' = FALSE
        /\ Screen!Send("acquire", session') /\ lease' = lease
    BY <1>2 DEF Screen!Begin, Screen!Session, LeaseInv, LeaseScalars, Screen!PeriodsAreNumbers,
                Screen!phone
  <2>2. screenPc' \in DOMAIN Screen!Asks /\ Screen!Asks[screenPc'] = "acquire"
    BY <2>1 DEF Screen!Asks
  <2> QED BY <2>1, <2>2, SendKeepsOrder
<1>3. CASE Screen!Retry
  <2>1. /\ screenPc \in DOMAIN Screen!Asks /\ Screen!Send(Screen!Asks[screenPc], session)
        /\ UNCHANGED Screen!host /\ lease' = lease
    BY <1>3 DEF Screen!Retry, Screen!phone
  <2>2. screenPc # "idle"
    BY <2>1 DEF Screen!Asks
  <2> QED BY <1>1, <2>1, <2>2, SendKeepsOrder DEF Screen!host, OrderInv, AgainIsFirst
<1>4. CASE Screen!Renew \/ Screen!End
  <2>1. /\ screenPc # "idle" /\ session' = session /\ released' = released /\ lease' = lease
        /\ \/ Screen!Send("renew", session) /\ screenPc' = "renewing"
           \/ Screen!Send("release", session) /\ screenPc' = "ending"
    BY <1>4 DEF Screen!Renew, Screen!End, Screen!Goes, Screen!phone
  <2>2. screenPc' \in DOMAIN Screen!Asks /\ Screen!Send(Screen!Asks[screenPc'], session')
        /\ screenPc' # "reacquiring"
    BY <2>1 DEF Screen!Asks
  <2> QED BY <1>1, <2>1, <2>2, SendKeepsOrder
<1> QED BY <1>2, <1>3, <1>4

(* The host waits for no reply any more. *)
LEMMA RestsKeepsOrder ==
  ASSUME LeaseInv, OrderInv, screenPc' \notin DOMAIN Screen!Asks, reply' = {}, lease' = lease,
         \/ wire' = Screen!Abandoned
         \/ wire' = wire /\ (wire = <<>> \/ screenPc \notin DOMAIN Screen!Asks),
         released' => screenPc' = "idle" /\ lease = 0 /\ wire' = <<>>
  PROVE  OrderInv'
<1>1. screenPc' # "reacquiring"
  BY DEF Screen!Asks
<1>2. /\ Len(wire') = Len(wire) /\ Len(wire) \in Nat
      /\ \A j \in 1..Len(wire) : wire'[j].op = wire[j].op /\ wire'[j].id = wire[j].id
      /\ \A j \in 1..Len(wire) : ~wire'[j].awaited
  <2>1. CASE wire' = Screen!Abandoned
    BY <2>1, AbandonedIs DEF LeaseInv
  <2>2. CASE wire' = wire /\ wire = <<>>
    BY <2>2, EmptySeq
  <2>3. CASE wire' = wire /\ screenPc \notin DOMAIN Screen!Asks
    BY <2>3, LenProperties DEF LeaseInv, WireIsSequence, OrderInv, AwaitedIsLast
  <2> QED BY <2>1, <2>2, <2>3
<1>3. AwaitedIsLast' /\ ReplyIsLatest' /\ ReleasedIsQuiet'
  BY <1>2 DEF AwaitedIsLast, ReplyIsLatest, ReleasedIsQuiet
<1>4. \A j \in 1..Len(wire) : \A k \in 1..j : k \in 1..Len(wire)
  BY <1>2
<1> QED BY <1>1, <1>2, <1>3, <1>4 DEF OrderInv, AgainIsFirst

LEMMA HostKeepsOrder ==
  ASSUME LeaseInv, OrderInv, Screen!Begun \/ Screen!GivesUp \/ Screen!StopsRenewing
           \/ Screen!Ended \/ Screen!HostCrashes
  PROVE  OrderInv'
<1>1. lease' = lease
  BY DEF Screen!Begun, Screen!GivesUp, Screen!StopsRenewing, Screen!Ended, Screen!HostCrashes,
         Screen!phone
<1>2. screenPc # "idle" => ~released
  BY DEF OrderInv, ReleasedIsQuiet
<1>3. {"active", "failed", "idle"} \cap DOMAIN Screen!Asks = {}
  BY DEF Screen!Asks
<1>4. CASE Screen!Begun
  <2>1. /\ reply # {} /\ reply' = {} /\ wire' = wire /\ screenPc' \in {"active", "failed"}
        /\ screenPc # "idle" /\ released' = released
    BY <1>4 DEF Screen!Begun, Screen!Goes
  <2>2. wire = <<>>
    BY <2>1 DEF OrderInv, ReplyIsLatest
  <2> QED BY <1>1, <1>2, <1>3, <2>1, <2>2, RestsKeepsOrder
<1>5. CASE Screen!GivesUp \/ Screen!HostCrashes
  <2>1. /\ reply' = {} /\ wire' = Screen!Abandoned /\ screenPc' \in {"active", "failed", "idle"}
        /\ screenPc # "idle" /\ released' = released
    BY <1>5 DEF Screen!GivesUp, Screen!HostCrashes, Screen!Goes, Screen!Asks
  <2> QED BY <1>1, <1>2, <1>3, <2>1, RestsKeepsOrder
<1>6. CASE Screen!StopsRenewing
  <2>1. /\ reply' = reply /\ wire' = wire /\ screenPc = "active" /\ screenPc' = "failed"
        /\ released' = released
    BY <1>6 DEF Screen!StopsRenewing, Screen!Goes
  <2>2. screenPc \notin DOMAIN Screen!Asks /\ reply = {}
    BY <1>3, <2>1 DEF OrderInv, ReplyIsLatest
  <2> QED BY <1>1, <1>2, <1>3, <2>1, <2>2, RestsKeepsOrder
<1>7. CASE Screen!Ended
  <2>1. /\ screenPc' = "idle" /\ reply' = {} /\ wire' = wire
        /\ \E r \in reply : released' = (r.state = "released")
    BY <1>7 DEF Screen!Ended
  <2>2. wire = <<>> /\ (released' => lease = 0)
    BY <2>1 DEF OrderInv, ReplyIsLatest
  <2> QED BY <1>1, <1>3, <2>1, <2>2, RestsKeepsOrder
<1> QED BY <1>4, <1>5, <1>6, <1>7

LEMMA RenewedKeepsOrder ==
  ASSUME Screen!PeriodsAreNumbers, LeaseInv, OrderInv, Screen!Renewed
  PROVE  OrderInv'
<1>1. /\ screenPc \in {"renewing", "reacquiring"} /\ UNCHANGED Screen!phone
      /\ \E r \in reply :
           \/ /\ r.state = "stale" /\ r.holder = 0
              /\ Screen!Send("again", session) /\ Screen!Goes("reacquiring")
           \/ reply' = {} /\ Screen!Goes("active") /\ UNCHANGED wire
  BY DEF Screen!Renewed
<1>2. session \in Screen!Session /\ ~released /\ wire = <<>> /\ Len(wire) = 0
  BY <1>1, EmptySeq DEF LeaseInv, LeaseScalars, SessionHasBegun, OrderInv, ReleasedIsQuiet,
      ReplyIsLatest
<1>3. CASE reply' = {} /\ Screen!Goes("active") /\ UNCHANGED wire
  <2>1. screenPc' \notin DOMAIN Screen!Asks
    BY <1>3 DEF Screen!Goes, Screen!Asks
  <2> QED BY <1>1, <1>2, <1>3, <2>1, RestsKeepsOrder DEF Screen!Goes, Screen!phone
<1>4. CASE Screen!Send("again", session) /\ Screen!Goes("reacquiring") /\ lease = 0
  <2>1. screenPc' \in DOMAIN Screen!Asks /\ Screen!Asks[screenPc'] = "again"
        /\ session' = session /\ ~released'
    BY <1>2, <1>4 DEF Screen!Goes, Screen!Asks
  <2> QED BY <1>1, <1>2, <1>4, <2>1, SendKeepsOrder DEF Screen!phone
<1>5. \A r \in reply : r.state = "stale" /\ r.holder = 0 => lease = 0
  BY DEF OrderInv, ReplyIsLatest
<1> QED BY <1>1, <1>3, <1>4, <1>5

LEMMA OrderStepKeeps ==
  ASSUME ~Late, Screen!PeriodsAreNumbers, LeaseInv, OrderInv, [Screen!Next]_(Screen!vars)
  PROVE  OrderInv'
<1>1. CASE UNCHANGED Screen!vars \/ Screen!Tick \/ Screen!ReleasesReplaced \/ Screen!PhoneRestarts
  <2>1. /\ lease' \in {0, lease} /\ (wire' = wire \/ wire' = <<>>)
        /\ UNCHANGED <<reply, Screen!host>>
    BY <1>1 DEF Screen!vars, Screen!phone, Screen!host, Screen!Tick, Screen!ReleasesReplaced,
                Screen!PhoneRestarts
  <2> QED BY <2>1, NothingKeepsOrder
<1>2. ASSUME NEW t \in timers, Screen!Expire(t)
      PROVE  OrderInv'
  <2>1. lease' \in {0, lease} /\ wire' = wire /\ UNCHANGED <<reply, Screen!host>>
    BY <1>2 DEF Screen!Expire
  <2> QED BY <2>1, NothingKeepsOrder
<1> QED BY <1>1, <1>2, LostKeepsOrder, ControllerKeepsOrder, SendsKeepOrder, HostKeepsOrder,
    RenewedKeepsOrder DEF Screen!Next

LEMMA OrderHolds == ~Late /\ Screen!PeriodsAreNumbers => (Screen!Spec => []OrderInv)
<1> SUFFICES ASSUME ~Late, Screen!PeriodsAreNumbers PROVE Screen!Spec => []OrderInv
  OBVIOUS
<1>1. Screen!Init => OrderInv
  BY OrderInitHolds
<1>2. LeaseInv /\ OrderInv /\ [Screen!Next]_(Screen!vars) => OrderInv'
  BY OrderStepKeeps
<1> QED BY <1>1, <1>2, LeaseHolds, PTL DEF Screen!Spec

(* While a lease has time left a wake lock is held for it, in the middle of a   *)
(* renewal too.                                                              *)
LEMMA LeasedStaysBright == Screen!PeriodsAreNumbers => (Screen!Spec => []Screen!LeasedIsBright)
<1> SUFFICES ASSUME Screen!PeriodsAreNumbers PROVE Screen!Spec => []Screen!LeasedIsBright
  OBVIOUS
<1>1. LeaseInv => Screen!LeasedIsBright
  BY DEF LeaseInv, LockOutlasts, Screen!LeasedIsBright
<1> QED BY <1>1, LeaseHolds, PTL

(* Unless requests overtake each other, nothing is held for a host that was    *)
(* told that its lease is released.                                           *)
LEMMA ReleasedStaysDark == ~Late /\ Screen!PeriodsAreNumbers =>
                             (Screen!Spec => []Screen!ReleasedIsDark)
<1> SUFFICES ASSUME ~Late, Screen!PeriodsAreNumbers PROVE Screen!Spec => []Screen!ReleasedIsDark
  OBVIOUS
<1>1. LeaseInv /\ OrderInv => Screen!ReleasedIsDark
  BY DEF LeaseInv, LocksAgree, OrderInv, ReleasedIsQuiet, Screen!ReleasedIsDark
<1> QED BY <1>1, LeaseHolds, OrderHolds, PTL

(* Nor does a session that asks again for its lease take that of a later one.  *)
LEMMA AgainNeverSteals == ~Late /\ Screen!PeriodsAreNumbers => (Screen!Spec => Screen!NeverSteals)
<1> SUFFICES ASSUME ~Late, Screen!PeriodsAreNumbers PROVE Screen!Spec => Screen!NeverSteals
  OBVIOUS
<1> DEFINE Spares ==
      \A i \in 1..Len(wire) : (Screen!Acquired(i) /\ wire[i].op = "again") =>
        lease \in {0, wire[i].id}
<1>1. OrderInv => Spares
  BY DEF OrderInv, AgainIsFirst
<1>2. Screen!NeverSteals <=> [][Spares]_(Screen!vars)
  BY DEF Screen!NeverSteals
<1> HIDE DEF Spares
<1> QED BY <1>1, <1>2, OrderHolds, PTL

-----------------------------------------------------------------------------
(* The sessions of the video stream (StreamSession). *)
(* The types of the session, in the parts that its steps change. *)
FlagsOK == started \in BOOLEAN /\ streamAlive \in BOOLEAN /\ streamClosed \in BOOLEAN

CountsOK ==
  /\ streamGen \in 0..MaxStreamGen /\ idle \in 0..streamGen /\ stops \in 0..MaxStreamGen
  /\ used \in 0..MaxStart /\ conn \in 0..used /\ pump \in 0..used /\ deaths \in 0..MaxDeath

LeasesOK ==
  /\ leases \subseteq Consumer /\ lock \in Consumer \union {"nobody"} /\ open \subseteq 1..used

MadeOK ==
  made \in [1..streamGen -> 1..used] /\ labelled \subseteq (1..streamGen) \X (1..used)

(* A transport that runs is the one the source holds. *)
AliveIsHeld == streamAlive => conn # 0

(* The lock is held over a start, of the newest transport. *)
StartIsNewest == lock # "nobody" =>
  used # 0 /\ streamGen < MaxStreamGen /\ idle = 0 /\ ~streamClosed

(* The timer runs for the generation of now, while there is no lease. *)
TimerIsOfNow == idle # 0 => idle = streamGen /\ leases = {}

(* A generation is stopped once, and it takes a lease to make another. *)
StopsAreFew ==
  /\ ~streamClosed => stops <= streamGen
  /\ started \/ leases # {} \/ idle # 0 => stops < streamGen

(* After the shutdown nobody takes a lease, and what runs has its stop.        *)
ClosedIsStopped ==
  streamClosed =>
    /\ leases = {} /\ ~started /\ idle = 0 /\ stops <= 1
    /\ stops = 0 => conn = 0 /\ ~streamAlive

(* A source that nobody uses has a timer, a stop that was decided, or is being  *)
(* started.                                                                  *)
UnusedIsWatched == conn # 0 /\ leases = {} => idle # 0 \/ stops > 0 \/ lock # "nobody"

SessionInv ==
  /\ FlagsOK /\ CountsOK /\ LeasesOK /\ MadeOK /\ AliveIsHeld /\ StartIsNewest /\ TimerIsOfNow
  /\ StopsAreFew
  /\ ClosedIsStopped /\ UnusedIsWatched

LEMMA SessionInitHolds ==
  ASSUME Stream!BoundsAreNumbers, Stream!ConsumersAreFinite, Stream!Init
  PROVE  SessionInv
<1>0. MaxStart \in Nat /\ MaxDeath \in Nat /\ MaxStreamGen \in Nat
  BY DEF Stream!BoundsAreNumbers
<1>1. FlagsOK /\ CountsOK /\ LeasesOK
  <2>1. FlagsOK
    BY DEF Stream!Init, FlagsOK
  <2>2. CountsOK
    BY <1>0 DEF Stream!Init, CountsOK
  <2>3. LeasesOK
    BY DEF Stream!Init, LeasesOK
  <2> QED BY <2>1, <2>2, <2>3
<1>2. MadeOK
  BY DEF Stream!Init, MadeOK
<1> QED BY <1>1, <1>2 DEF Stream!Init, SessionInv, AliveIsHeld, StartIsNewest, TimerIsOfNow,
    StopsAreFew, ClosedIsStopped, UnusedIsWatched

(* The start of a transport is published: what there was keeps its type. *)
LEMMA PublishedIs ==
  ASSUME FlagsOK, CountsOK, LeasesOK, MadeOK, Stream!BoundsAreNumbers,
         NEW c \in Consumer, NEW t \in 1..used, Stream!Publish(c, t),
         streamGen < MaxStreamGen, used' = used
  PROVE  /\ started' = TRUE /\ streamGen' = streamGen + 1 /\ streamGen' \in 0..MaxStreamGen
         /\ streamGen \in Nat /\ pump' \in 0..used /\ lock' = "nobody"
         /\ leases' = leases \union {c} /\ leases' # {} /\ leases' \subseteq Consumer
         /\ made' \in [1..streamGen' -> 1..used']
         /\ labelled \subseteq (1..streamGen') \X (1..used)
<1>1. streamGen \in Nat /\ MaxStreamGen \in Nat
  BY DEF FlagsOK, CountsOK, LeasesOK, MadeOK, Stream!BoundsAreNumbers
<1>2. made \in Seq(1..used) /\ Len(made) = streamGen
  <2>1. made \in [1..streamGen -> 1..used]
    BY DEF FlagsOK, CountsOK, LeasesOK, MadeOK
  <2>2. made \in Seq(1..used)
    BY <1>1, <2>1, SeqDef
  <2>3. DOMAIN made = 1..streamGen /\ DOMAIN made = 1..Len(made) /\ Len(made) \in Nat
    BY <2>1, <2>2, LenProperties
  <2> QED BY <1>1, <2>2, <2>3
<1>3. made' \in Seq(1..used) /\ Len(made') = streamGen + 1
  BY <1>2, AppendProperties DEF Stream!Publish
<1>4. made' \in [1..streamGen' -> 1..used']
  <2>1. made' \in [1..Len(made') -> 1..used]
    BY <1>3, LenProperties
  <2> QED BY <1>3, <2>1 DEF Stream!Publish
<1>5. streamGen' \in 0..MaxStreamGen /\ 1..streamGen \subseteq 1..streamGen'
  BY <1>1 DEF Stream!Publish
<1>6. labelled \subseteq (1..streamGen') \X (1..used)
  BY <1>5 DEF FlagsOK, CountsOK, LeasesOK, MadeOK
<1>7. pump' \in 0..used
  BY DEF Stream!Publish, FlagsOK, CountsOK, LeasesOK, MadeOK
<1> QED BY <1>1, <1>4, <1>5, <1>6, <1>7 DEF Stream!Publish, FlagsOK, CountsOK, LeasesOK, MadeOK

LEMMA AcquireKeeps ==
  ASSUME Stream!BoundsAreNumbers, Stream!ConsumersAreFinite, SessionInv, NEW c \in Consumer,
         Stream!Acquire(c)
  PROVE  SessionInv'
<1> USE DEF SessionInv
<1>1. /\ lock = "nobody" /\ ~streamClosed /\ streamGen < MaxStreamGen /\ idle' = 0
      /\ UNCHANGED <<stops, streamClosed, labelled, deaths>> /\ c # "nobody"
  BY DEF Stream!Acquire, Stream!Free, Stream!ConsumersAreFinite
<1>2. CASE /\ started /\ streamAlive /\ leases' = leases \union {c}
           /\ UNCHANGED <<lock, started, streamGen, pump, made, Stream!sourceVars>>
  <2>1. (FlagsOK /\ CountsOK /\ LeasesOK /\ MadeOK)'
    <3>1. FlagsOK'
      BY <1>1, <1>2 DEF Stream!sourceVars, FlagsOK
    <3>2. CountsOK'
      BY <1>1, <1>2 DEF Stream!sourceVars, CountsOK
    <3>3. LeasesOK'
      BY <1>1, <1>2 DEF Stream!sourceVars, LeasesOK, CountsOK
    <3>4. MadeOK'
      BY <1>1, <1>2 DEF Stream!sourceVars, MadeOK, CountsOK
    <3> QED BY <3>1, <3>2, <3>3, <3>4
  <2> QED BY <1>1, <1>2, <2>1 DEF AliveIsHeld, StartIsNewest, TimerIsOfNow, StopsAreFew,
      ClosedIsStopped, UnusedIsWatched, Stream!sourceVars
<1>3. CASE ~started /\ streamAlive /\ Stream!Publish(c, conn) /\ UNCHANGED Stream!sourceVars
  <2>1. conn \in 1..used
    BY <1>3 DEF FlagsOK, CountsOK, LeasesOK, MadeOK, AliveIsHeld
  <2>2. /\ started' = TRUE /\ streamGen' = streamGen + 1 /\ streamGen' \in 0..MaxStreamGen
        /\ streamGen \in Nat /\ pump' \in 0..used /\ lock' = "nobody"
        /\ leases' # {} /\ leases' \subseteq Consumer
        /\ made' \in [1..streamGen' -> 1..used'] /\ used' = used
        /\ labelled \subseteq (1..streamGen') \X (1..used)
    BY <1>1, <1>3, <2>1, PublishedIs DEF Stream!sourceVars
  <2>3. (FlagsOK /\ CountsOK /\ LeasesOK /\ MadeOK)'
    <3>1. FlagsOK'
      BY <1>1, <1>3, <2>2 DEF Stream!sourceVars, FlagsOK
    <3>2. CountsOK'
      BY <1>1, <1>3, <2>2 DEF Stream!sourceVars, CountsOK
    <3>3. LeasesOK'
      BY <1>1, <1>3, <2>2 DEF Stream!sourceVars, LeasesOK, CountsOK
    <3>4. MadeOK'
      BY <1>1, <1>3, <2>2 DEF Stream!sourceVars, MadeOK, CountsOK
    <3> QED BY <3>1, <3>2, <3>3, <3>4
  <2>4. stops' < streamGen'
    BY <1>1, <2>2 DEF StopsAreFew, FlagsOK, CountsOK, LeasesOK, MadeOK
  <2>5. AliveIsHeld' /\ conn' # 0
    BY <1>3, <2>1 DEF AliveIsHeld, CountsOK, Stream!sourceVars
  <2>6. StopsAreFew'
    BY <2>4, <2>2, <1>1 DEF StopsAreFew, CountsOK
  <2> QED BY <1>1, <2>2, <2>3, <2>5, <2>6 DEF StartIsNewest, TimerIsOfNow, ClosedIsStopped,
      UnusedIsWatched
<1>4. CASE /\ ~streamAlive /\ used < MaxStart /\ used' = used + 1 /\ conn' = used + 1 /\ lock' = c
           /\ UNCHANGED <<leases, started, streamGen, pump, made, streamAlive, open>>
  <2>1. used \in Nat /\ used' \in 0..MaxStart /\ used' # 0
        /\ 0..used \subseteq 0..used' /\ 1..used \subseteq 1..used'
    BY <1>4 DEF FlagsOK, CountsOK, LeasesOK, MadeOK, Stream!BoundsAreNumbers
  <2>2. /\ made' \in [1..streamGen' -> 1..used'] /\ open' \subseteq 1..used'
        /\ pump' \in 0..used' /\ conn' \in 0..used'
        /\ labelled' \subseteq (1..streamGen') \X (1..used')
    BY <1>1, <1>4, <2>1 DEF FlagsOK, CountsOK, LeasesOK, MadeOK
  <2>3. (FlagsOK /\ CountsOK /\ LeasesOK /\ MadeOK)'
    <3>1. FlagsOK'
      BY <1>1, <1>4, <2>1, <2>2 DEF FlagsOK
    <3>2. CountsOK'
      BY <1>1, <1>4, <2>1, <2>2 DEF CountsOK
    <3>3. LeasesOK'
      BY <1>1, <1>4, <2>1, <2>2 DEF LeasesOK, CountsOK
    <3>4. MadeOK'
      BY <1>1, <1>4, <2>1, <2>2 DEF MadeOK, CountsOK
    <3> QED BY <3>1, <3>2, <3>3, <3>4
  <2> QED BY <1>1, <1>4, <2>1, <2>3 DEF AliveIsHeld, StartIsNewest, TimerIsOfNow, StopsAreFew,
      ClosedIsStopped, UnusedIsWatched
<1> QED BY <1>2, <1>3, <1>4 DEF Stream!Acquire

LEMMA StartKeeps ==
  ASSUME Stream!BoundsAreNumbers, Stream!ConsumersAreFinite, SessionInv, NEW c \in Consumer,
         Stream!StartSucceeds(c) \/ Stream!StartFails(c)
  PROVE  SessionInv'
<1> USE DEF SessionInv
<1>1. lock # "nobody" /\ used # 0 /\ streamGen < MaxStreamGen /\ idle = 0 /\ ~streamClosed
  BY DEF Stream!StartSucceeds, Stream!StartFails, StartIsNewest, Stream!ConsumersAreFinite
<1>2. CASE Stream!StartSucceeds(c)
  <2>1. conn \in 1..used /\ conn' = conn
    BY <1>1, <1>2 DEF Stream!StartSucceeds, FlagsOK, CountsOK, LeasesOK, MadeOK
  <2>2. /\ started' = TRUE /\ streamGen' = streamGen + 1 /\ streamGen' \in 0..MaxStreamGen
        /\ streamGen \in Nat /\ pump' \in 0..used /\ lock' = "nobody"
        /\ leases' # {} /\ leases' \subseteq Consumer
        /\ made' \in [1..streamGen' -> 1..used'] /\ used' = used
        /\ labelled \subseteq (1..streamGen') \X (1..used)
    BY <1>1, <1>2, <2>1, PublishedIs DEF Stream!StartSucceeds
  <2>3. /\ streamAlive' = TRUE /\ open' \subseteq 1..used /\ idle' = 0
        /\ UNCHANGED <<stops, streamClosed, labelled, deaths>>
    BY <1>1, <1>2, <2>1 DEF Stream!StartSucceeds, FlagsOK, CountsOK, LeasesOK, MadeOK
  <2>4. (FlagsOK /\ CountsOK /\ LeasesOK /\ MadeOK)'
    <3>1. FlagsOK'
      BY <2>1, <2>2, <2>3 DEF FlagsOK
    <3>2. CountsOK'
      BY <2>1, <2>2, <2>3 DEF CountsOK
    <3>3. LeasesOK'
      BY <2>1, <2>2, <2>3 DEF LeasesOK, CountsOK
    <3>4. MadeOK'
      BY <2>1, <2>2, <2>3 DEF MadeOK, CountsOK
    <3> QED BY <3>1, <3>2, <3>3, <3>4
  <2>5. stops' < streamGen'
    BY <1>1, <2>2, <2>3 DEF StopsAreFew, FlagsOK, CountsOK, LeasesOK, MadeOK
  <2>6. AliveIsHeld'
    BY <2>1 DEF AliveIsHeld, CountsOK
  <2>7. StopsAreFew'
    BY <2>2, <2>3, <2>5 DEF StopsAreFew, CountsOK
  <2> QED BY <1>1, <2>2, <2>3, <2>4, <2>6, <2>7 DEF StartIsNewest, TimerIsOfNow,
      ClosedIsStopped, UnusedIsWatched
<1>3. CASE Stream!StartFails(c)
  <2>1. (FlagsOK /\ CountsOK /\ LeasesOK /\ MadeOK)'
    <3>1. FlagsOK'
      BY <1>3 DEF Stream!StartFails, FlagsOK
    <3>2. CountsOK'
      BY <1>3 DEF Stream!StartFails, CountsOK
    <3>3. LeasesOK'
      BY <1>3 DEF Stream!StartFails, LeasesOK, CountsOK
    <3>4. MadeOK'
      BY <1>3 DEF Stream!StartFails, MadeOK, CountsOK
    <3> QED BY <3>1, <3>2, <3>3, <3>4
  <2> QED BY <1>1, <1>3, <2>1 DEF Stream!StartFails, AliveIsHeld, StartIsNewest, TimerIsOfNow,
      StopsAreFew, ClosedIsStopped, UnusedIsWatched
<1> QED BY <1>2, <1>3

LEMMA ReleaseKeeps ==
  ASSUME Stream!BoundsAreNumbers, SessionInv, NEW c, Stream!Release(c)
  PROVE  SessionInv'
<1> USE DEF SessionInv
<1>1. /\ lock = "nobody" /\ leases # {} /\ leases' \subseteq leases
      /\ UNCHANGED <<lock, streamGen, made, streamClosed, Stream!sourceVars, labelled, deaths>>
  BY DEF Stream!Release, Stream!Free
<1>2. /\ stops < streamGen /\ stops \in Nat /\ streamGen \in Nat /\ MaxStreamGen \in Nat
      /\ streamGen <= MaxStreamGen /\ ~streamClosed /\ idle = 0
  BY <1>1 DEF StopsAreFew, ClosedIsStopped, CountsOK, TimerIsOfNow, Stream!BoundsAreNumbers
<1>3. CASE leases' # {} /\ UNCHANGED <<idle, started, pump, stops>>
  <2>1. (FlagsOK /\ CountsOK /\ LeasesOK /\ MadeOK)'
  <3>1. FlagsOK'
    BY <1>1, <1>2, <1>3 DEF Stream!sourceVars, FlagsOK
  <3>2. CountsOK'
    BY <1>1, <1>2, <1>3 DEF Stream!sourceVars, CountsOK
  <3>3. LeasesOK'
    BY <1>1, <1>2, <1>3 DEF Stream!sourceVars, LeasesOK, CountsOK
  <3>4. MadeOK'
    BY <1>1, <1>2, <1>3 DEF Stream!sourceVars, MadeOK, CountsOK
  <3> QED BY <3>1, <3>2, <3>3, <3>4
  <2> QED BY <1>1, <1>2, <1>3, <2>1 DEF AliveIsHeld, StartIsNewest, TimerIsOfNow, StopsAreFew,
      ClosedIsStopped, UnusedIsWatched, Stream!sourceVars
<1>4. CASE leases' = {} /\ idle' = streamGen /\ UNCHANGED <<started, pump, stops>>
  <2>1. (FlagsOK /\ CountsOK /\ LeasesOK /\ MadeOK)'
  <3>1. FlagsOK'
    BY <1>1, <1>2, <1>4 DEF Stream!sourceVars, FlagsOK
  <3>2. CountsOK'
    BY <1>1, <1>2, <1>4 DEF Stream!sourceVars, CountsOK
  <3>3. LeasesOK'
    BY <1>1, <1>2, <1>4 DEF Stream!sourceVars, LeasesOK, CountsOK
  <3>4. MadeOK'
    BY <1>1, <1>2, <1>4 DEF Stream!sourceVars, MadeOK, CountsOK
  <3> QED BY <3>1, <3>2, <3>3, <3>4
  <2> QED BY <1>1, <1>2, <1>4, <2>1 DEF AliveIsHeld, StartIsNewest, TimerIsOfNow, StopsAreFew,
      ClosedIsStopped, UnusedIsWatched, Stream!sourceVars
<1>5. CASE /\ leases' = {} /\ started' = FALSE /\ pump' = 0 /\ idle' = 0
           /\ stops' = stops + 1
  <2>1. (FlagsOK /\ CountsOK /\ LeasesOK /\ MadeOK)'
  <3>1. FlagsOK'
    BY <1>1, <1>2, <1>5 DEF Stream!sourceVars, FlagsOK
  <3>2. CountsOK'
    BY <1>1, <1>2, <1>5 DEF Stream!sourceVars, CountsOK
  <3>3. LeasesOK'
    BY <1>1, <1>2, <1>5 DEF Stream!sourceVars, LeasesOK, CountsOK
  <3>4. MadeOK'
    BY <1>1, <1>2, <1>5 DEF Stream!sourceVars, MadeOK, CountsOK
  <3> QED BY <3>1, <3>2, <3>3, <3>4
  <2> QED BY <1>1, <1>2, <1>5, <2>1 DEF AliveIsHeld, StartIsNewest, TimerIsOfNow, StopsAreFew,
      ClosedIsStopped, UnusedIsWatched, Stream!sourceVars
<1> QED BY <1>3, <1>4, <1>5 DEF Stream!Release, Stream!Detach

LEMMA StopsKeep ==
  ASSUME Stream!BoundsAreNumbers, SessionInv, Stream!IdleFires \/ Stream!Shutdown
           \/ Stream!StopRuns
  PROVE  SessionInv'
<1> USE DEF SessionInv
<1>0. stops \in Nat /\ streamGen \in Nat /\ MaxStreamGen \in Nat \ {0} /\ stops <= MaxStreamGen
      /\ streamGen <= MaxStreamGen
  BY DEF FlagsOK, CountsOK, LeasesOK, MadeOK, Stream!BoundsAreNumbers
<1>1. CASE Stream!IdleFires
  <2>1. /\ lock = "nobody" /\ leases = {} /\ idle = streamGen /\ ~streamClosed
        /\ stops < streamGen
    BY <1>1 DEF Stream!IdleFires, Stream!Free, TimerIsOfNow, ClosedIsStopped, StopsAreFew
  <2>2. /\ started' = FALSE /\ pump' = 0 /\ idle' = 0 /\ stops' = stops + 1
        /\ UNCHANGED <<leases, lock, streamGen, made, streamClosed, Stream!sourceVars, labelled,
                       deaths>>
    BY <1>1, <2>1 DEF Stream!IdleFires, Stream!Detach
  <2>3. (FlagsOK /\ CountsOK /\ LeasesOK /\ MadeOK)'
    <3>1. FlagsOK'
      BY <1>0, <2>1, <2>2 DEF Stream!sourceVars, FlagsOK
    <3>2. CountsOK'
      BY <1>0, <2>1, <2>2 DEF Stream!sourceVars, CountsOK
    <3>3. LeasesOK'
      BY <1>0, <2>1, <2>2 DEF Stream!sourceVars, LeasesOK, CountsOK
    <3>4. MadeOK'
      BY <1>0, <2>1, <2>2 DEF Stream!sourceVars, MadeOK, CountsOK
    <3> QED BY <3>1, <3>2, <3>3, <3>4
  <2> QED BY <1>0, <2>1, <2>2, <2>3 DEF AliveIsHeld, StartIsNewest, TimerIsOfNow, StopsAreFew,
      ClosedIsStopped, UnusedIsWatched, Stream!sourceVars
<1>2. CASE Stream!Shutdown
  <2>1. /\ lock = "nobody" /\ streamClosed' = TRUE /\ leases' = {} /\ started' = FALSE
        /\ pump' = 0
        /\ idle' = 0 /\ stops' = 1
        /\ UNCHANGED <<lock, streamGen, made, Stream!sourceVars, labelled, deaths>>
    BY <1>2 DEF Stream!Shutdown, Stream!Detach, Stream!Free
  <2>2. (FlagsOK /\ CountsOK /\ LeasesOK /\ MadeOK)'
    <3>1. FlagsOK'
      BY <1>0, <2>1 DEF Stream!sourceVars, FlagsOK
    <3>2. CountsOK'
      BY <1>0, <2>1 DEF Stream!sourceVars, CountsOK
    <3>3. LeasesOK'
      BY <1>0, <2>1 DEF Stream!sourceVars, LeasesOK, CountsOK
    <3>4. MadeOK'
      BY <1>0, <2>1 DEF Stream!sourceVars, MadeOK, CountsOK
    <3> QED BY <3>1, <3>2, <3>3, <3>4
  <2> QED BY <1>0, <2>1, <2>2 DEF AliveIsHeld, StartIsNewest, TimerIsOfNow, StopsAreFew,
      ClosedIsStopped, UnusedIsWatched, Stream!sourceVars
<1>3. CASE Stream!StopRuns
  <2>1. /\ stops > 0 /\ stops' = stops - 1
        /\ \/ conn' = 0 /\ streamAlive' = FALSE /\ open' \subseteq open
           \/ lock # "nobody" /\ UNCHANGED <<conn, streamAlive, open>>
        /\ UNCHANGED <<leases, lock, started, streamGen, idle, pump, made, streamClosed, used,
                       labelled, deaths>>
    BY <1>3 DEF Stream!StopRuns, Stream!Free
  <2>2. stops' \in 0..MaxStreamGen /\ stops' < stops
    BY <1>0, <2>1
  <2>3. (FlagsOK /\ CountsOK /\ LeasesOK /\ MadeOK)'
    <3>1. FlagsOK'
      BY <2>1, <2>2 DEF FlagsOK
    <3>2. CountsOK'
      BY <2>1, <2>2 DEF CountsOK
    <3>3. LeasesOK'
      BY <2>1, <2>2 DEF LeasesOK, CountsOK
    <3>4. MadeOK'
      BY <2>1, <2>2 DEF MadeOK, CountsOK
    <3> QED BY <3>1, <3>2, <3>3, <3>4
  <2>4. StopsAreFew'
    BY <1>0, <2>1 DEF StopsAreFew
  <2>5. ClosedIsStopped'
    BY <1>0, <2>1 DEF ClosedIsStopped, StartIsNewest
  <2> QED BY <2>1, <2>3, <2>4, <2>5 DEF AliveIsHeld, StartIsNewest, TimerIsOfNow, UnusedIsWatched
<1> QED BY <1>1, <1>2, <1>3

LEMMA SourceKeeps ==
  ASSUME Stream!BoundsAreNumbers, SessionInv, Stream!SourceDies \/ Stream!PumpEnds \/ Stream!Unit
           \/ \E t \in open : Stream!StreamEnds(t)
  PROVE  SessionInv'
<1> USE DEF SessionInv
<1>1. CASE Stream!SourceDies \/ \E t \in open : Stream!StreamEnds(t)
  <2>1. /\ (streamAlive' => streamAlive) /\ streamAlive' \in BOOLEAN /\ open' \subseteq open
        /\ deaths' \in 0..MaxDeath
        /\ UNCHANGED <<Stream!sessionVars, conn, used, labelled>>
    <3>1. deaths \in Nat /\ MaxDeath \in Nat /\ deaths \in 0..MaxDeath /\ streamAlive \in BOOLEAN
      BY DEF CountsOK, FlagsOK, Stream!BoundsAreNumbers
    <3>2. CASE Stream!SourceDies
      <4>1. deaths' \in 0..MaxDeath
        BY <3>1, <3>2 DEF Stream!SourceDies
      <4> QED BY <3>2, <4>1 DEF Stream!SourceDies
    <3>3. CASE \E t \in open : Stream!StreamEnds(t)
      BY <3>1, <3>3 DEF Stream!StreamEnds
    <3> QED BY <1>1, <3>2, <3>3
  <2>2. (FlagsOK /\ CountsOK /\ LeasesOK /\ MadeOK)'
    <3>1. FlagsOK'
      BY <2>1 DEF Stream!sessionVars, FlagsOK
    <3>2. CountsOK'
      BY <2>1 DEF Stream!sessionVars, CountsOK
    <3>3. LeasesOK'
      BY <2>1 DEF Stream!sessionVars, LeasesOK, CountsOK
    <3>4. MadeOK'
      BY <2>1 DEF Stream!sessionVars, MadeOK, CountsOK
    <3> QED BY <3>1, <3>2, <3>3, <3>4
  <2> QED BY <2>1, <2>2 DEF AliveIsHeld, StartIsNewest, TimerIsOfNow, StopsAreFew,
      ClosedIsStopped, UnusedIsWatched, Stream!sessionVars
<1>2. CASE Stream!PumpEnds
  <2>1. (FlagsOK /\ CountsOK /\ LeasesOK /\ MadeOK)'
    <3>1. FlagsOK'
      BY <1>2 DEF Stream!PumpEnds, Stream!sourceVars, FlagsOK
    <3>2. CountsOK'
      BY <1>2 DEF Stream!PumpEnds, Stream!sourceVars, CountsOK
    <3>3. LeasesOK'
      BY <1>2 DEF Stream!PumpEnds, Stream!sourceVars, LeasesOK, CountsOK
    <3>4. MadeOK'
      BY <1>2 DEF Stream!PumpEnds, Stream!sourceVars, MadeOK, CountsOK
    <3> QED BY <3>1, <3>2, <3>3, <3>4
  <2> QED BY <1>2, <2>1 DEF Stream!PumpEnds, AliveIsHeld, StartIsNewest, TimerIsOfNow,
      StopsAreFew, ClosedIsStopped, UnusedIsWatched, Stream!sourceVars
<1>3. CASE Stream!Unit
  <2>1. streamGen \in 1..streamGen /\ pump \in 1..used
    BY <1>3 DEF Stream!Unit, FlagsOK, CountsOK, LeasesOK, MadeOK, StopsAreFew
  <2>2. (FlagsOK /\ CountsOK /\ LeasesOK /\ MadeOK)'
    <3>1. FlagsOK'
      BY <1>3, <2>1 DEF Stream!Unit, Stream!sessionVars, Stream!sourceVars, FlagsOK
    <3>2. CountsOK'
      BY <1>3, <2>1 DEF Stream!Unit, Stream!sessionVars, Stream!sourceVars, CountsOK
    <3>3. LeasesOK'
      BY <1>3, <2>1 DEF Stream!Unit, Stream!sessionVars, Stream!sourceVars, LeasesOK, CountsOK
    <3>4. MadeOK'
      BY <1>3, <2>1 DEF Stream!Unit, Stream!sessionVars, Stream!sourceVars, MadeOK, CountsOK
    <3> QED BY <3>1, <3>2, <3>3, <3>4
  <2> QED BY <1>3, <2>2 DEF Stream!Unit, AliveIsHeld, StartIsNewest, TimerIsOfNow, StopsAreFew,
      ClosedIsStopped, UnusedIsWatched, Stream!sessionVars, Stream!sourceVars
<1> QED BY <1>1, <1>2, <1>3

LEMMA SessionStepKeeps ==
  ASSUME Stream!BoundsAreNumbers, Stream!ConsumersAreFinite, SessionInv,
         [Stream!Next]_(Stream!vars)
  PROVE  SessionInv'
<1>1. CASE UNCHANGED Stream!vars
  <2> USE <1>1 DEF Stream!vars, Stream!sessionVars, Stream!sourceVars, SessionInv
  <2>1. (FlagsOK /\ CountsOK /\ LeasesOK /\ MadeOK)'
    <3>1. FlagsOK'
      BY DEF FlagsOK
    <3>2. CountsOK'
      BY DEF CountsOK
    <3>3. LeasesOK'
      BY DEF LeasesOK, CountsOK
    <3>4. MadeOK'
      BY DEF MadeOK, CountsOK
    <3> QED BY <3>1, <3>2, <3>3, <3>4
  <2> QED BY <2>1 DEF AliveIsHeld, StartIsNewest, TimerIsOfNow, StopsAreFew, ClosedIsStopped,
      UnusedIsWatched
<1>2. CASE Stream!Next
  BY <1>2, AcquireKeeps, StartKeeps, ReleaseKeeps, StopsKeep, SourceKeeps DEF Stream!Next
<1> QED BY <1>1, <1>2

LEMMA SessionHolds == Stream!BoundsAreNumbers /\ Stream!ConsumersAreFinite =>
                        (Stream!Spec => []SessionInv)
<1> SUFFICES ASSUME Stream!BoundsAreNumbers, Stream!ConsumersAreFinite PROVE Stream!Spec =>
                      []SessionInv
  OBVIOUS
<1>1. Stream!Init => SessionInv
  BY SessionInitHolds
<1>2. SessionInv /\ [Stream!Next]_(Stream!vars) => SessionInv'
  BY SessionStepKeeps
<1> QED BY <1>1, <1>2, PTL DEF Stream!Spec

LEMMA TimesAreKnown == Stream!Spec => [](timed \in IdleTimes)
<1>1. Stream!Init => timed \in IdleTimes
  BY DEF Stream!Init
<1>2. timed \in IdleTimes /\ [Stream!Next]_(Stream!vars) => (timed \in IdleTimes)'
  BY DEF Stream!Next, Stream!vars
<1> QED BY <1>1, <1>2, PTL DEF Stream!Spec

LEMMA SessionTypes == SessionInv /\ timed \in IdleTimes => Stream!TypeOK
<1> SUFFICES ASSUME SessionInv, timed \in IdleTimes PROVE Stream!TypeOK
  OBVIOUS
<1>1. started \in BOOLEAN /\ streamAlive \in BOOLEAN /\ streamClosed \in BOOLEAN
  BY DEF SessionInv, FlagsOK
<1>2. {started, streamAlive, streamClosed} \subseteq BOOLEAN
  BY <1>1
<1>3. {conn, pump} \subseteq 0..used
  BY DEF SessionInv, CountsOK
<1> QED BY <1>2, <1>3 DEF SessionInv, CountsOK, LeasesOK, MadeOK, Stream!TypeOK

-----------------------------------------------------------------------------
(* A behaviour of MCPhone is, of each part, one of its module. *)
LEMMA PhoneIsChannel == PhoneSpec => Channel!Spec
<1>1. PhoneInit => Channel!Init
  BY DEF PhoneInit
<1>2. [PhoneNext]_phoneVars => [Channel!Next]_(Channel!vars)
  BY DEF PhoneNext, phoneVars, channelVars, Channel!vars, Channel!adb, Channel!cleanup,
     Channel!flags, Channel!request
<1> QED BY <1>1, <1>2, PTL DEF PhoneSpec, Channel!Spec

LEMMA PhoneIsRing == PhoneSpec => Ring!Spec
<1>1. PhoneInit => Ring!Init
  BY DEF PhoneInit
<1>2. [PhoneNext]_phoneVars => [Ring!Next]_(Ring!vars)
  BY DEF PhoneNext, phoneVars, ringVars, Ring!vars, Ring!phone, Ring!host
<1> QED BY <1>1, <1>2, PTL DEF PhoneSpec, Ring!Spec

LEMMA PhoneIsFrames == PhoneSpec => Spec
<1>1. PhoneInit => Init
  BY DEF PhoneInit
<1>2. [PhoneNext]_phoneVars => [Next]_vars
  BY DEF PhoneNext, phoneVars
<1> QED BY <1>1, <1>2, PTL DEF PhoneSpec, Spec

LEMMA PhoneIsScreen == PhoneSpec => Screen!Spec
<1>1. PhoneInit => Screen!Init
  BY DEF PhoneInit
<1>2. [PhoneNext]_phoneVars => [Screen!Next]_(Screen!vars)
  BY DEF PhoneNext, phoneVars, screenVars, Screen!vars, Screen!phone, Screen!host
<1> QED BY <1>1, <1>2, PTL DEF PhoneSpec, Screen!Spec

LEMMA PhoneIsStream == PhoneSpec => Stream!Spec
<1>1. PhoneInit => Stream!Init
  BY DEF PhoneInit
<1>2. [PhoneNext]_phoneVars => [Stream!Next]_(Stream!vars)
  BY DEF PhoneNext, phoneVars, sessionVars, Stream!vars, Stream!sessionVars, Stream!sourceVars
<1> QED BY <1>1, <1>2, PTL DEF PhoneSpec, Stream!Spec

(* The owner is proved about in TaskOwnershipProofs, of which this is the instance  *)
(* with the owner's constants here.                                           *)
Ownership == INSTANCE TaskOwnershipProofs
  WITH Task <- {"t"}, SafeAuto <- {"t"}, Drivers <- BOOLEAN, MaxEpoch <- 3,
       MaxFault <- [r \in BOOLEAN |-> 2], NoTask <- "none", epoch <- claims

LEMMA PhoneIsOwner == PhoneSpec => Ownership!Spec
<1>1. PhoneInit => Ownership!Init
  BY DEF PhoneInit, Owner!Init, Ownership!Init
<1>2. Owner!Next => Ownership!Next
  BY DEF Owner!taskVars, Ownership!taskVars, Owner!deviceVars, Ownership!deviceVars, Owner!guardVars,
     Ownership!guardVars, Owner!inputVars, Ownership!inputVars, Owner!workerVars,
     Ownership!workerVars, Owner!coordVars, Ownership!coordVars, Owner!cleanVars,
     Ownership!cleanVars, Owner!Serves, Ownership!Serves, Owner!Fence, Ownership!Fence,
     Owner!FenceRefused, Ownership!FenceRefused, Owner!CloseExecution,
     Ownership!CloseExecution, Owner!DrainedBelow, Ownership!DrainedBelow, Owner!Arrive,
     Ownership!Arrive, Owner!InputEnds, Ownership!InputEnds, Owner!Claim, Ownership!Claim,
     Owner!Owns, Ownership!Owns, Owner!Release, Ownership!Release, Owner!WorkerFrame,
     Ownership!WorkerFrame, Owner!WorkerClaim, Ownership!WorkerClaim, Owner!WorkerFence,
     Ownership!WorkerFence, Owner!WorkerRuns, Ownership!WorkerRuns, Owner!WorkerBlocked,
     Ownership!WorkerBlocked, Owner!WorkerFails, Ownership!WorkerFails,
     Owner!WorkerHasNoDriver, Ownership!WorkerHasNoDriver, Owner!WorkerActs, Ownership!WorkerActs, Owner!WorkerStops,
     Ownership!WorkerStops, Owner!WorkerRetired, Ownership!WorkerRetired, Owner!WorkerCloses,
     Ownership!WorkerCloses, Owner!WorkerReaps, Ownership!WorkerReaps,
     Owner!WorkerFencesAgain, Ownership!WorkerFencesAgain, Owner!WorkerDrainsAgain,
     Ownership!WorkerDrainsAgain, Owner!WorkerClosesAgain, Ownership!WorkerClosesAgain,
     Owner!WorkerCannotClose, Ownership!WorkerCannotClose, Owner!WorkerReleases,
     Ownership!WorkerReleases, Owner!CoordFrame, Ownership!CoordFrame, Owner!RecoverBegins,
     Ownership!RecoverBegins, Owner!RecoverClaims, Ownership!RecoverClaims,
     Owner!RecoverConflicts, Ownership!RecoverConflicts, Owner!RecoverFences,
     Ownership!RecoverFences, Owner!RecoverDrains, Ownership!RecoverDrains,
     Owner!RecoverReady, Ownership!RecoverReady, Owner!RecoverFails, Ownership!RecoverFails,
     Owner!CleanFrame, Ownership!CleanFrame, Owner!CleanupBegins, Ownership!CleanupBegins,
     Owner!CleanupTakes, Ownership!CleanupTakes, Owner!CleanupFences, Ownership!CleanupFences,
     Owner!CleanupFails, Ownership!CleanupFails, Owner!CleanupCloses, Ownership!CleanupCloses,
     Owner!CleanupClears, Ownership!CleanupClears, Owner!Requeue, Ownership!Requeue,
     Owner!CancelOrphan, Ownership!CancelOrphan, Owner!Retire, Ownership!Retire,
     Owner!RetireCloses, Ownership!RetireCloses, Owner!Crash, Ownership!Crash,
     Owner!WorkerStep, Ownership!WorkerStep, Owner!RecoverStep, Ownership!RecoverStep,
     Owner!CleanupStep, Ownership!CleanupStep, Owner!Next, Ownership!Next
<1>3. [PhoneNext]_phoneVars => [Ownership!Next]_(Ownership!vars)
  BY <1>2 DEF PhoneNext, phoneVars, ownerVars,
     Ownership!vars, Ownership!taskVars, Ownership!deviceVars, Ownership!guardVars,
     Ownership!inputVars, Ownership!workerVars, Ownership!coordVars,
     Ownership!cleanVars
<1> QED BY <1>1, <1>3, PTL DEF PhoneSpec, Ownership!Spec

(* Whatever else happens with the phone, a close() without an error left no     *)
(* socket, no forward and no cleanup.                                         *)
THEOREM PhoneClosesTruly == ASSUME NoneIsNoPort PROVE PhoneSpec => []ClosedIsClosed
<1>1. Channel!ClosedIsClosed => ClosedIsClosed
  BY DEF ClosedIsClosed
<1> QED BY <1>1, PhoneIsChannel, CloseIsTrue, PTL

(* And an action is judged by pixels that are newer than it.                   *)
THEOREM PhonePixelsAreFresh ==
  ASSUME BoundsAreNumbers, MaxGen >= 1, ~Linger PROVE PhoneSpec => []PixelsFollowTheAction
  BY PhoneIsFrames, PixelsAreFresh, PTL

(* And a complete read of its interactions, not cut off, has every one since    *)
(* the cursor that the action took.                                           *)
THEOREM PhoneReadMissesNone ==
  ASSUME Ring!LimitsAreNumbers PROVE PhoneSpec => []CompleteMissesNone
<1>1. Ring!CompleteMissesNone => CompleteMissesNone
  BY DEF CompleteMissesNone
<1> QED BY <1>1, PhoneIsRing, ReadMissesNone, PTL

(* Whatever the screen's requests meet on their way, a lease with time left has *)
(* its wake lock: acquire and renew of ScreenBrightLease.kt.                   *)
THEOREM PhoneStaysBright ==
  ASSUME Screen!PeriodsAreNumbers PROVE PhoneSpec => []Screen!LeasedIsBright
  BY PhoneIsScreen, LeasedStaysBright, PTL

(* And without requests that overtake others, nothing is held for a task whose  *)
(* end was answered: _end_power_lease of accessibility.py.                    *)
THEOREM PhoneGoesDark ==
  ASSUME ~Late, Screen!PeriodsAreNumbers PROVE PhoneSpec => []Screen!ReleasedIsDark
  BY PhoneIsScreen, ReleasedStaysDark, PTL

(* A video source without a lease has a timer, a stop that was decided, or a     *)
(* start that will tell: release and _stop_after_idle of scrcpy_stream.py.     *)
THEOREM PhoneSourceIsWatched ==
  ASSUME Stream!BoundsAreNumbers, Stream!ConsumersAreFinite
  PROVE  PhoneSpec => []UnusedIsWatched
<1>1. SessionInv => UnusedIsWatched
  BY DEF SessionInv
<1>2. Stream!Spec => []SessionInv
  BY SessionHolds
<1> QED BY <1>1, <1>2, PhoneIsStream, PTL

(* The state of every part is of its type, in every behaviour of the phone. *)
THEOREM PhoneTypes ==
  ASSUME NoneIsNoPort, OptionsAreKnown, MaxGen >= 1, ~Linger
  PROVE  PhoneSpec => []PartsTypeOK
<1>1. PhoneSpec => []Ring!TypeOK
  <2>1. Ring!Spec => []RingInv
    BY RingHolds DEF OptionsAreKnown
  <2>2. RingInv => Ring!TypeOK
    BY DEF RingInv
  <2> QED BY <2>1, <2>2, PhoneIsRing, PTL
<1>2. PhoneSpec => []Screen!TypeOK
  <2>1. Screen!Spec => []LeaseInv
    BY LeaseHolds DEF OptionsAreKnown
  <2> QED BY <2>1, LeaseTypes, PhoneIsScreen, PTL
<1>3. PhoneSpec => []Channel!TypeOK
  BY PhoneIsChannel, ChannelTypeCorrect, PTL
<1>4. PhoneSpec => []Stream!TypeOK
  <2>1. Stream!Spec => []SessionInv
    BY SessionHolds DEF OptionsAreKnown
  <2> QED BY <2>1, SessionTypes, TimesAreKnown, PhoneIsStream, PTL
<1>5. PhoneSpec => []TypeOK
  <2>1. Spec => []TypeOK
    BY TypeCorrect DEF OptionsAreKnown
  <2> QED BY <2>1, PhoneIsFrames, PTL
<1>6. PhoneSpec => []Ownership!TypeOK
  <2>1. /\ Ownership!PolicyIsOfTasks /\ Ownership!DriversAreKnown
        /\ Ownership!BoundsAreNumbers
    BY DEF Ownership!PolicyIsOfTasks, Ownership!DriversAreKnown, Ownership!BoundsAreNumbers
  <2>2. Ownership!Spec => []Ownership!TypeOK
    BY <2>1, Ownership!TypeCorrect
  <2> QED BY <2>2, PhoneIsOwner, PTL
<1>7. Ownership!TypeOK => Owner!TypeOK
  BY DEF Ownership!TypeOK, Owner!TypeOK, Ownership!Authority, Owner!Authority
<1>8. /\ Ring!TypeOK /\ Screen!TypeOK /\ Channel!TypeOK /\ Stream!TypeOK /\ TypeOK
      /\ Owner!TypeOK
      => PartsTypeOK
  BY DEF PartsTypeOK
<1> QED BY <1>1, <1>2, <1>3, <1>4, <1>5, <1>6, <1>7, <1>8, PTL
=============================================================================
