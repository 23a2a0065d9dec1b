-------------------------- MODULE ResearchEnvironment --------------------------
(***************************************************************************)
(* The journal of what a learning job does to a device (skills/environment.py)*)
(* and the probes that act under it (skills/exploration.py, learning.py): an   *)
(* intent is written before an action is dispatched, its effect after it, and  *)
(* the environment is clean when every effect is resolved, by a dispatch that  *)
(* failed, by a checkpoint that is found again or by a reset of the fixture.   *)
(* An action that ran out of time may still land on the device, and a dispatch *)
(* that is reported failed may have changed it or land later too: an adb       *)
(* command that timed out, a node click of unknown outcome, a field that was   *)
(* cleared and not filled, the first half of two actions.                     *)
(*                                                                         *)
(* `saved` is what resume makes of the events written so far.  Claims and      *)
(* owned resources are left out.  resume is called by no program, only by its  *)
(* tests; a resumed journal is verified, reset and closed.                    *)
(***************************************************************************)
EXTENDS Naturals, Sequences

CONSTANT MaxEffects   \* bound: intents

MaxEffectsIsNumber == MaxEffects \in Nat

VARIABLES
  harness,  \* what the job is given: a verifier, a fixture, retain_probe_state
  env,      \* [stage, status, plan, effects, checkpoint] of the process
  saved,    \* the same, as resume would rebuild it
  content,  \* the device is as the research found it: "found"; or "halfway" if only
            \* dispatches reported as failed changed it, and else "changed"
  flying,   \* dispatches that may still land: "failed" as reported, or else "sent"
  intent,   \* executor.intent_id: an index of effects, 0 for none
  pc, wanted,  \* of the job; the plan of the probe it goes to
  reset,    \* how far the reset of the fixture is that pc is at
  late      \* the time for exploration is over

vars == <<harness, env, saved, content, flying, intent, pc, wanted, reset, late>>

Plan == {"none", "observe", "isolated"}
Action == {"navigate", "tap", "write"}

(* Probe state is retained only in a fixture of the job's own. *)
Harness == {h \in [verifier : BOOLEAN, fixture : BOOLEAN, retain : BOOLEAN] : h.retain => h.fixture}

Begun == [stage |-> "probe", status |-> "open", plan |-> "none", effects |-> <<>>,
          checkpoint |-> "none"]

Init ==
  /\ harness \in Harness
  /\ env = Begun /\ saved = Begun /\ content = "found" /\ flying = {} /\ intent = 0
  /\ pc = "host" /\ wanted = "none" /\ reset = "none" /\ late = FALSE

-----------------------------------------------------------------------------
(* An effect is an intent until it has a result, and then known or verified.  *)
Resolves(e) ==
  [e EXCEPT !.effects = [i \in DOMAIN @ |->
     IF @[i].state = "known" THEN [@[i] EXCEPT !.state = "verified"] ELSE @[i]]]

Adds(e, mutates) == [e EXCEPT !.effects = Append(@, [mutates |-> mutates, state |-> "intent"])]
Gets(e, i, state) == [e EXCEPT !.effects[i].state = state]
Unresolved(e) == \E i \in DOMAIN e.effects : e.effects[i].state # "verified"

(* verified_clean *)
Clean(e) == ~Unresolved(e) /\ e.status \in {"open", "closed"}

(* resume: what an event, which carries the stage and the status of the        *)
(* process, does to the journal that is rebuilt.                             *)
Stamped(s, e) == [s EXCEPT !.stage = e.stage, !.status = e.status]

(* Mutant: resume keeps the checkpoint of before a reset. *)
ReplayedKeeping(s, e, event) ==
  LET t == Stamped(s, e) IN
  CASE event.kind = "plan" -> [t EXCEPT !.plan = event.plan]
    [] event.kind = "intent" -> Adds(t, event.mutates)
    [] event.kind = "effect" -> Gets(t, event.of, event.state)
    [] event.kind = "checkpoint" -> [t EXCEPT !.checkpoint = event.value]
    [] event.kind = "fixture_reset" -> Resolves(t)
    [] event.kind = "verify" -> Resolves(t)
    [] event.kind = "other" -> t

Replayed(s, e, event) ==
  LET t == Stamped(s, e) IN
  CASE event.kind = "plan" -> [t EXCEPT !.plan = event.plan]
    [] event.kind = "intent" -> Adds(t, event.mutates)
    [] event.kind = "effect" -> Gets(t, event.of, event.state)
    [] event.kind = "checkpoint" -> [t EXCEPT !.checkpoint = event.value]
    [] event.kind = "fixture_reset" -> [Resolves(t) EXCEPT !.checkpoint = "none"]
    [] event.kind = "verify" -> Resolves(t)
    [] event.kind = "other" -> t

(* The process is in state e and writes an event, or two. *)
Persists(e, event) == env' = e /\ saved' = Replayed(saved, e, event)
PersistsTwo(e, first, second) ==
  env' = e /\ saved' = Replayed(Replayed(saved, e, first), e, second)

Other == [kind |-> "other"]
Effect(i, state) == [kind |-> "effect", of |-> i, state |-> state]
Device == <<content, flying>>
Goes(to) == pc' = to /\ reset' = "none"
Stays == UNCHANGED <<env, saved>>

-----------------------------------------------------------------------------
(* explore: a new plan is configured, unless what is unresolved of the one     *)
(* before must be reset first.                                                *)
ToProbe(e) == IF e.stage = "cleanup" THEN e ELSE [e EXCEPT !.stage = "probe"]

(* Mutant: a probe begins although the time for exploration is over. *)
ExploreLate(plan) ==
  /\ pc = "host" /\ env.status = "open"
  /\ wanted' = plan
  /\ IF plan \in {"none", env.plan}
     THEN Persists(ToProbe(env), Other) /\ Goes("probe")
     ELSE Goes(IF harness.retain /\ Unresolved(env) THEN "planReset" ELSE "configures") /\ Stays
  /\ UNCHANGED <<Device, intent, late>>

Explore(plan) ==
  /\ pc = "host" /\ ~late /\ env.status = "open"
  /\ wanted' = plan
  /\ IF plan \in {"none", env.plan}
     THEN Persists(ToProbe(env), Other) /\ Goes("probe")
     ELSE Goes(IF harness.retain /\ Unresolved(env) THEN "planReset" ELSE "configures") /\ Stays
  /\ UNCHANGED <<Device, intent, late>>

(* configure, capture_checkpoint and prepare.  The fixture is reset before     *)
(* the first probe of a plan, unless that was just done.                      *)
Configure(fresh) ==
  /\ pc = IF fresh THEN "fresh" ELSE "configures"
  /\ ~Unresolved(env)
  /\ \E captured \in {"none", content} :
       LET e == [env EXCEPT !.plan = wanted, !.stage = "prepare",
                            !.checkpoint = IF harness.verifier THEN captured ELSE @]
           planned == [kind |-> "plan", plan |-> wanted]
           captures == IF harness.verifier THEN [kind |-> "checkpoint", value |-> captured]
                       ELSE Other
       IN IF harness.fixture /\ ~fresh
          THEN PersistsTwo(e, planned, captures) /\ Goes("prepareReset")
          ELSE PersistsTwo(ToProbe(e), planned, captures) /\ Goes("probe")
  /\ UNCHANGED <<Device, intent, wanted, late>>

(* LearningStopped, or a ValueError: the job comes to its end. *)
Stops ==
  /\ reset = "none"
  /\ \/ pc \in {"host", "prepareReset", "planReset", "probeReset", "candidateReset"}
     \/ pc \in {"configures", "fresh"} /\ Unresolved(env)
  /\ Goes("ending")
  /\ UNCHANGED <<env, saved, Device, intent, wanted, late>>

-----------------------------------------------------------------------------
(* One action of a probe.  The intent is refused without a plan for it. *)
Allowed(action) ==
  action = "navigate" \/ env.plan = "isolated" \/ (env.plan = "observe" /\ action = "tap")

Act(action) ==
  /\ pc = "probe" /\ env.status = "open" /\ Allowed(action) /\ Len(env.effects) < MaxEffects
  /\ LET mutates == action # "navigate" IN
     Persists(Adds(env, mutates), [kind |-> "intent", mutates |-> mutates])
  /\ intent' = Len(env.effects) + 1 /\ Goes("acting")
  /\ UNCHANGED <<Device, wanted, late>>

Mutates == env.effects[intent].mutates
MayFly(how) == {flying} \cup (IF Mutates THEN {flying \cup {how}} ELSE {})
MayChange == {content} \cup (IF Mutates THEN {"changed"} ELSE {})
MayBeHalfway == {content} \cup (IF Mutates /\ content = "found" THEN {"halfway"} ELSE {})

(* effect: resolved are a dispatch that is reported failed, whether it was      *)
(* rejected before or failed in the middle, and a navigation that succeeded.  *)
Acted ==
  /\ pc = "acting" /\ intent' = 0
  /\ \/ /\ Persists(Gets(env, intent, "verified"), Effect(intent, "verified"))
        /\ content' \in MayBeHalfway /\ flying' \in MayFly("failed") /\ Goes("probe")
     \/ \E success \in BOOLEAN :
          LET state == IF success /\ ~Mutates THEN "verified" ELSE "known" IN
          /\ Persists(Gets(env, intent, state), Effect(intent, state))
          /\ content' \in MayChange /\ UNCHANGED flying
          /\ Goes(IF success THEN "probe" ELSE "reported")
  /\ UNCHANGED <<wanted, late>>

(* The time for exploration ends in the middle of it; executor.intent_id      *)
(* stays.                                                                    *)
ActTimesOut ==
  /\ pc = "acting" /\ late' = TRUE
  /\ flying' \in MayFly("sent") /\ content' \in MayChange
  /\ Goes("reported") /\ UNCHANGED <<env, saved, intent, wanted>>

Lands ==
  /\ \E how \in flying :
       /\ flying' = flying \ {how}
       /\ content' = IF how = "failed" /\ content # "changed" THEN "halfway" ELSE "changed"
  /\ UNCHANGED <<env, saved, intent, pc, wanted, reset, late>>

TimeIsUp == ~late /\ late' = TRUE /\ UNCHANGED <<env, saved, Device, intent, pc, wanted, reset>>

(* A decision that is not an action; its result goes to the intent there is. *)
Report ==
  /\ pc = "probe" /\ Goes("reported") /\ intent' = 0
  /\ IF intent = 0 THEN Stays
     ELSE Persists(Gets(env, intent, "known"), Effect(intent, "known"))
  /\ UNCHANGED <<Device, wanted, late>>

(* The tool research_environment *)
SetStage ==
  /\ pc = "probe" /\ env.status = "open"
  /\ \E stage \in {"prepare", "probe", "cleanup"} :
       stage # env.stage /\ Persists([env EXCEPT !.stage = stage], Other)
  /\ UNCHANGED <<Device, intent, pc, wanted, reset, late>>

Verify ==
  /\ pc \in {"probe", "resumed"} /\ env.status = "open"
  /\ harness.verifier /\ env.checkpoint = content
  /\ Persists(Resolves(env), [kind |-> "verify"])
  /\ UNCHANGED <<Device, intent, pc, wanted, reset, late>>

CloseTool ==
  /\ pc = "probe" /\ env.status = "open" /\ ~Unresolved(env)
  /\ Persists([env EXCEPT !.status = "closed"], Other)
  /\ UNCHANGED <<Device, intent, pc, wanted, reset, late>>

(* A probe that is over is cleaned, or its state is retained for the next one; *)
(* before a candidate is proposed it is cleaned too.                          *)
Dirty == harness.fixture /\ Unresolved(env)

ProbeEnds ==
  /\ pc = "reported"
  /\ Goes(IF Dirty /\ (~harness.retain \/ env.stage = "cleanup") THEN "probeReset" ELSE "host")
  /\ UNCHANGED <<env, saved, Device, intent, wanted, late>>

Propose ==
  /\ pc = "host"
  /\ Goes(IF harness.retain /\ Dirty THEN "candidateReset"
          ELSE IF harness.retain /\ ~Clean(env) THEN "ending" ELSE "proposed")
  /\ UNCHANGED <<env, saved, Device, intent, wanted, late>>

(* A validated candidate ends the job, a revision may explore again. *)
Reviewed ==
  /\ pc = "proposed" /\ \E to \in {"host", "ending"} : Goes(to)
  /\ UNCHANGED <<env, saved, Device, intent, wanted, late>>

-----------------------------------------------------------------------------
(* reset_fixture, and where a reset leads to: prepare_disposable_fixture or    *)
(* complete_probe.                                                           *)
After == [prepareReset |-> "probe", planReset |-> "fresh", probeReset |-> "host",
          candidateReset |-> "proposed", exitReset |-> "closing", resumeReset |-> "resumed"]

ResetBegins ==
  /\ pc \in DOMAIN After /\ reset = "none" /\ reset' = "running"
  /\ env.status = "open" /\ Len(env.effects) < MaxEffects
  /\ LET e == [env EXCEPT !.stage = IF pc = "prepareReset" THEN "prepare" ELSE "cleanup"]
     IN PersistsTwo(Adds(e, TRUE), Other, [kind |-> "intent", mutates |-> TRUE])
  /\ UNCHANGED <<Device, intent, pc, wanted, late>>

Last == Len(env.effects)

(* The fixture is built again, from nothing, or the adapter says it is not. *)
ResetReturns ==
  /\ reset = "running"
  /\ \/ /\ content' = "found" /\ flying' = {} /\ reset' = "marking" /\ UNCHANGED pc
        /\ Persists(Gets(env, Last, "known"), Effect(Last, "known"))
     \/ /\ content' \in {"found", "halfway", "changed"} /\ UNCHANGED flying
        /\ PersistsTwo(Gets(env, Last, "known"), Effect(Last, "known"), Other)
        /\ Goes(IF pc \in {"exitReset", "resumeReset"} THEN "closing" ELSE "ending")
  /\ UNCHANGED <<intent, wanted, late>>

(* Every effect with a result is resolved; one without is not. *)
ResetMarks ==
  /\ reset = "marking"
  /\ LET e == [Resolves(env) EXCEPT !.checkpoint = "none"]
         done == IF Clean(e) THEN [e EXCEPT !.stage = "probe"] ELSE e
     IN /\ PersistsTwo(done, [kind |-> "fixture_reset"], Other)
        /\ Goes(IF Clean(e) THEN After[pc]
                ELSE IF pc \in {"exitReset", "resumeReset"} THEN "closing" ELSE "ending")
  /\ UNCHANGED <<Device, intent, wanted, late>>

(* The adapter raises, or is cancelled because the time of the job is over. *)
ResetFails ==
  /\ reset = "running" /\ content' \in {"found", "halfway", "changed"}
  /\ \E status \in {"open", "interrupted"} : Persists([env EXCEPT !.status = status], Other)
  /\ Goes(IF pc \in {"exitReset", "resumeReset"} THEN "closing" ELSE "ending")
  /\ UNCHANGED <<flying, intent, wanted, late>>

-----------------------------------------------------------------------------
(* The job is cancelled: the action or the reset under way may go on. *)
Cancelled ==
  /\ pc \notin {"over", "closing", "crashed", "resumed", "resumeReset"}
  /\ Persists([env EXCEPT !.status = "interrupted"], Other)
  /\ IF pc = "acting"
     THEN flying' \in MayFly("sent") /\ UNCHANGED content
     ELSE content' \in {content, IF reset = "running" THEN "changed" ELSE content}
          /\ UNCHANGED flying
  /\ Goes("closing") /\ UNCHANGED <<intent, wanted, late>>

(* The finally clause of run_task_learning, and close. *)
Ends ==
  /\ pc = "ending"
  /\ \/ Goes("closing")
     \/ harness.retain /\ env.status = "open" /\ Dirty /\ Goes("exitReset")
  /\ UNCHANGED <<env, saved, Device, intent, wanted, late>>

Close ==
  /\ pc \in {"closing", "resumed"} \/ (pc = "exitReset" /\ reset = "none")
  /\ Persists([env EXCEPT !.status = IF env.status \in {"closed", "interrupted"} THEN @
                                     ELSE IF Unresolved(env) THEN "unresolved" ELSE "closed"],
              Other)
  /\ Goes("over") /\ UNCHANGED <<Device, intent, wanted, late>>

Crash ==
  /\ pc \notin {"over", "crashed"} /\ Goes("crashed")
  /\ flying' \in {flying} \cup (IF pc = "acting" THEN MayFly("sent") ELSE {})
  /\ content' \in {content, IF reset = "running" THEN "changed" ELSE content}
  /\ UNCHANGED <<env, saved, intent, wanted, late>>

(* resume, and reopen_for_cleanup of what was left unresolved. *)
Resume ==
  /\ pc = "crashed" \/ (pc = "over" /\ env.status = "unresolved")
  /\ env' = IF saved.status = "unresolved"
            THEN [saved EXCEPT !.status = "open", !.stage = "cleanup"] ELSE saved
  /\ saved' = env' /\ intent' = 0 /\ Goes("resumed")
  /\ UNCHANGED <<Device, wanted, late>>

CleansResumed ==
  /\ pc = "resumed" /\ env.status = "open" /\ Dirty /\ Goes("resumeReset")
  /\ UNCHANGED <<env, saved, Device, intent, wanted, late>>

JobActs ==
  \/ \E plan \in Plan : Explore(plan)
  \/ \E fresh \in BOOLEAN : Configure(fresh)
  \/ \E action \in Action : Act(action)
  \/ Stops \/ Acted \/ ActTimesOut \/ Lands \/ TimeIsUp \/ Report
  \/ SetStage \/ Verify \/ CloseTool \/ ProbeEnds \/ Propose \/ Reviewed
  \/ ResetBegins \/ ResetReturns \/ ResetMarks \/ ResetFails
  \/ Cancelled \/ Ends \/ Close \/ Crash \/ Resume \/ CleansResumed

Next == JobActs /\ UNCHANGED harness

Spec == Init /\ [][Next]_vars

-----------------------------------------------------------------------------
Environment ==
  [stage : {"prepare", "probe", "cleanup"},
   status : {"open", "interrupted", "unresolved", "closed"}, plan : Plan,
   effects : Seq([mutates : BOOLEAN, state : {"intent", "known", "verified"}]),
   checkpoint : {"none", "found", "halfway"}]

TypeOK ==
  /\ harness \in Harness /\ {env, saved} \subseteq Environment /\ Last <= MaxEffects
  /\ content \in {"found", "halfway", "changed"} /\ flying \subseteq {"sent", "failed"}
  /\ late \in BOOLEAN
  /\ intent \in 0..Last /\ wanted \in Plan
  /\ reset \in {"none", "running", "marking"} /\ (reset # "none" => pc \in DOMAIN After)
  /\ pc \in {"host", "configures", "fresh", "probe", "acting", "reported", "proposed",
             "ending", "closing", "over", "crashed", "resumed"} \cup DOMAIN After

(* An environment that calls itself clean leaves no change on the device and   *)
(* nothing that may still change it, whatever timed out, was cancelled or      *)
(* crashed before, but for dispatches that were reported failed.              *)
CleanIsRestored ==
  Clean(env) \/ Clean(saved) => content # "changed" /\ "sent" \notin flying

(* And without that exception: what is resolved on the word of the dispatch is  *)
(* a rejected one, "accepted/unknown effects need independent checking"       *)
(* (effect).                                                                 *)
CleanIsAsFound == Clean(env) \/ Clean(saved) => content = "found"

(* A process that resumes the journal knows what the one that wrote it knew.   *)
ReplayAgrees == saved = env
===============================================================================
