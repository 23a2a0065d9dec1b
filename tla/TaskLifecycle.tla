---------------------------- MODULE TaskLifecycle ----------------------------
(***************************************************************************)
(* The life of one task: what the operator's requests (cancel, pause,      *)
(* resume, recover), the asyncio handle that runs the task, the hard-cancel *)
(* timers, the recovery scanner and the recovery jobs do to tasks.status    *)
(* between their awaits (control_api/main.py, shared/recovery_runtime.py,   *)
(* agent/orchestrator.py).  TaskOwnership looks at the same handlers for     *)
(* who may touch the device; this module looks at what they make of the     *)
(* task.                                                                    *)
(*                                                                         *)
(* An action is the code from one await to the next.  A status write made   *)
(* inside the run's execution context is fenced (check_owner); the writes of *)
(* the API, the scanner, the recovery and run_owned_task itself are not.     *)
(* execution_epoch is only ever compared with an epoch read before: the run   *)
(* and the recovery carry "cur", whether no claim came since they read it.     *)
(***************************************************************************)
EXTENDS Integers

CONSTANTS Policies,  \* what the recovery_policy of the task may be
          MaxAuto,   \* settings.task_recovery_max_auto_attempts
          MaxAsk,    \* bound: control requests
          MaxFault   \* bound: crashes and shutdowns of the backend

ASSUME PoliciesAreKnown == Policies \subseteq {"safe_auto", "manual", "disabled"}
ASSUME BoundsAreNumbers == {MaxAuto, MaxAsk, MaxFault} \subseteq Nat

VARIABLES
  policy,     \* tasks.recovery_policy, frozen when the task is made
  status,     \* tasks.status; "budget_failed" is "failed" with a resumable checkpoint
  desired,    \* tasks.desired_state
  rev,        \* tasks.control_revision
  owner,      \* who holds tasks.worker_token
  pending,    \* an operation of the task is not committed
  asked,      \* an accepted recovery_request is pending
  attempts,   \* attempt_no and resource_fact of the recovery projection
  fact,
  wantCancel, \* the flags of cancel_registry and _pause_requested
  wantPause,
  timers,     \* _hard_cancel_after tasks that sleep
  later,      \* background tasks that have not run yet
  run,        \* the asyncio handle in _running
  job,        \* the recovery in flight
  faults

rowVars == <<status, desired, rev>>
recVars == <<asked, attempts, fact>>
flagVars == <<wantCancel, wantPause>>
vars == <<policy, rowVars, owner, pending, recVars, flagVars, timers, later, run, job, faults>>

Terminal == {"succeeded", "failed", "budget_failed", "cancelled"}
Recovering == {"recovering", "waiting_for_device", "recovery_blocked"}
Status == {"queued", "running", "pausing", "paused"} \union Recovering \union Terminal

NoRun == [at |-> "off", cur |-> FALSE, end |-> "none", hard |-> FALSE]
NoJob == [at |-> "off", explicit |-> FALSE, keys |-> FALSE, scan |-> FALSE,
          cur |-> FALSE, status |-> "queued", rev |-> 0]

Live == run.at # "off"
Recovers == job.at # "off"
RunOwns == owner = "run" /\ run.cur
JobOwns == owner = "job" /\ job.cur

Init ==
  /\ policy \in Policies /\ status = "queued" /\ desired = "run" /\ rev = 0
  /\ owner = "none" /\ pending = FALSE
  /\ asked = FALSE /\ attempts = 0 /\ fact = "none"
  /\ wantCancel = FALSE /\ wantPause = FALSE
  /\ timers = 0 /\ later = {} /\ run = NoRun /\ job = NoJob /\ faults = 0

(* What becomes of the recovery: it is late, reads the row, claims, observes. *)
JobSuperseded == job' = [job EXCEPT !.cur = FALSE]
JobProbes ==
  job' = [job EXCEPT !.at = "probing", !.cur = TRUE, !.status = status, !.rev = rev]
JobTakes == job' = [job EXCEPT !.at = "isolating", !.cur = TRUE]
JobLooks == job' = [job EXCEPT !.at = "observing"]

-----------------------------------------------------------------------------
(* The run: _schedule_run, _run, run_owned_task and the body it awaits.      *)

(* What becomes of the handle: it is made, owns its task, goes on, is thrown  *)
(* out of an await, is told to stop, or loses its task to a recovery.         *)
Handle == [NoRun EXCEPT !.at = "begun"]
Owns == run' = [run EXCEPT !.at = "isolating", !.cur = TRUE]
Goes(place, end) == run' = [run EXCEPT !.at = place, !.end = end]
Thrown(place, end) == run' = [run EXCEPT !.at = place, !.end = end, !.hard = FALSE]
ToldToStop == run' = [run EXCEPT !.hard = TRUE]
Superseded == run' = [run EXCEPT !.cur = FALSE]

(* _schedule_run: only a queued task without a live handle gets one. *)
Scheduled == run' = IF status = "queued" /\ ~Live THEN Handle ELSE run

(* The finally of _run. *)
RunIsOver ==
  run' = NoRun /\ wantCancel' = FALSE /\ wantPause' = FALSE

(* run_owned_task up to its first await. *)
RunBegins ==
  /\ run.at = "begun"
  /\ IF status \in Terminal \union Recovering \union {"paused"}
     THEN RunIsOver /\ UNCHANGED <<status, owner, job>>
     ELSE IF pending
     THEN RunIsOver /\ status' = "recovering" /\ UNCHANGED <<owner, job>>
     ELSE IF owner # "none"
     THEN RunIsOver /\ UNCHANGED <<status, owner, job>>
     ELSE /\ owner' = "run" /\ JobSuperseded /\ Owns
          /\ wantPause' = (wantPause \/ desired = "pause")
          /\ wantCancel' = (wantCancel \/ desired = "cancel")
          /\ UNCHANGED status
  /\ UNCHANGED <<desired, rev, pending, recVars, timers, later, faults>>

RunStep(place) ==
  /\ run.at = place /\ ~run.hard
  /\ UNCHANGED <<desired, rev, timers, later, job, faults>>

(* _cancel of a task that has not ended. *)
Cancelled == status' = "cancelled" /\ wantCancel' = FALSE

(* The answer of the driver; _run_owned_task and _run_task_body up to the    *)
(* next await.  The not-quiescent write happens before the execution         *)
(* context exists and is not fenced.                                         *)
RunIsolated ==
  /\ RunStep("isolating")
  /\ \/ /\ status' = "recovery_blocked" /\ Goes("releasing", "none")
        /\ UNCHANGED flagVars
     \/ /\ status' = IF RunOwns THEN "recovering" ELSE status
        /\ Goes("releasing", "none") /\ UNCHANGED flagVars
     \/ /\ ~RunOwns \/ status \in Terminal
        /\ Goes("releasing", "none") /\ UNCHANGED <<status, flagVars>>
     \/ /\ RunOwns /\ status \notin Terminal /\ wantCancel
        /\ Cancelled /\ Goes("releasing", "none") /\ UNCHANGED wantPause
     \/ /\ RunOwns /\ status \notin Terminal /\ ~wantCancel
        /\ status' \in {"failed", "budget_failed"} /\ Goes("releasing", "none")
        /\ UNCHANGED flagVars
     \/ /\ RunOwns /\ status \notin Terminal /\ ~wantCancel /\ wantPause
        /\ status' = "paused" /\ wantPause' = FALSE /\ Goes("releasing", "none")
        /\ UNCHANGED wantCancel
     \/ /\ RunOwns /\ status \notin Terminal /\ ~wantCancel /\ ~wantPause
        /\ Goes("resolving", "none") /\ UNCHANGED <<status, flagVars>>
  /\ UNCHANGED <<owner, pending, recVars>>

(* The driver is resolved: the body pauses, fails or starts the loop. *)
RunResolved ==
  /\ RunStep("resolving")
  /\ \/ ~RunOwns /\ Goes("releasing", "stale") /\ UNCHANGED <<status, flagVars>>
     \/ /\ RunOwns /\ status' = "failed" /\ wantCancel' = FALSE
        /\ Goes("releasing", "none") /\ UNCHANGED wantPause
     \/ /\ RunOwns /\ wantPause /\ wantCancel /\ Cancelled
        /\ Goes("releasing", "none") /\ UNCHANGED wantPause
     \/ /\ RunOwns /\ wantPause /\ ~wantCancel /\ status' = "paused" /\ wantPause' = FALSE
        /\ Goes("releasing", "none") /\ UNCHANGED wantCancel
     \/ /\ RunOwns /\ ~wantPause /\ status' = "running"
        /\ Goes("loop", "none") /\ UNCHANGED flagVars
  /\ UNCHANGED <<owner, pending, recVars>>

(* Mutant: the loop pauses between an action and its commit. *)
RunPausesMidAction ==
  /\ RunStep("loop") /\ RunOwns
  /\ \/ wantCancel /\ Cancelled /\ Goes("cleanup", "none")
     \/ ~wantCancel /\ wantPause /\ status' = "pausing"
        /\ Goes("cleanup", "paused") /\ UNCHANGED wantCancel
  /\ UNCHANGED <<wantPause, owner, pending, recVars>>

(* The loop's look at the flags, between two decisions of the roles. *)
RunChecks ==
  /\ RunStep("loop") /\ RunOwns
  /\ \/ wantCancel /\ Cancelled /\ Goes("cleanup", "none")
     \/ ~wantCancel /\ wantPause /\ ~pending /\ status' = "pausing"
        /\ Goes("cleanup", "paused") /\ UNCHANGED wantCancel
  /\ UNCHANGED <<wantPause, owner, pending, recVars>>

(* decision and prepare_action check the owner and desired_state = "run";    *)
(* StaleOwner ends the run and leaves the status as it is.                   *)
RunIsStale ==
  /\ RunStep("loop") /\ (~RunOwns \/ desired # "run")
  /\ Goes("cleanup", "stale")
  /\ UNCHANGED <<status, flagVars, owner, pending, recVars>>

RunPrepares ==
  /\ RunStep("loop") /\ RunOwns /\ desired = "run" /\ ~pending
  /\ pending' = TRUE
  /\ UNCHANGED <<status, flagVars, owner, recVars, run>>

RunCommits ==
  /\ RunStep("loop") /\ RunOwns /\ pending
  /\ pending' = FALSE
  /\ UNCHANGED <<status, flagVars, owner, recVars, run>>

(* _succeed, _fail and _budget_fail. *)
RunConcludes ==
  /\ RunStep("loop") /\ RunOwns
  /\ \/ ~pending /\ ~wantCancel /\ status' = "succeeded"
     \/ ~pending /\ status' = "budget_failed"
     \/ status' = "failed"
  /\ wantCancel' = FALSE /\ Goes("cleanup", "none")
  /\ UNCHANGED <<wantPause, owner, pending, recVars>>

RunInterrupted ==
  /\ RunStep("loop")
  /\ Goes("cleanup", "interrupted")
  /\ UNCHANGED <<status, flagVars, owner, pending, recVars>>

(* After the cleanup's awaits: _finish_pause, or run_owned_task's handler of *)
(* an interruption.  An interruption after progress starts a new fault cycle. *)
RunCleaned ==
  /\ RunStep("cleanup") /\ Goes("releasing", run.end)
  /\ \/ /\ ~RunOwns \/ run.end \in {"none", "stale"}
        /\ UNCHANGED <<status, flagVars, attempts>>
     \/ /\ RunOwns /\ run.end = "interrupted" /\ status' = "recovering"
        /\ attempts' \in {0, attempts} /\ UNCHANGED flagVars
     \/ /\ RunOwns /\ run.end = "paused" /\ wantCancel /\ status \notin Terminal
        /\ Cancelled /\ UNCHANGED <<wantPause, attempts>>
     \/ /\ RunOwns /\ run.end = "paused" /\ (~wantCancel \/ status \in Terminal)
        /\ status' = IF status = "pausing" THEN "paused" ELSE status
        /\ wantPause' = FALSE /\ UNCHANGED <<wantCancel, attempts>>
  /\ UNCHANGED <<owner, pending, asked, fact>>

(* store.release in the finally of run_owned_task, and the end of _run. *)
RunReleased ==
  /\ RunStep("releasing")
  /\ owner' = IF RunOwns THEN "none" ELSE owner
  /\ RunIsOver
  /\ status' = IF run.end = "thrown" /\ status \notin Terminal THEN "cancelled" ELSE status
  /\ UNCHANGED <<pending, recVars>>

(* handle.cancel() takes effect where the run is suspended. *)
RunHardCancelled ==
  /\ run.hard
  /\ LET Hard == status' = IF status \in Terminal THEN status ELSE "cancelled"
         Fenced == IF RunOwns THEN Hard /\ wantCancel' = FALSE
                              ELSE UNCHANGED <<status, wantCancel>>
     IN \/ /\ run.at = "isolating" /\ Thrown("releasing", "thrown")
           /\ UNCHANGED <<status, flagVars>>
        \/ /\ run.at \in {"resolving", "cleanup"} /\ Thrown("releasing", "none")
           /\ Fenced /\ UNCHANGED wantPause
        \/ run.at = "loop" /\ Thrown("cleanup", "none") /\ Fenced /\ UNCHANGED wantPause
        \/ run.at = "releasing" /\ RunIsOver /\ Hard
  /\ UNCHANGED <<desired, rev, owner, pending, recVars, timers, later, job, faults>>

-----------------------------------------------------------------------------
(* The operator's requests. *)

Request(intent) ==
  /\ rev < MaxAsk /\ rev' = rev + 1 /\ desired' = intent
  /\ UNCHANGED <<owner, pending, recVars, job, faults>>

(* Mutant: a cancel request does not store its intent. *)
AskCancelUnstored ==
  /\ status \notin Terminal
  /\ Request(desired)
  /\ IF Live
     THEN wantCancel' = TRUE /\ timers' = timers + 1 /\ UNCHANGED status
     ELSE Cancelled /\ UNCHANGED timers
  /\ UNCHANGED <<wantPause, later, run>>

AskCancel ==
  /\ status \notin Terminal
  /\ Request("cancel")
  /\ IF Live
     THEN wantCancel' = TRUE /\ timers' = timers + 1 /\ UNCHANGED status
     ELSE Cancelled /\ UNCHANGED timers
  /\ UNCHANGED <<wantPause, later, run>>

(* A running task without a handle is refused after its intent is stored. *)
AskPause ==
  /\ status \notin Terminal \union {"pausing", "paused"}
  /\ Request("pause")
  /\ \/ /\ status \in Recovering \/ (~Live /\ status # "queued")
        /\ UNCHANGED <<status, wantPause>>
     \/ /\ status \notin Recovering /\ Live
        /\ status' = "pausing" /\ wantPause' = TRUE
     \/ /\ status = "queued" /\ ~Live
        /\ status' = "paused" /\ wantPause' = FALSE
  /\ UNCHANGED <<wantCancel, timers, later, run>>

(* Continue a clean checkpoint.  An exhausted budget ends a paused task. *)
AskResume ==
  /\ status \in {"paused", "budget_failed"} /\ ~Live
  /\ \/ /\ Request("run")
        /\ status' = "queued" /\ later' = later \union {"schedule"}
        /\ wantCancel' = FALSE /\ wantPause' = FALSE
        /\ UNCHANGED <<timers, run>>
     \/ /\ status = "paused" /\ status' = "budget_failed"
        /\ UNCHANGED <<desired, rev, owner, pending, recVars, flagVars, timers,
                       later, run, job, faults>>

(* _recover reads the row and goes to probe the driver; the scanner's job is  *)
(* a task that begins later.                                                  *)
StartJob(place, explicit, keys) ==
  job' = [at |-> place, explicit |-> explicit, keys |-> keys, scan |-> place = "begun",
          cur |-> TRUE, status |-> status, rev |-> rev]

Refused(explicit) ==
  \/ status \in Terminal \union {"paused"} \/ policy = "disabled"
  \/ ~explicit /\ policy # "safe_auto"

(* Resume of an interrupted task asks for its recovery. *)
AskResumeRecovery ==
  /\ status \in Recovering /\ ~Live /\ ~Recovers /\ ~Refused(TRUE)
  /\ StartJob("probing", TRUE, FALSE)
  /\ UNCHANGED <<rowVars, owner, pending, recVars, flagVars, timers, later, run, faults>>

AskRecover ==
  /\ policy # "disabled" /\ status \notin Terminal /\ ~asked
  /\ asked' = TRUE /\ later' = later \union {"recover"}
  /\ UNCHANGED <<rowVars, owner, pending, attempts, fact, flagVars, timers, run, job, faults>>

BackgroundSchedule ==
  /\ "schedule" \in later /\ later' = later \ {"schedule"}
  /\ Scheduled
  /\ UNCHANGED <<rowVars, owner, pending, recVars, flagVars, timers, job, faults>>

(* request_recovery: a live run drops it, a recovery in flight is joined, and *)
(* whoever joined finishes the request when that recovery has ended.  A       *)
(* refused recovery finishes it like one that was joined.                     *)
BackgroundRecover ==
  /\ "recover" \in later
  /\ \/ Live /\ later' = later \ {"recover"} /\ UNCHANGED job
     \/ ~Live /\ Recovers /\ later' = (later \ {"recover"}) \union {"joined"} /\ UNCHANGED job
     \/ ~Live /\ ~Recovers /\ ~Refused(TRUE)
        /\ later' = later \ {"recover"} /\ StartJob("probing", TRUE, TRUE)
     \/ ~Live /\ ~Recovers /\ Refused(TRUE)
        /\ later' = (later \ {"recover"}) \union {"joined"} /\ UNCHANGED job
  /\ UNCHANGED <<rowVars, owner, pending, recVars, flagVars, timers, run, faults>>

JoinedReturns ==
  /\ "joined" \in later /\ ~Recovers /\ later' = later \ {"joined"}
  /\ asked' = FALSE /\ Scheduled
  /\ UNCHANGED <<rowVars, owner, pending, attempts, fact, flagVars, timers, job, faults>>

(* Mutant: the timer only cancels a live handle. *)
TimerNeedsAHandle ==
  /\ timers > 0 /\ timers' = timers - 1 /\ run.at # "begun"
  /\ IF status \in Terminal THEN UNCHANGED <<status, wantCancel, run>>
     ELSE IF Live THEN ToldToStop /\ UNCHANGED <<status, wantCancel>>
     ELSE UNCHANGED <<status, wantCancel, run>>
  /\ UNCHANGED <<desired, rev, owner, pending, recVars, wantPause, later, job, faults>>

(* _hard_cancel_after, when its grace has elapsed.  A handle has begun to run *)
(* long before a timer ends.                                                  *)
TimerFires ==
  /\ timers > 0 /\ timers' = timers - 1 /\ run.at # "begun"
  /\ IF status \in Terminal THEN UNCHANGED <<status, wantCancel, run>>
     ELSE IF Live THEN ToldToStop /\ UNCHANGED <<status, wantCancel>>
     ELSE Cancelled /\ UNCHANGED run
  /\ UNCHANGED <<desired, rev, owner, pending, recVars, wantPause, later, job, faults>>

-----------------------------------------------------------------------------
(* The scanner and the recovery it starts. *)

MustWait == policy # "safe_auto" /\ desired # "pause" /\ ~asked

(* Mutant: the scan looks for running tasks only. *)
ScanSkipsPausing ==
  /\ ~Live /\ ~(Recovers /\ job.scan)
  /\ \/ /\ status = "queued" /\ owner = "none" /\ ~pending
        /\ Scheduled /\ UNCHANGED <<status, job, later>>
     \/ /\ ~(status = "queued" /\ owner = "none" /\ ~pending)
        /\ status \in {"running"} \union Recovering \/ owner # "none"
        /\ status \notin Terminal \union {"paused"}
        /\ status' = IF MustWait THEN "recovery_blocked"
                     ELSE IF status \in {"running", "pausing"} THEN "recovering" ELSE status
        /\ IF MustWait THEN UNCHANGED <<job, later>>
           ELSE IF Recovers
           THEN later' = (IF asked THEN later \union {"joined"} ELSE later) /\ UNCHANGED job
           ELSE StartJob("begun", asked \/ desired = "pause", asked) /\ UNCHANGED later
        /\ UNCHANGED run
  /\ UNCHANGED <<desired, rev, owner, pending, recVars, flagVars, timers, faults>>

(* Mutant: the scan leaves queued tasks to the background tasks. *)
ScanRecoversOnly ==
  /\ ~Live /\ ~(Recovers /\ job.scan)
  /\ \/ /\ status = "queued" /\ owner = "none" /\ ~pending
        /\ UNCHANGED <<status, job, later, run>>
     \/ /\ ~(status = "queued" /\ owner = "none" /\ ~pending)
        /\ status \in {"running", "pausing"} \union Recovering \/ owner # "none"
        /\ status \notin Terminal \union {"paused"}
        /\ status' = IF MustWait THEN "recovery_blocked"
                     ELSE IF status \in {"running", "pausing"} THEN "recovering" ELSE status
        /\ IF MustWait THEN UNCHANGED <<job, later>>
           ELSE IF Recovers
           THEN later' = (IF asked THEN later \union {"joined"} ELSE later) /\ UNCHANGED job
           ELSE StartJob("begun", asked \/ desired = "pause", asked) /\ UNCHANGED later
        /\ UNCHANGED run
  /\ UNCHANGED <<desired, rev, owner, pending, recVars, flagVars, timers, faults>>

Scan ==
  /\ ~Live /\ ~(Recovers /\ job.scan)
  /\ \/ /\ status = "queued" /\ owner = "none" /\ ~pending
        /\ Scheduled /\ UNCHANGED <<status, job, later>>
     \/ /\ ~(status = "queued" /\ owner = "none" /\ ~pending)
        /\ status \in {"running", "pausing"} \union Recovering \/ owner # "none"
        /\ status \notin Terminal \union {"paused"}
        /\ status' = IF MustWait THEN "recovery_blocked"
                     ELSE IF status \in {"running", "pausing"} THEN "recovering" ELSE status
        /\ IF MustWait THEN UNCHANGED <<job, later>>
           ELSE IF Recovers
           THEN later' = (IF asked THEN later \union {"joined"} ELSE later) /\ UNCHANGED job
           ELSE StartJob("begun", asked \/ desired = "pause", asked) /\ UNCHANGED later
        /\ UNCHANGED run
  /\ UNCHANGED <<desired, rev, owner, pending, recVars, flagVars, timers, faults>>

JobStep(place) ==
  /\ job.at = place
  /\ UNCHANGED <<desired, rev, flagVars, timers, later, faults>>

(* The answer to the caller: finish_requests, and a queued task is scheduled. *)
Answer(st) ==
  /\ job' = NoJob /\ status' = st
  /\ asked' = (asked /\ ~job.keys)
  /\ run' = IF st = "queued" /\ ~Live THEN Handle ELSE run

(* _recover up to its probe of the driver; a retry may not be due yet. *)
JobBegins ==
  /\ JobStep("begun")
  /\ \/ /\ Refused(job.explicit) \/ ~job.explicit
        /\ Answer(status)
     \/ /\ ~Refused(job.explicit)
        /\ JobProbes
        /\ UNCHANGED <<status, asked, run>>
  /\ UNCHANGED <<owner, pending, attempts, fact>>

(* After the probe: everything that was read before it is in job. *)
Exhausted(f) == ~job.explicit /\ attempts >= MaxAuto /\ fact = f

JobGivesUp ==
  /\ JobStep("probing") /\ fact # "none" /\ Exhausted(fact)
  /\ Answer(IF job.status = "recovery_blocked" THEN status ELSE "recovery_blocked")
  /\ UNCHANGED <<owner, pending, attempts, fact>>

JobIsLate ==
  /\ JobStep("probing")
  /\ \/ status \in Terminal \/ ~job.cur
     \/ ~job.explicit /\ job.status = "recovery_blocked" /\ fact = "unavailable"
  /\ Answer(status)
  /\ UNCHANGED <<owner, pending, attempts, fact>>

Counted == IF attempts < MaxAuto THEN attempts + 1 ELSE MaxAuto

(* Mutant: the claim does not compare the epoch it has read. *)
JobClaimsAnyEpoch(f) ==
  /\ JobStep("probing") /\ ~Exhausted(f)
  /\ status \notin Terminal
  /\ fact' = f
  /\ CASE f = "available" ->
            /\ owner' = "job" /\ JobTakes /\ Superseded
            /\ status' = "recovering" /\ attempts' = Counted /\ UNCHANGED asked
       [] f = "mismatch" ->
            owner' = "none" /\ attempts' = Counted /\ Answer("recovery_blocked")
       [] f = "unavailable" ->
            /\ owner' = "none" /\ attempts' = attempts
            /\ \E st \in {"waiting_for_device", "recovery_blocked"} : Answer(st)
  /\ UNCHANGED pending

(* Mutant: the claim does not look at the status again. *)
JobClaimsEnded(f) ==
  /\ JobStep("probing") /\ ~Exhausted(f)
  /\ job.cur
  /\ fact' = f
  /\ CASE f = "available" ->
            /\ owner' = "job" /\ JobTakes /\ Superseded
            /\ status' = "recovering" /\ attempts' = Counted /\ UNCHANGED asked
       [] f = "mismatch" ->
            owner' = "none" /\ attempts' = Counted /\ Answer("recovery_blocked")
       [] f = "unavailable" ->
            /\ owner' = "none" /\ attempts' = attempts
            /\ \E st \in {"waiting_for_device", "recovery_blocked"} : Answer(st)
  /\ UNCHANGED pending

JobClaims(f) ==
  /\ JobStep("probing") /\ ~Exhausted(f)
  /\ status \notin Terminal /\ job.cur
  /\ fact' = f
  /\ CASE f = "available" ->
            /\ owner' = "job" /\ JobTakes /\ Superseded
            /\ status' = "recovering" /\ attempts' = Counted /\ UNCHANGED asked
       [] f = "mismatch" ->
            owner' = "none" /\ attempts' = Counted /\ Answer("recovery_blocked")
       [] f = "unavailable" ->
            /\ owner' = "none" /\ attempts' = attempts
            /\ \E st \in {"waiting_for_device", "recovery_blocked"} : Answer(st)
  /\ UNCHANGED pending

Released == owner' = "none"

(* The device is quiet, the context is restored and every open operation is  *)
(* closed; the intent is read again.                                         *)
JobCollects ==
  /\ JobStep("isolating") /\ JobOwns
  /\ pending' = FALSE
  /\ IF desired = "cancel" \/ status \in Terminal THEN Answer("cancelled") /\ Released
     ELSE IF desired = "pause" THEN Answer("paused") /\ Released
     ELSE JobLooks /\ UNCHANGED <<status, asked, run, owner>>
  /\ UNCHANGED <<attempts, fact>>

(* The current screen is recorded, and the intent is read once more. *)
JobObserves ==
  /\ JobStep("observing") /\ JobOwns /\ desired = "run" /\ rev = job.rev
  /\ Answer("queued") /\ Released
  /\ UNCHANGED <<pending, attempts, fact>>

(* Any failure of a step, and a change of the intent while observing. *)
JobFails ==
  /\ \/ JobStep("isolating") /\ pending' \in BOOLEAN /\ (pending' => pending)
     \/ JobStep("observing") /\ UNCHANGED pending
  /\ IF ~JobOwns THEN Answer(status) /\ UNCHANGED owner
     ELSE /\ \/ status \in Terminal /\ Answer(status)
             \/ status \notin Terminal /\ Answer("recovery_blocked")
             \/ status \notin Terminal /\ job.at = "isolating" /\ Answer("failed")
          /\ Released
  /\ UNCHANGED <<attempts, fact>>

-----------------------------------------------------------------------------
(* The backend process ends and starts again: its tasks, flags and timers    *)
(* are gone.                                                                 *)
Restarted ==
  /\ faults < MaxFault /\ faults' = faults + 1
  /\ run' = NoRun /\ job' = NoJob /\ later' = {} /\ timers' = 0
  /\ wantCancel' = FALSE /\ wantPause' = FALSE
  /\ UNCHANGED <<desired, rev, pending, recVars>>

Crash == Restarted /\ UNCHANGED <<status, owner>>

(* An orderly shutdown retires the run and is not the operator's cancel; a    *)
(* cancelled recovery releases its claim.                                     *)
Shutdown ==
  /\ Restarted
  /\ \/ /\ Live /\ desired # "cancel" /\ status \notin Terminal
        /\ status' = "recovering" /\ owner' = "none"
     \/ /\ Live /\ (desired = "cancel" \/ status \in Terminal)
        /\ status' = IF RunOwns /\ status \notin Terminal
                        /\ run.at \in {"resolving", "loop", "cleanup"}
                     THEN "cancelled" ELSE status
        /\ owner' = "none"
     \/ ~Live /\ Recovers /\ owner' = (IF JobOwns THEN "none" ELSE owner)
        /\ UNCHANGED status

RunActs ==
  \/ RunBegins \/ RunIsolated \/ RunResolved \/ RunChecks \/ RunIsStale
  \/ RunPrepares \/ RunCommits \/ RunConcludes \/ RunInterrupted
  \/ RunCleaned \/ RunReleased \/ RunHardCancelled

JobActs ==
  \/ JobBegins \/ JobGivesUp \/ JobIsLate \/ JobCollects \/ JobObserves \/ JobFails
  \/ \E f \in {"available", "unavailable", "mismatch"} : JobClaims(f)

Background == BackgroundSchedule \/ BackgroundRecover \/ JoinedReturns \/ TimerFires \/ Scan
Operator == AskCancel \/ AskPause \/ AskResume \/ AskResumeRecovery \/ AskRecover

Kept == UNCHANGED policy

Next == (RunActs \/ JobActs \/ Background \/ Operator \/ Crash \/ Shutdown) /\ Kept

Spec == Init /\ [][Next]_vars

(* The event loop runs every ready task, the scanner comes round and a       *)
(* driver answers or its time limit does.  A decision of the roles and an     *)
(* action of the device take a bounded time, but nothing says which of them   *)
(* comes next: the loop as a whole is fair.  Requests and faults are not.     *)
LoopActs == RunChecks \/ RunIsStale \/ RunPrepares \/ RunCommits \/ RunConcludes \/ RunInterrupted

Fairness ==
  /\ WF_vars(RunBegins /\ Kept) /\ WF_vars(RunIsolated /\ Kept) /\ WF_vars(RunResolved /\ Kept)
  /\ WF_vars(LoopActs /\ Kept) /\ WF_vars(RunCleaned /\ Kept) /\ WF_vars(RunReleased /\ Kept)
  /\ WF_vars(RunHardCancelled /\ Kept) /\ WF_vars(JobActs /\ Kept)
  /\ WF_vars(BackgroundSchedule /\ Kept) /\ WF_vars(BackgroundRecover /\ Kept)
  /\ WF_vars(JoinedReturns /\ Kept) /\ WF_vars(TimerFires /\ Kept) /\ WF_vars(Scan /\ Kept)
  /\ SF_vars(JobBegins /\ job'.at = "probing" /\ Kept) \* next_retry_at comes

FairSpec == Spec /\ Fairness

-----------------------------------------------------------------------------
RunType ==
  [at : {"off", "begun", "isolating", "resolving", "loop", "cleanup", "releasing"},
   cur : BOOLEAN, end : {"none", "stale", "paused", "interrupted", "thrown"}, hard : BOOLEAN]
JobType ==
  [at : {"off", "begun", "probing", "isolating", "observing"},
   explicit : BOOLEAN, keys : BOOLEAN, scan : BOOLEAN, cur : BOOLEAN,
   status : Status, rev : 0..MaxAsk]

TypeOK ==
  /\ policy \in Policies /\ status \in Status
  /\ desired \in {"run", "pause", "cancel"} /\ rev \in 0..MaxAsk
  /\ owner \in {"none", "run", "job"}
  /\ pending \in BOOLEAN /\ asked \in BOOLEAN
  /\ wantCancel \in BOOLEAN /\ wantPause \in BOOLEAN
  /\ attempts \in 0..MaxAuto /\ fact \in {"none", "available", "unavailable", "mismatch"}
  /\ timers \in 0..MaxAsk /\ later \subseteq {"schedule", "recover", "joined"}
  /\ run \in RunType /\ job \in JobType /\ faults \in 0..MaxFault

(* A task from which an operator or the scanner may simply continue has no    *)
(* open operation: whatever was interrupted went through a recovery before.   *)
ResumePointIsClean ==
  status \in {"paused", "budget_failed", "queued"} => ~pending

(* While a recovery restores the task at its epoch, no handle is past its     *)
(* entry check, whatever the order of requests, scans and shutdowns.          *)
NoWorkerBesideRecovery ==
  job.at \in {"isolating", "observing"} /\ JobOwns => run.at \in {"off", "begun"}

(* A task that has ended stays as it ended, whatever read it before and still *)
(* writes; only a failure by an exhausted budget is continued, by a resume.   *)
EndStays ==
  /\ status \in {"succeeded", "failed"} => status' = status
  /\ status = "cancelled" /\ desired = "cancel" => status' = status
  /\ status = "budget_failed" /\ status' # status => status' = "queued" /\ desired' = "run"
TerminalStays == [][EndStays]_vars

(* Recovered only on request, it does: of what the late writers do to a task  *)
(* that ended meanwhile, only the refusal of an automatic recovery has no     *)
(* check (RecoveryCoordinator._recover).                                      *)
TerminalStaysByHand == [][policy # "safe_auto" => EndStays]_vars

(* A task whose operator's last word is to continue is not cancelled.         *)
ContinuedIsNotCancelled ==
  [][status' = "cancelled" /\ status # "cancelled" => desired' # "run"]_vars

(* If it is, then by a timer of an earlier request, or by the run that such a *)
(* timer has told to stop (_hard_cancel_after): by no flag, no recovery and   *)
(* no shutdown.                                                               *)
CancelIsMeant ==
  status' = "cancelled" /\ status # "cancelled" =>
    \/ desired' # "run" \/ run.hard \/ run.end = "thrown"
    \/ timers' < timers /\ faults' = faults
OnlyTimersCancel == [][CancelIsMeant]_vars

(* Without a crash, a cancelled task ends, unless a later request of the      *)
(* operator says something else; under "safe_auto" a recovery may write it     *)
(* back, see TerminalStays.                                                   *)
CancelIsReached ==
  desired = "cancel" /\ faults = 0 /\ policy # "safe_auto"
  ~> status \in Terminal \/ desired # "cancel" \/ faults > 0

(* Without a crash, a task asked to pause becomes paused, ends, or says what  *)
(* its recovery waits for.  Under "disabled" it may be left recovering.       *)
PauseSettles ==
  desired = "pause" /\ faults = 0 /\ policy # "disabled"
  ~> \/ status \in {"paused", "waiting_for_device", "recovery_blocked"} \union Terminal
     \/ desired # "pause" \/ faults > 0

(* A queued task that is to run is picked up, also when a crash has lost the  *)
(* background task that was to schedule it.                                   *)
QueuedIsPickedUp ==
  status = "queued" /\ desired = "run" ~> status # "queued" \/ desired # "run"
=============================================================================
