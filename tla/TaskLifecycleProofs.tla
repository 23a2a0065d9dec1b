------------------------- MODULE TaskLifecycleProofs -------------------------
(* Proofs about TaskLifecycle, for any policies and any bounds of retries,     *)
(* requests and faults.  IInv is the inductive invariant; every action has a   *)
(* lemma that says it keeps it, in two steps: the types of the flags and sets, *)
(* and the rest.  The lemmas before them say what becomes of the records run   *)
(* and job.                                                                    *)
EXTENDS MCTaskLifecycle, TLAPS

(* The flags and sets, and the other values, of TypeOK. *)
FlagsTyped ==
  /\ pending \in BOOLEAN /\ asked \in BOOLEAN
  /\ wantCancel \in BOOLEAN /\ wantPause \in BOOLEAN
  /\ later \subseteq {"schedule", "recover", "joined"}

RowTyped ==
  /\ policy \in Policies /\ status \in Status
  /\ desired \in {"run", "pause", "cancel"} /\ rev \in 0..MaxAsk
  /\ owner \in {"none", "run", "job"}
  /\ attempts \in 0..MaxAuto /\ fact \in {"none", "available", "unavailable", "mismatch"}
  /\ timers \in 0..MaxAsk /\ run \in RunType /\ job \in JobType /\ faults \in 0..MaxFault

(* A run past its entry check owns its task, and no recovery that read the     *)
(* task before can still claim it.                                             *)
RunIsCurrent == run.at \notin {"off", "begun"} => RunOwns /\ ~job.cur

(* Its task has not ended before the run itself ends it.                       *)
RunIsOpen ==
  /\ run.at \in {"isolating", "resolving"} => status \notin Terminal
  /\ run.at = "loop" => status \in {"running", "pausing"} \union Recovering
  /\ run.at = "cleanup" /\ run.end = "interrupted" => status \notin Terminal

(* Where a run has not begun to act, is about to pause, or a recovery is about *)
(* to queue the task again, no operation is open.                              *)
NothingIsOpen ==
  /\ run.at \in {"isolating", "resolving"} => ~pending
  /\ run.at = "cleanup" /\ run.end = "paused" => ~pending
  /\ job.at = "observing" /\ JobOwns => ~pending

(* A recovery that the scan has started meets its task unchanged, or held by   *)
(* the token of a process that is gone, so that no run enters before it.       *)
JobIsAlone ==
  job.at = "begun" => job.cur /\ (owner # "none" \/ status \in Recovering \union {"cancelled"})

(* A task whose recovery goes on is still being recovered, unless a cancel     *)
(* request or a timer found it without a handle.                               *)
JobIsOpen ==
  job.at \in {"isolating", "observing"} /\ JobOwns => status \in Recovering \union {"cancelled"}

(* The cancel flag is set only while the operator has not said to continue;    *)
(* every timer is of a request; only "safe_auto" is recovered unasked.         *)
RequestsAgree ==
  /\ wantCancel => desired # "run"
  /\ timers <= rev
  /\ policy # "safe_auto" /\ job.at = "probing" => job.explicit

IInv ==
  /\ FlagsTyped /\ RowTyped
  /\ RunIsCurrent /\ RunIsOpen /\ NothingIsOpen /\ JobIsAlone /\ JobIsOpen
  /\ RequestsAgree /\ ResumePointIsClean

-----------------------------------------------------------------------------
(* What becomes of the records.                                                *)

RunAt == {"off", "begun", "isolating", "resolving", "loop", "cleanup", "releasing"}
RunEnd == {"none", "stale", "paused", "interrupted", "thrown"}

LEMMA RunGoes ==
  ASSUME run \in RunType, NEW a \in RunAt, NEW e \in RunEnd, Goes(a, e)
  PROVE  /\ run' \in RunType
         /\ run'.at = a /\ run'.end = e /\ (run'.cur <=> run.cur) /\ (run'.hard <=> run.hard)
  BY Zenon DEF RunType, RunAt, RunEnd, Goes

LEMMA RunStarts ==
  ASSUME run \in RunType, Owns
  PROVE  /\ run' \in RunType
         /\ run'.at = "isolating" /\ run'.cur /\ run'.end = run.end /\ (run'.hard <=> run.hard)
  BY Zenon DEF RunType, Owns

LEMMA RunThrown ==
  ASSUME run \in RunType, NEW a \in RunAt, NEW e \in RunEnd, Thrown(a, e)
  PROVE  run' \in RunType /\ run'.at = a /\ run'.end = e /\ (run'.cur <=> run.cur) /\ ~run'.hard
  BY Zenon DEF RunType, RunAt, RunEnd, Thrown

LEMMA RunMarked ==
  ASSUME run \in RunType, ToldToStop \/ Superseded
  PROVE  /\ run' \in RunType /\ run'.at = run.at /\ run'.end = run.end
         /\ ToldToStop => (run'.cur <=> run.cur)
<1>1. CASE ToldToStop
  BY <1>1, Zenon DEF RunType, ToldToStop
<1>2. CASE Superseded /\ ~ToldToStop
  BY <1>2, Zenon DEF RunType, Superseded
<1> QED BY <1>1, <1>2

LEMMA RunEnds == ASSUME run \in RunType PROVE run.end \in RunEnd /\ run.at \in RunAt
  BY DEF RunType, RunEnd, RunAt

LEMMA HandleFacts ==
  /\ NoRun \in RunType /\ NoRun.at = "off" /\ NoRun.end = "none" /\ ~NoRun.cur /\ ~NoRun.hard
  /\ Handle \in RunType /\ Handle.at = "begun" /\ Handle.end = "none" /\ ~Handle.hard
<1>1. NoRun \in RunType /\ Handle \in RunType
  BY Zenon DEF NoRun, RunType, Handle
<1>2. NoRun.at = "off" /\ NoRun.end = "none" /\ ~NoRun.cur /\ ~NoRun.hard
  BY DEF NoRun
<1>3. Handle.at = "begun" /\ Handle.end = "none" /\ ~Handle.hard
  BY DEF NoRun, Handle
<1> QED BY <1>1, <1>2, <1>3

LEMMA NoJobFacts ==
  ASSUME BoundsAreNumbers
  PROVE  NoJob \in JobType /\ NoJob.at = "off" /\ ~NoJob.cur /\ ~NoJob.explicit
  BY SMT DEF NoJob, JobType, Status, BoundsAreNumbers

LEMMA JobIsSuperseded ==
  ASSUME job \in JobType, JobSuperseded
  PROVE  job' \in JobType /\ job'.at = job.at /\ ~job'.cur /\ (job'.explicit <=> job.explicit)
  BY Zenon DEF JobType, JobSuperseded

LEMMA JobTakesOver ==
  ASSUME job \in JobType, JobTakes
  PROVE  job' \in JobType /\ job'.at = "isolating" /\ job'.cur /\ (job'.explicit <=> job.explicit)
  BY Zenon DEF JobType, JobTakes

LEMMA JobLooksOn ==
  ASSUME job \in JobType, JobLooks
  PROVE  job' \in JobType /\ job'.at = "observing" /\ (job'.cur <=> job.cur)
  BY Zenon DEF JobType, JobLooks

LEMMA JobReads ==
  ASSUME job \in JobType, status \in Status, rev \in 0..MaxAsk, JobProbes
  PROVE  job' \in JobType /\ job'.at = "probing" /\ job'.cur /\ (job'.explicit <=> job.explicit)
  BY Zenon DEF JobType, JobProbes

LEMMA JobStarts ==
  ASSUME status \in Status, rev \in 0..MaxAsk,
         NEW a \in {"begun", "probing"}, NEW x \in BOOLEAN, NEW k \in BOOLEAN, StartJob(a, x, k)
  PROVE  job' \in JobType /\ job'.at = a /\ job'.explicit = x /\ job'.cur
  BY SMT DEF StartJob, JobType

-----------------------------------------------------------------------------
(* The run.                                                                    *)
LEMMA RunBeginsKeeps ==
  ASSUME BoundsAreNumbers, IInv, RunBegins, Kept PROVE IInv'
<1>1. FlagsTyped'
  BY Zenon
    DEF RunBegins, RunIsOver, IInv, FlagsTyped, Kept, recVars, flagVars, rowVars
<1>2. /\ RowTyped' /\ RunIsCurrent' /\ RunIsOpen' /\ NothingIsOpen' /\ JobIsAlone' /\ JobIsOpen'
      /\ RequestsAgree' /\ ResumePointIsClean'
  BY SMTT(15), RunStarts, HandleFacts, JobIsSuperseded
    DEF RunBegins, RunIsOver, IInv, FlagsTyped, RowTyped, RunIsCurrent, RunIsOpen,
    NothingIsOpen, JobIsAlone, JobIsOpen, RequestsAgree, ResumePointIsClean, RunOwns,
    JobOwns, Live, Recovers, Kept, Terminal, Recovering, Status, BoundsAreNumbers, rowVars,
    recVars, flagVars
<1> QED BY <1>1, <1>2 DEF IInv

LEMMA RunIsolatedKeeps ==
  ASSUME BoundsAreNumbers, IInv, RunIsolated, Kept PROVE IInv'
<1>1. FlagsTyped'
  BY Zenon
    DEF RunIsolated, RunStep, Cancelled, IInv, FlagsTyped, Kept, recVars, flagVars, rowVars
<1>2. /\ RowTyped' /\ RunIsCurrent' /\ RunIsOpen' /\ NothingIsOpen' /\ JobIsAlone' /\ JobIsOpen'
      /\ RequestsAgree' /\ ResumePointIsClean'
  BY SMTT(15), RunGoes
    DEF RunIsolated, RunStep, Cancelled, RunAt, RunEnd, IInv, FlagsTyped, RowTyped,
    RunIsCurrent, RunIsOpen, NothingIsOpen, JobIsAlone, JobIsOpen, RequestsAgree,
    ResumePointIsClean, RunOwns, JobOwns, Live, Recovers, Kept, Terminal, Recovering,
    Status, BoundsAreNumbers, rowVars, recVars, flagVars
<1> QED BY <1>1, <1>2 DEF IInv

LEMMA RunResolvedKeeps ==
  ASSUME BoundsAreNumbers, IInv, RunResolved, Kept PROVE IInv'
<1>1. FlagsTyped'
  BY Zenon
    DEF RunResolved, RunStep, Cancelled, IInv, FlagsTyped, Kept, recVars, flagVars, rowVars
<1>2. /\ RowTyped' /\ RunIsCurrent' /\ RunIsOpen' /\ NothingIsOpen' /\ JobIsAlone' /\ JobIsOpen'
      /\ RequestsAgree' /\ ResumePointIsClean'
  BY SMTT(15), RunGoes
    DEF RunResolved, RunStep, Cancelled, RunAt, RunEnd, IInv, FlagsTyped, RowTyped,
    RunIsCurrent, RunIsOpen, NothingIsOpen, JobIsAlone, JobIsOpen, RequestsAgree,
    ResumePointIsClean, RunOwns, JobOwns, Live, Recovers, Kept, Terminal, Recovering,
    Status, BoundsAreNumbers, rowVars, recVars, flagVars
<1> QED BY <1>1, <1>2 DEF IInv

LEMMA RunChecksKeeps ==
  ASSUME BoundsAreNumbers, IInv, RunChecks, Kept PROVE IInv'
<1>1. /\ RunOwns /\ run.at = "loop" /\ UNCHANGED <<job, owner, pending>>
      /\ UNCHANGED <<desired, rev, recVars, timers, later, faults>>
      /\ \/ Goes("cleanup", "none") /\ status' = "cancelled" /\ ~wantCancel'
         \/ /\ Goes("cleanup", "paused") /\ ~pending /\ status' = "pausing"
            /\ UNCHANGED wantCancel
  BY Zenon DEF RunChecks, RunStep, Cancelled
<1>2. FlagsTyped'
  BY Zenon
    DEF RunChecks, RunStep, Cancelled, IInv, FlagsTyped, Kept, recVars, flagVars, rowVars
<1>3. /\ RowTyped' /\ RunIsCurrent' /\ RunIsOpen' /\ NothingIsOpen' /\ JobIsAlone' /\ JobIsOpen'
      /\ RequestsAgree' /\ ResumePointIsClean'
  BY SMTT(15), <1>1, RunGoes
    DEF RunAt, RunEnd, IInv, FlagsTyped, RowTyped, RunIsCurrent, RunIsOpen, NothingIsOpen,
    JobIsAlone, JobIsOpen, RequestsAgree, ResumePointIsClean, RunOwns, JobOwns, Live,
    Recovers, Kept, Terminal, Recovering, Status, BoundsAreNumbers, rowVars, recVars,
    flagVars
<1> QED BY <1>2, <1>3 DEF IInv

LEMMA RunIsStaleKeeps ==
  ASSUME BoundsAreNumbers, IInv, RunIsStale, Kept PROVE IInv'
<1>1. FlagsTyped'
  BY Zenon
    DEF RunIsStale, RunStep, IInv, FlagsTyped, Kept, recVars, flagVars, rowVars
<1>2. /\ RowTyped' /\ RunIsCurrent' /\ RunIsOpen' /\ NothingIsOpen' /\ JobIsAlone' /\ JobIsOpen'
      /\ RequestsAgree' /\ ResumePointIsClean'
  BY SMTT(15), RunGoes
    DEF RunIsStale, RunStep, RunAt, RunEnd, IInv, FlagsTyped, RowTyped, RunIsCurrent,
    RunIsOpen, NothingIsOpen, JobIsAlone, JobIsOpen, RequestsAgree, ResumePointIsClean,
    RunOwns, JobOwns, Live, Recovers, Kept, Terminal, Recovering, Status, BoundsAreNumbers,
    rowVars, recVars, flagVars
<1> QED BY <1>1, <1>2 DEF IInv

LEMMA RunPreparesKeeps ==
  ASSUME BoundsAreNumbers, IInv, RunPrepares, Kept PROVE IInv'
<1>1. FlagsTyped'
  BY Zenon
    DEF RunPrepares, RunStep, IInv, FlagsTyped, Kept, recVars, flagVars, rowVars
<1>2. /\ RowTyped' /\ RunIsCurrent' /\ RunIsOpen' /\ NothingIsOpen' /\ JobIsAlone' /\ JobIsOpen'
      /\ RequestsAgree' /\ ResumePointIsClean'
  BY SMTT(15)
    DEF RunPrepares, RunStep, IInv, FlagsTyped, RowTyped, RunIsCurrent, RunIsOpen,
    NothingIsOpen, JobIsAlone, JobIsOpen, RequestsAgree, ResumePointIsClean, RunOwns,
    JobOwns, Live, Recovers, Kept, Terminal, Recovering, Status, BoundsAreNumbers, rowVars,
    recVars, flagVars
<1> QED BY <1>1, <1>2 DEF IInv

LEMMA RunCommitsKeeps ==
  ASSUME BoundsAreNumbers, IInv, RunCommits, Kept PROVE IInv'
<1>1. FlagsTyped'
  BY Zenon
    DEF RunCommits, RunStep, IInv, FlagsTyped, Kept, recVars, flagVars, rowVars
<1>2. /\ RowTyped' /\ RunIsCurrent' /\ RunIsOpen' /\ NothingIsOpen' /\ JobIsAlone' /\ JobIsOpen'
      /\ RequestsAgree' /\ ResumePointIsClean'
  BY SMTT(15)
    DEF RunCommits, RunStep, IInv, FlagsTyped, RowTyped, RunIsCurrent, RunIsOpen,
    NothingIsOpen, JobIsAlone, JobIsOpen, RequestsAgree, ResumePointIsClean, RunOwns,
    JobOwns, Live, Recovers, Kept, Terminal, Recovering, Status, BoundsAreNumbers, rowVars,
    recVars, flagVars
<1> QED BY <1>1, <1>2 DEF IInv

LEMMA RunConcludesKeeps ==
  ASSUME BoundsAreNumbers, IInv, RunConcludes, Kept PROVE IInv'
<1>1. /\ RunOwns /\ run.at = "loop" /\ UNCHANGED <<job, owner, pending>>
      /\ UNCHANGED <<desired, rev, recVars, timers, later, faults>> /\ ~wantCancel'
      /\ Goes("cleanup", "none") /\ status' \in {"succeeded", "failed", "budget_failed"}
      /\ status' = "budget_failed" => ~pending
  BY Zenon DEF RunConcludes, RunStep
<1>2. FlagsTyped'
  BY Zenon
    DEF RunConcludes, RunStep, IInv, FlagsTyped, Kept, recVars, flagVars, rowVars
<1>3. /\ RowTyped' /\ RunIsCurrent' /\ RunIsOpen' /\ NothingIsOpen' /\ JobIsAlone' /\ JobIsOpen'
      /\ RequestsAgree' /\ ResumePointIsClean'
  BY SMTT(15), <1>1, RunGoes
    DEF RunAt, RunEnd, IInv, FlagsTyped, RowTyped, RunIsCurrent, RunIsOpen, NothingIsOpen,
    JobIsAlone, JobIsOpen, RequestsAgree, ResumePointIsClean, RunOwns, JobOwns, Live,
    Recovers, Kept, Terminal, Recovering, Status, BoundsAreNumbers, rowVars, recVars,
    flagVars
<1> QED BY <1>2, <1>3 DEF IInv

LEMMA RunInterruptedKeeps ==
  ASSUME BoundsAreNumbers, IInv, RunInterrupted, Kept PROVE IInv'
<1>1. FlagsTyped'
  BY Zenon
    DEF RunInterrupted, RunStep, IInv, FlagsTyped, Kept, recVars, flagVars, rowVars
<1>2. /\ RowTyped' /\ RunIsCurrent' /\ RunIsOpen' /\ NothingIsOpen' /\ JobIsAlone' /\ JobIsOpen'
      /\ RequestsAgree' /\ ResumePointIsClean'
  BY SMTT(15), RunGoes
    DEF RunInterrupted, RunStep, RunAt, RunEnd, IInv, FlagsTyped, RowTyped, RunIsCurrent,
    RunIsOpen, NothingIsOpen, JobIsAlone, JobIsOpen, RequestsAgree, ResumePointIsClean,
    RunOwns, JobOwns, Live, Recovers, Kept, Terminal, Recovering, Status, BoundsAreNumbers,
    rowVars, recVars, flagVars
<1> QED BY <1>1, <1>2 DEF IInv

LEMMA RunCleanedKeeps ==
  ASSUME BoundsAreNumbers, IInv, RunCleaned, Kept PROVE IInv'
<1>1. FlagsTyped'
  BY Zenon
    DEF RunCleaned, RunStep, Cancelled, IInv, FlagsTyped, Kept, recVars, flagVars, rowVars
<1>2. /\ RowTyped' /\ RunIsCurrent' /\ RunIsOpen' /\ NothingIsOpen' /\ JobIsAlone' /\ JobIsOpen'
      /\ RequestsAgree' /\ ResumePointIsClean'
  BY SMTT(15), RunGoes, RunEnds
    DEF RunCleaned, RunStep, Cancelled, RunAt, IInv, FlagsTyped, RowTyped, RunIsCurrent,
    RunIsOpen, NothingIsOpen, JobIsAlone, JobIsOpen, RequestsAgree, ResumePointIsClean,
    RunOwns, JobOwns, Live, Recovers, Kept, Terminal, Recovering, Status, BoundsAreNumbers,
    rowVars, recVars, flagVars
<1> QED BY <1>1, <1>2 DEF IInv

LEMMA RunReleasedKeeps ==
  ASSUME BoundsAreNumbers, IInv, RunReleased, Kept PROVE IInv'
<1>1. FlagsTyped'
  BY Zenon
    DEF RunReleased, RunStep, RunIsOver, IInv, FlagsTyped, Kept, recVars, flagVars, rowVars
<1>2. /\ RowTyped' /\ RunIsCurrent' /\ RunIsOpen' /\ NothingIsOpen' /\ JobIsAlone' /\ JobIsOpen'
      /\ RequestsAgree' /\ ResumePointIsClean'
  BY SMTT(15), HandleFacts
    DEF RunReleased, RunStep, RunIsOver, IInv, FlagsTyped, RowTyped, RunIsCurrent,
    RunIsOpen, NothingIsOpen, JobIsAlone, JobIsOpen, RequestsAgree, ResumePointIsClean,
    RunOwns, JobOwns, Live, Recovers, Kept, Terminal, Recovering, Status, BoundsAreNumbers,
    rowVars, recVars, flagVars
<1> QED BY <1>1, <1>2 DEF IInv

LEMMA RunHardCancelledKeeps ==
  ASSUME BoundsAreNumbers, IInv, RunHardCancelled, Kept PROVE IInv'
<1>1. FlagsTyped'
  BY Zenon
    DEF RunHardCancelled, RunIsOver, IInv, FlagsTyped, Kept, recVars, flagVars, rowVars
<1>2. /\ RowTyped' /\ RunIsCurrent' /\ RunIsOpen' /\ NothingIsOpen' /\ JobIsAlone' /\ JobIsOpen'
      /\ RequestsAgree' /\ ResumePointIsClean'
  BY SMTT(15), RunThrown, HandleFacts
    DEF RunHardCancelled, RunIsOver, RunAt, RunEnd, IInv, FlagsTyped, RowTyped,
    RunIsCurrent, RunIsOpen, NothingIsOpen, JobIsAlone, JobIsOpen, RequestsAgree,
    ResumePointIsClean, RunOwns, JobOwns, Live, Recovers, Kept, Terminal, Recovering,
    Status, BoundsAreNumbers, rowVars, recVars, flagVars
<1> QED BY <1>1, <1>2 DEF IInv

-----------------------------------------------------------------------------
(* The recovery.                                                               *)
LEMMA JobBeginsKeeps ==
  ASSUME BoundsAreNumbers, IInv, JobBegins, Kept PROVE IInv'
<1>1. FlagsTyped'
  BY Zenon
    DEF JobBegins, JobStep, Answer, Refused, IInv, FlagsTyped, Kept, recVars, flagVars,
    rowVars
<1>2. /\ RowTyped' /\ RunIsCurrent' /\ RunIsOpen' /\ NothingIsOpen' /\ JobIsAlone' /\ JobIsOpen'
      /\ RequestsAgree' /\ ResumePointIsClean'
  BY SMTT(15), HandleFacts, NoJobFacts, JobReads
    DEF JobBegins, JobStep, Answer, Refused, IInv, FlagsTyped, RowTyped, RunIsCurrent,
    RunIsOpen, NothingIsOpen, JobIsAlone, JobIsOpen, RequestsAgree, ResumePointIsClean,
    RunOwns, JobOwns, Live, Recovers, Kept, Terminal, Recovering, Status, BoundsAreNumbers,
    rowVars, recVars, flagVars
<1> QED BY <1>1, <1>2 DEF IInv

LEMMA JobGivesUpKeeps ==
  ASSUME BoundsAreNumbers, IInv, JobGivesUp, Kept PROVE IInv'
<1>1. FlagsTyped'
  BY Zenon
    DEF JobGivesUp, JobStep, Answer, Exhausted, IInv, FlagsTyped, Kept, recVars, flagVars,
    rowVars
<1>2. /\ RowTyped' /\ RunIsCurrent' /\ RunIsOpen' /\ NothingIsOpen' /\ JobIsAlone' /\ JobIsOpen'
      /\ RequestsAgree' /\ ResumePointIsClean'
  BY SMTT(15), HandleFacts, NoJobFacts
    DEF JobGivesUp, JobStep, Answer, Exhausted, IInv, FlagsTyped, RowTyped, RunIsCurrent,
    RunIsOpen, NothingIsOpen, JobIsAlone, JobIsOpen, RequestsAgree, ResumePointIsClean,
    RunOwns, JobOwns, Live, Recovers, Kept, Terminal, Recovering, Status, BoundsAreNumbers,
    rowVars, recVars, flagVars
<1> QED BY <1>1, <1>2 DEF IInv

LEMMA JobIsLateKeeps ==
  ASSUME BoundsAreNumbers, IInv, JobIsLate, Kept PROVE IInv'
<1>1. FlagsTyped'
  BY Zenon
    DEF JobIsLate, JobStep, Answer, IInv, FlagsTyped, Kept, recVars, flagVars, rowVars
<1>2. /\ RowTyped' /\ RunIsCurrent' /\ RunIsOpen' /\ NothingIsOpen' /\ JobIsAlone' /\ JobIsOpen'
      /\ RequestsAgree' /\ ResumePointIsClean'
  BY SMTT(15), HandleFacts, NoJobFacts
    DEF JobIsLate, JobStep, Answer, IInv, FlagsTyped, RowTyped, RunIsCurrent, RunIsOpen,
    NothingIsOpen, JobIsAlone, JobIsOpen, RequestsAgree, ResumePointIsClean, RunOwns,
    JobOwns, Live, Recovers, Kept, Terminal, Recovering, Status, BoundsAreNumbers, rowVars,
    recVars, flagVars
<1> QED BY <1>1, <1>2 DEF IInv

LEMMA JobClaimsKeeps ==
  ASSUME BoundsAreNumbers, IInv, NEW f \in {"available", "unavailable", "mismatch"},
         JobClaims(f), Kept
  PROVE  IInv'
<1>1. /\ UNCHANGED <<desired, rev, flagVars, timers, later, faults, pending>>
      /\ job.at = "probing" /\ status \notin Terminal /\ job.cur /\ fact' = f
      /\ \/ /\ owner' = "job" /\ JobTakes /\ Superseded
            /\ status' = "recovering" /\ attempts' = Counted
         \/ /\ owner' = "none" /\ job' = NoJob /\ run' = run
            /\ status' \in {"recovery_blocked", "waiting_for_device"}
            /\ attempts' \in {attempts, Counted}
  <2>1. CASE f = "available"
    BY <2>1, Zenon DEF JobClaims, JobStep
  <2>2. CASE f = "mismatch"
    BY <2>2, Zenon DEF JobClaims, JobStep, Answer
  <2>3. CASE f = "unavailable"
    BY <2>3, Zenon DEF JobClaims, JobStep, Answer
  <2> QED BY <2>1, <2>2, <2>3
<1>2. FlagsTyped'
  BY Zenon
    DEF JobClaims, JobStep, Exhausted, Answer, Counted, IInv, FlagsTyped, Kept, recVars,
    flagVars, rowVars
<1>3. /\ RowTyped' /\ RunIsCurrent' /\ RunIsOpen' /\ NothingIsOpen' /\ JobIsAlone' /\ JobIsOpen'
      /\ RequestsAgree' /\ ResumePointIsClean'
  BY SMTT(15), <1>1, HandleFacts, NoJobFacts, JobTakesOver, RunMarked
    DEF Counted, IInv, FlagsTyped, RowTyped, RunIsCurrent, RunIsOpen, NothingIsOpen,
    JobIsAlone, JobIsOpen, RequestsAgree, ResumePointIsClean, RunOwns, JobOwns, Live,
    Recovers, Kept, Terminal, Recovering, Status, BoundsAreNumbers, rowVars, recVars,
    flagVars
<1> QED BY <1>2, <1>3 DEF IInv

LEMMA JobCollectsKeeps ==
  ASSUME BoundsAreNumbers, IInv, JobCollects, Kept PROVE IInv'
<1>1. /\ run' = run \/ (~Live /\ run' = Handle)
      /\ job' = NoJob \/ (job' \in JobType /\ job'.at = "observing")
  BY Zenon, JobLooksOn DEF JobCollects, JobStep, Answer, IInv, FlagsTyped, RowTyped
<1>2. FlagsTyped'
  BY Zenon
    DEF JobCollects, JobStep, Answer, Released, IInv, FlagsTyped, Kept, recVars, flagVars,
    rowVars
<1>3. /\ RowTyped' /\ RunIsCurrent' /\ RunIsOpen' /\ NothingIsOpen' /\ JobIsAlone' /\ JobIsOpen'
      /\ RequestsAgree' /\ ResumePointIsClean'
  BY SMTT(15), <1>1, HandleFacts, NoJobFacts
    DEF JobCollects, JobStep, Answer, Released, IInv, FlagsTyped, RowTyped, RunIsCurrent,
    RunIsOpen, NothingIsOpen, JobIsAlone, JobIsOpen, RequestsAgree, ResumePointIsClean,
    RunOwns, JobOwns, Live, Recovers, Kept, Terminal, Recovering, Status, BoundsAreNumbers,
    rowVars, recVars, flagVars
<1> QED BY <1>2, <1>3 DEF IInv

LEMMA JobObservesKeeps ==
  ASSUME BoundsAreNumbers, IInv, JobObserves, Kept PROVE IInv'
<1>1. FlagsTyped'
  BY Zenon
    DEF JobObserves, JobStep, Answer, Released, IInv, FlagsTyped, Kept, recVars, flagVars,
    rowVars
<1>2. /\ RowTyped' /\ RunIsCurrent' /\ RunIsOpen' /\ NothingIsOpen' /\ JobIsAlone' /\ JobIsOpen'
      /\ RequestsAgree' /\ ResumePointIsClean'
  BY SMTT(15), HandleFacts, NoJobFacts
    DEF JobObserves, JobStep, Answer, Released, IInv, FlagsTyped, RowTyped, RunIsCurrent,
    RunIsOpen, NothingIsOpen, JobIsAlone, JobIsOpen, RequestsAgree, ResumePointIsClean,
    RunOwns, JobOwns, Live, Recovers, Kept, Terminal, Recovering, Status, BoundsAreNumbers,
    rowVars, recVars, flagVars
<1> QED BY <1>1, <1>2 DEF IInv

LEMMA JobFailsKeeps ==
  ASSUME BoundsAreNumbers, IInv, JobFails, Kept PROVE IInv'
<1>1. FlagsTyped'
  BY Zenon
    DEF JobFails, JobStep, Answer, Released, IInv, FlagsTyped, Kept, recVars, flagVars,
    rowVars
<1>2. /\ RowTyped' /\ RunIsCurrent' /\ RunIsOpen' /\ NothingIsOpen' /\ JobIsAlone' /\ JobIsOpen'
      /\ RequestsAgree' /\ ResumePointIsClean'
  BY SMTT(15), HandleFacts, NoJobFacts
    DEF JobFails, JobStep, Answer, Released, IInv, FlagsTyped, RowTyped, RunIsCurrent,
    RunIsOpen, NothingIsOpen, JobIsAlone, JobIsOpen, RequestsAgree, ResumePointIsClean,
    RunOwns, JobOwns, Live, Recovers, Kept, Terminal, Recovering, Status, BoundsAreNumbers,
    rowVars, recVars, flagVars
<1> QED BY <1>1, <1>2 DEF IInv

-----------------------------------------------------------------------------
(* Background tasks, timers and the scan.                                      *)
LEMMA BackgroundScheduleKeeps ==
  ASSUME BoundsAreNumbers, IInv, BackgroundSchedule, Kept PROVE IInv'
<1>1. FlagsTyped'
  BY Zenon
    DEF BackgroundSchedule, Scheduled, IInv, FlagsTyped, Kept, recVars, flagVars, rowVars
<1>2. /\ RowTyped' /\ RunIsCurrent' /\ RunIsOpen' /\ NothingIsOpen' /\ JobIsAlone' /\ JobIsOpen'
      /\ RequestsAgree' /\ ResumePointIsClean'
  BY SMTT(15), HandleFacts
    DEF BackgroundSchedule, Scheduled, IInv, FlagsTyped, RowTyped, RunIsCurrent, RunIsOpen,
    NothingIsOpen, JobIsAlone, JobIsOpen, RequestsAgree, ResumePointIsClean, RunOwns,
    JobOwns, Live, Recovers, Kept, Terminal, Recovering, Status, BoundsAreNumbers, rowVars,
    recVars, flagVars
<1> QED BY <1>1, <1>2 DEF IInv

LEMMA BackgroundRecoverKeeps ==
  ASSUME BoundsAreNumbers, IInv, BackgroundRecover, Kept PROVE IInv'
<1>1. \/ UNCHANGED job
      \/ ~Live /\ job' \in JobType /\ job'.at = "probing" /\ job'.explicit /\ job'.cur
  BY Zenon, JobStarts DEF BackgroundRecover, IInv, FlagsTyped, RowTyped
<1>2. FlagsTyped'
  BY Zenon
    DEF BackgroundRecover, Refused, IInv, FlagsTyped, Kept, recVars, flagVars, rowVars
<1>3. /\ RowTyped' /\ RunIsCurrent' /\ RunIsOpen' /\ NothingIsOpen' /\ JobIsAlone' /\ JobIsOpen'
      /\ RequestsAgree' /\ ResumePointIsClean'
  BY SMTT(15), <1>1
    DEF BackgroundRecover, Refused, IInv, FlagsTyped, RowTyped, RunIsCurrent, RunIsOpen,
    NothingIsOpen, JobIsAlone, JobIsOpen, RequestsAgree, ResumePointIsClean, RunOwns,
    JobOwns, Live, Recovers, Kept, Terminal, Recovering, Status, BoundsAreNumbers, rowVars,
    recVars, flagVars
<1> QED BY <1>2, <1>3 DEF IInv

LEMMA JoinedReturnsKeeps ==
  ASSUME BoundsAreNumbers, IInv, JoinedReturns, Kept PROVE IInv'
<1>1. FlagsTyped'
  BY Zenon
    DEF JoinedReturns, Scheduled, IInv, FlagsTyped, Kept, recVars, flagVars, rowVars
<1>2. /\ RowTyped' /\ RunIsCurrent' /\ RunIsOpen' /\ NothingIsOpen' /\ JobIsAlone' /\ JobIsOpen'
      /\ RequestsAgree' /\ ResumePointIsClean'
  BY SMTT(15), HandleFacts
    DEF JoinedReturns, Scheduled, IInv, FlagsTyped, RowTyped, RunIsCurrent, RunIsOpen,
    NothingIsOpen, JobIsAlone, JobIsOpen, RequestsAgree, ResumePointIsClean, RunOwns,
    JobOwns, Live, Recovers, Kept, Terminal, Recovering, Status, BoundsAreNumbers, rowVars,
    recVars, flagVars
<1> QED BY <1>1, <1>2 DEF IInv

LEMMA TimerFiresKeeps ==
  ASSUME BoundsAreNumbers, IInv, TimerFires, Kept PROVE IInv'
<1>1. FlagsTyped'
  BY Zenon
    DEF TimerFires, Cancelled, IInv, FlagsTyped, Kept, recVars, flagVars, rowVars
<1>2. /\ RowTyped' /\ RunIsCurrent' /\ RunIsOpen' /\ NothingIsOpen' /\ JobIsAlone' /\ JobIsOpen'
      /\ RequestsAgree' /\ ResumePointIsClean'
  BY SMTT(15), RunMarked
    DEF TimerFires, Cancelled, IInv, FlagsTyped, RowTyped, RunIsCurrent, RunIsOpen,
    NothingIsOpen, JobIsAlone, JobIsOpen, RequestsAgree, ResumePointIsClean, RunOwns,
    JobOwns, Live, Recovers, Kept, Terminal, Recovering, Status, BoundsAreNumbers, rowVars,
    recVars, flagVars
<1> QED BY <1>1, <1>2 DEF IInv

LEMMA ScanKeeps ==
  ASSUME BoundsAreNumbers, IInv, Scan, Kept PROVE IInv'
<1>1. \/ UNCHANGED job
      \/ job' \in JobType /\ job'.at = "begun" /\ job'.cur
  <2>1. (asked \/ desired = "pause") \in BOOLEAN /\ asked \in BOOLEAN
    BY Zenon DEF IInv, FlagsTyped
  <2> QED BY <2>1, Zenon, JobStarts DEF Scan, IInv, FlagsTyped, RowTyped
<1>2. FlagsTyped'
  BY Zenon
    DEF Scan, Scheduled, MustWait, IInv, FlagsTyped, Kept, recVars, flagVars, rowVars
<1>3. /\ RowTyped' /\ RunIsCurrent' /\ RunIsOpen' /\ NothingIsOpen' /\ JobIsAlone' /\ JobIsOpen'
      /\ RequestsAgree' /\ ResumePointIsClean'
  BY SMTT(15), <1>1, HandleFacts
    DEF Scan, Scheduled, MustWait, IInv, FlagsTyped, RowTyped, RunIsCurrent, RunIsOpen,
    NothingIsOpen, JobIsAlone, JobIsOpen, RequestsAgree, ResumePointIsClean, RunOwns,
    JobOwns, Live, Recovers, Kept, Terminal, Recovering, Status, BoundsAreNumbers, rowVars,
    recVars, flagVars
<1> QED BY <1>2, <1>3 DEF IInv

-----------------------------------------------------------------------------
(* The operator, and the end of the process.                                   *)
LEMMA AskCancelKeeps ==
  ASSUME BoundsAreNumbers, IInv, AskCancel, Kept PROVE IInv'
<1>1. FlagsTyped'
  BY Zenon
    DEF AskCancel, Request, Cancelled, IInv, FlagsTyped, Kept, recVars, flagVars, rowVars
<1>2. /\ RowTyped' /\ RunIsCurrent' /\ RunIsOpen' /\ NothingIsOpen' /\ JobIsAlone' /\ JobIsOpen'
      /\ RequestsAgree' /\ ResumePointIsClean'
  BY SMTT(15)
    DEF AskCancel, Request, Cancelled, IInv, FlagsTyped, RowTyped, RunIsCurrent, RunIsOpen,
    NothingIsOpen, JobIsAlone, JobIsOpen, RequestsAgree, ResumePointIsClean, RunOwns,
    JobOwns, Live, Recovers, Kept, Terminal, Recovering, Status, BoundsAreNumbers, rowVars,
    recVars, flagVars
<1> QED BY <1>1, <1>2 DEF IInv

LEMMA AskPauseKeeps ==
  ASSUME BoundsAreNumbers, IInv, AskPause, Kept PROVE IInv'
<1>1. FlagsTyped'
  BY Zenon
    DEF AskPause, Request, IInv, FlagsTyped, Kept, recVars, flagVars, rowVars
<1>2. /\ RowTyped' /\ RunIsCurrent' /\ RunIsOpen' /\ NothingIsOpen' /\ JobIsAlone' /\ JobIsOpen'
      /\ RequestsAgree' /\ ResumePointIsClean'
  BY SMTT(15)
    DEF AskPause, Request, IInv, FlagsTyped, RowTyped, RunIsCurrent, RunIsOpen,
    NothingIsOpen, JobIsAlone, JobIsOpen, RequestsAgree, ResumePointIsClean, RunOwns,
    JobOwns, Live, Recovers, Kept, Terminal, Recovering, Status, BoundsAreNumbers, rowVars,
    recVars, flagVars
<1> QED BY <1>1, <1>2 DEF IInv

LEMMA AskResumeKeeps ==
  ASSUME BoundsAreNumbers, IInv, AskResume, Kept PROVE IInv'
<1>1. FlagsTyped'
  BY Zenon
    DEF AskResume, Request, IInv, FlagsTyped, Kept, recVars, flagVars, rowVars
<1>2. /\ RowTyped' /\ RunIsCurrent' /\ RunIsOpen' /\ NothingIsOpen' /\ JobIsAlone' /\ JobIsOpen'
      /\ RequestsAgree' /\ ResumePointIsClean'
  BY SMTT(15)
    DEF AskResume, Request, IInv, FlagsTyped, RowTyped, RunIsCurrent, RunIsOpen,
    NothingIsOpen, JobIsAlone, JobIsOpen, RequestsAgree, ResumePointIsClean, RunOwns,
    JobOwns, Live, Recovers, Kept, Terminal, Recovering, Status, BoundsAreNumbers, rowVars,
    recVars, flagVars
<1> QED BY <1>1, <1>2 DEF IInv

LEMMA AskResumeRecoveryKeeps ==
  ASSUME BoundsAreNumbers, IInv, AskResumeRecovery, Kept PROVE IInv'
<1>1. job' \in JobType /\ job'.at = "probing" /\ job'.explicit /\ job'.cur
  BY Zenon, JobStarts DEF AskResumeRecovery, IInv, FlagsTyped, RowTyped
<1>2. FlagsTyped'
  BY Zenon
    DEF AskResumeRecovery, Refused, IInv, FlagsTyped, Kept, recVars, flagVars, rowVars
<1>3. /\ RowTyped' /\ RunIsCurrent' /\ RunIsOpen' /\ NothingIsOpen' /\ JobIsAlone' /\ JobIsOpen'
      /\ RequestsAgree' /\ ResumePointIsClean'
  BY SMTT(15), <1>1
    DEF AskResumeRecovery, Refused, IInv, FlagsTyped, RowTyped, RunIsCurrent, RunIsOpen,
    NothingIsOpen, JobIsAlone, JobIsOpen, RequestsAgree, ResumePointIsClean, RunOwns,
    JobOwns, Live, Recovers, Kept, Terminal, Recovering, Status, BoundsAreNumbers, rowVars,
    recVars, flagVars
<1> QED BY <1>2, <1>3 DEF IInv

LEMMA AskRecoverKeeps ==
  ASSUME BoundsAreNumbers, IInv, AskRecover, Kept PROVE IInv'
<1>1. FlagsTyped'
  BY Zenon
    DEF AskRecover, IInv, FlagsTyped, Kept, recVars, flagVars, rowVars
<1>2. /\ RowTyped' /\ RunIsCurrent' /\ RunIsOpen' /\ NothingIsOpen' /\ JobIsAlone' /\ JobIsOpen'
      /\ RequestsAgree' /\ ResumePointIsClean'
  BY SMTT(15)
    DEF AskRecover, IInv, FlagsTyped, RowTyped, RunIsCurrent, RunIsOpen, NothingIsOpen,
    JobIsAlone, JobIsOpen, RequestsAgree, ResumePointIsClean, RunOwns, JobOwns, Live,
    Recovers, Kept, Terminal, Recovering, Status, BoundsAreNumbers, rowVars, recVars,
    flagVars
<1> QED BY <1>1, <1>2 DEF IInv

LEMMA CrashKeeps ==
  ASSUME BoundsAreNumbers, IInv, Crash, Kept PROVE IInv'
<1>1. FlagsTyped'
  BY Zenon
    DEF Crash, Restarted, IInv, FlagsTyped, Kept, recVars, flagVars, rowVars
<1>2. /\ RowTyped' /\ RunIsCurrent' /\ RunIsOpen' /\ NothingIsOpen' /\ JobIsAlone' /\ JobIsOpen'
      /\ RequestsAgree' /\ ResumePointIsClean'
  BY SMTT(15), HandleFacts, NoJobFacts
    DEF Crash, Restarted, IInv, FlagsTyped, RowTyped, RunIsCurrent, RunIsOpen,
    NothingIsOpen, JobIsAlone, JobIsOpen, RequestsAgree, ResumePointIsClean, RunOwns,
    JobOwns, Live, Recovers, Kept, Terminal, Recovering, Status, BoundsAreNumbers, rowVars,
    recVars, flagVars
<1> QED BY <1>1, <1>2 DEF IInv

LEMMA ShutdownKeeps ==
  ASSUME BoundsAreNumbers, IInv, Shutdown, Kept PROVE IInv'
<1>1. FlagsTyped'
  BY Zenon
    DEF Shutdown, Restarted, IInv, FlagsTyped, Kept, recVars, flagVars, rowVars
<1>2. /\ RowTyped' /\ RunIsCurrent' /\ RunIsOpen' /\ NothingIsOpen' /\ JobIsAlone' /\ JobIsOpen'
      /\ RequestsAgree' /\ ResumePointIsClean'
  BY SMTT(15), HandleFacts, NoJobFacts
    DEF Shutdown, Restarted, IInv, FlagsTyped, RowTyped, RunIsCurrent, RunIsOpen,
    NothingIsOpen, JobIsAlone, JobIsOpen, RequestsAgree, ResumePointIsClean, RunOwns,
    JobOwns, Live, Recovers, Kept, Terminal, Recovering, Status, BoundsAreNumbers, rowVars,
    recVars, flagVars
<1> QED BY <1>1, <1>2 DEF IInv

-----------------------------------------------------------------------------
(* The invariant, and what follows from it.                                    *)
LEMMA InitHolds == ASSUME BoundsAreNumbers, Init PROVE IInv
<1>1. FlagsTyped
  BY Zenon DEF Init, FlagsTyped
<1>2. RowTyped
  BY HandleFacts, NoJobFacts, SMT DEF Init, RowTyped, Status, BoundsAreNumbers
<1>3. /\ RunIsCurrent /\ RunIsOpen /\ NothingIsOpen /\ JobIsAlone /\ JobIsOpen
      /\ RequestsAgree /\ ResumePointIsClean
  BY HandleFacts, NoJobFacts, SMT
    DEF Init, RunIsCurrent, RunIsOpen, NothingIsOpen, JobIsAlone, JobIsOpen, RequestsAgree,
    ResumePointIsClean
<1> QED BY <1>1, <1>2, <1>3 DEF IInv

LEMMA NextKeeps == ASSUME BoundsAreNumbers, IInv, [Next]_vars PROVE IInv'
<1>1. CASE RunActs /\ Kept
  BY <1>1, RunBeginsKeeps, RunIsolatedKeeps, RunResolvedKeeps, RunChecksKeeps, RunIsStaleKeeps,
       RunPreparesKeeps, RunCommitsKeeps, RunConcludesKeeps, RunInterruptedKeeps,
       RunCleanedKeeps, RunReleasedKeeps, RunHardCancelledKeeps, Zenon DEF RunActs
<1>2. CASE JobActs /\ Kept
  BY <1>2, JobBeginsKeeps, JobGivesUpKeeps, JobIsLateKeeps, JobCollectsKeeps, JobObservesKeeps,
       JobFailsKeeps, JobClaimsKeeps, Zenon DEF JobActs
<1>3. CASE Background /\ Kept
  BY <1>3, BackgroundScheduleKeeps, BackgroundRecoverKeeps, JoinedReturnsKeeps, TimerFiresKeeps,
       ScanKeeps, Zenon DEF Background
<1>4. CASE Operator /\ Kept
  BY <1>4, AskCancelKeeps, AskPauseKeeps, AskResumeKeeps, AskResumeRecoveryKeeps,
       AskRecoverKeeps, Zenon DEF Operator
<1>5. CASE (Crash \/ Shutdown) /\ Kept
  BY <1>5, CrashKeeps, ShutdownKeeps
<1>6. CASE UNCHANGED vars
  <2>1. FlagsTyped'
    BY <1>6, Zenon DEF vars, rowVars, recVars, flagVars, IInv, FlagsTyped
  <2>2. /\ RowTyped' /\ RunIsCurrent' /\ RunIsOpen' /\ NothingIsOpen' /\ JobIsAlone' /\ JobIsOpen'
        /\ RequestsAgree' /\ ResumePointIsClean'
    BY <1>6, SMT
      DEF vars, rowVars, recVars, flagVars, IInv, RowTyped, RunIsCurrent, RunIsOpen,
      NothingIsOpen, JobIsAlone, JobIsOpen, RequestsAgree, ResumePointIsClean, RunOwns, JobOwns
  <2> QED BY <2>1, <2>2 DEF IInv
<1> QED BY <1>1, <1>2, <1>3, <1>4, <1>5, <1>6 DEF Next

(* The invariant holds in every behaviour. *)
THEOREM InvariantHolds == ASSUME BoundsAreNumbers PROVE Spec => []IInv
<1>1. Init => IInv
  BY InitHolds
<1>2. IInv /\ [Next]_vars => IInv'
  BY NextKeeps
<1> QED BY <1>1, <1>2, PTL DEF Spec

(* The row, the registry, the run and the recovery are of their types, whatever *)
(* the order of requests, timers, scans and shutdowns.                         *)
THEOREM TypeCorrect == ASSUME BoundsAreNumbers PROVE Spec => []TypeOK
<1>1. IInv => TypeOK
  BY DEF IInv, FlagsTyped, RowTyped, TypeOK
<1> QED BY <1>1, InvariantHolds, PTL

(* A task from which an operator or the scan may simply continue has no open   *)
(* operation (resume, _resume_checkpoint, run_owned_task).                     *)
THEOREM ResumeIsClean == ASSUME BoundsAreNumbers PROVE Spec => []ResumePointIsClean
<1>1. IInv => ResumePointIsClean
  BY DEF IInv
<1> QED BY <1>1, InvariantHolds, PTL

(* While a recovery restores the task, no run is past its entry check.         *)
THEOREM RecoveryIsAlone == ASSUME BoundsAreNumbers PROVE Spec => []NoWorkerBesideRecovery
<1>1. IInv => NoWorkerBesideRecovery
  BY DEF IInv, RunIsCurrent, NoWorkerBesideRecovery, JobOwns
<1> QED BY <1>1, InvariantHolds, PTL

(* A run that lives keeps its task: no request, scan or recovery supersedes it. *)
THEOREM RunKeepsItsTask == ASSUME BoundsAreNumbers PROVE Spec => []RunIsCurrent
<1>1. IInv => RunIsCurrent
  BY DEF IInv
<1> QED BY <1>1, InvariantHolds, PTL

-----------------------------------------------------------------------------
(* How a task ends.                                                            *)
LEMMA EndsAreMeant ==
  ASSUME BoundsAreNumbers, IInv, Next
  PROVE  (policy # "safe_auto" => EndStays) /\ CancelIsMeant
<1>1. CASE RunBegins /\ Kept
  BY <1>1, SMTT(15)
    DEF RunBegins, RunIsOver, EndStays, CancelIsMeant, IInv, RowTyped, Terminal, Recovering,
    Status, RunIsOpen, RunIsCurrent, JobIsOpen, RequestsAgree, RunOwns, JobOwns, Live,
    recVars, flagVars, rowVars, Kept
<1>2. CASE RunIsolated /\ Kept
  BY <1>2, SMTT(15)
    DEF RunIsolated, RunStep, Cancelled, RunAt, RunEnd, EndStays, CancelIsMeant, IInv,
    RowTyped, Terminal, Recovering, Status, RunIsOpen, RunIsCurrent, JobIsOpen,
    RequestsAgree, RunOwns, JobOwns, Live, recVars, flagVars, rowVars, Kept
<1>3. CASE RunResolved /\ Kept
  BY <1>3, SMTT(15)
    DEF RunResolved, RunStep, Cancelled, RunAt, RunEnd, EndStays, CancelIsMeant, IInv,
    RowTyped, Terminal, Recovering, Status, RunIsOpen, RunIsCurrent, JobIsOpen,
    RequestsAgree, RunOwns, JobOwns, Live, recVars, flagVars, rowVars, Kept
<1>4. CASE RunChecks /\ Kept
  BY <1>4, SMTT(15)
    DEF RunChecks, RunStep, Cancelled, RunAt, RunEnd, EndStays, CancelIsMeant, IInv,
    RowTyped, Terminal, Recovering, Status, RunIsOpen, RunIsCurrent, JobIsOpen,
    RequestsAgree, RunOwns, JobOwns, Live, recVars, flagVars, rowVars, Kept
<1>5. CASE RunConcludes /\ Kept
  BY <1>5, SMTT(15)
    DEF RunConcludes, RunStep, RunAt, RunEnd, EndStays, CancelIsMeant, IInv, RowTyped,
    Terminal, Recovering, Status, RunIsOpen, RunIsCurrent, JobIsOpen, RequestsAgree,
    RunOwns, JobOwns, Live, recVars, flagVars, rowVars, Kept
<1>6. CASE RunInterrupted /\ Kept
  BY <1>6, SMTT(15)
    DEF RunInterrupted, RunStep, RunAt, RunEnd, EndStays, CancelIsMeant, IInv, RowTyped,
    Terminal, Recovering, Status, RunIsOpen, RunIsCurrent, JobIsOpen, RequestsAgree,
    RunOwns, JobOwns, Live, recVars, flagVars, rowVars, Kept
<1>7. CASE RunCleaned /\ Kept
  BY <1>7, SMTT(15)
    DEF RunCleaned, RunStep, Cancelled, RunAt, EndStays, CancelIsMeant, IInv, RowTyped,
    Terminal, Recovering, Status, RunIsOpen, RunIsCurrent, JobIsOpen, RequestsAgree,
    RunOwns, JobOwns, Live, recVars, flagVars, rowVars, Kept
<1>8. CASE RunReleased /\ Kept
  BY <1>8, SMTT(15)
    DEF RunReleased, RunStep, RunIsOver, EndStays, CancelIsMeant, IInv, RowTyped, Terminal,
    Recovering, Status, RunIsOpen, RunIsCurrent, JobIsOpen, RequestsAgree, RunOwns, JobOwns,
    Live, recVars, flagVars, rowVars, Kept
<1>9. CASE RunHardCancelled /\ Kept
  BY <1>9, SMTT(15)
    DEF RunHardCancelled, RunIsOver, RunAt, RunEnd, EndStays, CancelIsMeant, IInv, RowTyped,
    Terminal, Recovering, Status, RunIsOpen, RunIsCurrent, JobIsOpen, RequestsAgree,
    RunOwns, JobOwns, Live, recVars, flagVars, rowVars, Kept
<1>10. CASE JobGivesUp /\ Kept
  BY <1>10, SMTT(15)
    DEF JobGivesUp, JobStep, Answer, Exhausted, EndStays, CancelIsMeant, IInv, RowTyped,
    Terminal, Recovering, Status, RunIsOpen, RunIsCurrent, JobIsOpen, RequestsAgree,
    RunOwns, JobOwns, Live, recVars, flagVars, rowVars, Kept
<1>11. CASE JobCollects /\ Kept
  BY <1>11, SMTT(15)
    DEF JobCollects, JobStep, Answer, Released, EndStays, CancelIsMeant, IInv, RowTyped,
    Terminal, Recovering, Status, RunIsOpen, RunIsCurrent, JobIsOpen, RequestsAgree,
    RunOwns, JobOwns, Live, recVars, flagVars, rowVars, Kept
<1>12. CASE JobObserves /\ Kept
  BY <1>12, SMTT(15)
    DEF JobObserves, JobStep, Answer, Released, EndStays, CancelIsMeant, IInv, RowTyped,
    Terminal, Recovering, Status, RunIsOpen, RunIsCurrent, JobIsOpen, RequestsAgree,
    RunOwns, JobOwns, Live, recVars, flagVars, rowVars, Kept
<1>13. CASE JobFails /\ Kept
  BY <1>13, SMTT(15)
    DEF JobFails, JobStep, Answer, Released, EndStays, CancelIsMeant, IInv, RowTyped,
    Terminal, Recovering, Status, RunIsOpen, RunIsCurrent, JobIsOpen, RequestsAgree,
    RunOwns, JobOwns, Live, recVars, flagVars, rowVars, Kept
<1>14. CASE TimerFires /\ Kept
  BY <1>14, SMTT(15)
    DEF TimerFires, Cancelled, EndStays, CancelIsMeant, IInv, RowTyped, Terminal,
    Recovering, Status, RunIsOpen, RunIsCurrent, JobIsOpen, RequestsAgree, RunOwns, JobOwns,
    Live, recVars, flagVars, rowVars, Kept
<1>15. CASE Scan /\ Kept
  BY <1>15, SMTT(15)
    DEF Scan, Scheduled, MustWait, EndStays, CancelIsMeant, IInv, RowTyped, Terminal,
    Recovering, Status, RunIsOpen, RunIsCurrent, JobIsOpen, RequestsAgree, RunOwns, JobOwns,
    Live, recVars, flagVars, rowVars, Kept
<1>16. CASE AskCancel /\ Kept
  BY <1>16, SMTT(15)
    DEF AskCancel, Request, Cancelled, EndStays, CancelIsMeant, IInv, RowTyped, Terminal,
    Recovering, Status, RunIsOpen, RunIsCurrent, JobIsOpen, RequestsAgree, RunOwns, JobOwns,
    Live, recVars, flagVars, rowVars, Kept
<1>17. CASE AskPause /\ Kept
  BY <1>17, SMTT(15)
    DEF AskPause, Request, EndStays, CancelIsMeant, IInv, RowTyped, Terminal, Recovering,
    Status, RunIsOpen, RunIsCurrent, JobIsOpen, RequestsAgree, RunOwns, JobOwns, Live,
    recVars, flagVars, rowVars, Kept
<1>18. CASE AskResume /\ Kept
  BY <1>18, SMTT(15)
    DEF AskResume, Request, EndStays, CancelIsMeant, IInv, RowTyped, Terminal, Recovering,
    Status, RunIsOpen, RunIsCurrent, JobIsOpen, RequestsAgree, RunOwns, JobOwns, Live,
    recVars, flagVars, rowVars, Kept
<1>19. CASE Shutdown /\ Kept
  BY <1>19, SMTT(15)
    DEF Shutdown, Restarted, EndStays, CancelIsMeant, IInv, RowTyped, Terminal, Recovering,
    Status, RunIsOpen, RunIsCurrent, JobIsOpen, RequestsAgree, RunOwns, JobOwns, Live,
    recVars, flagVars, rowVars, Kept
<1>20. CASE \E f \in {"available", "unavailable", "mismatch"} : JobClaims(f)
  BY <1>20, Zenon DEF JobClaims, JobStep, Answer, EndStays, CancelIsMeant, Terminal
<1>21. CASE \/ BackgroundSchedule \/ BackgroundRecover \/ JoinedReturns \/ AskRecover
            \/ AskResumeRecovery \/ RunIsStale \/ RunPrepares \/ RunCommits
            \/ JobBegins \/ JobIsLate \/ Crash
  <2>1. status' = status
    BY <1>21, Zenon
      DEF BackgroundSchedule, BackgroundRecover, JoinedReturns, RunIsStale, RunStep, RunAt,
      RunEnd, RunPrepares, RunCommits, AskResumeRecovery, AskRecover, Crash, JobBegins,
      JobStep, Answer, JobIsLate, rowVars
  <2> QED BY <2>1 DEF EndStays, CancelIsMeant
<1> QED BY <1>1, <1>2, <1>3, <1>4, <1>5, <1>6, <1>7, <1>8, <1>9, <1>10, <1>11, <1>12,
    <1>13, <1>14, <1>15, <1>16, <1>17, <1>18, <1>19, <1>20, <1>21, Zenon
    DEF Next, RunActs, JobActs, Background, Operator

(* A task that is recovered only on request stays as it ended, whatever read it *)
(* before and still writes (recover, run_owned_task, the API).                  *)
THEOREM EndsStayByHand == ASSUME BoundsAreNumbers PROVE Spec => TerminalStaysByHand
<1>1. IInv /\ [Next]_vars => [policy # "safe_auto" => EndStays]_vars
  BY EndsAreMeant
<1> QED BY <1>1, InvariantHolds, PTL DEF Spec, TerminalStaysByHand

(* Whoever cancels a task that its operator wants to continue is a timer of an *)
(* earlier request (_hard_cancel_after), or the run that it told to stop.      *)
THEOREM OnlyTimers == ASSUME BoundsAreNumbers PROVE Spec => OnlyTimersCancel
<1>1. IInv /\ [Next]_vars => [CancelIsMeant]_vars
  BY EndsAreMeant
<1> QED BY <1>1, InvariantHolds, PTL DEF Spec, OnlyTimersCancel
=============================================================================
