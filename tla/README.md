# A formal model of ClickClick's durable execution

ClickClick runs agents that operate Android phones. A task may be cancelled,
paused, steered, crash and be taken over at any moment, and the thing it acts on
is not a database but a phone: an input that was sent cannot be taken back. This
directory models the parts of the program that make this safe, checks them with TLC
and proves their central facts with TLAPS.

The reference is the source. `PROJECT.json` names the lines of each definition
("map"), what is hard to test in the code and where ("hazards"), and for each
checked property a plausible bug that breaks it ("mutants").

## 1. The system

| part | source | state it keeps | operations | what makes it correct |
| --- | --- | --- | --- | --- |
| execution journal | `driver/execution_journal.py` | guards (one authority per device), operations, subactions, children, lock files | act, fence, close_task, begin/end_subaction, get | an operation id is executed once; a device reported quiescent stays silent for every older fence |
| input supervisors | `driver/owned_subprocess.py`, `driver/adb.py`, `driver/processes.py` | one process group per adb command | spawn, check, register, run, reap | no command starts after its authority was revoked |
| recovery ledger | `shared/recovery_store.py`, `shared/recovery_context.py`, `shared/db.py` | task_operations, operation_receipts, budget_ledger, step commits, state_json, active manifest | prepare (T1), receipt (T2), commit and settle (T3), record_unknown | nothing sent is uncharged, a step is committed once, every intent is closed |
| device ownership | `shared/recovery_store.py`, `driver/rpc_server.py`, `agent/driver_client.py` | epoch and worker token of a task; last token, owner and quarantine of a device | claim, check, quiescent, release, fence | one authority per device; nobody locks its owner out |
| recovery coordinator | `shared/recovery_runtime.py` | per-task locks, projections in recovery_json | run_owned_task, recover, safety_cleanup | a recovery is not retired under its feet, an ended task frees its device |
| control API | `control_api/main.py`, `shared/task_control.py`, `shared/cancel_registry.py`, `shared/task_budgets.py` | `_running`, `_recovery_jobs`, status and desired state of tasks, timers | schedule, cancel, pause, resume, recover, scan, shutdown | a request of the operator is reached, a task resumes from a clean point |
| role loop | `agent/revisable/orchestrator.py`, `agent/orchestrator.py`, `agent/revisable/session.py`, `agent/targeted_input.py` | AgentState: counters, next role, limits, the lease of the call | planner, reviewer and executor turns, one action per executor step | no decision of an obsolete call is adopted; every action begun is recorded |
| steering | `shared/steering.py` | ordered user adjustments | accept, applied, cancelled | an adjustment is applied once, by a planner that saw it |
| human input | `shared/hitl.py`, `control_api/hitl.py`, `control_api/assistant.py` | one interaction record per question, its owner and version | begin, present, takeover, reply, reconcile, complete | a question is settled once and closed in the end; its answer is handed over before it is used up |
| agent session | `agent/session.py` | transcript, screen, counters of one role invocation | request, tool calls, suspend, resume | what is sent to the model is well formed |
| scrcpy sessions | `driver/scrcpy_stream.py` | leases, source, pump, generation, idle timer | acquire, release, idle stop, shutdown | a lease holder has a live source, an unused one stops |
| observation | `driver/scrcpy_observation.py`, `driver/android.py`, `driver/observation_deadline.py`, `agent/action_observation.py` | frames of a generation, the boundary of an action | append, act, capture | pixels are later than the action they are paired with |
| collector channel | `driver/accessibility.py` | socket, ADB forward, cleanup tasks | connect, request, close | a closed channel leaves nothing behind |
| Android collector | `android/accessibility-collector` | screen lease, interaction ring | lease, read | a lease ends; a ring read tells whether it is complete |
| artifact store | `shared/artifacts.py` | files, pins of processes | publish, pin, release, prune | an artifact referenced where prune reads references is never pruned |
| research environment | `agent/skills/environment.py`, `research_tools.py`, `learning.py`, `exploration.py` | journal of intents, effects, checkpoints | begin, act, verify, reset, close, resume | clean means restored, as far as dispatches are reported truly |
| skill publication | `agent/skills/candidate_group.py`, `pending.py`, `snapshot.py` | library files, staged patches, receipt | freeze, stage, approve, reject | a patch is applied to what it was reviewed against |
| driver pool, live updates, preview | `driver/pool.py`, `control_api/sse.py`, `control_api/preview.py` | drivers per device, subscriber queues | get, publish, subscribe | bounded |
| desktop | `desktop`, `control_api/setup.py` | update record and job, two gates of admission, four file locks, the current version, the OS service | request, update, install, restore, recover, start, stop | nothing stopped under a gate was admitted, an installer that stopped the service switches the version while nothing runs, a gate can be opened again |
| the rest | `agent/prompts`, `agent/integrations`, other `agent/skills`, `perception`, `web`, `evaluation`, `devtools`, `scripts` | | | data conversion, user interface, tools; `evaluation` holds a frozen copy of an older runtime |

How the parts interact. The control API starts `run_owned_task` for a queued task.
It claims the task and its device in the database, fences the journal of the
device's driver with the new device fence, and runs the role loop. Each role call is
an agent session: rounds of a request to the model and of tool calls, among them a
question to the user, which suspends the task, and the action of the executor. An
action passes `DurableDriver.act`: T1 in the ledger, the input through the journal (in
process, or by RPC to a driver service), T2 in the ledger; the loop then commits the step
(T3), whose images go through the artifact store. The journal starts one supervisor
process per adb command; it outlives a crash of the backend, and checks the guard itself.
The driver observes the phone by the frames of a shared scrcpy session and by a
channel to the collector app, which also holds the screen's lease and reports the
interactions it saw. When the backend is gone or a run was interrupted, the scan
of the control API starts `_recover`: it takes ownership with a new epoch and fence,
drains the device, reads back what the journal knows, and closes the open step.
`safety_cleanup` frees devices of tasks that no recovery will serve. Learning jobs act
on a device of their own under the journal of the research environment, and publish
patches of the skill library. The backend itself is a child of an OS service; the tray, an installer
and the updater are processes of their own that stop, replace and start it, and meet it only in
files, file locks and a few requests.

What is hard here: cancelled coroutines whose worker threads go on; processes that
survive the one that started them; one directory shared by several processes;
handlers that read before an `await` and write after it; receipts that arrive after
their step was closed; remote requests that outlive their sender; timers of requests
that are over; answers that were carried out and lost.

## 2. The modules

Every module models one component, with its own state, one action per operation and
`Next`. Three modules compose those that belong to one place.

| module | models | an action is |
| --- | --- | --- |
| `ExecutionJournal` | journal, input lock and supervisors of a device | a transaction, lock or process event |
| `DeviceInput` | the abstract specification of device input: grant, close, admit, execute, touch, report | atomic; `ExecutionJournal` implements it (`KeepsPromise`) |
| `RecoveryLedger` | the rows of one task, its worker, its recovery and the driver between them | a transaction, or the driver's step |
| `TaskOwnership` | two tasks and one device: run_owned_task, recover, safety_cleanup, shutdown | the code between two awaits |
| `TaskLifecycle` | the status of one task between requests, run, timers, scan and recovery | the code between two awaits |
| `RoleLoop` | the turns of the roles, their leases, adjustments, pause and cancel | the code between two awaits |
| `HumanInput` | the questions of a task, two surfaces, the tick, steering and cancel | a request, a tick, or a step of the run |
| `ToolLoop` | one invocation of a role | a request, an answer, or one tool call |
| `StreamSession` | the shared video source: leases, lifecycle lock, timer, stop, pump | the code inside, or after, the lock |
| `FrameBoundary` | decoder, ring of frames, boundary of an action, capture | a decoder or source event, or a step of act and capture |
| `CollectorChannel` | the connection to the collector with its owned cleanup, against the ADB server | the code between two awaits, or an end of a cleanup task |
| `InteractionRing` | the ring on the phone and the read that judges an action | an event, a tick, a request |
| `ScreenLease` | the lease session of the host, the wire, and the controller on the phone | a request, its arrival, a timer |
| `ArtifactPins` | files, pins of processes, committed names, prune | the code under the publication lock, or a commit |
| `ResearchEnvironment` | the journal of a learning job beside what a resume would rebuild | an event of the journal |
| `SkillPublication` | a group of patches, its approval file by file, edits beside it | one write |
| `DesktopUpdate` | the installed program: requester, worker, two installers, tray, launcher, backend | a file write, a lock, a request, a command of the OS |
| `MCAgent`, `MCPhone`, `MCHost` | what runs in an agent process, what is kept with a phone, what is kept on disk | one step of one part |

**ExecutionJournal.** A handler of `act` (`Call`) goes through looking up the row, the input
lock and the INSERT, `execute()`, the adb commands, and the return; it may be
refused, fail or be cancelled, in which case its thread goes on without the lock. A
supervisor (`Command`) takes the child lock, checks the guard, registers, runs and ends.
A `Drain` is a `fence` handler or the drain at release: it takes the input lock, reads
the children rows, kills, deletes, probes the child locks one by one, and
reports. `Crash` ends the runtime process and leaves the supervisors. `(task_id, epoch)` is
one `Holder`; the compared content of an action is a `Payload`. The POSIX path is
modelled. `SlowStart` lets a command reach its time limit (at least ten seconds) while
its supervisor is still starting; the checks and theorems exclude it.
`drained` is a history variable: what was reported about a device. `DeviceInput` calls it
`silent` and a drain's report one atomic step; `Promise` in `ExecutionJournal` is the
refinement mapping.

**RecoveryLedger.** The worker (`pc`, `mem`) decides on an action, prepares its
operations, waits for the driver and commits the step; the driver carries out what is
in `flight` and keeps its `effect`; the coordinator (`cpc`, `cmem`) takes over, restores,
collects and closes. An action is one primitive, a wait that costs nothing, or two
primitives. A receipt may arrive late or again under any `Source`. `SafeAuto` is the task's
recovery policy: under `safe_auto` the scan starts a recovery, and after a failure again, until
`task_recovery_max_auto_attempts` (3) are used up; under `manual` or `disabled` nothing does but a
request, and the intent of a task that was cancelled there stays `dispatching` on purpose
(`tests/test_recovery_additional.py:272`). External tools, local tool finalisation and the retry
projections are left out.

**TaskOwnership.** Each handler is split at its awaits: `run_owned_task` (`Worker...`),
`_recover` (`Recover...`), `_cleanup_device` (`Cleanup...`), the requeue by `resume`, the orphan
cancellation and the orderly shutdown (`Retire...`). The journal appears as what
`ExecutionJournal` establishes of it: an input needs the guard's authority when it is
accepted, and a drain that reports quiescence leaves no input of a revoked one
(`DrainedBelow`). A worker that has claimed its task runs, or leaves before its fence or during its
drain: the driver's recovery, the fence or a call fails, its handle is cancelled, or there is no driver
(`WorkerBlocked`, `WorkerFails`, `WorkerHasNoDriver`). `remote` says whether the driver is behind RPC, where `act` requests
(`flight`) outlive the worker that sent them. A delayed fence request and a restart of the
driver service are not modelled.

**TaskLifecycle.** One task and its row (`status`, `desired`, `rev`), the registry flags,
the handle in `_running` (`run`), a recovery (`job`), the sleeping hard-cancel `timers` and the
background tasks that have not run yet (`later`). Writes of the run are fenced by its epoch;
those of the API, of the scan and of the recovery are not: they are what the module is about.

**RoleLoop.** `planExecutor`, chosen in the initial state, is the architecture. A call of a role has a `lease`; an
adjustment revokes it unless it has begun to dispatch its action, and a revoked call
(`discarded`) goes on beside its successor. Counters are the limits' own. **HumanInput** has the
record of each question, what each surface last saw of it, and the exception that
suspends the run, on its way through an asyncio task of its own. **ToolLoop** keeps the
transcript as a sequence of marks (calls, replies, images, nudges) around the screen. Where the task
came from (`origin`) and what the role may do (`role`: ask the user, keep a round for its decision,
act) are chosen in the initial state.

**StreamSession**, **FrameBoundary**, **CollectorChannel**, **InteractionRing** and **ScreenLease** are what
a driver keeps with one phone. Pictures are known by the number of actions dispatched before
they were decoded (`epoch`); the channel's cleanup tasks may outlive the request that began
them, be harvested by the next one, and fail after having succeeded at the ADB server; the
requests of a lease may be lost or late. `timed` says whether a registry of sources has an idle time,
as the program's has (30 s): then the last release arms a timer, and without one it stops the source itself.

**ArtifactPins** has two levels of memory per process (`pending` and its pin file) and the
database's own names; `prune` runs beside writers. A `Slot` is a place of the database that names a
file; the commit of any place releases its pins, but a prune reads only those in `Kept` (manifests and states of
tasks, operations, agent records of five kinds), not traces nor records of another kind.
**ResearchEnvironment** keeps `saved`, what `resume` makes of the events written so far, next to the
environment of the process; `harness` is what the job is given, chosen in the initial state: a verifier, a
fixture it owns, a retained probe state. A dispatch that is reported failed counts as rejected and
resolved in the code, though it may have changed the device, or may do so later (an adb time-out, a node
click of unknown outcome, a field cleared and not filled): `content` is "halfway" when only such
dispatches changed the device, and `flying` tells theirs from those whose sender was cut off.
**SkillPublication** writes file by file with a rollback, and may crash between any two writes.

**DesktopUpdate** has one program counter per process and any of them may die at any step, which frees
its locks and leaves its files. One task stands for all; it runs because it was admitted, or woke by
itself (a recovery, an expired question), which asks no gate. `Identified` is the check by which a
process refuses to talk to a backend of another version. A backend that the service starts (`boot`) answers later
or never. A stop is skipped when nothing answers (`StopsIfAnswered`), neither the backend, as an
installer has seen it at its begin, nor the HTTP service, which may or may not answer whenever the
service is loaded; `was` tells, from the stop on, whether the installer has left no service loaded. `prepare`
looks at the tasks and writes the gate in one step, for it has no await between them and
admissions run on the same event loop (`desktop/updates.py:246`). `Used` says what the user uses beside an
update: an installer at hand, the tray, the launcher's own commands, which hold no lock. A lease of five minutes is taken to outlive every step but a dialog
of the tray: the steps under it have time limits of 10 s to 120 s.

**MCAgent, MCPhone, MCHost.** These parts keep their state to themselves and meet only in
calls that return; nothing they share would make one's steps depend on the other's. So
a behaviour of a composite is a behaviour of one of its parts, which the
variable `part` names in the initial state, with some of its options (what is used beside an update). What a property says of another
part it says of that part's initial state, where it is trivial. Each composite extends
the module whose theorems its run goes with (`RoleLoop`, `FrameBoundary`, `ArtifactPins`) and has
instances of the others. Where components do
depend on each other, one module has both sides: journal and supervisors, ledger and
driver, ownership and journal, lifecycle and recovery, role loop and steering, lease
session and controller, ring and reader.

## 3. The runs

| run | bounds | checks |
| --- | --- | --- |
| journal | 1 operation of 2 commands, 2 handlers, 2 drains, 2 fences, 1 crash | `DrainedMeansSilent`, `ExecutedOnce`; `KeepsPromise`: implements `DeviceInput` |
| ledger | 2 operations, 2 sources, limit 2, 2 steps, 1 fault, policy `safe_auto` | `BudgetHolds`, `SentIsCharged`, `OpenStepIsOpen`; live: `IntentIsClosed` |
| ownership | 2 tasks, 2 epochs each, both drivers, 1 fault in process | `OneAuthority`, `OwnerIsServed`, `RecoveryKeepsOwner`, `LocalFreeIsSilent` |
| lifecycle | 1 task under each policy, 2 requests, 1 automatic attempt, 1 fault | `ResumePointIsClean`, `NoWorkerBesideRecovery`, `TerminalStaysByHand`, `OnlyTimersCancel`; live: `CancelIsReached`, `QueuedIsPickedUp`, `PauseSettles` |
| agent | dialogue from both surfaces (1 or 2 questions, 1 adjustment, 1 restart); both architectures (2 steps, 5 calls, 1 or 2 adjustments, 1 pause); executor, planner and reviewer calls (3 rounds of 2 tool calls) | `AnswerIsHanded`, `SettledOnce`, `SentIsRecorded`, `AppliedWasSeen`, `NoObsoleteAction`, `WireIsWellFormed`; live: `QuestionIsClosed` |
| phone | ring of 2 with 3 events and a restart; 2 lease sessions, TTL 2, 2 requests on their way; 3 ports; 2 consumers, 3 transports, a death; 3 frames, 2 actions, 2 generations; 1 task with 3 epochs, both drivers, 2 faults | `CompleteMissesNone`, `ClosedIsClosed`, `PixelsFollowTheAction`; live: `GetsDark`, `UnusedStops`, `DeviceIsFreed` |
| host | 2 processes, 2 references, 2 slots of which prune reads one, 2 pins; 3 effects, every harness of a job; 3 patches that depend on each other, 2 edits; an update beside the tray and an installer of a third version, two updates beside the installer, the launcher's commands without an update | `NamedIsThere`, `CleanIsRestored`, `ReplayAgrees`, `DependenciesInPlace`, `GateIsReleasable`, `StopSparesAdmitted`, `SwitchedWhileDown` (without the commands) |
| ownership_delayed | as ownership, remote driver, no fault | violated: finding 1 |
| ledger_budget | 2 operations, limit 1, no fault | violated: finding 2 |
| lifecycle_timer | 3 requests, no fault | violated: finding 3 |
| stream_stop | 1 consumer, 2 transports, no death | violated: finding 4 |
| update_abandoned | 1 update, nothing beside it | violated: finding 5 |

The runs agent and phone also check the type invariants of their modules; the others are proved
(section 5). Each passing run ends
without an error, and each property of it is violated by the mutant of its modules that `PROJECT.json` names.

Why the bounds are enough. Two handlers, two fences and a crash give each interleaving
the journal has to survive: an older and a newer authority, a duplicate and its
original; two drains, one overtaken by another. Two operations over two steps
make a step of one primitive follow one of two, and a limit of 2 is reached by both. Two
epochs per task give a takeover while the old worker still stands in its `finally` block, and two
tasks the hand-over of the device; two faults a recovery of a recovery. Two requests
give every order of pause, cancel, resume and recover around one crash; the timer needs a
third. Two adjustments give one that arrives while another is planned for; five calls a
planner, an executor and a reviewer turn with both restarted. Three rounds give a tool
round after one that was suspended or rejected, and the last round. Three events
overflow a ring of two; two sessions give a late request of the first; three ports a
stray, a foreign one and a new one; three transports a stop that meets a restart. Two
processes and two references give a shared file with its writer, its second writer and the
pruner. Two updates give a request, a worker or a request to prepare of the first that is late for the second. Three patches in a chain give an approval that fails in the middle.

The symmetry of the journal's run is among operations, handlers and drains,
which its module treats alike. No other run has any: they check liveness or tell their
values apart. Deadlock is checked in the journal, where something can always happen.
It is off where a model ends: the task, job or request is over and its bounds are used up.

Fairness, and why the code justifies it:

- `RecoveryLedger`: a recovery or a worker that has begun is resumed by the event loop, and the driver
  answers or its time limit does. That a recovery starts is assumed only under `safe_auto`, where the scan
  loop repeats every interval, and as long as there are fewer failures (`MaxFault`) than automatic attempts
  (3). With `SafeAuto = FALSE` TLC finds `IntentIsClosed` violated, as it should: nobody need ever ask.
- `TaskOwnership`: a handler that has begun goes on after its awaits, the scan comes round to a due cleanup,
  and an accepted input ends, because adb commands and RPC calls have time limits.
- `TaskLifecycle`: every ready coroutine runs, the scan comes round, a sleeping timer
  fires; the loop is fair as a whole, for nothing says which decision a role takes. The
  start of a recovery is strongly fair: other requests and retries disable it again and
  again, but its `next_retry_at` comes. All of it holds only while the backend is up (`Kept`).
- `HumanInput`: the event loop runs the handle, the tick comes every second, a deadline passes.
- `StreamSession`: a start succeeds or fails in time, the idle timer fires, a decided stop runs.
- `ScreenLease`: time passes on the phone, and its scheduler and threads go on.
  Nothing is assumed of the host or of the connection.

Faults, requests, cancellations and lost messages are never fair.

## 4. Findings

1. `ownership_delayed`. `run_owned_task` ends with close, drain, release. With a
   remote driver the drain is a second fence by the same owner
   (`shared/recovery_runtime.py:139`), which opens the guard it has just closed until
   the close at line 141. A delayed `act` request of that owner accepted in between
   runs while the device is released. `docs/architecture.md:124`: "Devices remain
   quarantined if quiescence cannot be established". With the in-process driver it
   cannot happen: `LocalFreeIsSilent` is checked and proved.
2. `ledger_budget`. `required_actions` admits a targeted `replace_text` with one unit
   left, because it "bundles target focus and text entry inside that single step"
   (`agent/targeted_input.py:95-97`); it performs two durable operations, each
   reserving a unit, so the second is refused after the first was sent.
3. `lifecycle_timer`. The timer of a cancel request is never stopped
   (`control_api/main.py:287`). A task that ended up paused or interrupted instead, and is
   resumed within the grace, is cancelled by it. `docs/local-mcp.md:92`: "Cleanly paused
   tasks retain their progress and can be explicitly resumed". It is the only way: `OnlyTimersCancel`,
   checked and proved, says that nothing else cancels a task that its operator continued.
4. `stream_stop`. The end of the idle time detaches the session under its lock
   (`driver/scrcpy_stream.py:655-659`) and stops the source after it has left the lock (line 667); an acquire
   in between takes a lease of the source, and the stop ends it under the new consumer. A release
   without an idle time (lines 628-636) has the same order. `docs/scrcpy-observation.md:3`:
   "Task observation consumers own a single per-device scrcpy source through explicit leases".
5. `update_abandoned`. `recover` removes the job of a queued update from the OS before it clears the
   record, and `remove_update` raises when the OS has no such job (`desktop/service.py:112`). A request
   that ends between its record and the registration (a time-out of the registration is not caught,
   `desktop/updates.py:219-223`), or a recovery that ends between removing the job and recording it,
   leaves a queued record without a job: every later recovery fails and every request is refused.
   `docs/releases/desktop-0.2.1.md:6`: "It clears the interrupted state so you can retry".

Other disagreements between the code and its words. Each is a definition of a module, not part of
a run; with the constants given, TLC finds a counterexample.

| module, with | definition | where | what happens |
| --- | --- | --- | --- |
| `TaskLifecycle`, `Policies = {"safe_auto"}` | `TerminalStays` | `shared/recovery_runtime.py:258` | a task cancelled during the awaited health probe is written recovery_blocked; `docs/architecture.md:131`: "Terminal tasks stay terminal". Under the other policies it holds: `TerminalStaysByHand` is checked and proved |
| `TaskLifecycle`, `Policies = {"disabled"}` | `PauseSettles` without its exception | `control_api/main.py:261` | a paused, interrupted task is handed to a recovery that returns at once, for ever; `docs/local-mcp.md:90`: "For pause, wait until `paused`" |
| `HumanInput` | `EndedStays` | `agent/revisable/orchestrator.py:485` | a run that suspends for a question writes waiting_for_input over a cancellation |
| `RoleLoop`, `planExecutor` false | `UpdateBeforeCompletion` | `agent/revisable/orchestrator.py:244` | an update accepted during the observation before a reviewer does not stop that reviewer from ending the task; `docs/architecture.md:104`: "an accepted update first must be processed before completion" |
| `ExecutionJournal`, `SlowStart = TRUE` | `DrainedMeansSilent` | `driver/execution_journal.py:105` | a command that registers after the drain has read the children table escapes it; it takes a supervisor that needs ten seconds to start |
| `StreamSession` | `FramesAreOfTheirGeneration` | `driver/scrcpy_stream.py:579` | a pump that has not ended when the session restarts delivers chunks of the old source under the new generation; `docs/scrcpy-observation.md:6`: "temporal queries never silently cross generations" |
| `FrameBoundary`, `Linger = TRUE` | `PixelsFollowTheAction` | `driver/scrcpy_observation.py:469` | while the decoder outlives a dead source the action has no boundary, and a frame from before it counts as fresh |
| `ArtifactPins`, `Again = TRUE` | `NamedIsThere` | `shared/db.py:129` | pins are per content and process: the commit of one writer, or a trace that names a file published for another commit, releases what another, uncommitted writer of the same content needs |
| `InteractionRing`, `MaxCount > ReadLimit` | `UnobservedMeansNone` | `agent/action_observation.py:107` | the ring answers with the oldest 64 events as complete; a match after them is reported unobserved |
| `InteractionRing`, `Restarts = TRUE` | `UnobservedMeansNone` | `InteractionEventRing.kt:75` | numbers start again with the service; a cursor from before hides the new events |
| `ScreenLease`, `Late = TRUE` | `NeverSteals` | `driver/accessibility.py:1326` | the acquire of an abandoned renewal arrives after the next session's and takes its lease |
| `CollectorChannel`, `AdbRestarts = TRUE` | `NeverRemovesOthers` | `driver/accessibility.py:1142` | the first removal of a forward does not look whose port it is |
| `DesktopUpdate` | `StopSparesTasks` | `desktop/upgrade.py:53` | a recovered task, or one whose question expired, starts under the gate and is killed with the backend; `docs/desktop-setup.zh-CN.md:109`: "不自动取消或恢复手机操作" |
| `DesktopUpdate` | `RestoresTheLast` | `desktop/updates.py:338` | the worker reads the version to restore before the download; a version installed meanwhile is not the one a failure brings back |
| `ArtifactPins`, `Kept # Slot` | `AllNamedAreThere` | `shared/db.py:464` | `add_trace` releases the pins of what it names (as does, at line 515, an agent record of any kind), but `protected_refs` (`shared/recovery_store.py:413-431`) reads no traces and five kinds of records: a prune of their namespace deletes a file that a trace names; `shared/artifacts.py:154`: "Committed refs remain protected by the store callback". The program prunes only its cache of judgments (`agent/revisable/jev_cache.py:89`), so it takes a retention for a namespace of traces |
| `ResearchEnvironment` | `CleanIsAsFound` | `agent/skills/environment.py:228` | an action whose receipt has `dispatch_succeeded` false counts as resolved, but that is false too for a dispatch that changed the device and then failed, ran out of time or has an unknown outcome (`agent/action_observation.py:1149`, `driver/android.py:1457`, 1521, 1673): the journal calls itself clean on a changed device; line 226: "Rejected dispatches can be resolved; accepted/unknown effects need independent checking" |
| `DesktopUpdate`, `Used = {"manual"}` | `OldIsStopped` | `desktop/upgrade.py:50` | an installer stops the service only if the backend answered at its begin or the HTTP service answers now; one that is loaded while its children start, or wait after a failure (`desktop/supervisor.py:61-78`), goes on, and the version is switched under the old backend; `docs/desktop-releases.zh-CN.md:38`: "升级会停止旧后台并切换版本" (an upgrade stops the old backend and switches the version) |
| `DesktopUpdate`, `"command" \in Used` | `SwitchedWhileDown` | `desktop/main.py:130` | the launcher's start takes no lock and loads the old program between the stop and the switch |
| `ToolLoop` | `ClosedStaysClosed` | `agent/session.py:1347` | the next round overwrites terminal_submission_only, and evidence tools are admitted again; `agent/session.py:2187`: "evidence gathering is closed" |

Two observations that contradict no stated rule: an intent of the research environment that
timed out can never be cleaned by a reset (`ResearchEnvironment`: such an effect is never
resolved), and a crash in the middle of a group approval leaves a receipt that cannot be
approved any more (`SkillPublication`: the library is neither the frozen nor the patched one).

## 5. What is proved

For every value of the constants that meets the assumptions, and any number of steps, faults
and crashes. `MaxX` constants bound the instances TLC sees; the theorems hold for each of their
values.

| module | assumes | theorems |
| --- | --- | --- |
| `ExecutionJournalProofs` | `~SlowStart` | `TypeCorrect`, `DrainIsSound` (`DrainedMeansSilent`), `NeverExecutedTwice` (`ExecutedOnce`), `FenceIsMonotone`, `JournalKeepsPromise` (the journal implements `DeviceInput`); without the assumption `PromiseIsSilent` (the abstract specification itself) |
| `RecoveryLedgerProofs` | | `TypeCorrect`, `SentInputIsCharged` (`SentIsCharged`), `ClosedIsFinal`, `BudgetIsKept` (`BudgetHolds`), `OneStepIsOpen` (`OpenStepIsOpen`), `PartiesAlwaysAgree` |
| `TaskOwnershipProofs` | | `TypeCorrect`, `OneAuthorityHolds` (`OneAuthority`), `OwnerServed` (`OwnerIsServed`), `RecoveryKeeps` (`RecoveryKeepsOwner`), `LocalFree` (`LocalFreeIsSilent`), `FenceAhead` (`FenceIsAhead`) |
| `AgentProofs`: role loop | | `TypeCorrect`, `NothingIsLostOrTwice` (`SentIsRecorded`), `AppliedIsSeen` (`AppliedWasSeen`), `ActionIsCurrent` (`NoObsoleteAction`), `DecisionIsCurrent` (`VerdictIsCurrent`) |
| `AgentProofs`: dialogue, tool loop | | `DialogueHolds`, `DialogueSettles` (`SettledOnce`), `InvocationHolds`, `InvocationTypes` (`WireIsWellFormed`) |
| `AgentProofs`: the run of the agent | | `AgentTypes` (`PartsTypeOK`), `AgentHandsAnswers` (`AnswerIsHanded`), `AgentSettlesOnce` (`SettledOnce`), `AgentWiresWellFormed` (`WireIsWellFormed`), `AgentAppliesWhatItSaw`, `AgentActsUpToDate`, `AgentLosesNoAction`: the same of `MCAgent` |
| `TaskLifecycleProofs` | | `TypeCorrect`, `ResumeIsClean` (`ResumePointIsClean`), `RecoveryIsAlone` (`NoWorkerBesideRecovery`), `RunKeepsItsTask` (`RunIsCurrent`), `EndsStayByHand` (`TerminalStaysByHand`), `OnlyTimers` (`OnlyTimersCancel`) |
| `PhoneProofs`: frames | `~Linger`, at least one generation | `TypeCorrect`, `PixelsAreFresh` (`PixelsFollowTheAction`), `IdsAreCausal` (`BoundaryIsCausal`) |
| `PhoneProofs`: channel | `None` is no port; `~AdbRestarts` for the last | `ChannelTypeCorrect`, `CloseIsTrue` (`ClosedIsClosed`), `CleanupIsKept` (`NothingIsForgotten`), `AnswersAreOfTheRequest` (`KeptConnectionIsClean`), `OthersKeepTheirs` (`NeverRemovesOthers`) |
| `PhoneProofs`: ring of interactions | | `ReadMissesNone` (`CompleteMissesNone`) |
| `PhoneProofs`: screen lease | `~Late` for all but the first | `LeasedStaysBright` (`LeasedIsBright`), `ReleasedStaysDark` (`ReleasedIsDark`), `AgainNeverSteals` (`NeverSteals`) |
| `PhoneProofs`: video stream | | `SessionHolds` (`UnusedIsWatched`, `StopsAreFew` and the rest of its inductive invariant) |
| `PhoneProofs`: the run of the phone | those of its parts | `PhoneTypes` (`PartsTypeOK`), `PhoneStaysBright`, `PhoneGoesDark`, `PhoneSourceIsWatched`, `PhoneClosesTruly`, `PhonePixelsAreFresh`, `PhoneReadMissesNone`: the same of `MCPhone` |
| `DesktopUpdateProofs` | `MaxJob` is a number; no launcher commands (`NoCommands`) for the last | `TypeCorrect`, `GateOpens` (`GateIsReleasable`), `AdmittedAreSpared` (`StopSparesAdmitted`), `SwitchIsSafe` (`SwitchedWhileDown`, of an installer that stopped the service or found it stopped) |
| `HostProofs`: artifacts | `~Again`, finitely many slots, `Kept` among them | `StoreTypeCorrect`, `NamedSurvives` (`NamedIsThere`), `PublishedSurvives` (`PublishedIsThere`) |
| `HostProofs`: learning job | | `CleanDeviceIsRestored` (`CleanIsRestored`), `ReplayIsExact` (`ReplayAgrees`) |
| `HostProofs`: skill library | | `PatchesStandOnTheirs` (`DependenciesInPlace`) |
| `HostProofs`: the run of the host | those of its parts | `HostKeepsNamed`, `HostGateOpens`, `HostStopSpares`, `HostSwitchIsSafe`, `HostCleanIsRestored`, `HostReplayAgrees`, `HostPatchesStand`: the same of `MCHost` |

Besides these, the named assumptions on the constants in the modules (`BoundsAreNumbers`,
`NullsAreNew`, ...) are used. The assumptions that switch off a fault are those under which section 4
shows the property to fail.

**Journal.** `DrainedMeansSilent` alone is not inductive: when a drain reports, one must know
that nobody slipped past it. A handler past the INSERT owns the row of its operation
(`CallsOwnTheirRow`, `RowsAreEnvelopes`, `ExecuteAhead`); a command is used once and belongs
to a row (`CommandsAreIssued`); whatever runs is registered (`StartedIsRegistered`); a drain at
work holds the input lock (`DrainerHoldsLock`) and is never ahead of what the guard
has revoked (`ClaimsAreRevoked`). `DrainProgress` is the heart: of the children a drain has read,
those it has passed are gone, and of the operations it has probed, every command
that passed its check is of a fence the drain does not revoke. It holds because a supervisor takes
the child lock before it reads the guard: a free lock means that whoever takes it later will
see the new fence. The refinement needs in addition that an absent row has no envelope and
that a command belongs to an operation that was executed (`PInv`); each action then maps to one
of the promise or to a stutter.

**Ledger.** What the ledger believes of an effect came from the driver (`ResultsAreEffects`);
nothing is known of an operation before its T1 (`FreshRowsAreEmpty`); an open operation
keeps its reservation (`OpenIsReserved`); a closed one has a result and was charged unless
the driver itself stated zero (`ClosedIsSettled`). For the budget every party's memory has to agree with
the rows (`PartiesAgree`): an open operation carries the number of the step that the saved state
has next, so a commit, which closes all of that step and then counts it, leaves none behind, and a
worker that read the state before a takeover can no longer write. What an operation may be charged was
held for it when it was prepared, so closing it never adds to what was held (`BudgetHolds`).

**Ownership.** No fence or epoch that a handler remembers is ahead of its counter
(`NumbersAgree`). Input on the device was accepted under the guard's authority or an older
one, and a request is sent only when what is older than its own has ended (`InputsAgree`): so
two inputs have one authority. A worker or recovery that goes on holds the device row, and no
cleanup that has read it can still take it or free it (`DeviceAgrees`, `CleanupAgrees`); a worker that owns its
task is served once it has fenced (`GuardAgrees`); a recovery has its task to itself
(`RecoveriesAgree`). With the driver in process a request belongs to a worker that runs, so
what was drained stays silent until the next one does (`LocalAgrees`).

**Lifecycle.** A run past its entry check owns its task, whatever is requested meanwhile
(`RunIsCurrent`): a scan or a request starts no recovery beside a live run, and a recovery that has
read the task before it cannot claim it any more, because the run's own claim moved the epoch. A
recovery of the scan therefore meets the task as it has read it, or under the token of a run
that is dead (`JobIsAlone`, `JobIsOpen`). Nothing is open where a run has not acted yet, is about to pause,
or was taken over (`NothingIsOpen`, `RunIsOpen`). With that, each writer of the status is looked at by itself:
only `JobGivesUp` writes over an end (section 4), and only a timer, or the run that it has told to stop,
cancels what the operator wants to continue.

**Role loop.** A lease is of the newest revision until an adjustment comes, which it survives only
if it was dispatching (`LeaseIsCurrent`); a call that is not waited for is revoked and older than
every later one (`DiscardedIsOld`).

**Dialogue.** That an answer is used up only after a call was handed it is not inductive, for it says nothing
of who will get the answer that waits. Only the last question may be open (`OnlyLastIsOpen`), and
while it is, the task waits and no call of a role begins (`PendingWaits`). The role that asked is called
next, and it is the planner when there is an adjustment that it has not seen (`AskerIsNext`, `CallIsNext`): so the
call that uses up the answer is of the role that was handed it (`AnswerIsHeard`). A call that an adjustment has
told to stop has no question left (`SteeredIsSuperseded`); an answer that ends the task is given to no call
(`RefusalEnds`). `SettledOnce` follows per action, because every change of a record is one of few (`StepsGoOn`).

**Tool loop.** A transcript is well formed when each answer's calls are followed by their
replies and every reply has its calls. The whole is put together from pieces that are well formed
(`ConcatIsWellFormed`): what is before the screen, its images, what is after it, and, while an answer
is worked off, its calls with the replies so far, which become well formed with the last of them. What a question
saves is a transcript that lacks only the reply to the question, which `Resume` puts at its end.

**Frames.** The ids tell what was decoded before an action from what came after it, for the action
under way and for the last that succeeded (`IdsSeparate`), because every dispatch publishes what the
decoder holds back (`HeldIsFresh`) and the boundary is the newest id then (`NewestIsThere`). Without a
boundary there was no source, and the ring of the next one has nothing older (`NoBoundaryNoOldFrame`).

**Ring.** The numbers in the ring are the last ones that were given, in order (`Ordered`), so what it has
dropped is older than all it keeps; of what happened in this life of the collector since the cursor it
keeps all that is new enough (`RingIsTrue`). A read is complete only if its cursor is not older than
what was dropped, and what it leaves out is in front of the cursor (`SeenIsInFront`, `RowsAreAll`).

**Channel.** A cleanup task belongs to a socket that is being closed or to a port that is held, and
either it runs or its failure is remembered (`SocketIsOwned`, `ForwardIsOwned`); `PcAgrees` says
what a request may count on at each step.

**Screen lease.** A wake lock lasts longer than its lease (`LockOutlasts`), and there are at most the one of
the lease and the one a renewal has yet to give back (`LocksAgree`), so a lease with time left is bright. That a
release is final needs the order of the wire: only the last request is waited for (`AwaitedIsLast`), an answer is
that of the last one and nothing is behind it (`ReplyIsLatest`), so who was told "released" has nothing left
that could take a lease again (`ReleasedIsQuiet`). A session that asks again has the wire to itself until it is
answered (`AgainIsFirst`). With a request that overtakes others (`Late`) that is so no
more: section 4 shows a lease being taken.

**Video stream.** A timer is of the generation of now and armed only without a lease (`TimerIsOfNow`), and a generation
is stopped at most once (`StopsAreFew`), because another stop needs another lease and that another
start; a source without a lease is therefore always watched by a timer, a stop or a start (`UnusedIsWatched`).
That the watch ends in a stop is liveness, which the run checks.

**Artifacts.** The pins of a process cover its work and what it is about to publish or release
(`PinsCover`), its pin file is what its memory says until the memory is gone (`FileIsMemory`), and
what a prune should have read from the places in `Kept`, and has not, is pinned (`PruneIsSafe`): a name that is
committed beside it was pinned when the prune began, and pins are released only under its lock.

**Learning job.** Clean means restored, but for dispatches that were reported failed (section 4). That is not
inductive, for it says nothing of an environment that is not clean. Whatever may still land, of a dispatch that
was cut off, belongs to an intent that got no result, and which nothing
resolves any more: no action begins after a time-out, and a reset gives a result to its own intent only
(`FlyingIsOpen`). A device that was changed otherwise than by a failed dispatch has an effect that is not resolved, beside the one under way
(`ChangedIsUnresolved`), whose own intent is open until its result comes (`ActingIsOpen`, `ResetIsLast`).
Each event does to the rebuilt journal what the process did to its own, once per kind of event
(`OtherReplays` to `PlanReplays`).

**Skill library.** While a request is under way every approved file and every file it has written is
patched, and its targets' dependencies are among them or done (`RequestIsSound`).

**Desktop update.** At each step a process holds the locks that its place in the code implies (`Held`). Only who
holds the lock of a run or of a request writes the record, so what the worker and the request have
written is still there (`Record`). What a restore may have to bring back was current when it was
remembered (`Remembers`). After the last look of a process that will stop the service, no task is
admitted: the gate or its lease keeps it out (`Spared`). If an installer has stopped the service, or found it
stopped, nothing runs or starts between that and the switch, for whoever would start it needs a lock that the
installer holds (`Down`), except the launcher's commands, which hold none; an installer that left a
loaded service alone is shown in section 4.

**Composites.** Each step of `MCAgent`, `MCPhone` or `MCHost` is a step of the part that `part` names and leaves the
variables of the others alone, so a behaviour of the composite satisfies the specification of
each of its parts, with that part's constants, and the theorems of the parts carry over.

Each proof has one lemma per action, `Init`, and the temporal step. Only
model-checked is liveness, which TLAPS does not prove under fairness; every invariant that a run
checks, and every action property, is a theorem too.

## 6. Not modelled

`PROJECT.json` lists every component with its status and reason. In short:

- Image analysis, decoding, Annex-B parsing, prompts, schema conversion, model calls, drawing, the
  web console: data conversion without a protocol; large, and a test reaches it better.
- The driver pool, live updates and preview: bounded caches and fan-out on which no task depends.
- The skill library, its selection and the learner's reasoning: sequential file and text work.
- Of the desktop application: downloads and their verification, packaging, login entries, the removal
  of old versions, devices and client registration, mostly calls of the operating system.
- `evaluation` (a benchmark with a frozen copy of an older runtime of the same code), `devtools`,
  `scripts`, tests and documentation.
- Inside the modelled components: the Windows job object path, delayed fence requests and a
  restart of the remote driver service, external tool operations, retention of old manifests, the
  clock of retries.

## 7. Plan

1. The removal of old versions beside a rollback (`desktop/cleanup.py`).
2. The remote driver service: its restart, and delayed fence requests.
3. External tool operations in the ledger.
