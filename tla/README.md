# A verification of the Claude dispatcher

TLA+ modules, TLC configurations and TLAPS proofs about `sol_claude_dispatcher`
(`src/src/sol_claude_dispatcher/`), the MCP server that runs Claude workers for
an orchestrator ("Sol"): it dispatches a worker into a git worktree, resumes
it, has its work reviewed, and keeps the evidence of every run on disk.

## 1. The system

### Components

| Component | Source | State it keeps | Operations | What makes it correct |
|---|---|---|---|---|
| Task states | `models.py` | none (a table) | `is_transition_allowed` | a task moves along the table only; a resumed worker is counted and capped |
| Tool calls | `server.py` | one `ToolExecution` per call | `dispatch`, `resume`, `review`, `get_task` | one worker per repository; every path releases the lock; no return strands a task; evidence is never overwritten or presented stale |
| Task store | `state.py` | `envelope.json`, `state.json`, run, review, evidence and refusal files | `create`, `transition`, `append_run`, `append_review`, `load*` | each file replaced atomically; counters name fresh files; a reader copes with any prefix of the writes |
| Repository lock | `locks.py` | one flock per repository | `acquire`, `release` | mutual exclusion between calls and processes; never leaked |
| Execution phases | `phase.py` | phase, reservation, worker of a call | `enter`, `mark_reserved`, `mark_spawned` | PREPARE, RESERVE, LAUNCH, EXECUTE, FINALIZE in order; a failure touches the task only once a child was proved |
| Sessions | `sessions.py` | none | `resume_plan`, `escalation_handoff` | same session, model, worktree; the cap |
| Run registry | `waiting.py` | key to asyncio task | `run`, `drain`, `_retire` | a cancelled waiter never cancels a run; a retry attaches; nothing is evicted by its predecessor |
| Worker runner | `runner.py` | a child, its pipes and captures | `run_worker` | bounded: timeout, SIGTERM, SIGKILL, bounded drain; output kept |
| Git order journal | `evidence/git_order.py` | `git-invocations.jsonl` per run | `establish`, `assert_row_may_follow`, `record_git` | declared rows in order, in PREPARE only, none after the worker |
| Preparation | `evidence/prepare.py`, `git.py` | seal, worktree | `prepare_dispatch`, `prepare_resume` | nothing of a task exists before its proof does |
| Seal, freeze | `evidence/seal.py`, `freeze.py` | sealed and frozen artefacts | `publish`, `load`, `capture`, `verify` | manifest last; a changed byte is refused |
| Attribution, scope | `evidence/attribution.py`, `scope.py`, `reconcile.py` | cumulative scope verdicts | `attribute`, `decide_scope_verdicts` | what the worker did is never erased by validation nor laundered by a later run |
| Authority | `evidence/gitadmin.py`, `identity.py`, `worktreeauth.py`, `fssnap.py`, ... | the operator's baseline, snapshots | `write_baseline`, `load_baseline`, `capture_*`, `verify_*` | verdicts by byte equality; a baseline is never lost, torn or replaced unseen |
| Validation | `validation.py` | a child per command | `run_validation` | bounded by the transport's budget |
| Landing | `server.py` `_land_state` | none | one decision | fixed precedence; policy first |
| Results, router, lifecycle | `results.py`, `router.py`, `lifecycle.py` | none | pure | deterministic |
| Skills, guidance, context | `skills.py`, `project_guidance.py`, `worker_context.py` | anchors in the record | project, verify | drift refuses a resume |
| Configuration, security, errors | `config*.py`, `security.py`, `errors.py` | none after start-up | validate | fail closed |

Scripts, probes, commissioning experiments and tests are around the program,
not part of it.

### Interactions

A tool call runs as an asyncio task owned by the run registry. It takes the
repository's flock, prepares (in a thread, under the lock), makes the first
durable write, spawns the worker, and is called back (`on_spawn`) as soon as
the child exists; then it finalises: measures the repository, runs validation,
writes the run, lands the state. `except DispatcherError` records the failure
in the task, `finally` releases. A review reads the evidence the last worker
run left. Calls meet through the disk (the record, the run directories) and
the flock; several dispatcher processes may share one state directory.

### What is hard here

* a state read before an await or before the lock, and used after it;
* a failure recorded when the lock is gone;
* two, three or four durable writes that only together make sense (envelope and
  state, run file and count, IMPLEMENTED and AWAITING_SOL_REVIEW), a crash or a
  failed write between two of them, and a Git journal that remembers what the
  record does not;
* a worker that outlives its dispatcher, or is born while its call is refused;
* calls that must always return, on a state their caller may act on;
* retries that attach, waiters that are cancelled, timeouts that race an exit.

The hazards, each at its line and with the properties that look for it, are
listed in `PROJECT.json`.

## 2. Modules

| Module | Models |
|---|---|
| `TaskStates` | the states, the transition table and the named sets of states (`models.py`, `waiting.py`, `_record_failure`) |
| `TaskLifecycle` | the abstract specification of a task's record: moves along the table, resumed workers counted and capped |
| `Dispatcher` | the three mutating tools over disk, lock, children and processes, with crashes and failing writes; shown to implement `TaskLifecycle` |
| `RunRegistry` | the asyncio tasks tool bodies run in, and the requests that attach to them (`waiting.py`) |
| `WorkerProcess` | a child from its preflight to its verdict, its group, pipes, captures and spools: a worker (`runner.py`) or validation commands (`validation.py`) |
| `RunEvidence` | what is made of a run: attribution, patch, freeze, validation, scope, landing, and what a review is shown (`server.py`, `evidence/`, `results.py`) |
| `AdminBaseline` | the operator's baseline of a repository's administration, system call by system call (`evidence/gitadmin.py`) |
| `Preparation` | what stands between a call and its worker: captures, gates, Git rows, the worktree and the seal (`evidence/prepare.py` and what it calls) |
| `WorkerTerms` | what a worker is told and the terms it runs on: skills, guidance, lifecycle profiles, budgets, route, transport limits |
| `MC...` | the instances for TLC, one module each |
| `DispatcherProofs`, `RunRegistryProofs`, `AdminBaselineProofs`, `RunEvidenceProofs`, `WorkerProcessProofs`, `PreparationProofs`, `WorkerTermsProofs` | the theorems about these modules |
| `DispatcherRecordProofs` | the theorems about `Dispatcher` that hold of one process, its refinement of `TaskLifecycle` among them |

How they meet. A call of `Dispatcher` is a run of `RunRegistry`; its
`PrepareRefused` stands for every refusal of `Preparation` and `WorkerTerms`,
its child for one `WorkerProcess`, and its measurement and landing for the
steps of `RunEvidence`, which uses the same transition table (`TaskStates`).
`Preparation` compares the repository with the baseline `AdminBaseline`
publishes. Each module takes what it needs of its neighbour as a choice of all
its outcomes, so that none depends on the bounds of another.

### `Dispatcher`: state and actions

`record` is `state.json` reduced to what later steps depend on: the state, the
three counters, and which of the fields a resume requires are known. `runs` is
what wrote each `runs/NNN/dispatcher-result.json`; `git_rows` the run indices
whose journal holds the resume row; `scope_history` the tasks that have
`evidence/scope-verdicts.json`. `lock`, `child` and `orphans` are the flocks,
the live Claude processes and those whose dispatcher died. `call[c]` is one
tool call: where it is (`pc`), its tool and task, its `ExecutionPhase`, the run
index and resume count it planned, and the record it loaded (`snapshot`).

One action is one durable write with the code around it, or one await:

* dispatch: `BeginDispatch` (validation, lock), `ReserveDispatch`
  (`envelope.json`), `CreateRecord`, `Route`, `SaveWorktree`, `AnchorTask`;
* resume: `BeginResume` (load and plan, no lock), `LockResume` or `ResumeBusy`,
  `RecordGitRow`, `ReserveResume`;
* review: `BeginReview` (check, no lock), `LockReview` or `LockReviewRefused`,
  `ReserveReview`, `WriteReviewRun`, `ReviewUnusable` or `AppendReview`,
  `MarkReviewed`, and the failure recorded after the release in two steps,
  `LoadForFailure` and `SaveFailure`;
* all: `PrepareRefused`, `LaunchRefused`, `SpawnChild`, `MarkRunning`,
  `WorkerExit`; a child whose `on_spawn` is refused (`MarkRunningRefused`) or
  cannot write (`MarkRunningFails`) is signalled and awaited with the lock
  held, alive until `RefusedChildExits`;
* worker runs: the check of the scope history, `MeasurementFailed`,
  `WorktreeAuthorityMoved` (a bare run), `WriteScopeVerdicts`,
  `WriteWorkerRun`, `CountRun`, then `LandOffRamp`, or `LandImplemented` and
  `AwaitReview`, or `LandRefused`;
* faults: `Crash` of a process at any point, `WriteFails` (at on_spawn's
  `MarkRunningFails`) at any write, `OrphanExit`.

`EventLoopFree` is the asyncio rule: while one call of a process is between
two awaits (`NoAwaitPC`) no other call of that process moves; calls of other
processes do.

Abstractions. What Git, the snapshots, the seals, validation and the worker's
answer contain are choices: each refusal they can cause is an action, so is
each outcome. Refusal journals, `last_error`, histories and time stamps are
left out. A load-modify-save under the lock is one step (only the unlocked
failure of a review can fall inside one, and it is two steps itself, the
transition `_record_failure` makes being part of its last); so are a review
file and its count. Two calls are two registry keys: the duplicates the
registry merges are not calls here but requests of `RunRegistry`. Git row indices, run
directories and resumes are bounded by `MaxRuns`: a call whose run index is
beyond it cannot reserve, and is refused or fails instead.

### `RunRegistry`: state and actions

A call of `Dispatcher` is a run here, seen from the requests that wait for it.
`registry` is `_runs`; `run[r]` an asyncio task with its key, its status and
whether its done callback has fired; `waiter[w]` the run a request is
suspended on in `asyncio.shield`; `drain` the runs `drain()` gathered. `run()`
is `Attach` or `Start`, according to what the registry names; its end is
`Wake`, or `CancelRequest` when the client goes away. The body of a run ends
in `Finish` (`_guarded` turns errors into payloads) or, cancelled, in
`FinishCancelled`. `Retire` is the done callback, which asyncio queues: between
the end of a run and its callback anything may come first. `StartDrain`,
`FinishDrain` and `DrainTimesOut` are `drain()`. One drain at a time; a run
that was cancelled unwinds in one step.

### `WorkerProcess`: state and actions

`call` is `run_worker` or `run_validations` and where it is; `leader` the child,
`member` what the child left in its process group; `pipe` counts bytes written
and read of each stream; `capture` is `StreamCapture` with its bounded head and
tail, its line buffer and its spool; `journal` the validation journal;
`results` what is reported. The child writes, forks, exits, ignores SIGTERM or
not (`Child`); the code waits, times out, signals the group, drains, gives up
reading, refuses the spawn, is cancelled (`Code`, `Cancel`); the kernel reaps
and the event loop reads (`Reap`, `Pumps`). Bytes are numbered and every second
one is a newline, which is all that truncation, redaction by lines and the
recovery of the last result line can tell apart. `runtime` is whether the
platform's `proc.wait()` waits for the pipes as well: both occur.

### `RunEvidence`: state and actions

`world` is what processes change: the worktree (a function from paths to what
they hold) and the four parts a worker has no business with. `run` is the run
in progress with its start, exit and post-validation terminals; `files` the
evidence directory; `truth` what was really done, which no action reads, so
that the properties compare verdicts with facts. `Edit`, `Meddle` and `Tamper`
are the worker, validation and whoever else runs as the same user, each in its
interval. `WorkerMeasured`, `PatchFrozen`, `ValidationMeasured`, `ScopeDecided`
and `Land` are the terminals of `_finalise_worker_run` in their order, any of
which may fail (`Fail`); `Review` presents the latest worker run or is refused.
Digests are compared as the content they are of; a damaged scope history is
modelled, a forged one that agrees with its own digest is not.

### `AdminBaseline`: state and actions

A file is an inode with its kind, its bytes in two parts and the two times a
stat compares; `entry` maps the published name and each call's temporary to
inodes. Each `writer` is one call of `trust-repo-admin` at one of its system
calls (open, classify, write, link, exchange, look, undo), each `reader` one
`load_baseline` (stat, open, two reads, three comparisons). No lock guards
them. `Plant`, `Rewrite` and `Remove` are others at work in the directory. A
write is assumed to advance mtime or the size.

### `Preparation`: state and actions

`live` is the repository: its layout read entry by entry, the administration
that must be exact, the loose objects, HEAD and the primary tree, each the
number of the change that wrote it. `call.step` walks `DispatchSteps` or
`ResumeSteps`, which are `prepare_dispatch` and `prepare_resume` with the
publication around them; a step looks and goes on or refuses (`Look`,
`Refuse`), runs a declared Git row, or writes a file of the seal. `Others` may
change the repository, the worktree, the sealed files or the baseline between
any two steps: the repository's flock keeps only dispatchers away. `journal`
is `git-invocations.jsonl` per run, `launched` what each worker was started
on.

### `WorkerTerms`: state and actions

Manifests, texts and configuration are values an operator may edit or approve
between any two steps (`Approve`, `EditText`, `Restart`); the dispatcher's
skill and guidance engines are state because they are cached and, the guidance
one, replaced by every dispatch. A call reads the identity facts, scans for
unreviewed instruction files, verifies a resume's anchor, composes the context,
evaluates the lifecycle of all reachable phases, builds the invocation and
launches, or is refused with a reason (`why`). A reviewer's context asks nothing
of the skill engine (`SkillsGiven`). A dispatch to another repository
in the same dispatcher (`OtherCall`) shares the engines. A text is its content,
of which equality and size matter.

## 3. Runs

| Run | Instance | Shows |
|---|---|---|
| `one` | 1 process, 2 calls, 2 tasks, cap 1, 3 runs | types, a gapless write-once run log, running tasks are owned, a worker call that finalised returns on an actionable state, refusals leave records alone |
| `faults` | 1 process that may die, failing writes, 2 calls, 1 task, cap 2, 5 runs | the lock is never leaked; the record implements `TaskLifecycle`; reviewable work has its evidence; counters never go back |
| `two` | 2 processes, 1 task, cap 1, 3 runs, fairness | one Claude process per repository, a refused one that still lives included; every call returns, or waits for a child it refused |
| `strand` | 1 process, no faults | violation, below |
| `requests` | 2 keys, 3 runs, 2 requests (their slots reused), drains with and without a timeout, fairness | one live run per key, no answer from a run that ended before it was asked, no request ends a run, every wait ends |
| `process` | a worker or two commands, one member left behind, 3 bytes against a cap of 1, fairness | excerpts say what they leave out, spools keep whole lines, the result survives any volume, a pass is earned, the journal covers every child, a call that ended left no child, every accepted child's call ends |
| `evidence` | 3 paths (allowed, outside, forbidden), 3 runs, 2 changes by anyone | no offence is laundered, no escape missed, no charge unearned, altered evidence never reviewed, a review is shown what its run did, an implemented run is one |
| `erasure` | the same with directories | violation, below |
| `baseline` | 2 operators, 1 load, 1 meddling, three starting states, symmetric operators | two successes never replace the same file, an established baseline stands, an artefact is never cleared, a load is never torn |
| `preparation` | a dispatch and 2 resumes, 2 changes, 1 fault | workers start on a repository that was real, all on the same one; Git is accounted for; setup is not charged to the worker |
| `batch` | a base with one blob at two paths, no changes | violation, below |
| `terms` | 3 calls, 2 edits or restarts, 4 guidance manifests, 2 skill manifests, 2 texts of one size and one of another | the sealed identity is that of the worker's guidance, an admitted task can be seen through, a resumed worker is told no other text |

Bounds. Two calls are the smallest number that race, and every property speaks
of at most two actors. One task lets the tools meet on one record; two tasks
in one repository meet on the lock. Cap 1 (2) admits one (two) counted resumes
and a refused one; 3 (5) runs hold a dispatch, the resumes and a review after
each. Deadlock is not checked because the system may stop: once every further
call would be refused nothing moves. Calls are not symmetric to TLC's eyes
(`ProcessOf` names them), so no symmetry is used. In `requests` three runs
leave room for a run, its successor under the same key while its callback is
queued, and one under another key; two requests are a first one and one that
attaches.

In `process` three bytes overflow head and tail (one each) by one, and end or do
not end in a newline; one member is enough to hold a pipe open and to ignore
SIGTERM. In `evidence` a laundered offence needs a run that commits it, one
that undoes it and a review, and two changes; in `preparation` a torn capture
needs two changes inside one capture, and a burnt or reused journal needs two
resumes; in `terms` two edits are an edit and its replacement, or an edit and a
restart, around a dispatch, a resume and a third call. These three runs cover
every interleaving of such changes with every step. Runs whose system may come to rest do
not check deadlock.

Fairness, in `Dispatcher`'s `FairSpec`, is strong fairness of each call's own step. Calls are
tasks on a FIFO event loop, and each thing they await ends but one: threads and
Git by their own timeouts, an accepted child by its timeout and SIGKILL. The
exception is a child that was refused, which `run_worker` awaits after SIGKILL
without a bound (`runner.py` 1711): its end is `RefusedChildExits`, no part of
`Step` and without fairness, and `CallsReturn` claims that a call returns or
comes to wait for such a child, lock in hand. Fairness must be strong
because a peer between two awaits disables the step now and then, and the loop
comes round to everyone. Nothing is assumed of new calls, of crashes, or of a
worker whose dispatcher died. In `RunRegistry` weak fairness suffices: a body
ends (`CallsReturn` of `Dispatcher`, so with the same exception: `WaitsEnd`
speaks of runs that wait for no refused child), and the event loop runs each
callback it has queued. Nothing is assumed of requests, or of the timeout of a drain. In
`WorkerProcess` it is weak fairness of the code's own continuations and timers,
of the kernel's reaping and of the event loop's reading; nothing is assumed of
the child or of what it leaves behind, nor of a child that was refused:
`CallEnds` is about accepted ones.

### What the code does differently from what it says

Three runs end in a counterexample, each against a sentence of the repository:

* `strand`: a resume refused after its Git row was journalled counts no run, so
  the next resume opens the same journal, whose order check refuses the row as
  a repetition, and so on for ever: the task is FAILED (or awaiting) and
  cannot be resumed, though resumes are left.
* `erasure`: the ledger keeps the latest change of each path, and a change
  between absent and directory is passed over, so a later run that puts a
  directory where a forbidden file was removed erases the hit. Without
  directories (`evidence`) the ledger holds.
* `batch`: `prepare_dispatch` asks Git for the blob of every path whose
  checked-out bytes differ; `create_task_seal` wants only blobs no path
  brought, and refuses an answer that holds more.

Others were met while modelling. No run shows them now; a property that would
catch them is not claimed, or is claimed without the case:

* `_resume` plans before it takes the lock: with two dispatchers both start a
  worker with the same `resume_count` in the same run directory. In one
  process no await lies between, and `one` and `faults` show the cap holds.
* A review that fails after its reviewer ran is recorded by saving a whole
  record loaded without the lock; what another dispatcher wrote in between is
  undone. `CountersNeverDecrease` is checked with one process. No property
  covers what two dispatchers do here and in the plan above.
* A worker outlives a dispatcher that dies, its flock does not.
  `OneWorkerPerRepository` is checked, and proved, without deaths: no run would
  catch this one.
* A refused child that does not end keeps its call and the repository's lock
  for ever; `CallsReturn` and `CallEnds` leave such a call out.
* `drain(timeout)` is documented to cancel nothing, but waits without a
  shield, which on a timeout cancels the gathered runs. `RunsOutliveRequests`
  says that this is the only way.
* On a timeout SIGKILL goes to the group only if the leader outlives the grace
  period: a member that ignores SIGTERM survives a leader that does not.
* The old side of a change is looked up in the content sealed at the dispatch:
  a resumed worker that changes text an earlier run wrote gets an incomplete
  patch, and no review of it is presented.
* Two concurrent `--replace` calls can both fail, one of them saying it
  restored what was there, with the first one's content published and the old
  baseline gone. An artefact planted after the exchange loses its name in the
  undo.
* A failing `git worktree add` leaves its partial worktree, since `created` is
  still false; what fails after `prepare_dispatch` returned is not cleaned up.
  The output of row G9 (promisor completeness) is not read.
* A dispatch to another repository replaces the guidance engine of the
  dispatcher while a call uses it: the manifest a task is sealed to can then
  differ from the one its worker was told, and a resumed worker can be told
  another text. Both properties of `terms` that this breaks leave overlapped
  calls out.
* A resume compares only sizes of re-approved, resume-only skills, and no
  fingerprint covers the worker and review policies or the clause on graph
  refreshing: an edit of the same size is adopted unnoticed.
* The reviewer's schema is read by no dispatch, so the review of an admitted
  task can be refused for want of it; a restart alone can strand a resume,
  the skill engine being cached until then.

## 4. Proofs

A theorem holds for every value of the constants that satisfies the module's
assumption and the hypotheses it names. Each rests on an inductive invariant,
stated as a conjunction of named parts, which TLC was given as an invariant of
the run first; each proof that a step keeps it has one case an action.

### What is proved, and under which hypotheses

| Module | Theorems about runs' properties | Hypotheses beside the named assumption of the constants |
|---|---|---|
| `DispatcherProofs` | `LockDisciplineHolds`, `RefusalsLeaveRecord`, `TypeCorrect`; `OneWorkerWithoutCrash` | none; for the last, no crash among `Faults` |
| `DispatcherRecordProofs` | `AwaitingWorkIsReviewable`, `CountersOnlyGrow`, `DispatcherImplementsLifecycle` | `SingleProcess` |
| | `RunLogHasNoGap`, `RunningTasksAreOwned`, `RunRecordsStand`, `WorkerCallsReturnActionable` | `SingleProcess`, `Faults = {}` |
| `RunRegistryProofs` | `RegistryTypeCorrect`, `RegistryHoldsLiveRuns`, `RegistryAnswersAreFresh`, `RegistryShieldsRuns` | none |
| `AdminBaselineProofs` | `OneSuccessorEachHolds`, `BaselineStandsHolds`, `LoadsAreWhole`, `ArtefactsAreNeverCleared`, `TypeOKHolds` | none |
| `RunEvidenceProofs` | `ReviewsShowTheirRun`, `EscapesLandAsViolations`, `ViolationsAreEarned`, `FrozenEvidenceLands`, `ImplementedMeansExited` | none |
| | `ViolationsOutliveRuns`; `ViolationsPersistAmongFiles` | `[]AllMaterial`; `Directory \notin Object` |
| `WorkerProcessProofs` | `LastLineSurvives`, `ExcerptsTellWhatTheyOmit`, `SpoolsAreCutAtLines`, `EndedCallsLeaveNone`, `JournalNamesEveryRun`, `PassesAreOwn` | none |
| `PreparationProofs` | `AuthoritiesWereReal`, `AllRunsAgree`, `SetupIsNeverCharged`, `EveryCommandIsAccounted` | none |
| `WorkerTermsProofs` | `SealsMatch`, `InstructionsHold`, `HorizonReached` | none |

The hypotheses are where the code stops, not where the proof does:

* `SingleProcess` (all calls live in one dispatcher). With two, TLC refutes
  all seven: a resume plans from the record before it has the lock, and a
  failed review saves the record it loaded after it let go of the lock. In one
  process the event loop is what makes the plan hold: no await lies between
  the load and the lock.
* `Faults = {}`. A dispatcher that dies leaves tasks running without an owner
  and runs written but not counted; that is what a fault is, and `faults`
  checks, as the first three theorems state, what survives one.
* `AllMaterial` (no worker changes nothing into a directory or back).
  The ledger passes such changes over, and the run `erasure` shows what follows;
  `Directory \notin Object` is the same for snapshots of files and links.
* A crash-free `OneWorkerPerRepository`: a worker outlives a dispatcher that
  dies, its flock does not.

### The invariants

`DispatcherProofs`. `IInv` is `TypeOK`, `LockDiscipline` and `CallShape`:
neither of the first two is inductive alone, since the type of what a step
writes needs a call under way to have a task, and `OneWorkerPerRepository`
needs a child to belong to a call that holds its lock (`ChildPC`: from its spawn
to its exit, the wait for a refused one included). `RefusalLeavesRecord`
needs that a call past its child's exit is in FINALIZE, the third part of
`CallShape`. A step of a call changes that call alone and does one of four
things to the lock (keeps, takes, drops, needs none); `LockFrame` and
`InvariantFrame` show once that this preserves `IInv`.

`DispatcherRecordProofs`. `JInv` adds to `IInv` what each point of a call may
take for granted of the record (`StateFits`), of its plan (`PlanFits`) and of
its evidence (`EvidenceFits`), and of the disk that a task awaiting review has
both files (`DiskFits`). It is kept because a call that holds the lock is the
only one to write its task's record, and because `Alone`, which is the event
loop's rule, protects the one stretch without the lock: what a resume planned
is still so when it gets it. `QuietInv` adds the run log and the owner of a
running task, which only a fault could part. In one process no child is ever
refused (`NeverRefused`): nobody can have moved the task between the reservation
and the spawn. The refinement is one lemma an
action: each writes the record as `TaskLifecycle` allows (`LifecycleMove`) and
lowers no counter (`CountersGrow`), the failure record of a review included,
since its snapshot still is the record in one process.

`RunRegistryProofs` adds to `LiveRunsAreHeld` that a created run has a key,
without which no one could say what `Start` writes over, and that a registered
run is filed under its own key and was created, without which `Attach` could
join one that never runs.

`AdminBaselineProofs`. That two calls displaced different files says nothing
of a third about to exchange. The invariant speaks of retired files: a file
that was replaced is never again under the published name nor under that of a
call that could still exchange it, which holds because an inode number is used
once and because two names share a file only where one of them belongs to a
call that is through with it. A load keeps that what it read of a file still
is there if the file's mtime is the one it saw (`HoldsOf`), because a file that
exists only ages (`FilesAge`); an artefact keeps its names because the
temporary of a call is a regular file of its own until an exchange
(`TempIsOwn`).

`RunEvidenceProofs`. `IInv` relates what the dispatcher holds of a run to what
was done in it, terminal by terminal: until a terminal is measured the world
itself carries the difference, afterwards the snapshot does (`WorkerKnown`,
`ValidationKnown`, `EscapesBlamed`, `EvidenceFrozen`, `RecordsTrue`). An
escape that was put back is still found because the measurement that blames it
comes before its actor may act again. For `ViolationsPersist` the ledger holds
an offence of every run with one (`OffencesKept`), and composing a later
change of the same path keeps it an offence, except where the composition is
passed over as immaterial.

`WorkerProcessProofs`. All a capture keeps of a stream is a stretch of it
(`Bytes(a, b)`, the bytes after a up to b): the head is one from the start,
the tail one up to the end, the spool and the line buffer one each, the second
following the first. Retention and redaction then are statements about where
stretches end; each way `feed` cuts a chunk is a lemma about stretches. Beside
it the invariant says which child may be alive where (`ChildPlaced`), that a
signal sent is recorded (`SignalsTold`) and that the journal has announced
what runs (`AttemptJournalled`, `ResultsJournalled`).

`PreparationProofs`. Two captures that agree prove that the layout was whole
because a part that changes gets a number no part has had: if the second
look finds the first one's numbers, nothing between was newer (`FirstCapture`,
`SecondCapture`). A resume reads the authority of the seal before it
authenticates the seal. `ReadFits` says that what it read is either what the
worker of the first call started on or `Doomed`, so that the authentication
will refuse it: a damaged file could only be put back from a repository that
still is what it was. `LaunchesFit` carries this from worker to
worker. `RowsFit` has the rows a call ran as a beginning of the declared order
and, since the last marker of the journal, as what the journal holds, but for
the row of a command its call did not survive.

`WorkerTermsProofs`. Three parts, one a theorem. `Sealed`: unless another
dispatch overlapped, the facts of a dispatch are the manifest its guidance
engine holds, and its contexts and its prompt come from that manifest; overlap
is what replaces the engine of a call under way. `StandFits`: whatever a
dispatched worker was told is covered by a fingerprint of the record
(`DispatchCovered`), and a resume past `verify_dispatch_anchor` has engines that
agree with those fingerprints (`ResumeFollows`), so that what it composes from
them is what was told (`ToldStands`). `HorizonFits` speaks only of a task since
whose record nobody edited. A dispatch has a preflight behind it for every phase
it can reach (`DispatchSteady`), the record keeps its result as a promise
(`RecordSteady`) and a later call finds the engines, the profile and the
files the promise was made on (`LaterSteady`), so that a refusal can come only
from another source (`RefusedSteady`). What a call is composed from is
therefore restated for any request and any facts (`Composable`, `ContextFor`,
`PhasesFit`, `ReportFor`), and each step that edits nothing is shown to leave
those operators as they are (`Steady`). The assumption names skills and scopes
apart, since the model keeps what a worker is told of both in one function where
the code has a block for each, and has `None`, the code's null, be no manifest
and no record.

### What is only model-checked

* Liveness (`CallsReturn`, `WaitsEnd`, `CallEnds`) is out of the prover's
  reach, as is everything that needs ENABLED or induction over data.
* The three runs that end in a counterexample are instances by nature.

## 5. Not modelled

* `get_task` and the readers of the store beside a writing call; directory
  fsyncs, file modes.
* File formats (snapshots, manifests, JSON schemas, raw Git formats): a file is
  the content its readers tell apart, or damaged. Path encodings, hard links
  and file modes are not distinguished in `RunEvidence`.
* A repository layout that is changed and put back exactly while a capture
  looks at it (three such changes defeat two agreeing captures), and a sealed
  file changed and put back between its two reads.
* `git.py` from line 299 on, `evidence/ignore.py`, `evidence/reconcile.py`,
  `escalation_handoff`, `load_refusals`, `attribute_changed_paths` and
  `_assert_resume_worktree_identity`: no tool calls them.
* `config_authority.py` (it refuses a start and keeps nothing) and the
  recursion guard of the worker's environment; `scripts/`, probes and
  commissioning experiments, which are around the program.
* In `WorkerTerms`, the steps of one lifecycle evaluation are one step, and the
  report file is written by this task's calls only. A resume's recorded model
  is kept without a check against the configuration, as in the code.

## 6. Plan

1. `TaskStore`: files one by one, a reader (`get_task`) and a crash between any
   two; what a reader may see.
