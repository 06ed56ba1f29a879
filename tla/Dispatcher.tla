----------------------------- MODULE Dispatcher -----------------------------
(***************************************************************************)
(* The tool calls of the dispatcher: dispatch, resume and review, from the *)
(* request to the state the task lands in.  Several dispatcher processes   *)
(* may share one state directory; within a process the calls are asyncio   *)
(* tasks, so a stretch of code without an await is never interleaved with  *)
(* another call of the same process.  On disk: one record per task, the    *)
(* run files, the evidence a later run reads back, and one flock per       *)
(* repository.                                                             *)
(*                                                                         *)
(* Each action is one durable write with the code around it, or one await, *)
(* so a crash can fall between any two writes.  Load-modify-save under the *)
(* repository lock is one step; the one such write that the code makes     *)
(* after releasing the lock (a failed review) is two.                      *)
(***************************************************************************)
EXTENDS Naturals, FiniteSets, TaskStates

CONSTANTS
  Process,          \* dispatcher processes over one state directory
  Call,             \* tool calls; a slot is reused once its call returned
  Task,             \* task ids
  Repository,       \* repositories
  ProcessOf,        \* the process each call runs in
  RepositoryOf,     \* the repository each task belongs to
  MaxResumeCount,   \* envelope.execution.max_resume_count
  MaxRuns,          \* bound: run directories a task may have
  Faults,           \* subset of {"crash", "io_error"}: what may go wrong
  None              \* the holder of a free lock, the task of an idle call

ASSUME ConstantsAssumption ==
  /\ ProcessOf \in [Call -> Process]
  /\ RepositoryOf \in [Task -> Repository]
  /\ MaxResumeCount \in Nat
  /\ MaxRuns \in Nat \ {0}
  /\ Faults \subseteq { "crash", "io_error" }
  /\ None \notin Call \cup Task

VARIABLES
  envelopes,        \* tasks whose envelope.json exists
  record,           \* state.json of each task
  runs,             \* runs/NNN/dispatcher-result.json: what wrote it
  git_rows,         \* run indices whose journal already holds the resume row
  scope_history,    \* tasks with evidence/scope-verdicts.json
  lock,             \* holder of each repository's flock
  child,            \* calls whose Claude process is alive
  orphans,          \* tasks with a worker whose dispatcher died
  call              \* the tool calls

disk == << envelopes, record, runs, git_rows, scope_history >>
vars == << envelopes, record, runs, git_rows, scope_history,
           lock, child, orphans, call >>
-----------------------------------------------------------------------------
(* Types *)

RunIndex == 1 .. MaxRuns

\* "implementer" is a run with observations, "bare" one recorded without
\* (_record_bare_run by a worker run), "review" a reviewer's bare run.
RunKind == { "none", "implementer", "bare", "review" }

\* The fields of state.json a later call depends on.
RecordField == { "selected_model", "worktree_path", "anchors", "session_id" }

TaskRecord ==
  [ state              : TaskState \cup { "absent" },
    known              : SUBSET RecordField,
    resume_count       : Nat,
    run_count          : Nat,
    fable_review_count : Nat ]

NoRecord ==
  [ state |-> "absent", known |-> {}, resume_count |-> 0, run_count |-> 0,
    fable_review_count |-> 0 ]

Tool == { "dispatch", "resume", "review" }

ExecutionPhase == { "PREPARE", "LAUNCH", "RESERVE", "EXECUTE", "FINALIZE" }

\* The call holds its repository's lock.
LockedPC ==
  { "prepare", "git_listed", "create", "route", "save_worktree", "anchor",
    "launch", "spawned", "refused", "unwritten", "running", "collect",
    "measure", "freeze", "count", "mismatch", "land", "await", "record_run", "parse", "mark" }

\* Mutant of NoAwaitPC: an await between loading a record and saving it.
NoAwaitPC_SaveAwaits ==
  { "planned", "create", "route", "save_worktree", "anchor", "spawned",
    "count", "mismatch", "land", "await", "parse", "mark", "unlocked" }

\* The next step follows without an await: the event loop is this call's.
NoAwaitPC ==
  { "planned", "create", "route", "save_worktree", "anchor", "spawned",
    "count", "mismatch", "land", "await", "parse", "mark",
    "unlocked", "save_failure" }

PC == LockedPC \cup { "idle", "planned", "checked", "unlocked", "save_failure" }

ToolCall ==
  [ pc                : PC,
    tool              : Tool,
    task              : Task \cup { None },
    phase             : ExecutionPhase,
    run_index         : Nat,
    next_resume_count : Nat,
    snapshot          : TaskRecord ]

Idle ==
  [ pc |-> "idle", tool |-> "dispatch", task |-> None, phase |-> "PREPARE",
    run_index |-> 0, next_resume_count |-> 0, snapshot |-> NoRecord ]

TypeOK ==
  /\ envelopes \subseteq Task
  /\ record \in [Task -> TaskRecord]
  /\ runs \in [Task -> [RunIndex -> RunKind]]
  /\ git_rows \in [Task -> SUBSET RunIndex]
  /\ scope_history \subseteq Task
  /\ lock \in [Repository -> Call \cup { None }]
  /\ child \subseteq Call
  /\ orphans \subseteq Task
  /\ call \in [Call -> ToolCall]
-----------------------------------------------------------------------------
Init ==
  /\ envelopes = {}
  /\ record = [t \in Task |-> NoRecord]
  /\ runs = [t \in Task |-> [i \in RunIndex |-> "none"]]
  /\ git_rows = [t \in Task |-> {}]
  /\ scope_history = {}
  /\ lock = [r \in Repository |-> None]
  /\ child = {}
  /\ orphans = {}
  /\ call = [c \in Call |-> Idle]
-----------------------------------------------------------------------------
(* Helpers *)

Repo(c) == RepositoryOf[call[c].task]

Peers(c) == { d \in Call \ { c } : ProcessOf[d] = ProcessOf[c] }

\* No other call of this process is between two awaits.
EventLoopFree(c) == \A d \in Peers(c) : call[d].pc \notin NoAwaitPC

At(c, pc) == call[c].pc = pc /\ EventLoopFree(c)

Goto(c, pc) == call' = [call EXCEPT ![c].pc = pc]

GotoIn(c, pc, phase) ==
  call' = [call EXCEPT ![c].pc = pc, ![c].phase = phase]

Return(c) == call' = [call EXCEPT ![c] = Idle]

\* Mutant of Acquire: a shared flock.
Acquire_Shared(c, t) == lock' = [lock EXCEPT ![RepositoryOf[t]] = c]

Acquire(c, t) == /\ lock[RepositoryOf[t]] = None
                 /\ lock' = [lock EXCEPT ![RepositoryOf[t]] = c]

Release(c) ==
  lock' = [r \in Repository |-> IF lock[r] = c THEN None ELSE lock[r]]

\* TaskStore.transition: refused by InvalidStateTransition unless allowed.
CanMove(t, target) == /\ record[t].state # "absent"
                      /\ IsTransitionAllowed(record[t].state, target)

SetState(t, target) == record' = [record EXCEPT ![t].state = target]

\* ToolExecution.worker is set: a child was proved to exist.
WorkerProven(c) == call[c].phase \in { "EXECUTE", "FINALIZE" }

\* Mutant of RecordFailure: a refusal before the spawn fails the task too.
RecordFailure_Refusals(c) ==
  IF record[call[c].task].state \in InFlight
    THEN SetState(call[c].task, "FAILED")
    ELSE UNCHANGED record

\* Mutant of RecordFailure: failures of FINALIZE are not recorded.
RecordFailure_ExecuteOnly(c) ==
  IF call[c].phase = "EXECUTE" /\ record[call[c].task].state \in InFlight
    THEN SetState(call[c].task, "FAILED")
    ELSE UNCHANGED record

\* _record_failure: without a worker only a refusal line is written.
RecordFailure(c) ==
  IF WorkerProven(c) /\ record[call[c].task].state \in InFlight
    THEN SetState(call[c].task, "FAILED")
    ELSE UNCHANGED record

\* The except/finally of a tool body: record the failure, then release.
Fail(c) == RecordFailure(c) /\ Release(c) /\ Return(c)

\* Role IMPLEMENTER: a dispatched or resumed worker; else the reviewer.
Implements(c) == call[c].tool # "review"

ImplementerRuns(t) ==
  { i \in RunIndex : runs[t][i] \in { "implementer", "bare" } }

\* _load_fable_evidence takes the latest implementer run, and needs the
\* frozen evidence that a bare run lacks.
HasReviewEvidence(t) ==
  \E i \in ImplementerRuns(t) :
    /\ runs[t][i] = "implementer"
    /\ \A j \in ImplementerRuns(t) : j <= i
-----------------------------------------------------------------------------
(* Dispatch *)

\* Validation and the lock, taken without an await; new_task_id() is fresh.
\* A busy repository is refused before anything is recorded.
BeginDispatch(c, t) ==
  /\ At(c, "idle")
  /\ t \notin envelopes
  /\ \A d \in Call : call[d].task # t
  /\ Acquire(c, t)
  /\ call' = [call EXCEPT ![c] = [Idle EXCEPT !.pc = "prepare",
                                              !.task = t,
                                              !.run_index = 1]]
  /\ UNCHANGED << disk, child, orphans >>

\* PREPARE succeeded: mark_reserved, then store.create writes envelope.json.
ReserveDispatch(c) ==
  /\ At(c, "prepare")
  /\ call[c].tool = "dispatch"
  /\ envelopes' = envelopes \cup { call[c].task }
  /\ GotoIn(c, "create", "RESERVE")
  /\ UNCHANGED << record, runs, git_rows, scope_history, lock, child,
                  orphans >>

\* store.create writes state.json.
CreateRecord(c) ==
  /\ At(c, "create")
  /\ record' = [record EXCEPT ![call[c].task].state = "CREATED"]
  /\ Goto(c, "route")
  /\ UNCHANGED << envelopes, runs, git_rows, scope_history, lock, child,
                  orphans >>

\* The seal moves under the task's evidence; then the model is recorded.
Route(c) ==
  LET t == call[c].task IN
  /\ At(c, "route")
  /\ CanMove(t, "ROUTED")
  /\ record' = [record EXCEPT ![t].state = "ROUTED",
                              ![t].known = @ \cup { "selected_model" }]
  /\ Goto(c, "save_worktree")
  /\ UNCHANGED << envelopes, runs, git_rows, scope_history, lock, child,
                  orphans >>

SaveWorktree(c) ==
  /\ At(c, "save_worktree")
  /\ record' = [record EXCEPT ![call[c].task].known =
                                @ \cup { "worktree_path" }]
  /\ Goto(c, "anchor")
  /\ UNCHANGED << envelopes, runs, git_rows, scope_history, lock, child,
                  orphans >>

\* The worktree base and context anchors, written once; then LAUNCH.
AnchorTask(c) ==
  /\ At(c, "anchor")
  /\ record' = [record EXCEPT ![call[c].task].known = @ \cup { "anchors" }]
  /\ GotoIn(c, "launch", "LAUNCH")
  /\ UNCHANGED << envelopes, runs, git_rows, scope_history, lock, child,
                  orphans >>
-----------------------------------------------------------------------------
(* Resume *)

ResumePlanHolds(t) ==
  /\ record[t].resume_count < MaxResumeCount
  /\ RecordField \subseteq record[t].known

\* The record is read and the plan built before the lock is asked for, and
\* the record is not read again under it.  A refused plan changes nothing.
BeginResume(c, t) ==
  /\ At(c, "idle")
  /\ t \in envelopes
  /\ record[t].state # "absent"
  /\ ResumePlanHolds(t)
  /\ call' = [call EXCEPT ![c] =
       [Idle EXCEPT !.pc = "planned",
                    !.tool = "resume",
                    !.task = t,
                    !.run_index = record[t].run_count + 1,
                    !.next_resume_count = record[t].resume_count + 1]]
  /\ UNCHANGED << disk, lock, child, orphans >>

LockResume(c) ==
  /\ At(c, "planned")
  /\ Acquire(c, call[c].task)
  /\ Goto(c, "prepare")
  /\ UNCHANGED << disk, child, orphans >>

\* RepositoryBusy, raised before the try: not journalled.
ResumeBusy(c) ==
  /\ At(c, "planned")
  /\ lock[Repo(c)] # None
  /\ Return(c)
  /\ UNCHANGED << disk, lock, child, orphans >>

\* Mutant of RecordGitRow: the row goes to the directory of the run before.
RecordGitRow_RunBefore(c) ==
  LET t == call[c].task
      i == call[c].run_index IN
  /\ At(c, "prepare")
  /\ call[c].tool = "resume"
  /\ i \in RunIndex \ git_rows[t]
  /\ git_rows' = [git_rows EXCEPT ![t] = @ \cup { i - 1 }]
  /\ Goto(c, "git_listed")
  /\ UNCHANGED << envelopes, record, runs, scope_history, lock, child,
                  orphans >>

\* prepare_resume's only Git command.  The journal of this run directory
\* refuses a row it already holds, so only PrepareRefused remains then.
RecordGitRow(c) ==
  LET t == call[c].task
      i == call[c].run_index IN
  /\ At(c, "prepare")
  /\ call[c].tool = "resume"
  /\ i \in RunIndex \ git_rows[t]
  /\ git_rows' = [git_rows EXCEPT ![t] = @ \cup { i }]
  /\ Goto(c, "git_listed")
  /\ UNCHANGED << envelopes, record, runs, scope_history, lock, child,
                  orphans >>

\* Mutant of ReserveResume: the state is set without the table's consent.
ReserveResume_Unchecked(c) ==
  /\ At(c, "git_listed")
  /\ SetState(call[c].task, "RESUME_REQUESTED")
  /\ GotoIn(c, "launch", "LAUNCH")
  /\ UNCHANGED << envelopes, runs, git_rows, scope_history, lock, child,
                  orphans >>

ReserveResume(c) ==
  LET t == call[c].task IN
  /\ At(c, "git_listed")
  /\ CanMove(t, "RESUME_REQUESTED")
  /\ SetState(t, "RESUME_REQUESTED")
  /\ GotoIn(c, "launch", "LAUNCH")
  /\ UNCHANGED << envelopes, runs, git_rows, scope_history, lock, child,
                  orphans >>

\* Authority drift, a missing seal, a changed context, a failed Git command,
\* a forbidden Git row or, for a resume, a state that may not be resumed.
PrepareRefused(c) ==
  /\ At(c, "prepare") \/ At(c, "git_listed")
  /\ Fail(c)
  /\ UNCHANGED << envelopes, runs, git_rows, scope_history, child, orphans >>
-----------------------------------------------------------------------------
(* Launch: dispatch, resume and review alike *)

\* No child: the binary is missing or argv too long, or start_failed.
LaunchRefused(c) ==
  /\ At(c, "launch")
  /\ Fail(c)
  /\ UNCHANGED << envelopes, runs, git_rows, scope_history, child, orphans >>

\* The child exists and on_spawn has marked it; a reviewer's callback does
\* no more, a worker's goes on to record RUNNING.
SpawnChild(c) ==
  /\ At(c, "launch")
  /\ child' = child \cup { c }
  /\ GotoIn(c, IF Implements(c) THEN "spawned" ELSE "running", "EXECUTE")
  /\ UNCHANGED << disk, lock, orphans >>

MarkRunning(c) ==
  LET t == call[c].task IN
  /\ At(c, "spawned")
  /\ CanMove(t, "RUNNING")
  /\ record' =
       IF call[c].tool = "dispatch"
         THEN [record EXCEPT ![t].state = "RUNNING",
                             ![t].known = @ \cup { "session_id" }]
         ELSE [record EXCEPT ![t].state = "RUNNING",
                             ![t].resume_count = call[c].next_resume_count]
  /\ Goto(c, "running")
  /\ UNCHANGED << envelopes, runs, git_rows, scope_history, lock, child,
                  orphans >>

\* InvalidStateTransition out of on_spawn: run_worker signals the child, and
\* awaits its end with the lock held, without a bound.
MarkRunningRefused(c) ==
  /\ At(c, "spawned")
  /\ ~ CanMove(call[c].task, "RUNNING")
  /\ Goto(c, "refused")
  /\ UNCHANGED << disk, lock, child, orphans >>

\* The same where the write of on_spawn fails with an OSError.
MarkRunningFails(c) ==
  /\ "io_error" \in Faults
  /\ At(c, "spawned")
  /\ Goto(c, "unwritten")
  /\ UNCHANGED << disk, lock, child, orphans >>

\* The child is gone, and what on_spawn raised goes on: a refusal to
\* _record_failure, an OSError past it.
RefusedChildExits(c) ==
  /\ child' = child \ { c }
  /\ \/ At(c, "refused") /\ Fail(c)
     \/ At(c, "unwritten") /\ Release(c) /\ Return(c) /\ UNCHANGED record
  /\ UNCHANGED << envelopes, runs, git_rows, scope_history, orphans >>

\* Mutant of WorkerExit: the reviewer has no timeout, and hangs.
WorkerExit_NoReviewTimeout(c) ==
  /\ At(c, "running")
  /\ Implements(c)
  /\ child' = child \ { c }
  /\ GotoIn(c, "collect", "FINALIZE")
  /\ UNCHANGED << disk, lock, orphans >>

\* The child ends by itself, or by SIGTERM and SIGKILL at its timeout.
WorkerExit(c) ==
  /\ At(c, "running")
  /\ child' = child \ { c }
  /\ GotoIn(c, IF Implements(c) THEN "collect" ELSE "record_run", "FINALIZE")
  /\ UNCHANGED << disk, lock, orphans >>
-----------------------------------------------------------------------------
(* Finalising a worker run *)

\* Scope history exists exactly when the task has had a run before.
ScopeHistoryFits(c) ==
  (call[c].run_index = 1) <=> (call[c].task \notin scope_history)

CheckScopeHistory(c) ==
  /\ At(c, "collect")
  /\ ScopeHistoryFits(c)
  /\ Goto(c, "measure")
  /\ UNCHANGED << disk, lock, child, orphans >>

ScopeHistoryCorrupt(c) ==
  /\ At(c, "collect")
  /\ ~ ScopeHistoryFits(c)
  /\ Fail(c)
  /\ UNCHANGED << envelopes, runs, git_rows, scope_history, child, orphans >>

\* Evidence that cannot be captured, attributed or frozen, before the scope
\* verdicts are written or after.
MeasurementFailed(c) ==
  /\ At(c, "measure") \/ At(c, "freeze")
  /\ Fail(c)
  /\ UNCHANGED << envelopes, runs, git_rows, scope_history, child, orphans >>

\* store.append_run: dispatcher-result.json first, then run_count.
WriteRun(c, kind) ==
  /\ runs' = [runs EXCEPT ![call[c].task][call[c].run_index] = kind]
  /\ Goto(c, "count")
  /\ UNCHANGED << envelopes, record, git_rows, scope_history, lock, child,
                  orphans >>

\* The sealed worktree authority moved: a bare run, then the error.
WorktreeAuthorityMoved(c) == At(c, "measure") /\ WriteRun(c, "bare")

WriteScopeVerdicts(c) ==
  /\ At(c, "measure")
  /\ scope_history' = scope_history \cup { call[c].task }
  /\ Goto(c, "freeze")
  /\ UNCHANGED << envelopes, record, runs, git_rows, lock, child, orphans >>

WriteWorkerRun(c) == At(c, "freeze") /\ WriteRun(c, "implementer")

\* Mutant of CountRun: a run without observations is not counted.
CountRun_SkipsBare(c) ==
  LET t == call[c].task
      i == call[c].run_index IN
  /\ At(c, "count")
  /\ record' = [record EXCEPT ![t].run_count =
                  IF runs[t][i] # "bare" /\ @ < i THEN i ELSE @]
  /\ Goto(c, CASE runs[t][i] = "bare"   -> "mismatch"
               [] runs[t][i] = "review" -> "parse"
               [] OTHER                 -> "land")
  /\ UNCHANGED << envelopes, runs, git_rows, scope_history, lock, child,
                  orphans >>

\* Mutant of CountRun: the authority mismatch is recorded but not raised.
CountRun_LandsBare(c) ==
  LET t == call[c].task
      i == call[c].run_index IN
  /\ At(c, "count")
  /\ record' = [record EXCEPT ![t].run_count = IF @ < i THEN i ELSE @]
  /\ Goto(c, IF runs[t][i] = "review" THEN "parse" ELSE "land")
  /\ UNCHANGED << envelopes, runs, git_rows, scope_history, lock, child,
                  orphans >>

CountRun(c) ==
  LET t == call[c].task
      i == call[c].run_index IN
  /\ At(c, "count")
  /\ record' = [record EXCEPT ![t].run_count = IF @ < i THEN i ELSE @]
  /\ Goto(c, CASE runs[t][i] = "bare"   -> "mismatch"
               [] runs[t][i] = "review" -> "parse"
               [] OTHER                 -> "land")
  /\ UNCHANGED << envelopes, runs, git_rows, scope_history, lock, child,
                  orphans >>

\* WorktreeBaseMismatch after the bare run.
MismatchRaised(c) ==
  /\ At(c, "mismatch")
  /\ Fail(c)
  /\ UNCHANGED << envelopes, runs, git_rows, scope_history, child, orphans >>

\* _land_state, a branch that ends the call.
LandOffRamp(c, target) ==
  /\ At(c, "land")
  /\ target \in OffRamps
  /\ CanMove(call[c].task, target)
  /\ SetState(call[c].task, target)
  /\ Release(c)
  /\ Return(c)
  /\ UNCHANGED << envelopes, runs, git_rows, scope_history, child, orphans >>

\* Mutant of LandImplemented: the call returns without awaiting review.
LandImplemented_Returns(c) ==
  /\ At(c, "land")
  /\ CanMove(call[c].task, "IMPLEMENTED")
  /\ SetState(call[c].task, "IMPLEMENTED")
  /\ Release(c)
  /\ Return(c)
  /\ UNCHANGED << envelopes, runs, git_rows, scope_history, child, orphans >>

\* _land_state, the clean branch: two transitions, two writes.
LandImplemented(c) ==
  /\ At(c, "land")
  /\ CanMove(call[c].task, "IMPLEMENTED")
  /\ SetState(call[c].task, "IMPLEMENTED")
  /\ Goto(c, "await")
  /\ UNCHANGED << envelopes, runs, git_rows, scope_history, lock, child,
                  orphans >>

AwaitReview(c) ==
  /\ At(c, "await")
  /\ CanMove(call[c].task, "AWAITING_SOL_REVIEW")
  /\ SetState(call[c].task, "AWAITING_SOL_REVIEW")
  /\ Release(c)
  /\ Return(c)
  /\ UNCHANGED << envelopes, runs, git_rows, scope_history, child, orphans >>

\* The record is no longer where this run left it: InvalidStateTransition.
LandRefused(c) ==
  LET t == call[c].task IN
  /\ \/ At(c, "land") /\ \A target \in OffRamps \cup { "IMPLEMENTED" } :
                            ~ CanMove(t, target)
     \/ At(c, "await") /\ ~ CanMove(t, "AWAITING_SOL_REVIEW")
  /\ Fail(c)
  /\ UNCHANGED << envelopes, runs, git_rows, scope_history, child, orphans >>
-----------------------------------------------------------------------------
(* Review *)

\* Legality is checked, then classify_dot_git is awaited without the lock.
BeginReview(c, t) ==
  /\ At(c, "idle")
  /\ t \in envelopes
  /\ CanMove(t, "FABLE_REVIEWED")
  /\ "worktree_path" \in record[t].known
  /\ call' = [call EXCEPT ![c] = [Idle EXCEPT !.pc = "checked",
                                              !.tool = "review",
                                              !.task = t]]
  /\ UNCHANGED << disk, lock, child, orphans >>

\* Mutant of LockReview: the review takes the directory of the last run.
LockReview_LastRun(c) ==
  LET t == call[c].task IN
  /\ At(c, "checked")
  /\ CanMove(t, "FABLE_REVIEWED")
  /\ Acquire(c, t)
  /\ call' = [call EXCEPT ![c].pc = "prepare",
                          ![c].run_index = record[t].run_count]
  /\ UNCHANGED << disk, child, orphans >>

\* The record is read again under the lock, its state checked again.
LockReview(c) ==
  LET t == call[c].task IN
  /\ At(c, "checked")
  /\ CanMove(t, "FABLE_REVIEWED")
  /\ Acquire(c, t)
  /\ call' = [call EXCEPT ![c].pc = "prepare",
                          ![c].run_index = record[t].run_count + 1]
  /\ UNCHANGED << disk, child, orphans >>

\* RepositoryBusy, or a state that moved since: a refusal line at most.
LockReviewRefused(c) ==
  LET t == call[c].task IN
  /\ At(c, "checked")
  /\ lock[Repo(c)] # None \/ ~ CanMove(t, "FABLE_REVIEWED")
  /\ Return(c)
  /\ UNCHANGED << disk, lock, child, orphans >>

\* Seal, authority, evidence and transport budget hold.
ReserveReview(c) ==
  /\ At(c, "prepare")
  /\ call[c].tool = "review"
  /\ call[c].run_index \in RunIndex
  /\ HasReviewEvidence(call[c].task)
  /\ GotoIn(c, "launch", "LAUNCH")
  /\ UNCHANGED << disk, lock, child, orphans >>

WriteReviewRun(c) == At(c, "record_run") /\ WriteRun(c, "review")

\* A provider limit, a dead CLI or output that is no review.  The finally
\* releases the lock; the failure is recorded by the caller, afterwards.
ReviewUnusable(c) ==
  /\ At(c, "parse")
  /\ Release(c)
  /\ Goto(c, "unlocked")
  /\ UNCHANGED << disk, child, orphans >>

AppendReview(c) ==
  /\ At(c, "parse")
  /\ record' = [record EXCEPT ![call[c].task].fable_review_count = @ + 1]
  /\ Goto(c, "mark")
  /\ UNCHANGED << envelopes, runs, git_rows, scope_history, lock, child,
                  orphans >>

MarkReviewed(c) ==
  LET t == call[c].task IN
  /\ At(c, "mark")
  /\ CanMove(t, "FABLE_REVIEWED")
  /\ SetState(t, "FABLE_REVIEWED")
  /\ Release(c)
  /\ Return(c)
  /\ UNCHANGED << envelopes, runs, git_rows, scope_history, child, orphans >>

MarkReviewedRefused(c) ==
  /\ At(c, "mark")
  /\ ~ CanMove(call[c].task, "FABLE_REVIEWED")
  /\ Release(c)
  /\ Goto(c, "unlocked")
  /\ UNCHANGED << disk, child, orphans >>

\* _record_failure of a review whose child existed: no lock is held.
LoadForFailure(c) ==
  /\ At(c, "unlocked")
  /\ call' = [call EXCEPT ![c].pc = "save_failure",
                          ![c].snapshot = record[call[c].task]]
  /\ UNCHANGED << disk, lock, child, orphans >>

\* Two branches on the state that was loaded: transition() loads afresh (and
\* its refusal is swallowed); otherwise the loaded record itself is saved.
SaveFailure(c) ==
  LET t == call[c].task IN
  /\ At(c, "save_failure")
  /\ record' =
       IF call[c].snapshot.state \in InFlight
         THEN IF CanMove(t, "FAILED")
                THEN [record EXCEPT ![t].state = "FAILED"]
                ELSE record
         ELSE [record EXCEPT ![t] = call[c].snapshot]
  /\ Return(c)
  /\ UNCHANGED << envelopes, runs, git_rows, scope_history, lock, child,
                  orphans >>
-----------------------------------------------------------------------------
(* Faults *)

\* A process dies: its locks go with its descriptors, its workers stay.
Crash(p) ==
  LET dead == { c \in Call : ProcessOf[c] = p } IN
  /\ "crash" \in Faults
  /\ \E c \in dead : call[c].pc # "idle"
  /\ lock' = [r \in Repository |-> IF lock[r] \in dead THEN None ELSE lock[r]]
  /\ child' = child \ dead
  /\ orphans' = orphans \cup
       { call[c].task : c \in { d \in child \cap dead : Implements(d) } }
  /\ call' = [c \in Call |-> IF c \in dead THEN Idle ELSE call[c]]
  /\ UNCHANGED disk

OrphanExit(t) ==
  /\ t \in orphans
  /\ orphans' = orphans \ { t }
  /\ UNCHANGED << disk, lock, child, call >>

\* The points at which a durable write is about to be made.
WritePC ==
  { "prepare", "create", "route", "save_worktree", "anchor", "git_listed",
    "measure", "freeze", "count", "land", "await", "record_run", "parse",
    "mark", "save_failure" }

\* Mutant of WriteFails: the lock is released by the except clauses only.
WriteFails_KeepsLock(c) ==
  /\ "io_error" \in Faults
  /\ call[c].pc \in WritePC
  /\ EventLoopFree(c)
  /\ Return(c)
  /\ UNCHANGED << disk, lock, child, orphans >>

\* The write fails with an OSError, which no except clause of the tool
\* bodies records; the lock is released on the way out.
WriteFails(c) ==
  /\ "io_error" \in Faults
  /\ call[c].pc \in WritePC
  /\ EventLoopFree(c)
  /\ Release(c)
  /\ Return(c)
  /\ UNCHANGED << disk, child, orphans >>
-----------------------------------------------------------------------------
BeginCall(c) ==
  \E t \in Task : BeginDispatch(c, t) \/ BeginResume(c, t) \/ BeginReview(c, t)

\* A step of a call under way.
Step(c) ==
  \/ ReserveDispatch(c) \/ CreateRecord(c) \/ Route(c) \/ SaveWorktree(c)
  \/ AnchorTask(c)
  \/ LockResume(c) \/ ResumeBusy(c) \/ RecordGitRow(c) \/ ReserveResume(c)
  \/ PrepareRefused(c)
  \/ LaunchRefused(c) \/ SpawnChild(c) \/ MarkRunning(c)
  \/ MarkRunningRefused(c) \/ WorkerExit(c)
  \/ CheckScopeHistory(c) \/ ScopeHistoryCorrupt(c) \/ MeasurementFailed(c)
  \/ WorktreeAuthorityMoved(c) \/ WriteScopeVerdicts(c) \/ WriteWorkerRun(c)
  \/ CountRun(c) \/ MismatchRaised(c)
  \/ \E target \in OffRamps : LandOffRamp(c, target)
  \/ LandImplemented(c) \/ AwaitReview(c) \/ LandRefused(c)
  \/ LockReview(c) \/ LockReviewRefused(c) \/ ReserveReview(c)
  \/ WriteReviewRun(c) \/ ReviewUnusable(c) \/ AppendReview(c)
  \/ MarkReviewed(c) \/ MarkReviewedRefused(c)
  \/ LoadForFailure(c) \/ SaveFailure(c)

Next ==
  \/ \E c \in Call : \/ BeginCall(c) \/ Step(c)
                     \/ RefusedChildExits(c)
                     \/ WriteFails(c) \/ MarkRunningFails(c)
  \/ \E p \in Process : Crash(p)
  \/ \E t \in Task : OrphanExit(t)

Spec == Init /\ [][Next]_vars

\* Every call under way is a task on a FIFO event loop whose awaits all end
\* (the worker's by its timeout), so each keeps getting its turn.  Nobody
\* owes a new call, and nothing makes an orphan end, nor a child that was
\* refused: its caller awaits it without a bound (runner.py 1711).
FairSpec == Spec /\ \A c \in Call : SF_vars(Step(c))
-----------------------------------------------------------------------------
(* Safety *)

\* A call between acquire and release is the holder its repository's lock
\* file knows, and a lock is held by such a call only: no early return,
\* refusal, failed write or crash leaves a repository locked or lets a call
\* go on without the lock (the try/finally of the tool bodies, locks.py).
LockDiscipline ==
  /\ \A c \in Call : call[c].pc \in LockedPC => lock[Repo(c)] = c
  /\ \A r \in Repository : lock[r] # None =>
       call[lock[r]].pc \in LockedPC /\ Repo(lock[r]) = r

\* At most one Claude process works in a repository, whichever calls and
\* dispatcher processes there are ("exactly one mutating worker per
\* repository", locks.py; a review takes the lock too).
OneWorkerPerRepository ==
  /\ \A c, d \in child : Repo(c) = Repo(d) => c = d
  /\ \A t \in orphans :
       /\ \A c \in child : Repo(c) # RepositoryOf[t]
       /\ \A u \in orphans : RepositoryOf[u] = RepositoryOf[t] => u = t

\* The run log has no gap and no file beyond the count, but for the run a
\* call has written and is about to count (append_run).
RunLogIsContiguous ==
  \A t \in Task :
    { i \in RunIndex : runs[t][i] # "none" } =
      1 .. record[t].run_count \cup
      { call[c].run_index : c \in { d \in Call : call[d].task = t
                                              /\ call[d].pc = "count" } }

\* A task that waits for review, or was reviewed, has the frozen evidence of
\* its latest worker run and a scope history for the next run to build on:
\* no earlier failure is ever presented as reviewable work.
AwaitingIsReviewable ==
  \A t \in Task :
    record[t].state \in { "AWAITING_SOL_REVIEW", "FABLE_REVIEWED" } =>
      HasReviewEvidence(t) /\ t \in scope_history

\* A task in RUNNING or IMPLEMENTED has a call that holds the repository and
\* is past its spawn: unless a process dies or a write fails, no return
\* leaves a task running with nobody to land it.
RunningIsOwned ==
  \A t \in Task : record[t].state \in { "RUNNING", "IMPLEMENTED" } =>
    \E c \in Call : /\ call[c].task = t
                    /\ lock[RepositoryOf[t]] = c
                    /\ WorkerProven(c)

\* After a run has failed and while resumes are left, the run directory of
\* the next resume holds no Git row yet, so its one Git command is not
\* refused as a repetition (models.py: FAILED "is precisely the recoverable
\* case; making it terminal would strand it").
FailedIsRecoverable ==
  \A t \in Task :
    /\ record[t].state = "FAILED"
    /\ ResumePlanHolds(t)
    /\ lock[RepositoryOf[t]] = None
    => record[t].run_count + 1 \notin git_rows[t]
-----------------------------------------------------------------------------
(* Action properties *)

\* A run file, once written, is never written over with another run
\* (append_run into runs/NNN; "a stale value would have the review
\* overwrite a worker run's evidence", server.py).
RunRecordsAreWriteOnce ==
  [][ \A t \in Task, i \in RunIndex :
        runs[t][i] # "none" => runs'[t][i] = runs[t][i] ]_runs

\* No write puts back an older record: the counters that name the next run
\* directory, the next review file and the resumes used only grow.
CountersNeverDecrease ==
  [][ \A t \in Task :
        /\ record'[t].run_count >= record[t].run_count
        /\ record'[t].resume_count >= record[t].resume_count
        /\ record'[t].fable_review_count >= record[t].fable_review_count
    ]_record

\* A blocking worker call that got as far as finalising its run returns on a
\* state its caller can act on (WORKER_ACTIONABLE_STATES, waiting.py).
ReturnsActionable ==
  [][ \A c \in Call :
        /\ Implements(c)
        /\ call[c].phase = "FINALIZE"
        /\ call'[c] = Idle
        => record'[call[c].task].state \in WorkerActionable ]_vars

\* Until a child is proved to exist, only a legal lifecycle move touches a
\* task: a call that is refused leaves the record as it found it
\* (_record_failure: "a refusal ... leaves the task state byte-identical").
RefusalLeavesRecord ==
  [][ \A c \in Call :
        /\ call[c].pc # "idle"
        /\ ~ WorkerProven(c)
        /\ call'[c] = Idle
        => record' = record ]_vars

\* The dispatcher implements the lifecycle: every step of every call moves a
\* task along the transition table, and each resumed worker is counted once
\* and only below the cap.
Lifecycle == INSTANCE TaskLifecycle WITH
  state <- [t \in Task |-> record[t].state],
  resume_count <- [t \in Task |-> record[t].resume_count]

ImplementsLifecycle == Lifecycle!Spec
-----------------------------------------------------------------------------
(* Liveness *)

\* A call under way returns: it neither waits for ever nor holds the lock
\* for ever (each await ends, and no path forgets to release); only a call
\* that refused the child it spawned may wait on, for that child's end.
CallsReturn ==
  \A c \in Call :
    call[c].pc # "idle" ~> call[c].pc \in { "idle", "refused", "unwritten" }
=============================================================================
