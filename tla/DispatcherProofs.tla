-------------------------- MODULE DispatcherProofs --------------------------
(***************************************************************************)
(* Theorems about Dispatcher for every value of its constants: any number  *)
(* of processes, calls, tasks and repositories, any cap, with or without   *)
(* crashes and failing writes.                                             *)
(*                                                                         *)
(* The inductive invariant is IInv.  Every step of a call changes only     *)
(* that call, so InvariantFrame reduces the preservation of IInv to the    *)
(* types of what is written, the shape of the one call, and what the step  *)
(* does to the lock: keep it, take it, drop it or never have it.           *)
(***************************************************************************)
EXTENDS Dispatcher, TLAPS

DiskOK ==
  /\ envelopes \subseteq Task
  /\ record \in [Task -> TaskRecord]
  /\ runs \in [Task -> [RunIndex -> RunKind]]
  /\ git_rows \in [Task -> SUBSET RunIndex]
  /\ scope_history \subseteq Task

\* The points of a call whose child may be alive.
ChildPC == { "spawned", "refused", "unwritten", "running" }

\* The points of a call after its child has ended.
FinalizePC ==
  { "collect", "measure", "freeze", "count", "mismatch", "land", "await",
    "record_run", "parse", "mark", "unlocked", "save_failure" }

\* A call under way has a task, its child lives between spawn and exit only,
\* and a call that is past the exit is in FINALIZE.
CallShape(c) ==
  /\ call[c].pc # "idle" => call[c].task \in Task
  /\ c \in child => call[c].pc \in ChildPC
  /\ call[c].pc \in FinalizePC => call[c].phase = "FINALIZE"

IInv == /\ TypeOK
        /\ \A c \in Call : CallShape(c)
        /\ LockDiscipline
-----------------------------------------------------------------------------
(* What a step may do to the lock of the call that takes it. *)

KeepsLock(c) == /\ lock' = lock
                /\ call[c].pc \in LockedPC
                /\ call'[c].pc \in LockedPC
                /\ call'[c].task = call[c].task

TakesLock(c) == /\ call[c].pc \notin LockedPC
                /\ call'[c].pc \in LockedPC
                /\ call'[c].task \in Task
                /\ Acquire(c, call'[c].task)

DropsLock(c) == /\ Release(c)
                /\ call'[c].pc \notin LockedPC

NeedsNoLock(c) == /\ lock' = lock
                  /\ call[c].pc \notin LockedPC
                  /\ call'[c].pc \notin LockedPC

LockMove(c) ==
  \/ KeepsLock(c) \/ TakesLock(c) \/ DropsLock(c) \/ NeedsNoLock(c)

\* Only the call that moves changes, and its new value has its type.
OnlyCall(c) == /\ call' \in [Call -> ToolCall]
               /\ \A d \in Call \ { c } : call'[d] = call[d]

LEMMA LockFrame ==
  ASSUME IInv, NEW c \in Call, OnlyCall(c), LockMove(c)
  PROVE  /\ lock' \in [Repository -> Call \cup { None }]
         /\ LockDiscipline'
<1>1. /\ lock \in [Repository -> Call \cup { None }]
      /\ RepositoryOf \in [Task -> Repository]
      /\ None \notin Call
  BY ConstantsAssumption DEF ConstantsAssumption, IInv, TypeOK
<1>2. /\ \A d \in Call : call[d].pc \in LockedPC =>
            call[d].task \in Task /\ lock[RepositoryOf[call[d].task]] = d
      /\ \A r \in Repository : lock[r] # None =>
            call[lock[r]].pc \in LockedPC /\ RepositoryOf[call[lock[r]].task] = r
  BY DEF IInv, CallShape, LockDiscipline, Repo, LockedPC
<1>3. \A d \in Call \ { c } : call'[d] = call[d]
  BY DEF OnlyCall
<1> SUFFICES /\ lock' \in [Repository -> Call \cup { None }]
             /\ \A d \in Call : call'[d].pc \in LockedPC =>
                   lock'[RepositoryOf[call'[d].task]] = d
             /\ \A r \in Repository : lock'[r] # None =>
                   /\ call'[lock'[r]].pc \in LockedPC
                   /\ RepositoryOf[call'[lock'[r]].task] = r
  BY DEF LockDiscipline, Repo
<1>4. CASE KeepsLock(c)
  BY <1>1, <1>2, <1>3, <1>4 DEF KeepsLock
<1>5. CASE TakesLock(c)
  BY <1>1, <1>2, <1>3, <1>5 DEF TakesLock, Acquire
<1>6. CASE DropsLock(c)
  BY <1>1, <1>2, <1>3, <1>6 DEF DropsLock, Release
<1>7. CASE NeedsNoLock(c)
  BY <1>1, <1>2, <1>3, <1>7 DEF NeedsNoLock
<1> QED  BY <1>4, <1>5, <1>6, <1>7 DEF LockMove

LEMMA InvariantFrame ==
  ASSUME IInv, NEW c \in Call, OnlyCall(c), LockMove(c), DiskOK',
         CallShape(c)', child' \subseteq child \cup { c },
         orphans' = orphans
  PROVE  IInv'
<1>1. lock' \in [Repository -> Call \cup { None }] /\ LockDiscipline'
  BY LockFrame
<1>2. TypeOK'
  BY <1>1 DEF IInv, TypeOK, DiskOK, OnlyCall
<1>3. ASSUME NEW d \in Call PROVE CallShape(d)'
  BY <1>3 DEF IInv, CallShape, OnlyCall
<1> QED  BY <1>1, <1>2, <1>3 DEF IInv
-----------------------------------------------------------------------------
(* What the helpers of the actions do to the call. *)

LEMMA GotoFacts ==
  ASSUME IInv, NEW c \in Call, NEW pc \in PC, Goto(c, pc)
  PROVE  /\ OnlyCall(c)
         /\ call'[c].pc = pc
         /\ call'[c].task = call[c].task
         /\ call'[c].phase = call[c].phase
BY DEF Goto, OnlyCall, IInv, TypeOK, ToolCall

LEMMA GotoInFacts ==
  ASSUME IInv, NEW c \in Call, NEW pc \in PC, NEW phase \in ExecutionPhase,
         GotoIn(c, pc, phase)
  PROVE  /\ OnlyCall(c)
         /\ call'[c].pc = pc
         /\ call'[c].task = call[c].task
         /\ call'[c].phase = phase
BY DEF GotoIn, OnlyCall, IInv, TypeOK, ToolCall

LEMMA IdleType == Idle \in ToolCall /\ Idle.pc = "idle"
BY DEF Idle, ToolCall, NoRecord, TaskRecord, PC, Tool, ExecutionPhase

LEMMA ReturnFacts ==
  ASSUME IInv, NEW c \in Call, Return(c)
  PROVE  OnlyCall(c) /\ call'[c].pc = "idle"
BY IdleType DEF Return, OnlyCall, IInv, TypeOK

LEMMA SetStateType ==
  ASSUME IInv, NEW t \in Task, NEW target \in TaskState, SetState(t, target)
  PROVE  record' \in [Task -> TaskRecord]
BY DEF SetState, IInv, TypeOK, TaskRecord

LEMMA RecordFailureType ==
  ASSUME IInv, NEW c \in Call, call[c].task \in Task, RecordFailure(c)
  PROVE  record' \in [Task -> TaskRecord]
<1>1. "FAILED" \in TaskState
  BY DEF TaskState
<1> QED  BY <1>1, SetStateType DEF RecordFailure, IInv, TypeOK

\* A call that returns and lets go of the lock preserves the invariant.
LEMMA ReleaseAndReturn ==
  ASSUME IInv, NEW c \in Call, Release(c), Return(c), DiskOK',
         child' \subseteq child \ { c }, orphans' = orphans
  PROVE  IInv'
<1>1. OnlyCall(c) /\ call'[c].pc = "idle"
  BY ReturnFacts
<1>2. LockMove(c)
  BY <1>1 DEF LockMove, DropsLock, LockedPC
<1>3. CallShape(c)'
  BY <1>1 DEF CallShape, FinalizePC
<1> QED  BY <1>1, <1>2, <1>3, InvariantFrame

\* A call that moves on under the lock preserves it.
LEMMA MoveOnLocked ==
  ASSUME IInv, NEW c \in Call, NEW pc \in LockedPC,
         OnlyCall(c), call'[c].pc = pc, call'[c].task = call[c].task,
         call[c].pc \in LockedPC, lock' = lock, DiskOK',
         child' \subseteq child \cup { c }, orphans' = orphans,
         c \in child' => pc \in ChildPC,
         pc \in FinalizePC => call'[c].phase = "FINALIZE"
  PROVE  IInv'
<1>1. LockMove(c)
  BY DEF LockMove, KeepsLock
<1>2. CallShape(c)'
  BY DEF CallShape, IInv, LockedPC
<1> QED  BY <1>1, <1>2, InvariantFrame

\* So does a failure: what it records has its type.
LEMMA FailPreserves ==
  ASSUME IInv, NEW c \in Call, call[c].pc # "idle", Fail(c),
         child' \subseteq child \ { c },
         UNCHANGED << envelopes, runs, git_rows, scope_history, orphans >>
  PROVE  IInv'
<1>1. record' \in [Task -> TaskRecord]
  BY RecordFailureType DEF Fail, IInv, CallShape
<1>2. DiskOK'
  BY <1>1 DEF DiskOK, IInv, TypeOK
<1> QED  BY <1>2, ReleaseAndReturn DEF Fail

\* A call that is not at its child has none.
LEMMA NoChild ==
  ASSUME IInv, NEW c \in Call, call[c].pc \notin ChildPC
  PROVE  child = child \ { c }
BY DEF IInv, CallShape

\* A step that writes records only keeps the disk well typed.
LEMMA RecordOnly ==
  ASSUME IInv, record' \in [Task -> TaskRecord],
         UNCHANGED << envelopes, runs, git_rows, scope_history >>
  PROVE  DiskOK'
BY DEF DiskOK, IInv, TypeOK

LEMMA TaskOfCall ==
  ASSUME IInv, NEW c \in Call, call[c].pc # "idle"
  PROVE  /\ call[c].task \in Task
         /\ record \in [Task -> TaskRecord]
         /\ call[c] \in ToolCall
         /\ RepositoryOf[call[c].task] \in Repository
BY ConstantsAssumption DEF ConstantsAssumption, IInv, TypeOK, CallShape

LEMMA LearnFieldType ==
  ASSUME IInv, NEW t \in Task, NEW f \in RecordField,
         record' = [record EXCEPT ![t].known = @ \cup { f }]
  PROVE  record' \in [Task -> TaskRecord]
BY DEF IInv, TypeOK, TaskRecord
-----------------------------------------------------------------------------
(* The steps, one by one *)

LEMMA DispatchSteps ==
  ASSUME IInv, NEW c \in Call,
         \/ ReserveDispatch(c) \/ CreateRecord(c) \/ Route(c)
         \/ SaveWorktree(c) \/ AnchorTask(c)
  PROVE  IInv'
<1>1. CASE ReserveDispatch(c)
  <2>1. /\ OnlyCall(c)
        /\ call'[c].pc = "create"
        /\ call'[c].task = call[c].task
        /\ call'[c].phase = "RESERVE"
    BY <1>1, GotoInFacts DEF ReserveDispatch, PC, LockedPC, ExecutionPhase
  <2>2. DiskOK'
    BY <1>1, TaskOfCall DEF ReserveDispatch, At, DiskOK, IInv, TypeOK
  <2> QED  BY <1>1, <2>1, <2>2, NoChild, MoveOnLocked
           DEF ChildPC, ReserveDispatch, At, LockedPC, FinalizePC
<1>2. CASE CreateRecord(c)
  <2>1. /\ OnlyCall(c)
        /\ call'[c].pc = "route"
        /\ call'[c].task = call[c].task
        /\ call'[c].phase = call[c].phase
    BY <1>2, GotoFacts DEF CreateRecord, PC, LockedPC
  <2>2. record' \in [Task -> TaskRecord]
    BY <1>2, TaskOfCall DEF CreateRecord, At, TaskRecord, TaskState
  <2>3. DiskOK'
    BY <1>2, <2>2, RecordOnly DEF CreateRecord
  <2> QED  BY <1>2, <2>1, <2>3, NoChild, MoveOnLocked
           DEF ChildPC, CreateRecord, At, LockedPC, FinalizePC
<1>3. CASE Route(c)
  <2>1. /\ OnlyCall(c)
        /\ call'[c].pc = "save_worktree"
        /\ call'[c].task = call[c].task
        /\ call'[c].phase = call[c].phase
    BY <1>3, GotoFacts DEF Route, PC, LockedPC
  <2>2. record' \in [Task -> TaskRecord]
    BY <1>3, TaskOfCall DEF Route, At, TaskRecord, TaskState, RecordField
  <2>3. DiskOK'
    BY <1>3, <2>2, RecordOnly DEF Route
  <2> QED  BY <1>3, <2>1, <2>3, NoChild, MoveOnLocked
           DEF ChildPC, Route, At, LockedPC, FinalizePC
<1>4. CASE SaveWorktree(c)
  <2>1. /\ OnlyCall(c)
        /\ call'[c].pc = "anchor"
        /\ call'[c].task = call[c].task
        /\ call'[c].phase = call[c].phase
    BY <1>4, GotoFacts DEF SaveWorktree, PC, LockedPC
  <2>2. record' \in [Task -> TaskRecord]
    BY <1>4, TaskOfCall, LearnFieldType DEF SaveWorktree, At, RecordField
  <2>3. DiskOK'
    BY <1>4, <2>2, RecordOnly DEF SaveWorktree
  <2> QED  BY <1>4, <2>1, <2>3, NoChild, MoveOnLocked
           DEF ChildPC, SaveWorktree, At, LockedPC, FinalizePC
<1>5. CASE AnchorTask(c)
  <2>1. /\ OnlyCall(c)
        /\ call'[c].pc = "launch"
        /\ call'[c].task = call[c].task
        /\ call'[c].phase = "LAUNCH"
    BY <1>5, GotoInFacts DEF AnchorTask, PC, LockedPC, ExecutionPhase
  <2>2. record' \in [Task -> TaskRecord]
    BY <1>5, TaskOfCall, LearnFieldType DEF AnchorTask, At, RecordField
  <2>3. DiskOK'
    BY <1>5, <2>2, RecordOnly DEF AnchorTask
  <2> QED  BY <1>5, <2>1, <2>3, NoChild, MoveOnLocked
           DEF ChildPC, AnchorTask, At, LockedPC, FinalizePC
<1> QED  BY <1>1, <1>2, <1>3, <1>4, <1>5

LEMMA PrepareSteps ==
  ASSUME IInv, NEW c \in Call,
         \/ RecordGitRow(c) \/ ReserveResume(c) \/ PrepareRefused(c)
         \/ ReserveReview(c)
  PROVE  IInv'
<1>1. CASE RecordGitRow(c)
  <2>1. /\ OnlyCall(c)
        /\ call'[c].pc = "git_listed"
        /\ call'[c].task = call[c].task
        /\ call'[c].phase = call[c].phase
    BY <1>1, GotoFacts DEF RecordGitRow, PC, LockedPC
  <2>2. DiskOK'
    BY <1>1, TaskOfCall DEF RecordGitRow, At, DiskOK, IInv, TypeOK
  <2> QED  BY <1>1, <2>1, <2>2, NoChild, MoveOnLocked
           DEF ChildPC, RecordGitRow, At, LockedPC, FinalizePC
<1>2. CASE ReserveResume(c)
  <2>1. /\ OnlyCall(c)
        /\ call'[c].pc = "launch"
        /\ call'[c].task = call[c].task
        /\ call'[c].phase = "LAUNCH"
    BY <1>2, GotoInFacts DEF ReserveResume, PC, LockedPC, ExecutionPhase
  <2>2. record' \in [Task -> TaskRecord]
    BY <1>2, TaskOfCall, SetStateType DEF ReserveResume, At, TaskState
  <2>3. DiskOK'
    BY <1>2, <2>2, RecordOnly DEF ReserveResume
  <2> QED  BY <1>2, <2>1, <2>3, NoChild, MoveOnLocked
           DEF ChildPC, ReserveResume, At, LockedPC, FinalizePC
<1>3. CASE PrepareRefused(c)
  BY <1>3, NoChild, FailPreserves DEF ChildPC, PrepareRefused, At
<1>4. CASE ReserveReview(c)
  <2>1. /\ OnlyCall(c)
        /\ call'[c].pc = "launch"
        /\ call'[c].task = call[c].task
        /\ call'[c].phase = "LAUNCH"
    BY <1>4, GotoInFacts DEF ReserveReview, PC, LockedPC, ExecutionPhase
  <2>2. DiskOK'
    BY <1>4 DEF ReserveReview, disk, DiskOK, IInv, TypeOK
  <2> QED  BY <1>4, <2>1, <2>2, NoChild, MoveOnLocked
           DEF ChildPC, ReserveReview, At, LockedPC, FinalizePC, disk
<1> QED  BY <1>1, <1>2, <1>3, <1>4

\* A child that on_spawn failed is waited for under the lock.
LEMMA RefusedChildWaits ==
  ASSUME IInv, NEW c \in Call, At(c, "spawned"),
         NEW pc \in { "refused", "unwritten" }, Goto(c, pc),
         UNCHANGED << disk, lock, child, orphans >>
  PROVE  IInv'
<1>1. pc \in LockedPC /\ pc \in ChildPC /\ pc \notin FinalizePC
  BY DEF LockedPC, ChildPC, FinalizePC
<1>2. /\ OnlyCall(c)
      /\ call'[c].pc = pc
      /\ call'[c].task = call[c].task
  BY <1>1, GotoFacts DEF PC
<1>3. DiskOK'
  BY DEF disk, DiskOK, IInv, TypeOK
<1> QED  BY <1>1, <1>2, <1>3, MoveOnLocked DEF At, LockedPC

\* Its end: what was refused is recorded, what was not written is not.
LEMMA RefusedChildEnds ==
  ASSUME IInv, NEW c \in Call, RefusedChildExits(c)
  PROVE  IInv'
<1>1. CASE At(c, "refused") /\ Fail(c)
  BY <1>1, FailPreserves DEF RefusedChildExits, At
<1>2. CASE At(c, "unwritten") /\ Release(c) /\ Return(c) /\ UNCHANGED record
  <2>1. DiskOK'
    BY <1>2 DEF RefusedChildExits, DiskOK, IInv, TypeOK
  <2> QED  BY <1>2, <2>1, ReleaseAndReturn DEF RefusedChildExits
<1> QED  BY <1>1, <1>2 DEF RefusedChildExits

LEMMA LaunchSteps ==
  ASSUME IInv, NEW c \in Call,
         \/ LaunchRefused(c) \/ SpawnChild(c) \/ MarkRunning(c)
         \/ MarkRunningRefused(c) \/ WorkerExit(c)
  PROVE  IInv'
<1>1. CASE LaunchRefused(c)
  BY <1>1, NoChild, FailPreserves DEF ChildPC, LaunchRefused, At
<1>2. CASE SpawnChild(c)
  <2> DEFINE pc == IF Implements(c) THEN "spawned" ELSE "running"
  <2>1. pc \in LockedPC /\ pc \in ChildPC
    BY DEF LockedPC, ChildPC
  <2>2. /\ OnlyCall(c)
        /\ call'[c].pc = pc
        /\ call'[c].task = call[c].task
    BY <1>2, <2>1, GotoInFacts DEF SpawnChild, PC, ExecutionPhase
  <2>3. DiskOK'
    BY <1>2 DEF SpawnChild, disk, DiskOK, IInv, TypeOK
  <2> HIDE DEF pc
  <2> QED  BY <1>2, <2>1, <2>2, <2>3, MoveOnLocked
           DEF SpawnChild, At, ChildPC, LockedPC, FinalizePC, disk
<1>3. CASE MarkRunning(c)
  <2>1. /\ OnlyCall(c)
        /\ call'[c].pc = "running"
        /\ call'[c].task = call[c].task
        /\ call'[c].phase = call[c].phase
    BY <1>3, GotoFacts DEF MarkRunning, PC, LockedPC
  <2>2. record' \in [Task -> TaskRecord]
    BY <1>3, TaskOfCall
       DEF MarkRunning, At, ToolCall, TaskRecord, TaskState, RecordField
  <2>3. DiskOK'
    BY <1>3, <2>2, RecordOnly DEF MarkRunning
  <2> QED  BY <1>3, <2>1, <2>3, NoChild, MoveOnLocked
           DEF ChildPC, MarkRunning, At, LockedPC, FinalizePC
<1>4. CASE MarkRunningRefused(c)
  BY <1>4, RefusedChildWaits DEF MarkRunningRefused
<1>5. CASE WorkerExit(c)
  <2> DEFINE pc == IF Implements(c) THEN "collect" ELSE "record_run"
  <2>1. pc \in LockedPC
    BY DEF LockedPC
  <2>2. /\ OnlyCall(c)
        /\ call'[c].pc = pc
        /\ call'[c].task = call[c].task
        /\ call'[c].phase = "FINALIZE"
    BY <1>5, <2>1, GotoInFacts DEF WorkerExit, PC, ExecutionPhase
  <2>3. DiskOK'
    BY <1>5 DEF WorkerExit, disk, DiskOK, IInv, TypeOK
  <2> HIDE DEF pc
  <2> QED  BY <1>5, <2>1, <2>2, <2>3, MoveOnLocked
           DEF WorkerExit, At, LockedPC, disk
<1> QED  BY <1>1, <1>2, <1>3, <1>4, <1>5

LEMMA FinaliseSteps ==
  ASSUME IInv, NEW c \in Call,
         \/ CheckScopeHistory(c) \/ ScopeHistoryCorrupt(c)
         \/ MeasurementFailed(c)
         \/ WorktreeAuthorityMoved(c) \/ WriteScopeVerdicts(c)
         \/ WriteWorkerRun(c)
         \/ WriteReviewRun(c) \/ CountRun(c) \/ MismatchRaised(c)
  PROVE  IInv'
<1>1. CASE CheckScopeHistory(c)
  <2>1. /\ OnlyCall(c)
        /\ call'[c].pc = "measure"
        /\ call'[c].task = call[c].task
        /\ call'[c].phase = call[c].phase
    BY <1>1, GotoFacts DEF CheckScopeHistory, PC, LockedPC
  <2>2. DiskOK'
    BY <1>1 DEF CheckScopeHistory, disk, DiskOK, IInv, TypeOK
  <2> QED  BY <1>1, <2>1, <2>2, NoChild, MoveOnLocked
           DEF ChildPC, CheckScopeHistory, At, IInv, CallShape, LockedPC, FinalizePC,
               disk
<1>2. CASE ScopeHistoryCorrupt(c)
  BY <1>2, NoChild, FailPreserves DEF ChildPC, ScopeHistoryCorrupt, At
<1>3. CASE MeasurementFailed(c)
  BY <1>3, NoChild, FailPreserves DEF ChildPC, MeasurementFailed, At
<1>4. CASE WorktreeAuthorityMoved(c)
  <2>1. /\ OnlyCall(c)
        /\ call'[c].pc = "count"
        /\ call'[c].task = call[c].task
        /\ call'[c].phase = call[c].phase
    BY <1>4, GotoFacts DEF WorktreeAuthorityMoved, WriteRun, PC, LockedPC
  <2>2. DiskOK'
    BY <1>4, TaskOfCall
       DEF WorktreeAuthorityMoved, At, DiskOK, IInv, TypeOK, WriteRun, RunKind
  <2> QED  BY <1>4, <2>1, <2>2, NoChild, MoveOnLocked
           DEF ChildPC, WorktreeAuthorityMoved, WriteRun, At, IInv, CallShape,
               LockedPC, FinalizePC
<1>5. CASE WriteScopeVerdicts(c)
  <2>1. /\ OnlyCall(c)
        /\ call'[c].pc = "freeze"
        /\ call'[c].task = call[c].task
        /\ call'[c].phase = call[c].phase
    BY <1>5, GotoFacts DEF WriteScopeVerdicts, PC, LockedPC
  <2>2. DiskOK'
    BY <1>5, TaskOfCall DEF WriteScopeVerdicts, At, DiskOK, IInv, TypeOK
  <2> QED  BY <1>5, <2>1, <2>2, NoChild, MoveOnLocked
           DEF ChildPC, WriteScopeVerdicts, At, IInv, CallShape, LockedPC, FinalizePC
<1>6. CASE WriteWorkerRun(c)
  <2>1. /\ OnlyCall(c)
        /\ call'[c].pc = "count"
        /\ call'[c].task = call[c].task
        /\ call'[c].phase = call[c].phase
    BY <1>6, GotoFacts DEF WriteWorkerRun, WriteRun, PC, LockedPC
  <2>2. DiskOK'
    BY <1>6, TaskOfCall
       DEF WriteWorkerRun, At, DiskOK, IInv, TypeOK, WriteRun, RunKind
  <2> QED  BY <1>6, <2>1, <2>2, NoChild, MoveOnLocked
           DEF ChildPC, WriteWorkerRun, WriteRun, At, IInv, CallShape, LockedPC,
               FinalizePC
<1>7. CASE WriteReviewRun(c)
  <2>1. /\ OnlyCall(c)
        /\ call'[c].pc = "count"
        /\ call'[c].task = call[c].task
        /\ call'[c].phase = call[c].phase
    BY <1>7, GotoFacts DEF WriteReviewRun, WriteRun, PC, LockedPC
  <2>2. DiskOK'
    BY <1>7, TaskOfCall
       DEF WriteReviewRun, At, DiskOK, IInv, TypeOK, WriteRun, RunKind
  <2> QED  BY <1>7, <2>1, <2>2, NoChild, MoveOnLocked
           DEF ChildPC, WriteReviewRun, WriteRun, At, IInv, CallShape, LockedPC,
               FinalizePC
<1>8. CASE CountRun(c)
  <2> DEFINE kind == runs[call[c].task][call[c].run_index]
             pc == CASE kind = "bare"   -> "mismatch"
                     [] kind = "review" -> "parse"
                     [] OTHER           -> "land"
  <2>1. pc \in LockedPC /\ pc \notin ChildPC
    BY DEF LockedPC, ChildPC
  <2>2. /\ OnlyCall(c)
        /\ call'[c].pc = pc
        /\ call'[c].task = call[c].task
        /\ call'[c].phase = call[c].phase
    BY <1>8, <2>1, GotoFacts DEF CountRun, PC
  <2>3. record' \in [Task -> TaskRecord]
    BY <1>8, TaskOfCall DEF CountRun, At, ToolCall, TaskRecord
  <2>4. DiskOK'
    BY <1>8, <2>3, RecordOnly DEF CountRun
  <2> HIDE DEF pc
  <2> QED  BY <1>8, <2>1, <2>2, <2>4, NoChild, MoveOnLocked
           DEF ChildPC, CountRun, At, IInv, CallShape, LockedPC, FinalizePC
<1>9. CASE MismatchRaised(c)
  BY <1>9, NoChild, FailPreserves DEF ChildPC, MismatchRaised, At
<1> QED  BY <1>1, <1>2, <1>3, <1>4, <1>5, <1>6, <1>7, <1>8, <1>9

LEMMA LandSteps ==
  ASSUME IInv, NEW c \in Call,
         \/ \E target \in OffRamps : LandOffRamp(c, target)
         \/ LandImplemented(c) \/ AwaitReview(c) \/ LandRefused(c)
  PROVE  IInv'
<1>1. ASSUME NEW target \in OffRamps, LandOffRamp(c, target)
      PROVE  IInv'
  <2>1. record' \in [Task -> TaskRecord]
    BY <1>1, TaskOfCall, SetStateType DEF LandOffRamp, At, OffRamps, TaskState
  <2>2. DiskOK'
    BY <1>1, <2>1, RecordOnly DEF LandOffRamp
  <2> QED  BY <1>1, <2>2, NoChild, ReleaseAndReturn DEF ChildPC, LandOffRamp, At
<1>2. CASE LandImplemented(c)
  <2>1. /\ OnlyCall(c)
        /\ call'[c].pc = "await"
        /\ call'[c].task = call[c].task
        /\ call'[c].phase = call[c].phase
    BY <1>2, GotoFacts DEF LandImplemented, PC, LockedPC
  <2>2. record' \in [Task -> TaskRecord]
    BY <1>2, TaskOfCall, SetStateType DEF LandImplemented, At, TaskState
  <2>3. DiskOK'
    BY <1>2, <2>2, RecordOnly DEF LandImplemented
  <2> QED  BY <1>2, <2>1, <2>3, NoChild, MoveOnLocked
           DEF ChildPC, LandImplemented, At, IInv, CallShape, LockedPC, FinalizePC
<1>3. CASE AwaitReview(c)
  <2>1. record' \in [Task -> TaskRecord]
    BY <1>3, TaskOfCall, SetStateType DEF AwaitReview, At, TaskState
  <2>2. DiskOK'
    BY <1>3, <2>1, RecordOnly DEF AwaitReview
  <2> QED  BY <1>3, <2>2, NoChild, ReleaseAndReturn DEF ChildPC, AwaitReview, At
<1>4. CASE LandRefused(c)
  BY <1>4, NoChild, FailPreserves DEF ChildPC, LandRefused, At
<1> QED  BY <1>1, <1>2, <1>3, <1>4

LEMMA ReviewSteps ==
  ASSUME IInv, NEW c \in Call,
         \/ ReviewUnusable(c) \/ AppendReview(c) \/ MarkReviewed(c)
         \/ MarkReviewedRefused(c) \/ LoadForFailure(c) \/ SaveFailure(c)
  PROVE  IInv'
<1>1. CASE ReviewUnusable(c)
  <2>1. /\ OnlyCall(c)
        /\ call'[c].pc = "unlocked"
        /\ call'[c].task = call[c].task
        /\ call'[c].phase = call[c].phase
    BY <1>1, GotoFacts DEF ReviewUnusable, PC
  <2>2. DiskOK'
    BY <1>1 DEF ReviewUnusable, disk, DiskOK, IInv, TypeOK
  <2>3. LockMove(c)
    BY <1>1, <2>1 DEF ReviewUnusable, LockMove, DropsLock, LockedPC
  <2>4. CallShape(c)'
    BY <1>1, <2>1, TaskOfCall
       DEF ReviewUnusable, At, IInv, CallShape, ChildPC, FinalizePC
  <2> QED  BY <1>1, <2>1, <2>2, <2>3, <2>4, InvariantFrame DEF ReviewUnusable
<1>2. CASE AppendReview(c)
  <2>1. /\ OnlyCall(c)
        /\ call'[c].pc = "mark"
        /\ call'[c].task = call[c].task
        /\ call'[c].phase = call[c].phase
    BY <1>2, GotoFacts DEF AppendReview, PC, LockedPC
  <2>2. record' \in [Task -> TaskRecord]
    BY <1>2, TaskOfCall DEF AppendReview, At, TaskRecord
  <2>3. DiskOK'
    BY <1>2, <2>2, RecordOnly DEF AppendReview
  <2> QED  BY <1>2, <2>1, <2>3, NoChild, MoveOnLocked
           DEF ChildPC, AppendReview, At, IInv, CallShape, LockedPC, FinalizePC
<1>3. CASE MarkReviewed(c)
  <2>1. record' \in [Task -> TaskRecord]
    BY <1>3, TaskOfCall, SetStateType DEF MarkReviewed, At, TaskState
  <2>2. DiskOK'
    BY <1>3, <2>1, RecordOnly DEF MarkReviewed
  <2> QED  BY <1>3, <2>2, NoChild, ReleaseAndReturn DEF ChildPC, MarkReviewed, At
<1>4. CASE MarkReviewedRefused(c)
  <2>1. /\ OnlyCall(c)
        /\ call'[c].pc = "unlocked"
        /\ call'[c].task = call[c].task
        /\ call'[c].phase = call[c].phase
    BY <1>4, GotoFacts DEF MarkReviewedRefused, PC
  <2>2. DiskOK'
    BY <1>4 DEF MarkReviewedRefused, disk, DiskOK, IInv, TypeOK
  <2>3. LockMove(c)
    BY <1>4, <2>1 DEF MarkReviewedRefused, LockMove, DropsLock, LockedPC
  <2>4. CallShape(c)'
    BY <1>4, <2>1, TaskOfCall
       DEF MarkReviewedRefused, At, IInv, CallShape, ChildPC, FinalizePC
  <2> QED  BY <1>4, <2>1, <2>2, <2>3, <2>4, InvariantFrame
           DEF MarkReviewedRefused
<1>5. CASE LoadForFailure(c)
  <2>1. /\ OnlyCall(c)
        /\ call'[c].pc = "save_failure"
        /\ call'[c].task = call[c].task
        /\ call'[c].phase = call[c].phase
    BY <1>5, TaskOfCall
       DEF LoadForFailure, At, OnlyCall, IInv, TypeOK, ToolCall, PC
  <2>2. DiskOK'
    BY <1>5 DEF LoadForFailure, disk, DiskOK, IInv, TypeOK
  <2>3. LockMove(c)
    BY <1>5, <2>1 DEF LoadForFailure, At, LockMove, NeedsNoLock, LockedPC
  <2>4. CallShape(c)'
    BY <1>5, <2>1, TaskOfCall
       DEF LoadForFailure, At, IInv, CallShape, ChildPC, FinalizePC
  <2> QED  BY <1>5, <2>1, <2>2, <2>3, <2>4, InvariantFrame
           DEF LoadForFailure
<1>6. CASE SaveFailure(c)
  <2>1. record' \in [Task -> TaskRecord]
    BY <1>6, TaskOfCall DEF SaveFailure, At, ToolCall, TaskRecord, TaskState
  <2>2. DiskOK'
    BY <1>6, <2>1, RecordOnly DEF SaveFailure
  <2>3. OnlyCall(c) /\ call'[c].pc = "idle"
    BY <1>6, ReturnFacts DEF SaveFailure
  <2>4. LockMove(c)
    BY <1>6, <2>3 DEF SaveFailure, At, LockMove, NeedsNoLock, LockedPC
  <2>5. CallShape(c)'
    BY <1>6, <2>3, NoChild DEF ChildPC, SaveFailure, At, CallShape, FinalizePC
  <2> QED  BY <1>6, <2>2, <2>3, <2>4, <2>5, InvariantFrame
           DEF SaveFailure
<1> QED  BY <1>1, <1>2, <1>3, <1>4, <1>5, <1>6

LEMMA BeginSteps ==
  ASSUME IInv, NEW c \in Call, BeginCall(c)
  PROVE  IInv'
<1>1. ASSUME NEW t \in Task, BeginDispatch(c, t)
      PROVE  IInv'
  <2>1. /\ OnlyCall(c)
        /\ call'[c].pc = "prepare"
        /\ call'[c].task = t
    BY <1>1, IdleType
       DEF BeginDispatch, OnlyCall, IInv, TypeOK, Idle, ToolCall, PC, LockedPC
  <2>2. DiskOK'
    BY <1>1 DEF BeginDispatch, disk, DiskOK, IInv, TypeOK
  <2>3. LockMove(c)
    BY <1>1, <2>1 DEF BeginDispatch, At, LockMove, TakesLock, LockedPC
  <2>4. CallShape(c)'
    BY <1>1, <2>1, NoChild DEF ChildPC, BeginDispatch, At, CallShape, FinalizePC
  <2> QED  BY <1>1, <2>1, <2>2, <2>3, <2>4, InvariantFrame
           DEF BeginDispatch
<1>2. ASSUME NEW t \in Task, BeginResume(c, t)
      PROVE  IInv'
  <2>1. record[t].run_count \in Nat /\ record[t].resume_count \in Nat
    BY DEF IInv, TypeOK, TaskRecord
  <2>2. /\ OnlyCall(c)
        /\ call'[c].pc = "planned"
        /\ call'[c].task = t
    <3> DEFINE plan == [Idle EXCEPT
                          !.pc = "planned",
                          !.tool = "resume",
                          !.task = t,
                          !.run_index = record[t].run_count + 1,
                          !.next_resume_count = record[t].resume_count + 1]
    <3>1. record[t].run_count + 1 \in Nat /\ record[t].resume_count + 1 \in Nat
      BY <2>1
    <3>2. plan \in ToolCall /\ plan.pc = "planned" /\ plan.task = t
      BY <3>1, IdleType DEF ToolCall, PC, Tool
    <3>3. call' = [call EXCEPT ![c] = plan]
      BY <1>2 DEF BeginResume
    <3> HIDE DEF plan
    <3> QED  BY <3>2, <3>3 DEF OnlyCall, IInv, TypeOK
  <2>3. DiskOK'
    BY <1>2 DEF BeginResume, disk, DiskOK, IInv, TypeOK
  <2>4. LockMove(c)
    BY <1>2, <2>2 DEF BeginResume, At, LockMove, NeedsNoLock, LockedPC
  <2>5. CallShape(c)'
    BY <1>2, <2>2, NoChild DEF ChildPC, BeginResume, At, CallShape, FinalizePC
  <2> QED  BY <1>2, <2>2, <2>3, <2>4, <2>5, InvariantFrame DEF BeginResume
<1>3. ASSUME NEW t \in Task, BeginReview(c, t)
      PROVE  IInv'
  <2>1. /\ OnlyCall(c)
        /\ call'[c].pc = "checked"
        /\ call'[c].task = t
    BY <1>3, IdleType
       DEF BeginReview, OnlyCall, IInv, TypeOK, Idle, ToolCall, PC, Tool
  <2>2. DiskOK'
    BY <1>3 DEF BeginReview, disk, DiskOK, IInv, TypeOK
  <2>3. LockMove(c)
    BY <1>3, <2>1 DEF BeginReview, At, LockMove, NeedsNoLock, LockedPC
  <2>4. CallShape(c)'
    BY <1>3, <2>1, NoChild DEF ChildPC, BeginReview, At, CallShape, FinalizePC
  <2> QED  BY <1>3, <2>1, <2>2, <2>3, <2>4, InvariantFrame DEF BeginReview
<1> QED  BY <1>1, <1>2, <1>3 DEF BeginCall

LEMMA LockSteps ==
  ASSUME IInv, NEW c \in Call,
         \/ LockResume(c) \/ ResumeBusy(c)
         \/ LockReview(c) \/ LockReviewRefused(c)
  PROVE  IInv'
<1>1. CASE LockResume(c)
  <2>1. /\ OnlyCall(c)
        /\ call'[c].pc = "prepare"
        /\ call'[c].task = call[c].task
    BY <1>1, GotoFacts DEF LockResume, PC, LockedPC
  <2>2. DiskOK'
    BY <1>1 DEF LockResume, disk, DiskOK, IInv, TypeOK
  <2>3. LockMove(c)
    BY <1>1, <2>1, TaskOfCall
       DEF LockResume, At, LockMove, TakesLock, LockedPC
  <2>4. CallShape(c)'
    BY <1>1, <2>1, NoChild, TaskOfCall
       DEF ChildPC, LockResume, At, CallShape, FinalizePC
  <2> QED  BY <1>1, <2>1, <2>2, <2>3, <2>4, InvariantFrame DEF LockResume
<1>2. CASE LockReview(c)
  <2>1. /\ OnlyCall(c)
        /\ call'[c].pc = "prepare"
        /\ call'[c].task = call[c].task
    <3>1. /\ call \in [Call -> ToolCall]
          /\ record[call[c].task].run_count + 1 \in Nat
      BY <1>2, TaskOfCall DEF LockReview, At, IInv, TypeOK, TaskRecord
    <3>2. "prepare" \in PC
      BY DEF PC, LockedPC
    <3> QED  BY <1>2, <3>1, <3>2 DEF LockReview, OnlyCall, ToolCall
  <2>2. DiskOK'
    BY <1>2 DEF LockReview, disk, DiskOK, IInv, TypeOK
  <2>3. LockMove(c)
    BY <1>2, <2>1, TaskOfCall
       DEF LockReview, At, LockMove, TakesLock, LockedPC
  <2>4. CallShape(c)'
    BY <1>2, <2>1, NoChild, TaskOfCall
       DEF ChildPC, LockReview, At, CallShape, FinalizePC
  <2> QED  BY <1>2, <2>1, <2>2, <2>3, <2>4, InvariantFrame DEF LockReview
<1>3. CASE ResumeBusy(c) \/ LockReviewRefused(c)
  <2>1. OnlyCall(c) /\ call'[c].pc = "idle"
    BY <1>3, ReturnFacts DEF ResumeBusy, LockReviewRefused
  <2>2. DiskOK'
    BY <1>3 DEF ResumeBusy, LockReviewRefused, disk, DiskOK, IInv, TypeOK
  <2>3. LockMove(c)
    BY <1>3, <2>1
       DEF ResumeBusy, LockReviewRefused, At, LockMove, NeedsNoLock, LockedPC
  <2>4. CallShape(c)'
    BY <1>3, <2>1, NoChild
       DEF ChildPC, ResumeBusy, LockReviewRefused, At, CallShape, FinalizePC
  <2> QED  BY <1>3, <2>1, <2>2, <2>3, <2>4, InvariantFrame
           DEF ResumeBusy, LockReviewRefused
<1> QED  BY <1>1, <1>2, <1>3

LEMMA StepPreserves ==
  ASSUME IInv, NEW c \in Call, Step(c)
  PROVE  IInv'
BY DispatchSteps, PrepareSteps, LaunchSteps, FinaliseSteps, LandSteps,
   ReviewSteps, LockSteps DEF Step

\* A failing write drops the lock and the child, and leaves the disk alone.
LEMMA WriteFailsPreserves ==
  ASSUME IInv, NEW c \in Call, WriteFails(c)
  PROVE  IInv'
<1>1. DiskOK'
  BY DEF WriteFails, disk, DiskOK, IInv, TypeOK
<1> QED  BY <1>1, NoChild, ReleaseAndReturn DEF ChildPC, WriteFails, WritePC

\* A dead process holds no lock and has no call left under way.
LEMMA CrashPreserves ==
  ASSUME IInv, NEW p \in Process, Crash(p)
  PROVE  IInv'
<1> DEFINE dead == { c \in Call : ProcessOf[c] = p }
<1>1. /\ lock' = [r \in Repository |-> IF lock[r] \in dead THEN None ELSE lock[r]]
      /\ child' = child \ dead
      /\ orphans' = orphans \cup
           { call[c].task : c \in { d \in child \cap dead : Implements(d) } }
      /\ call' = [c \in Call |-> IF c \in dead THEN Idle ELSE call[c]]
      /\ UNCHANGED disk
  BY DEF Crash
<1>2. TypeOK'
  <2>1. call' \in [Call -> ToolCall]
    BY <1>1, IdleType DEF IInv, TypeOK
  <2>2. orphans' \subseteq Task
    BY <1>1 DEF IInv, TypeOK, CallShape, ChildPC
  <2>3. lock' \in [Repository -> Call \cup { None }]
    BY <1>1 DEF IInv, TypeOK
  <2> QED  BY <1>1, <2>1, <2>2, <2>3 DEF IInv, TypeOK, disk
<1>3. ASSUME NEW c \in Call
      PROVE  CallShape(c)'
  BY <1>1, IdleType DEF IInv, CallShape, FinalizePC
<1>4. LockDiscipline'
  <2>1. /\ lock \in [Repository -> Call \cup { None }]
        /\ RepositoryOf \in [Task -> Repository]
        /\ None \notin Call
    BY ConstantsAssumption DEF ConstantsAssumption, IInv, TypeOK
  <2>2. /\ \A c \in Call : call[c].pc \in LockedPC =>
             call[c].task \in Task /\ lock[RepositoryOf[call[c].task]] = c
        /\ \A r \in Repository : lock[r] # None =>
             /\ call[lock[r]].pc \in LockedPC
             /\ RepositoryOf[call[lock[r]].task] = r
    BY DEF IInv, CallShape, LockDiscipline, Repo, LockedPC
  <2>3. "idle" \notin LockedPC
    BY DEF LockedPC
  <2> SUFFICES /\ \A c \in Call : call'[c].pc \in LockedPC =>
                    lock'[RepositoryOf[call'[c].task]] = c
               /\ \A r \in Repository : lock'[r] # None =>
                    /\ call'[lock'[r]].pc \in LockedPC
                    /\ RepositoryOf[call'[lock'[r]].task] = r
    BY DEF LockDiscipline, Repo
  <2> QED  BY <1>1, <2>1, <2>2, <2>3, IdleType
<1> QED  BY <1>2, <1>3, <1>4 DEF IInv

LEMMA OrphanExitPreserves ==
  ASSUME IInv, NEW t \in Task, OrphanExit(t)
  PROVE  IInv'
BY DEF OrphanExit, IInv, TypeOK, LockDiscipline, Repo, CallShape, disk

LEMMA InitHolds == Init => IInv
<1> SUFFICES ASSUME Init PROVE IInv
  OBVIOUS
<1>1. NoRecord \in TaskRecord
  BY DEF NoRecord, TaskRecord
<1>2. TypeOK
  BY <1>1, IdleType DEF Init, TypeOK, RunKind
<1>3. \A c \in Call : CallShape(c)
  BY IdleType DEF Init, CallShape, FinalizePC
<1>4. LockDiscipline
  BY IdleType DEF Init, LockDiscipline, LockedPC
<1> QED  BY <1>2, <1>3, <1>4 DEF IInv

LEMMA NextPreserves == IInv /\ [Next]_vars => IInv'
<1> SUFFICES ASSUME IInv, [Next]_vars PROVE IInv'
  OBVIOUS
<1>1. ASSUME NEW c \in Call, BeginCall(c) PROVE IInv'
  BY <1>1, BeginSteps
<1>2. ASSUME NEW c \in Call, Step(c) PROVE IInv'
  BY <1>2, StepPreserves
<1>3. ASSUME NEW c \in Call, WriteFails(c) PROVE IInv'
  BY <1>3, WriteFailsPreserves
<1>7. ASSUME NEW c \in Call, MarkRunningFails(c) PROVE IInv'
  BY <1>7, RefusedChildWaits DEF MarkRunningFails
<1>8. ASSUME NEW c \in Call, RefusedChildExits(c) PROVE IInv'
  BY <1>8, RefusedChildEnds
<1>4. ASSUME NEW p \in Process, Crash(p) PROVE IInv'
  BY <1>4, CrashPreserves
<1>5. ASSUME NEW t \in Task, OrphanExit(t) PROVE IInv'
  BY <1>5, OrphanExitPreserves
<1>6. CASE UNCHANGED vars
  BY <1>6 DEF vars, IInv, TypeOK, CallShape, LockDiscipline, Repo
<1> QED  BY <1>1, <1>2, <1>3, <1>4, <1>5, <1>6, <1>7, <1>8 DEF Next

LEMMA Invariance == Spec => []IInv
<1>1. Init => IInv
  BY InitHolds
<1>2. IInv /\ [Next]_vars => IInv'
  BY NextPreserves
<1> QED  BY <1>1, <1>2, PTL DEF Spec
-----------------------------------------------------------------------------
(* The theorems *)

\* Every variable keeps its type, in every behaviour of every instance: what
\* the calls write to state.json, the run log and the journals (state.py).
THEOREM TypeCorrect == Spec => []TypeOK
<1>1. IInv => TypeOK
  BY DEF IInv
<1> QED  BY <1>1, Invariance, PTL

\* No path through dispatch, resume or review, refused, failed, crashed or
\* landed, leaves a repository locked or works in it without its lock, for
\* any number of processes, calls and repositories (locks.py, the
\* try/finally of the tool bodies).
THEOREM LockDisciplineHolds == Spec => []LockDiscipline
<1>1. IInv => LockDiscipline
  BY DEF IInv
<1> QED  BY <1>1, Invariance, PTL
-----------------------------------------------------------------------------
(* One worker per repository *)

\* What one call does, and what befalls it.
CallMoves(c) ==
  \/ BeginCall(c) \/ Step(c) \/ RefusedChildExits(c)
  \/ WriteFails(c) \/ MarkRunningFails(c)

\* Only a crash makes an orphan.
LEMMA StepMakesNoOrphan ==
  ASSUME NEW c \in Call, CallMoves(c)
  PROVE  orphans' = orphans
<1>1. CASE BeginCall(c) \/ WriteFails(c)
  BY <1>1 DEF BeginCall, BeginDispatch, BeginResume, BeginReview, WriteFails
<1>3. CASE MarkRunningFails(c) \/ RefusedChildExits(c)
  BY <1>3 DEF MarkRunningFails, RefusedChildExits
<1>2. CASE Step(c)
  BY <1>2 DEF Step, ReserveDispatch, CreateRecord, Route, SaveWorktree,
     AnchorTask, LockResume, ResumeBusy, RecordGitRow, ReserveResume,
     PrepareRefused, LaunchRefused, SpawnChild, MarkRunning,
     MarkRunningRefused, WorkerExit, CheckScopeHistory, ScopeHistoryCorrupt,
     MeasurementFailed, WorktreeAuthorityMoved, WriteScopeVerdicts,
     WriteWorkerRun, WriteReviewRun, WriteRun, CountRun, MismatchRaised,
     LandOffRamp, LandImplemented, AwaitReview, LandRefused, LockReview,
     LockReviewRefused, ReserveReview, ReviewUnusable, AppendReview,
     MarkReviewed, MarkReviewedRefused, LoadForFailure, SaveFailure
<1> QED  BY <1>1, <1>2, <1>3 DEF CallMoves

\* While no dispatcher dies, at most one Claude process, worker or reviewer,
\* is alive in a repository, however many dispatchers share the state
\* directory (locks.py: "exactly one mutating worker per repository").  With
\* crashes it is false: the orphan run shows it.
THEOREM OneWorkerWithoutCrash ==
  ASSUME "crash" \notin Faults
  PROVE  Spec => []OneWorkerPerRepository
<1>1. Init => orphans = {}
  BY DEF Init
<1>2. orphans = {} /\ [Next]_vars => (orphans = {})'
  <2> SUFFICES ASSUME orphans = {}, [Next]_vars PROVE orphans' = {}
    OBVIOUS
  <2>1. ASSUME NEW c \in Call, CallMoves(c)
        PROVE  orphans' = {}
    BY <2>1, StepMakesNoOrphan
  <2>2. ASSUME NEW t \in Task, OrphanExit(t) PROVE orphans' = {}
    BY <2>2 DEF OrphanExit
  <2>3. CASE UNCHANGED vars
    BY <2>3 DEF vars
  <2> QED  BY <2>1, <2>2, <2>3 DEF Next, CallMoves, Crash
<1>3. Spec => [](orphans = {})
  BY <1>1, <1>2, PTL DEF Spec
<1>4. IInv /\ orphans = {} => OneWorkerPerRepository
  <2> SUFFICES ASSUME IInv, orphans = {},
                      NEW c \in child, NEW d \in child, Repo(c) = Repo(d)
               PROVE  c = d
    BY DEF OneWorkerPerRepository
  <2>1. c \in Call /\ d \in Call
    BY DEF IInv, TypeOK
  <2>2. call[c].pc \in LockedPC /\ call[d].pc \in LockedPC
    BY <2>1 DEF IInv, CallShape, ChildPC, LockedPC
  <2> QED  BY <2>1, <2>2 DEF IInv, LockDiscipline
<1> QED  BY <1>3, <1>4, Invariance, PTL
-----------------------------------------------------------------------------
(* Refusals *)

\* A step of one call leaves every other call where it is.
LEMMA StepMovesOneCall ==
  ASSUME IInv, NEW c \in Call, CallMoves(c)
  PROVE  \A d \in Call \ { c } : call'[d] = call[d]
<1> USE DEF IInv, TypeOK, Goto, GotoIn, Return
<1>1. CASE BeginCall(c) \/ WriteFails(c) \/ MarkRunningFails(c)
           \/ RefusedChildExits(c)
  BY <1>1 DEF BeginCall, BeginDispatch, BeginResume, BeginReview, WriteFails,
     MarkRunningFails, RefusedChildExits, Fail
<1>2. ASSUME NEW d \in Call \ { c },
             ReserveDispatch(c) \/ CreateRecord(c) \/ Route(c)
             \/ SaveWorktree(c) \/ AnchorTask(c) \/ LockResume(c)
             \/ ResumeBusy(c) \/ RecordGitRow(c) \/ ReserveResume(c)
             \/ PrepareRefused(c) \/ LaunchRefused(c) \/ SpawnChild(c)
      PROVE  call'[d] = call[d]
  BY <1>2 DEF ReserveDispatch, CreateRecord, Route, SaveWorktree, AnchorTask,
     LockResume, ResumeBusy, RecordGitRow, ReserveResume, PrepareRefused,
     LaunchRefused, SpawnChild, Fail
<1>3. ASSUME NEW d \in Call \ { c },
             MarkRunning(c) \/ MarkRunningRefused(c) \/ WorkerExit(c)
             \/ CheckScopeHistory(c) \/ ScopeHistoryCorrupt(c)
             \/ MeasurementFailed(c) \/ WorktreeAuthorityMoved(c)
             \/ WriteScopeVerdicts(c) \/ WriteWorkerRun(c)
             \/ WriteReviewRun(c) \/ CountRun(c) \/ MismatchRaised(c)
      PROVE  call'[d] = call[d]
  BY <1>3 DEF MarkRunning, MarkRunningRefused, WorkerExit,
     CheckScopeHistory, ScopeHistoryCorrupt, MeasurementFailed,
     WorktreeAuthorityMoved, WriteScopeVerdicts, WriteWorkerRun,
     WriteReviewRun, WriteRun, CountRun, MismatchRaised, Fail
<1>4. ASSUME NEW d \in Call \ { c },
             (\E target \in OffRamps : LandOffRamp(c, target))
             \/ LandImplemented(c) \/ AwaitReview(c) \/ LandRefused(c)
             \/ LockReview(c) \/ LockReviewRefused(c) \/ ReserveReview(c)
             \/ ReviewUnusable(c) \/ AppendReview(c) \/ MarkReviewed(c)
             \/ MarkReviewedRefused(c) \/ LoadForFailure(c) \/ SaveFailure(c)
      PROVE  call'[d] = call[d]
  BY <1>4 DEF LandOffRamp, LandImplemented, AwaitReview, LandRefused,
     LockReview, LockReviewRefused, ReserveReview, ReviewUnusable,
     AppendReview, MarkReviewed, MarkReviewedRefused, LoadForFailure,
     SaveFailure, Fail
<1> QED  BY <1>1, <1>2, <1>3, <1>4 DEF CallMoves, Step

\* A call that returns before its child is proved to exist writes nothing.
LEMMA UnprovenReturn ==
  ASSUME IInv, NEW c \in Call, Step(c),
         ~ WorkerProven(c), call'[c].pc = "idle"
  PROVE  record' = record
<1>1. CASE PrepareRefused(c) \/ LaunchRefused(c)
           \/ ScopeHistoryCorrupt(c) \/ MeasurementFailed(c)
           \/ MismatchRaised(c) \/ LandRefused(c)
  BY <1>1 DEF PrepareRefused, LaunchRefused, ScopeHistoryCorrupt,
     MeasurementFailed, MismatchRaised, LandRefused, Fail, RecordFailure
<1>2. CASE ResumeBusy(c) \/ LockReviewRefused(c)
  BY <1>2 DEF ResumeBusy, LockReviewRefused, disk
<1>3. CASE (\E target \in OffRamps : LandOffRamp(c, target))
           \/ AwaitReview(c) \/ MarkReviewed(c) \/ SaveFailure(c)
  <2>1. call[c].pc \in FinalizePC
    BY <1>3 DEF LandOffRamp, AwaitReview, MarkReviewed, SaveFailure, At,
       FinalizePC
  <2> QED  BY <2>1 DEF IInv, CallShape, WorkerProven
<1>4. CASE ReserveDispatch(c) \/ CreateRecord(c) \/ Route(c)
           \/ SaveWorktree(c) \/ AnchorTask(c) \/ LockResume(c)
           \/ RecordGitRow(c) \/ ReserveResume(c) \/ SpawnChild(c)
           \/ MarkRunning(c) \/ MarkRunningRefused(c)
  BY <1>4 DEF ReserveDispatch, CreateRecord, Route, SaveWorktree, AnchorTask,
     LockResume, RecordGitRow, ReserveResume, SpawnChild, MarkRunning,
     MarkRunningRefused, disk,
     Goto, GotoIn, IInv, TypeOK, ToolCall
<1>5. CASE WorkerExit(c) \/ CheckScopeHistory(c)
           \/ WorktreeAuthorityMoved(c) \/ WriteScopeVerdicts(c)
           \/ WriteWorkerRun(c) \/ WriteReviewRun(c) \/ CountRun(c)
  BY <1>5 DEF WorkerExit, CheckScopeHistory, WorktreeAuthorityMoved,
     WriteScopeVerdicts, WriteWorkerRun, WriteReviewRun, WriteRun, CountRun,
     Goto, GotoIn, IInv, TypeOK, ToolCall
<1>6. CASE LandImplemented(c) \/ LockReview(c) \/ ReserveReview(c)
           \/ ReviewUnusable(c) \/ AppendReview(c)
           \/ MarkReviewedRefused(c) \/ LoadForFailure(c)
  BY <1>6 DEF LandImplemented, LockReview, ReserveReview, ReviewUnusable,
     AppendReview, MarkReviewedRefused, LoadForFailure,
     Goto, GotoIn, IInv, TypeOK, ToolCall
<1> QED  BY <1>1, <1>2, <1>3, <1>4, <1>5, <1>6 DEF Step

\* A refusal, at any point before a child is proved to exist and whatever the
\* other calls do, leaves every record as it is ("leaves the task state
\* byte-identical", server.py, _record_failure).
THEOREM RefusalsLeaveRecord == Spec => RefusalLeavesRecord
<1> DEFINE Refusal == \A c \in Call :
                        /\ call[c].pc # "idle"
                        /\ ~ WorkerProven(c)
                        /\ call'[c] = Idle
                        => record' = record
<1>1. IInv /\ [Next]_vars => [Refusal]_vars
  <2> SUFFICES ASSUME IInv, Next,
                      NEW c \in Call, call[c].pc # "idle",
                      ~ WorkerProven(c), call'[c] = Idle
               PROVE  record' = record
    OBVIOUS
  <2>1. ASSUME NEW d \in Call, CallMoves(d)
        PROVE  record' = record
    <3>1. d = c
      BY <2>1, StepMovesOneCall, IdleType
    <3>2. CASE BeginCall(c)
      BY <3>2 DEF BeginCall, BeginDispatch, BeginResume, BeginReview, disk
    <3>3. CASE Step(c)
      BY <3>3, UnprovenReturn, IdleType
    <3>4. CASE WriteFails(c) \/ MarkRunningFails(c)
      BY <3>4 DEF WriteFails, MarkRunningFails, disk
    <3>5. CASE RefusedChildExits(c)
      BY <3>5 DEF RefusedChildExits, Fail, RecordFailure
    <3> QED  BY <2>1, <3>1, <3>2, <3>3, <3>4, <3>5 DEF CallMoves
  <2>2. ASSUME NEW p \in Process, Crash(p) PROVE record' = record
    BY <2>2 DEF Crash, disk
  <2>3. ASSUME NEW t \in Task, OrphanExit(t) PROVE record' = record
    BY <2>3 DEF OrphanExit, disk
  <2> QED  BY <2>1, <2>2, <2>3 DEF Next, CallMoves
<1>2. Spec => [][Refusal]_vars
  BY <1>1, Invariance, PTL DEF Spec
<1> QED  BY <1>2 DEF RefusalLeavesRecord
=============================================================================
