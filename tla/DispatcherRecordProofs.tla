----------------------- MODULE DispatcherRecordProofs -----------------------
(***************************************************************************)
(* Theorems about what the calls of one dispatcher process do to a task's  *)
(* record, its run log and its evidence: the record is moved along the     *)
(* lifecycle table and nowhere else, a task that awaits review can be      *)
(* reviewed, the run log has neither gap nor second writer.                *)
(*                                                                         *)
(* One process is the assumption, not a bound: a resume plans from a       *)
(* record it reads before it has the lock, and what makes the plan hold is *)
(* that no other call of its event loop moves in between.                  *)
(***************************************************************************)
EXTENDS DispatcherProofs

SingleProcess == \A c, d \in Call : ProcessOf[c] = ProcessOf[d]

Now(c) == record[call[c].task]

\* No two calls are between two awaits.
Alone == \A c, d \in Call :
           call[c].pc \in NoAwaitPC /\ call[d].pc \in NoAwaitPC => c = d

\* Which tool gets where, and in which phase.
ToolFits(c) ==
  /\ call[c].pc \in { "create", "route", "save_worktree", "anchor" } =>
       call[c].tool = "dispatch"
  /\ call[c].pc \in { "planned", "git_listed" } => call[c].tool = "resume"
  /\ call[c].pc \in { "checked", "record_run", "parse", "mark", "unlocked",
                      "save_failure" } => call[c].tool = "review"
  /\ call[c].pc \in { "spawned", "collect", "measure", "freeze", "mismatch",
                      "land", "await" } => call[c].tool # "review"
  /\ call[c].pc \in { "spawned", "unwritten", "running" } <=>
       call[c].phase = "EXECUTE"
  /\ call[c].pc \in FinalizePC <=> call[c].phase = "FINALIZE"

\* The state of its task at each point of a call; none refuses its child.
StateFits(c) ==
  /\ call[c].pc # "refused"
  /\ call[c].pc = "unwritten" => "io_error" \in Faults
  /\ call[c].pc = "prepare" /\ call[c].tool = "dispatch" =>
       call[c].task \notin envelopes
  /\ call[c].pc = "create" =>
       Now(c).state = "absent" /\ call[c].task \in envelopes
  /\ call[c].pc = "route" => Now(c).state = "CREATED"
  /\ call[c].tool = "dispatch"
     /\ call[c].pc \in { "save_worktree", "anchor", "launch", "spawned" } =>
       Now(c).state = "ROUTED"
  /\ call[c].tool = "resume" /\ call[c].pc \in { "planned", "prepare", "git_listed" } =>
       Now(c).state # "absent"
  /\ call[c].tool = "resume" /\ call[c].pc \in { "launch", "spawned" } =>
       Now(c).state = "RESUME_REQUESTED"
  /\ call[c].tool # "review"
     /\ call[c].pc \in { "running", "collect", "measure", "freeze", "count",
                         "mismatch", "land" } =>
       Now(c).state = "RUNNING"
  /\ call[c].pc = "await" => Now(c).state = "IMPLEMENTED"
  /\ call[c].tool = "review"
     /\ call[c].pc \in { "prepare", "launch", "running", "record_run", "count",
                         "parse", "mark", "unlocked", "save_failure" } =>
       Now(c).state = "AWAITING_SOL_REVIEW"
  /\ call[c].pc = "save_failure" => call[c].snapshot = Now(c)

\* What a call planned still holds: it writes the run that comes next, and
\* counts the resume that comes next.
PlanFits(c) ==
  /\ call[c].pc \in { "planned", "prepare", "git_listed", "create", "route",
                      "save_worktree", "anchor", "launch", "spawned", "running",
                      "collect", "measure", "freeze", "record_run", "count" } =>
       call[c].run_index = Now(c).run_count + 1
  /\ call[c].pc \in { "create", "route", "save_worktree", "anchor", "git_listed",
                      "launch", "spawned", "running", "collect", "measure",
                      "freeze", "record_run", "count" } =>
       call[c].run_index \in RunIndex
  /\ call[c].tool = "dispatch" /\ call[c].pc = "prepare" =>
       call[c].run_index = 1
  /\ call[c].tool = "resume"
     /\ call[c].pc \in { "planned", "prepare", "git_listed", "launch", "spawned" } =>
       /\ call[c].next_resume_count = Now(c).resume_count + 1
       /\ Now(c).resume_count < MaxResumeCount

\* The evidence of a worker run, as it is written.
EvidenceFits(c) ==
  /\ call[c].tool # "review"
     /\ call[c].pc \in { "running", "collect", "measure", "freeze", "mismatch", "land" } =>
       ImplementerRuns(call[c].task) \subseteq 1 .. Now(c).run_count
  /\ call[c].pc = "count" =>
       IF call[c].tool = "review"
         THEN runs[call[c].task][call[c].run_index] = "review"
         ELSE /\ runs[call[c].task][call[c].run_index] \in { "implementer", "bare" }
              /\ ImplementerRuns(call[c].task) \subseteq 1 .. call[c].run_index
              /\ runs[call[c].task][call[c].run_index] = "implementer" =>
                   call[c].task \in scope_history
  /\ call[c].pc = "freeze" => call[c].task \in scope_history
  /\ call[c].pc \in { "land", "await" } =>
       HasReviewEvidence(call[c].task) /\ call[c].task \in scope_history

Fits(c) == ToolFits(c) /\ StateFits(c) /\ PlanFits(c) /\ EvidenceFits(c)

\* What is on disk of a task, whoever works on it.  A call that died at its
\* count leaves a run beyond it, and the task RUNNING.
DiskFits(t) ==
  /\ t \notin envelopes => record[t].state = "absent"
  /\ record[t].state = "absent" =>
       record[t].run_count = 0 /\ ImplementerRuns(t) = {}
  /\ record[t].state # "RUNNING" => ImplementerRuns(t) \subseteq 1 .. record[t].run_count
  /\ record[t].state \in { "AWAITING_SOL_REVIEW", "FABLE_REVIEWED" } =>
       HasReviewEvidence(t) /\ t \in scope_history

JInv == /\ IInv
        /\ Alone
        /\ \A c \in Call : Fits(c)
        /\ \A t \in Task : DiskFits(t)

\* Where nothing dies and no write fails, the log ends with the count, but
\* for the run a call is about to count.
LogFits(t) ==
  /\ record[t].run_count \in 0 .. MaxRuns
  /\ \A i \in RunIndex :
       runs[t][i] # "none" <=>
         \/ i <= record[t].run_count
         \/ \E c \in Call : /\ call[c].task = t
                            /\ call[c].pc = "count"
                            /\ call[c].run_index = i

QuietInv == /\ JInv
            /\ \A t \in Task : LogFits(t)
            /\ RunningIsOwned
-----------------------------------------------------------------------------
(* The transition table, as the proofs use it. *)

LEMMA Table ==
  /\ \A s \in TaskState :
       /\ IsTransitionAllowed(s, "ROUTED") => s = "CREATED"
       /\ IsTransitionAllowed(s, "RUNNING") => s \in { "ROUTED", "RESUME_REQUESTED" }
       /\ IsTransitionAllowed(s, "RESUME_REQUESTED") => s # "RUNNING"
       /\ IsTransitionAllowed(s, "IMPLEMENTED") => s = "RUNNING"
       /\ IsTransitionAllowed(s, "FABLE_REVIEWED") => s = "AWAITING_SOL_REVIEW"
  /\ \A s \in InFlight : IsTransitionAllowed(s, "FAILED")
  /\ IsTransitionAllowed("IMPLEMENTED", "AWAITING_SOL_REVIEW")
  /\ \A target \in OffRamps : IsTransitionAllowed("RUNNING", target)
BY DEF IsTransitionAllowed, AllowedTransitions, TaskState, InFlight, OffRamps
-----------------------------------------------------------------------------
(* What the helpers of the actions leave of a call and of a record. *)

SameRest(c) == /\ call'[c].task = call[c].task
               /\ call'[c].tool = call[c].tool
               /\ call'[c].run_index = call[c].run_index
               /\ call'[c].next_resume_count = call[c].next_resume_count
               /\ \A d \in Call \ { c } : call'[d] = call[d]

LEMMA GotoRest ==
  ASSUME IInv, NEW c \in Call, NEW pc, Goto(c, pc)
  PROVE  call'[c].pc = pc /\ SameRest(c) /\ call'[c].phase = call[c].phase
BY DEF Goto, SameRest, IInv, TypeOK, ToolCall

LEMMA GotoInRest ==
  ASSUME IInv, NEW c \in Call, NEW pc, NEW phase, GotoIn(c, pc, phase)
  PROVE  call'[c].pc = pc /\ SameRest(c) /\ call'[c].phase = phase
BY DEF GotoIn, SameRest, IInv, TypeOK, ToolCall

LEMMA ReturnRest ==
  ASSUME IInv, NEW c \in Call, Return(c)
  PROVE  call'[c] = Idle /\ \A d \in Call \ { c } : call'[d] = call[d]
BY DEF Return, IInv, TypeOK

\* A record that keeps its counts, and the records of the other tasks.
Recorded(t, target) ==
  /\ record'[t].state = target
  /\ record'[t].run_count = record[t].run_count
  /\ record'[t].resume_count = record[t].resume_count
  /\ record'[t].fable_review_count = record[t].fable_review_count
  /\ \A u \in Task \ { t } : record'[u] = record[u]

LEMMA SetStateRecords ==
  ASSUME IInv, NEW t \in Task, NEW target, SetState(t, target)
  PROVE  Recorded(t, target)
<1>1. PICK held \in [Task -> TaskRecord] : held = record
  BY DEF IInv, TypeOK
<1>2. record' = [held EXCEPT ![t].state = target]
  BY <1>1 DEF SetState
<1> QED  BY <1>1, <1>2 DEF Recorded, TaskRecord

LEMMA LearnRecords ==
  ASSUME IInv, NEW t \in Task, NEW f,
         record' = [record EXCEPT ![t].known = @ \cup { f }]
  PROVE  Recorded(t, record[t].state)
<1>1. PICK held \in [Task -> TaskRecord] : held = record
  BY DEF IInv, TypeOK
<1>2. record' = [held EXCEPT ![t].known = @ \cup { f }]
  BY <1>1
<1> QED  BY <1>1, <1>2 DEF Recorded, TaskRecord

LEMMA MoveAndLearnRecords ==
  ASSUME IInv, NEW t \in Task, NEW target, NEW f,
         record' = [record EXCEPT ![t].state = target,
                                  ![t].known = @ \cup { f }]
  PROVE  Recorded(t, target)
<1>1. PICK held \in [Task -> TaskRecord] : held = record
  BY DEF IInv, TypeOK
<1> DEFINE moved == [held EXCEPT ![t].state = target]
<1>2. moved \in [Task -> [ state : {target} \cup TaskState \cup { "absent" },
                           known : SUBSET RecordField, resume_count : Nat,
                           run_count : Nat, fable_review_count : Nat ]]
  BY DEF TaskRecord
<1>3. record' = [moved EXCEPT ![t].known = @ \cup { f }]
  BY <1>1
<1>4. /\ moved[t].state = target
      /\ moved[t].run_count = held[t].run_count
      /\ moved[t].resume_count = held[t].resume_count
      /\ moved[t].fable_review_count = held[t].fable_review_count
      /\ \A u \in Task \ { t } : moved[u] = held[u]
  BY DEF TaskRecord
<1> HIDE DEF moved
<1> QED  BY <1>1, <1>2, <1>3, <1>4 DEF Recorded
-----------------------------------------------------------------------------
(* The frames: a step changes one call and, of the disk, one task. *)

OnlyTask(t) ==
  \A u \in Task \ { t } :
    /\ record'[u] = record[u]
    /\ runs'[u] = runs[u]
    /\ u \in envelopes' <=> u \in envelopes
    /\ u \in scope_history' <=> u \in scope_history

LEMMA IdleFits ==
  ASSUME NEW c \in Call, call[c].pc = "idle", call[c].phase = "PREPARE"
  PROVE  Fits(c)
BY DEF Fits, ToolFits, StateFits, PlanFits, EvidenceFits, FinalizePC

LEMMA CheckedFits ==
  ASSUME NEW c \in Call, call[c].pc = "checked", call[c].tool = "review",
         call[c].phase = "PREPARE"
  PROVE  Fits(c)
BY DEF Fits, ToolFits, StateFits, PlanFits, EvidenceFits, FinalizePC

LEMMA StillAlone ==
  ASSUME SingleProcess, NEW c \in Call, EventLoopFree(c),
         \A d \in Call \ { c } : call'[d] = call[d]
  PROVE  Alone'
BY DEF SingleProcess, EventLoopFree, Peers, Alone

\* A call fits whenever what it reads of the disk is as it was.
LEMMA OtherFits ==
  ASSUME NEW d \in Call, Fits(d), call'[d] = call[d],
         call[d].pc # "idle" =>
           /\ record'[call[d].task] = record[call[d].task]
           /\ runs'[call[d].task] = runs[call[d].task]
           /\ call[d].task \in envelopes' <=> call[d].task \in envelopes
           /\ call[d].task \in scope_history' <=> call[d].task \in scope_history
  PROVE  Fits(d)'
<1>1. CASE call[d].pc = "idle"
  BY <1>1 DEF Fits, ToolFits, StateFits, PlanFits, EvidenceFits, FinalizePC
<1>2. CASE call[d].pc # "idle"
  <2>1. ToolFits(d)'
    BY DEF Fits, ToolFits
  <2>2. StateFits(d)'
    BY <1>2 DEF Fits, StateFits, Now
  <2>3. PlanFits(d)'
    BY <1>2 DEF Fits, PlanFits, Now
  <2>4. EvidenceFits(d)'
    BY <1>2 DEF Fits, EvidenceFits, Now, ImplementerRuns, HasReviewEvidence
  <2> QED  BY <2>1, <2>2, <2>3, <2>4 DEF Fits
<1> QED  BY <1>1, <1>2

\* The disk is left alone.
LEMMA QuietFrame ==
  ASSUME SingleProcess, JInv, IInv', NEW c \in Call, EventLoopFree(c),
         \A d \in Call \ { c } : call'[d] = call[d],
         UNCHANGED << envelopes, record, runs, scope_history >>, Fits(c)'
  PROVE  JInv'
<1>1. Alone'
  BY StillAlone
<1>2. ASSUME NEW d \in Call \ { c } PROVE Fits(d)'
  BY <1>2, OtherFits DEF JInv
<1>3. ASSUME NEW t \in Task PROVE DiskFits(t)'
  BY <1>3 DEF JInv, DiskFits, ImplementerRuns, HasReviewEvidence
<1> QED  BY <1>1, <1>2, <1>3 DEF JInv

\* The disk of its task is written by a call that holds the lock.
LEMMA RecordFrame ==
  ASSUME SingleProcess, JInv, IInv', NEW c \in Call, EventLoopFree(c),
         \A d \in Call \ { c } : call'[d] = call[d],
         NEW t \in Task, t = call[c].task, call[c].pc \in LockedPC, OnlyTask(t),
         Fits(c)', DiskFits(t)'
  PROVE  JInv'
<1>1. Alone'
  BY StillAlone
<1>2. ASSUME NEW d \in Call \ { c } PROVE Fits(d)'
  <2>1. CASE call[d].task = t
    <3>1. call[d].pc \notin LockedPC
      BY <2>1 DEF JInv, IInv, LockDiscipline, Repo
    <3>2. call[d].pc \notin NoAwaitPC
      BY DEF SingleProcess, EventLoopFree, Peers
    <3>3. call[d].pc \in { "idle", "checked" }
      BY <3>1, <3>2 DEF JInv, IInv, TypeOK, ToolCall, PC, NoAwaitPC
    <3> QED  BY <3>3 DEF JInv, Fits, ToolFits, StateFits, PlanFits,
                EvidenceFits, FinalizePC
  <2>2. CASE call[d].task # t
    <3>1. call[d].pc # "idle" => call[d].task \in Task \ { t }
      BY <2>2 DEF JInv, IInv, CallShape
    <3> QED  BY <3>1, OtherFits DEF JInv, OnlyTask
  <2> QED  BY <2>1, <2>2
<1>3. ASSUME NEW u \in Task PROVE DiskFits(u)'
  <2>1. CASE u = t
    BY <2>1
  <2>2. CASE u # t
    BY <2>2 DEF JInv, OnlyTask, DiskFits, ImplementerRuns, HasReviewEvidence
  <2> QED  BY <2>1, <2>2
<1> QED  BY <1>1, <1>2, <1>3 DEF JInv
-----------------------------------------------------------------------------
(* The steps, one by one *)

\* Taking up a call reads the disk only.
LEMMA BeginFits ==
  ASSUME SingleProcess, JInv, IInv', NEW c \in Call, BeginCall(c)
  PROVE  JInv'
<1> PICK t \in Task : BeginDispatch(c, t) \/ BeginResume(c, t) \/ BeginReview(c, t)
  BY DEF BeginCall
<1>1. /\ EventLoopFree(c)
      /\ \A d \in Call \ { c } : call'[d] = call[d]
      /\ UNCHANGED << envelopes, record, runs, scope_history >>
  BY DEF BeginDispatch, BeginResume, BeginReview, At, disk, JInv, IInv, TypeOK
<1>2. IInv /\ DiskFits(t) /\ record[t] \in TaskRecord /\ call \in [Call -> ToolCall]
  BY DEF JInv, IInv, TypeOK
<1>3. CASE BeginDispatch(c, t)
  <2>1. /\ call'[c].pc = "prepare"
        /\ call'[c].tool = "dispatch"
        /\ call'[c].phase = "PREPARE"
        /\ call'[c].task = t
        /\ call'[c].run_index = 1
    BY <1>2, <1>3 DEF BeginDispatch, Idle
  <2>2. t \notin envelopes /\ record[t].run_count = 0
    BY <1>2, <1>3 DEF BeginDispatch, DiskFits
  <2>3. Fits(c)'
    BY <1>1, <2>1, <2>2
       DEF Fits, ToolFits, StateFits, PlanFits, EvidenceFits, Now, FinalizePC
  <2> QED  BY <1>1, <2>3, QuietFrame
<1>4. CASE BeginResume(c, t)
  <2>1. /\ call'[c].pc = "planned"
        /\ call'[c].tool = "resume"
        /\ call'[c].phase = "PREPARE"
        /\ call'[c].task = t
        /\ call'[c].run_index = record[t].run_count + 1
        /\ call'[c].next_resume_count = record[t].resume_count + 1
    BY <1>2, <1>4 DEF BeginResume, Idle
  <2>2. record[t].state # "absent" /\ record[t].resume_count < MaxResumeCount
    BY <1>4 DEF BeginResume, ResumePlanHolds
  <2>3. Fits(c)'
    BY <1>1, <2>1, <2>2
       DEF Fits, ToolFits, StateFits, PlanFits, EvidenceFits, Now, FinalizePC
  <2> QED  BY <1>1, <2>3, QuietFrame
<1>5. CASE BeginReview(c, t)
  <2>1. /\ call'[c].pc = "checked"
        /\ call'[c].tool = "review"
        /\ call'[c].phase = "PREPARE"
    BY <1>2, <1>5 DEF BeginReview, Idle
  <2>2. Fits(c)'
    BY <2>1
       DEF Fits, ToolFits, StateFits, PlanFits, EvidenceFits, Now, FinalizePC
  <2> QED  BY <1>1, <2>2, QuietFrame
<1> QED  BY <1>3, <1>4, <1>5

\* So does a return that records nothing.
LEMMA PlainReturnFits ==
  ASSUME SingleProcess, JInv, IInv', NEW c \in Call,
         EventLoopFree(c), Return(c),
         UNCHANGED << envelopes, record, runs, scope_history >>
  PROVE  JInv'
<1>1. call'[c] = Idle /\ \A d \in Call \ { c } : call'[d] = call[d]
  BY ReturnRest DEF JInv
<1>2. Fits(c)'
  BY <1>1 DEF Idle, Fits, ToolFits, StateFits, PlanFits, EvidenceFits, FinalizePC
<1> QED  BY <1>1, <1>2, QuietFrame

\* The steps of a call that write no record, run or verdict.
LEMMA LockFits ==
  ASSUME SingleProcess, JInv, IInv', NEW c \in Call,
         \/ LockResume(c) \/ RecordGitRow(c) \/ LockReview(c)
         \/ ReserveReview(c) \/ SpawnChild(c)
  PROVE  JInv'
<1>1. /\ EventLoopFree(c)
      /\ UNCHANGED << envelopes, record, runs, scope_history >>
  BY DEF LockResume, RecordGitRow, LockReview, ReserveReview, SpawnChild, At, disk
<1>2. IInv /\ Fits(c)
  BY DEF JInv
<1>3. CASE LockResume(c)
  <2>1. call'[c].pc = "prepare" /\ SameRest(c) /\ call'[c].phase = call[c].phase
    BY <1>2, <1>3, GotoRest DEF LockResume
  <2>2. call[c].pc = "planned"
    BY <1>3 DEF LockResume, At
  <2>3. Fits(c)'
    BY <1>1, <1>2, <2>1, <2>2
       DEF SameRest, Fits, ToolFits, StateFits, PlanFits, EvidenceFits, Now, FinalizePC
  <2> QED  BY <1>1, <2>1, <2>3, QuietFrame DEF SameRest
<1>4. CASE RecordGitRow(c)
  <2>1. call'[c].pc = "git_listed" /\ SameRest(c) /\ call'[c].phase = call[c].phase
    BY <1>2, <1>4, GotoRest DEF RecordGitRow
  <2>2. /\ call[c].pc = "prepare"
        /\ call[c].tool = "resume"
        /\ call[c].run_index \in RunIndex
    BY <1>4 DEF RecordGitRow, At
  <2>3. Fits(c)'
    BY <1>1, <1>2, <2>1, <2>2
       DEF SameRest, Fits, ToolFits, StateFits, PlanFits, EvidenceFits, Now, FinalizePC
  <2> QED  BY <1>1, <2>1, <2>3, QuietFrame DEF SameRest
<1>5. CASE LockReview(c)
  <2>1. /\ call'[c].pc = "prepare"
        /\ call'[c].tool = call[c].tool
        /\ call'[c].task = call[c].task
        /\ call'[c].phase = call[c].phase
        /\ call'[c].run_index = record[call[c].task].run_count + 1
        /\ \A d \in Call \ { c } : call'[d] = call[d]
    BY <1>2, <1>5 DEF LockReview, IInv, TypeOK, ToolCall
  <2>2. call[c].pc = "checked" /\ CanMove(call[c].task, "FABLE_REVIEWED")
    BY <1>5 DEF LockReview, At
  <2>3. Now(c).state \in TaskState \cup { "absent" }
    BY <1>2, <2>2, TaskOfCall DEF Now, TaskRecord
  <2>4. Now(c).state = "AWAITING_SOL_REVIEW"
    BY <2>2, <2>3, Table DEF CanMove, Now
  <2>5. Fits(c)'
    BY <1>1, <1>2, <2>1, <2>2, <2>4
       DEF Fits, ToolFits, StateFits, PlanFits, EvidenceFits, Now, FinalizePC
  <2> QED  BY <1>1, <2>1, <2>5, QuietFrame
<1>6. CASE ReserveReview(c)
  <2>1. call'[c].pc = "launch" /\ SameRest(c) /\ call'[c].phase = "LAUNCH"
    BY <1>2, <1>6, GotoInRest DEF ReserveReview
  <2>2. /\ call[c].pc = "prepare"
        /\ call[c].tool = "review"
        /\ call[c].run_index \in RunIndex
    BY <1>6 DEF ReserveReview, At
  <2>3. Fits(c)'
    BY <1>1, <1>2, <2>1, <2>2
       DEF SameRest, Fits, ToolFits, StateFits, PlanFits, EvidenceFits, Now, FinalizePC
  <2> QED  BY <1>1, <2>1, <2>3, QuietFrame DEF SameRest
<1>7. CASE SpawnChild(c)
  <2>1. /\ call'[c].pc = IF Implements(c) THEN "spawned" ELSE "running"
        /\ SameRest(c)
        /\ call'[c].phase = "EXECUTE"
    BY <1>2, <1>7, GotoInRest DEF SpawnChild
  <2>2. call[c].pc = "launch" /\ (Implements(c) <=> call[c].tool # "review")
    BY <1>7 DEF SpawnChild, At, Implements
  <2>3. CASE Implements(c)
    <3>1. call'[c].pc = "spawned"
      BY <2>1, <2>3
    <3>2. Fits(c)'
      BY <1>1, <1>2, <2>1, <2>2, <2>3, <3>1
         DEF SameRest, Fits, ToolFits, StateFits, PlanFits, EvidenceFits, Now,
             FinalizePC
    <3> QED  BY <1>1, <2>1, <3>2, QuietFrame DEF SameRest
  <2>4. CASE ~ Implements(c)
    <3>1. call'[c].pc = "running"
      BY <2>1, <2>4
    <3>2. Fits(c)'
      BY <1>1, <1>2, <2>1, <2>2, <2>4, <3>1
         DEF SameRest, Fits, ToolFits, StateFits, PlanFits, EvidenceFits, Now,
             FinalizePC
    <3> QED  BY <1>1, <2>1, <3>2, QuietFrame DEF SameRest
  <2> QED  BY <2>3, <2>4
<1> QED  BY <1>3, <1>4, <1>5, <1>6, <1>7

LEMMA ExitFits ==
  ASSUME SingleProcess, JInv, IInv', NEW c \in Call,
         \/ WorkerExit(c) \/ CheckScopeHistory(c) \/ ReviewUnusable(c)
         \/ MarkReviewedRefused(c) \/ LoadForFailure(c)
  PROVE  JInv'
<1>1. /\ EventLoopFree(c)
      /\ UNCHANGED << envelopes, record, runs, scope_history >>
  BY DEF WorkerExit, CheckScopeHistory, ReviewUnusable, MarkReviewedRefused,
     LoadForFailure, At, disk
<1>2. IInv /\ Fits(c)
  BY DEF JInv
<1>3. CASE WorkerExit(c)
  <2>1. /\ call'[c].pc = IF Implements(c) THEN "collect" ELSE "record_run"
        /\ SameRest(c)
        /\ call'[c].phase = "FINALIZE"
    BY <1>2, <1>3, GotoInRest DEF WorkerExit
  <2>2. call[c].pc = "running" /\ (Implements(c) <=> call[c].tool # "review")
    BY <1>3 DEF WorkerExit, At, Implements
  <2>3. CASE Implements(c)
    <3>1. call'[c].pc = "collect"
      BY <2>1, <2>3
    <3>2. Fits(c)'
      BY <1>1, <1>2, <2>1, <2>2, <2>3, <3>1
         DEF SameRest, Fits, ToolFits, StateFits, PlanFits, EvidenceFits, Now,
             FinalizePC, ImplementerRuns
    <3> QED  BY <1>1, <2>1, <3>2, QuietFrame DEF SameRest
  <2>4. CASE ~ Implements(c)
    <3>1. call'[c].pc = "record_run"
      BY <2>1, <2>4
    <3>2. Fits(c)'
      BY <1>1, <1>2, <2>1, <2>2, <2>4, <3>1
         DEF SameRest, Fits, ToolFits, StateFits, PlanFits, EvidenceFits, Now,
             FinalizePC
    <3> QED  BY <1>1, <2>1, <3>2, QuietFrame DEF SameRest
  <2> QED  BY <2>3, <2>4
<1>4. CASE CheckScopeHistory(c)
  <2>1. call'[c].pc = "measure" /\ SameRest(c) /\ call'[c].phase = call[c].phase
    BY <1>2, <1>4, GotoRest DEF CheckScopeHistory
  <2>2. call[c].pc = "collect"
    BY <1>4 DEF CheckScopeHistory, At
  <2>3. Fits(c)'
    BY <1>1, <1>2, <2>1, <2>2
       DEF SameRest, Fits, ToolFits, StateFits, PlanFits, EvidenceFits, Now,
           FinalizePC, ImplementerRuns
  <2> QED  BY <1>1, <2>1, <2>3, QuietFrame DEF SameRest
<1>5. CASE ReviewUnusable(c) \/ MarkReviewedRefused(c)
  <2>1. call'[c].pc = "unlocked" /\ SameRest(c) /\ call'[c].phase = call[c].phase
    BY <1>2, <1>5, GotoRest DEF ReviewUnusable, MarkReviewedRefused
  <2>2. call[c].pc \in { "parse", "mark" }
    BY <1>5 DEF ReviewUnusable, MarkReviewedRefused, At
  <2>3. Fits(c)'
    BY <1>1, <1>2, <2>1, <2>2
       DEF SameRest, Fits, ToolFits, StateFits, PlanFits, EvidenceFits, Now,
           FinalizePC
  <2> QED  BY <1>1, <2>1, <2>3, QuietFrame DEF SameRest
<1>6. CASE LoadForFailure(c)
  <2>1. /\ call'[c].pc = "save_failure"
        /\ call'[c].tool = call[c].tool
        /\ call'[c].task = call[c].task
        /\ call'[c].phase = call[c].phase
        /\ call'[c].snapshot = record[call[c].task]
        /\ \A d \in Call \ { c } : call'[d] = call[d]
    BY <1>2, <1>6 DEF LoadForFailure, IInv, TypeOK, ToolCall
  <2>2. call[c].pc = "unlocked"
    BY <1>6 DEF LoadForFailure, At
  <2>3. Fits(c)'
    BY <1>1, <1>2, <2>1, <2>2
       DEF Fits, ToolFits, StateFits, PlanFits, EvidenceFits, Now, FinalizePC
  <2> QED  BY <1>1, <2>1, <2>3, QuietFrame
<1> QED  BY <1>3, <1>4, <1>5, <1>6

\* A step that writes only the record of its task.
LEMMA RecordStep ==
  ASSUME JInv, NEW t \in Task, NEW target, Recorded(t, target),
         UNCHANGED << runs, scope_history >>,
         envelopes' \in { envelopes, envelopes \cup { t } }
  PROVE  OnlyTask(t)
BY DEF Recorded, OnlyTask

\* What DiskFits asks of a new state.
LEMMA RecordedFits ==
  ASSUME JInv, NEW t \in Task, NEW target, Recorded(t, target),
         UNCHANGED << envelopes, runs, scope_history >>,
         t \in envelopes, target # "absent",
         target # "RUNNING" => ImplementerRuns(t) \subseteq 1 .. record[t].run_count,
         target \in { "AWAITING_SOL_REVIEW", "FABLE_REVIEWED" } =>
           HasReviewEvidence(t) /\ t \in scope_history
  PROVE  DiskFits(t)'
BY DEF Recorded, DiskFits, ImplementerRuns, HasReviewEvidence

LEMMA ReserveFits ==
  ASSUME SingleProcess, JInv, IInv', NEW c \in Call, ReserveDispatch(c)
  PROVE  JInv'
<1>0. PICK t \in Task : t = call[c].task
  BY TaskOfCall DEF ReserveDispatch, At, JInv
<1>1. /\ EventLoopFree(c)
      /\ envelopes' = envelopes \cup { t }
      /\ UNCHANGED << record, runs, scope_history >>
      /\ call[c].pc = "prepare"
      /\ call[c].tool = "dispatch"
  BY <1>0 DEF ReserveDispatch, At
<1>2. IInv /\ Fits(c) /\ DiskFits(t)
  BY DEF JInv
<1>3. call'[c].pc = "create" /\ SameRest(c) /\ call'[c].phase = "RESERVE"
  BY <1>2, GotoInRest DEF ReserveDispatch
<1>4. record[t].state = "absent" /\ record[t].run_count = 0
  BY <1>0, <1>1, <1>2 DEF Fits, StateFits, DiskFits
<1>5. 1 \in RunIndex
  BY ConstantsAssumption DEF ConstantsAssumption, RunIndex
<1>6. Fits(c)'
  BY <1>0, <1>1, <1>2, <1>3, <1>4, <1>5
     DEF SameRest, Fits, ToolFits, StateFits, PlanFits, EvidenceFits, Now,
         FinalizePC
<1>7. OnlyTask(t)
  BY <1>1 DEF OnlyTask
<1>8. DiskFits(t)'
  BY <1>1, <1>2 DEF DiskFits, ImplementerRuns, HasReviewEvidence
<1> QED  BY <1>0, <1>1, <1>2, <1>3, <1>6, <1>7, <1>8, RecordFrame
         DEF SameRest, LockedPC

LEMMA DispatchFits ==
  ASSUME SingleProcess, JInv, IInv', NEW c \in Call,
         CreateRecord(c) \/ Route(c) \/ SaveWorktree(c) \/ AnchorTask(c)
  PROVE  JInv'
<1>1. PICK t \in Task : t = call[c].task
  BY TaskOfCall DEF CreateRecord, Route, SaveWorktree, AnchorTask, At, JInv
<1>2. /\ EventLoopFree(c)
      /\ UNCHANGED << envelopes, runs, scope_history >>
      /\ call[c].pc \in { "create", "route", "save_worktree", "anchor" }
  BY DEF CreateRecord, Route, SaveWorktree, AnchorTask, At
<1>3. IInv /\ Fits(c) /\ DiskFits(t) /\ record \in [Task -> TaskRecord]
  BY DEF JInv, IInv, TypeOK
<1>4. /\ call[c].tool = "dispatch"
      /\ ImplementerRuns(t) \subseteq 1 .. record[t].run_count
      /\ t \in envelopes
  BY <1>1, <1>2, <1>3 DEF Fits, ToolFits, StateFits, Now, DiskFits
<1>5. CASE CreateRecord(c)
  <2>1. call'[c].pc = "route" /\ SameRest(c) /\ call'[c].phase = call[c].phase
    BY <1>3, <1>5, GotoRest DEF CreateRecord
  <2>2. Recorded(t, "CREATED")
    BY <1>1, <1>3, <1>5, SetStateRecords DEF CreateRecord, SetState
  <2>3. OnlyTask(t)
    BY <1>2, <2>2, RecordStep
  <2>4. call[c].pc = "create"
    BY <1>5 DEF CreateRecord, At
  <2>5. Fits(c)'
    BY <1>1, <1>2, <1>3, <1>4, <2>1, <2>2, <2>4
       DEF SameRest, Recorded, Fits, ToolFits, StateFits, PlanFits,
           EvidenceFits, Now, FinalizePC
  <2>6. DiskFits(t)'
    BY <1>2, <1>4, <2>2, RecordedFits
  <2> QED  BY <1>1, <1>2, <2>1, <2>3, <2>4, <2>5, <2>6, RecordFrame
           DEF SameRest, LockedPC
<1>6. CASE Route(c)
  <2>1. call'[c].pc = "save_worktree" /\ SameRest(c) /\ call'[c].phase = call[c].phase
    BY <1>3, <1>6, GotoRest DEF Route
  <2>2. Recorded(t, "ROUTED")
    <3>1. record' = [record EXCEPT ![t].state = "ROUTED",
                                   ![t].known = @ \cup { "selected_model" }]
      BY <1>1, <1>6, Zenon DEF Route
    <3> QED  BY <1>3, <3>1, MoveAndLearnRecords, Zenon
  <2>3. OnlyTask(t)
    BY <1>2, <2>2, RecordStep
  <2>4. call[c].pc = "route"
    BY <1>6 DEF Route, At
  <2>5. Fits(c)'
    BY <1>1, <1>2, <1>3, <1>4, <2>1, <2>2, <2>4
       DEF SameRest, Recorded, Fits, ToolFits, StateFits, PlanFits,
           EvidenceFits, Now, FinalizePC
  <2>6. DiskFits(t)'
    BY <1>2, <1>4, <2>2, RecordedFits
  <2> QED  BY <1>1, <1>2, <2>1, <2>3, <2>4, <2>5, <2>6, RecordFrame
           DEF SameRest, LockedPC
<1>7. CASE SaveWorktree(c)
  <2>1. call'[c].pc = "anchor" /\ SameRest(c) /\ call'[c].phase = call[c].phase
    BY <1>3, <1>7, GotoRest DEF SaveWorktree
  <2>2. Recorded(t, record[t].state)
    BY <1>1, <1>3, <1>7, LearnRecords DEF SaveWorktree
  <2>3. OnlyTask(t)
    BY <1>2, <2>2, RecordStep
  <2>4. call[c].pc = "save_worktree"
    BY <1>7 DEF SaveWorktree, At
  <2>5. record[t].state = "ROUTED"
    BY <1>1, <1>3, <1>4, <2>4 DEF Fits, StateFits, Now
  <2>6. Fits(c)'
    BY <1>1, <1>2, <1>3, <1>4, <2>1, <2>2, <2>4, <2>5
       DEF SameRest, Recorded, Fits, ToolFits, StateFits, PlanFits,
           EvidenceFits, Now, FinalizePC
  <2>7. DiskFits(t)'
    BY <1>2, <1>4, <2>2, <2>5, RecordedFits
  <2> QED  BY <1>1, <1>2, <2>1, <2>3, <2>4, <2>6, <2>7, RecordFrame
           DEF SameRest, LockedPC
<1>8. CASE AnchorTask(c)
  <2>1. call'[c].pc = "launch" /\ SameRest(c) /\ call'[c].phase = "LAUNCH"
    BY <1>3, <1>8, GotoInRest DEF AnchorTask
  <2>2. Recorded(t, record[t].state)
    BY <1>1, <1>3, <1>8, LearnRecords DEF AnchorTask
  <2>3. OnlyTask(t)
    BY <1>2, <2>2, RecordStep
  <2>4. call[c].pc = "anchor"
    BY <1>8 DEF AnchorTask, At
  <2>5. record[t].state = "ROUTED"
    BY <1>1, <1>3, <1>4, <2>4 DEF Fits, StateFits, Now
  <2>6. Fits(c)'
    BY <1>1, <1>2, <1>3, <1>4, <2>1, <2>2, <2>4, <2>5
       DEF SameRest, Recorded, Fits, ToolFits, StateFits, PlanFits,
           EvidenceFits, Now, FinalizePC
  <2>7. DiskFits(t)'
    BY <1>2, <1>4, <2>2, <2>5, RecordedFits
  <2> QED  BY <1>1, <1>2, <2>1, <2>3, <2>4, <2>6, <2>7, RecordFrame
           DEF SameRest, LockedPC
<1> QED  BY <1>5, <1>6, <1>7, <1>8

LEMMA RunningFits ==
  ASSUME SingleProcess, JInv, IInv', NEW c \in Call,
         ReserveResume(c) \/ MarkRunning(c)
  PROVE  JInv'
<1>1. PICK t \in Task : t = call[c].task
  BY TaskOfCall DEF ReserveResume, MarkRunning, At, JInv
<1>2. /\ EventLoopFree(c)
      /\ UNCHANGED << envelopes, runs, scope_history >>
  BY DEF ReserveResume, MarkRunning, At
<1>3. IInv /\ Fits(c) /\ DiskFits(t) /\ record \in [Task -> TaskRecord]
  BY DEF JInv, IInv, TypeOK
<1>4. CASE ReserveResume(c)
  <2>1. call'[c].pc = "launch" /\ SameRest(c) /\ call'[c].phase = "LAUNCH"
    BY <1>3, <1>4, GotoInRest DEF ReserveResume
  <2>2. Recorded(t, "RESUME_REQUESTED")
    BY <1>1, <1>3, <1>4, SetStateRecords DEF ReserveResume
  <2>3. OnlyTask(t)
    BY <1>2, <2>2, RecordStep
  <2>4. call[c].pc = "git_listed" /\ CanMove(t, "RESUME_REQUESTED")
    BY <1>1, <1>4 DEF ReserveResume, At
  <2>5. /\ record[t].state \in TaskState
        /\ IsTransitionAllowed(record[t].state, "RESUME_REQUESTED")
    BY <1>3, <2>4 DEF CanMove, TaskRecord
  <2>6. /\ record[t].state # "RUNNING"
        /\ ImplementerRuns(t) \subseteq 1 .. record[t].run_count
        /\ t \in envelopes
    BY <1>3, <2>4, <2>5, Table DEF CanMove, DiskFits
  <2>7. Fits(c)'
    BY <1>1, <1>2, <1>3, <2>1, <2>2, <2>4
       DEF SameRest, Recorded, Fits, ToolFits, StateFits, PlanFits,
           EvidenceFits, Now, FinalizePC
  <2>8. DiskFits(t)'
    BY <1>2, <2>2, <2>6, RecordedFits
  <2> QED  BY <1>1, <1>2, <2>1, <2>3, <2>4, <2>7, <2>8, RecordFrame
           DEF SameRest, LockedPC
<1>5. CASE MarkRunning(c)
  <2>1. call'[c].pc = "running" /\ SameRest(c) /\ call'[c].phase = call[c].phase
    BY <1>3, <1>5, GotoRest DEF MarkRunning
  <2>2. call[c].pc = "spawned" /\ CanMove(t, "RUNNING") /\ call[c].tool # "review"
    BY <1>1, <1>3, <1>5 DEF MarkRunning, At, Fits, ToolFits
  <2>3. /\ record[t].state \in TaskState
        /\ IsTransitionAllowed(record[t].state, "RUNNING")
    BY <1>3, <2>2 DEF CanMove, TaskRecord
  <2>4. /\ ImplementerRuns(t) \subseteq 1 .. record[t].run_count
        /\ t \in envelopes
        /\ record[t].run_count \in Nat
    BY <1>3, <2>2, <2>3, Table DEF CanMove, DiskFits, TaskRecord
  <2>5. /\ record'[t].state = "RUNNING"
        /\ record'[t].run_count = record[t].run_count
        /\ \A u \in Task \ { t } : record'[u] = record[u]
    <3>1. CASE call[c].tool = "dispatch"
      <4>1. record' = [record EXCEPT ![t].state = "RUNNING",
                                     ![t].known = @ \cup { "session_id" }]
        BY <1>1, <1>5, <3>1, Zenon DEF MarkRunning
      <4> QED  BY <1>3, <4>1, MoveAndLearnRecords, Zenon DEF Recorded
    <3>2. CASE call[c].tool # "dispatch"
      <4>1. PICK held \in [Task -> TaskRecord] : held = record
        BY <1>3
      <4>2. record' = [held EXCEPT ![t].state = "RUNNING",
                                   ![t].resume_count = call[c].next_resume_count]
        BY <1>1, <1>5, <3>2, <4>1, Zenon DEF MarkRunning
      <4> QED  BY <4>1, <4>2 DEF TaskRecord
    <3> QED  BY <3>1, <3>2
  <2>6. OnlyTask(t)
    BY <1>2, <2>5 DEF OnlyTask
  <2>7. ToolFits(c)' /\ StateFits(c)' /\ PlanFits(c)'
    BY <1>1, <1>2, <1>3, <2>1, <2>2, <2>5
       DEF SameRest, Fits, ToolFits, StateFits, PlanFits, Now, FinalizePC
  <2>8. EvidenceFits(c)'
    BY <1>1, <1>2, <2>1, <2>4, <2>5
       DEF SameRest, EvidenceFits, Now, ImplementerRuns
  <2>9. DiskFits(t)'
    BY <1>2, <2>4, <2>5 DEF DiskFits
  <2> QED  BY <1>1, <1>2, <2>1, <2>2, <2>6, <2>7, <2>8, <2>9, RecordFrame
           DEF SameRest, LockedPC, Fits
<1> QED  BY <1>4, <1>5

\* append_run's file: the run of one index, and nothing else on the disk.
RunWritten(c, t, i, kind) ==
  /\ runs'[t][i] = kind
  /\ \A j \in RunIndex \ { i } : runs'[t][j] = runs[t][j]
  /\ \A u \in Task \ { t } : runs'[u] = runs[u]
  /\ UNCHANGED << envelopes, record, scope_history >>
  /\ call'[c].pc = "count"
  /\ call'[c].phase = call[c].phase
  /\ SameRest(c)

LEMMA WriteRunFacts ==
  ASSUME IInv, NEW c \in Call, NEW kind, WriteRun(c, kind),
         NEW t \in Task, NEW i \in RunIndex,
         t = call[c].task /\ i = call[c].run_index
  PROVE  RunWritten(c, t, i, kind)
<1>1. /\ runs' = [runs EXCEPT ![t][i] = kind]
      /\ UNCHANGED << envelopes, record, scope_history >>
      /\ Goto(c, "count")
  BY DEF WriteRun
<1>2. runs \in [Task -> [RunIndex -> RunKind]]
  BY DEF IInv, TypeOK
<1>3. /\ runs'[t][i] = kind
      /\ \A j \in RunIndex \ { i } : runs'[t][j] = runs[t][j]
      /\ \A u \in Task \ { t } : runs'[u] = runs[u]
  BY <1>1, <1>2
<1> QED  BY <1>1, <1>3, GotoRest DEF RunWritten

LEMMA RunWrittenOnly ==
  ASSUME NEW c \in Call, NEW t \in Task, NEW i \in RunIndex, NEW kind,
         RunWritten(c, t, i, kind)
  PROVE  OnlyTask(t)
BY DEF RunWritten, OnlyTask

\* A run written past the count, by a worker or by a reviewer.
LEMMA WriteFits ==
  ASSUME SingleProcess, JInv, IInv', NEW c \in Call,
         \/ WorktreeAuthorityMoved(c) \/ WriteScopeVerdicts(c)
         \/ WriteWorkerRun(c) \/ WriteReviewRun(c)
  PROVE  JInv'
<1>1. PICK t \in Task : t = call[c].task
  BY TaskOfCall DEF WorktreeAuthorityMoved, WriteScopeVerdicts, WriteWorkerRun,
     WriteReviewRun, At, JInv
<1>2. EventLoopFree(c) /\ call[c].pc \in { "measure", "freeze", "record_run" }
  BY DEF WorktreeAuthorityMoved, WriteScopeVerdicts, WriteWorkerRun,
     WriteReviewRun, At
<1>3. IInv /\ Fits(c) /\ DiskFits(t) /\ record \in [Task -> TaskRecord]
  BY DEF JInv, IInv, TypeOK
<1>4. PICK i \in RunIndex : i = call[c].run_index /\ i = record[t].run_count + 1
  BY <1>1, <1>2, <1>3 DEF Fits, PlanFits, Now
<1>5. record[t].run_count \in Nat /\ i \in Nat
  BY <1>3 DEF TaskRecord, RunIndex
<1>6. CASE WriteScopeVerdicts(c)
  <2>1. call'[c].pc = "freeze" /\ SameRest(c) /\ call'[c].phase = call[c].phase
    BY <1>3, <1>6, GotoRest DEF WriteScopeVerdicts
  <2>2. /\ call[c].pc = "measure"
        /\ scope_history' = scope_history \cup { t }
        /\ UNCHANGED << envelopes, record, runs >>
    BY <1>1, <1>6 DEF WriteScopeVerdicts, At
  <2>3. Fits(c)'
    BY <1>1, <1>3, <2>1, <2>2
       DEF SameRest, Fits, ToolFits, StateFits, PlanFits, EvidenceFits, Now,
           FinalizePC, ImplementerRuns
  <2>4. OnlyTask(t)
    BY <2>2 DEF OnlyTask
  <2>5. DiskFits(t)'
    BY <1>3, <2>2 DEF DiskFits, ImplementerRuns, HasReviewEvidence
  <2> QED  BY <1>1, <1>2, <2>1, <2>2, <2>3, <2>4, <2>5, RecordFrame
           DEF SameRest, LockedPC
<1>7. ASSUME NEW kind \in { "bare", "implementer" }, WriteRun(c, kind),
             call[c].pc \in { "measure", "freeze" },
             kind = "implementer" => call[c].pc = "freeze"
      PROVE  JInv'
  <2>1. RunWritten(c, t, i, kind)
    BY <1>1, <1>3, <1>4, <1>7, WriteRunFacts
  <2>2. OnlyTask(t)
    BY <2>1, RunWrittenOnly
  <2>3. /\ call[c].tool # "review"
        /\ record[t].state = "RUNNING"
        /\ ImplementerRuns(t) \subseteq 1 .. record[t].run_count
        /\ kind = "implementer" => t \in scope_history
    BY <1>1, <1>3, <1>7 DEF Fits, ToolFits, StateFits, EvidenceFits, Now
  <2>4. ImplementerRuns(t)' \subseteq 1 .. i
    <3> SUFFICES ASSUME NEW j \in RunIndex,
                        runs'[t][j] \in { "implementer", "bare" }
                 PROVE  j \in 1 .. i
      BY DEF ImplementerRuns
    <3>1. CASE j = i
      BY <1>5, <3>1 DEF RunIndex
    <3>2. CASE j # i
      <4>1. runs[t][j] \in { "implementer", "bare" }
        BY <2>1, <3>2 DEF RunWritten
      <4>2. j \in 1 .. record[t].run_count
        BY <2>3, <4>1 DEF ImplementerRuns
      <4> QED  BY <1>4, <1>5, <4>2
    <3> QED  BY <3>1, <3>2
  <2>5. ToolFits(c)' /\ StateFits(c)' /\ PlanFits(c)'
    BY <1>1, <1>3, <1>7, <2>1, <2>3
       DEF RunWritten, SameRest, Fits, ToolFits, StateFits, PlanFits, Now,
           FinalizePC
  <2>6. ImplementerRuns(call[c].task)' = ImplementerRuns(t)'
    BY <1>1, <2>1 DEF RunWritten, SameRest
  <2>7. EvidenceFits(c)'
    BY <1>1, <1>4, <1>7, <2>1, <2>3, <2>4, <2>6
       DEF RunWritten, SameRest, EvidenceFits
  <2>8. DiskFits(t)'
    BY <1>3, <2>1, <2>3 DEF RunWritten, DiskFits
  <2> QED  BY <1>1, <1>2, <1>7, <2>1, <2>2, <2>5, <2>7, <2>8, RecordFrame
           DEF RunWritten, SameRest, LockedPC, Fits
<1>8. CASE WriteReviewRun(c)
  <2>1. WriteRun(c, "review") /\ call[c].pc = "record_run"
    BY <1>8 DEF WriteReviewRun, At
  <2>2. RunWritten(c, t, i, "review")
    BY <1>1, <1>3, <1>4, <2>1, WriteRunFacts
  <2>3. OnlyTask(t)
    BY <2>2, RunWrittenOnly
  <2>4. /\ call[c].tool = "review"
        /\ record[t].state = "AWAITING_SOL_REVIEW"
        /\ ImplementerRuns(t) \subseteq 1 .. record[t].run_count
    BY <1>1, <1>3, <2>1 DEF Fits, ToolFits, StateFits, DiskFits, Now
  <2>5. i \notin ImplementerRuns(t)
    BY <1>4, <1>5, <2>4
  <2>6. ImplementerRuns(t)' = ImplementerRuns(t)
    BY <2>2, <2>5 DEF RunWritten, ImplementerRuns
  <2>7. HasReviewEvidence(t) => HasReviewEvidence(t)'
    BY <2>2, <2>5, <2>6 DEF RunWritten, HasReviewEvidence, ImplementerRuns
  <2>8. Fits(c)'
    <3>1. ToolFits(c)' /\ StateFits(c)' /\ PlanFits(c)'
      BY <1>1, <1>3, <2>1, <2>2, <2>4
         DEF RunWritten, SameRest, Fits, ToolFits, StateFits, PlanFits, Now,
             FinalizePC
    <3>2. EvidenceFits(c)'
      BY <1>1, <1>4, <2>2, <2>4 DEF RunWritten, SameRest, EvidenceFits
    <3> QED  BY <3>1, <3>2 DEF Fits
  <2>9. DiskFits(t)'
    BY <1>3, <2>2, <2>6, <2>7 DEF RunWritten, DiskFits
  <2> QED  BY <1>1, <1>2, <2>1, <2>2, <2>3, <2>8, <2>9, RecordFrame
           DEF RunWritten, SameRest, LockedPC
<1> QED  BY <1>6, <1>7, <1>8 DEF WorktreeAuthorityMoved, WriteWorkerRun, At

LEMMA CountFits ==
  ASSUME SingleProcess, JInv, IInv', NEW c \in Call, CountRun(c)
  PROVE  JInv'
<1>1. PICK t \in Task : t = call[c].task
  BY TaskOfCall DEF CountRun, At, JInv
<1>2. /\ EventLoopFree(c)
      /\ call[c].pc = "count"
      /\ UNCHANGED << envelopes, runs, scope_history >>
  BY DEF CountRun, At
<1>3. IInv /\ Fits(c) /\ DiskFits(t)
  BY DEF JInv
<1>4. PICK held \in [Task -> TaskRecord] : held = record
  BY <1>3 DEF IInv, TypeOK
<1>5. PICK i \in RunIndex : i = call[c].run_index /\ i = held[t].run_count + 1
  BY <1>1, <1>2, <1>3, <1>4 DEF Fits, PlanFits, Now
<1>6. held[t].run_count \in Nat /\ i \in Nat
  BY <1>4 DEF TaskRecord, RunIndex
<1>7. record' = [held EXCEPT ![t].run_count = IF @ < i THEN i ELSE @]
  BY <1>1, <1>4, <1>5, Zenon DEF CountRun
<1>8. /\ record'[t].run_count = i
      /\ record'[t].state = record[t].state
      /\ record'[t].resume_count = record[t].resume_count
      /\ \A u \in Task \ { t } : record'[u] = record[u]
  BY <1>4, <1>5, <1>6, <1>7 DEF TaskRecord
<1>9. OnlyTask(t)
  BY <1>2, <1>8 DEF OnlyTask
<1>10. SameRest(c) /\ call'[c].phase = call[c].phase
  BY <1>3, GotoRest DEF CountRun
<1>11. call'[c].pc = CASE runs[t][i] = "bare"   -> "mismatch"
                       [] runs[t][i] = "review" -> "parse"
                       [] OTHER                 -> "land"
  BY <1>1, <1>3, <1>5, GotoRest DEF CountRun
<1>12. ImplementerRuns(t) \subseteq 1 .. i
  BY <1>1, <1>2, <1>3, <1>4, <1>5, <1>6 DEF Fits, EvidenceFits, StateFits, Now, DiskFits
<1>13. t \in envelopes /\ record[t].state # "absent"
  BY <1>1, <1>2, <1>3 DEF Fits, StateFits, ToolFits, Now, DiskFits
<1>14. DiskFits(t)'
  BY <1>2, <1>3, <1>8, <1>12, <1>13
     DEF DiskFits, ImplementerRuns, HasReviewEvidence
<1>15. Fits(c)'
  <2>1. CASE call[c].tool = "review"
    <3>1. call'[c].pc = "parse"
      BY <1>1, <1>2, <1>3, <1>5, <1>11, <2>1 DEF Fits, EvidenceFits
    <3> QED  BY <1>1, <1>2, <1>3, <1>8, <1>10, <2>1, <3>1
             DEF SameRest, Fits, ToolFits, StateFits, PlanFits, EvidenceFits,
                 Now, FinalizePC
  <2>2. CASE call[c].tool # "review" /\ runs[t][i] = "bare"
    <3>1. call'[c].pc = "mismatch"
      BY <1>11, <2>2
    <3> QED  BY <1>1, <1>2, <1>3, <1>8, <1>10, <1>12, <2>2, <3>1
             DEF SameRest, Fits, ToolFits, StateFits, PlanFits, EvidenceFits,
                 Now, FinalizePC, ImplementerRuns
  <2>3. CASE call[c].tool # "review" /\ runs[t][i] = "implementer"
    <3>1. call'[c].pc = "land"
      BY <1>11, <2>3
    <3>2. HasReviewEvidence(t)' /\ t \in scope_history'
      <4>1. i \in ImplementerRuns(t) /\ \A j \in ImplementerRuns(t) : j <= i
        BY <1>5, <1>6, <1>12, <2>3 DEF ImplementerRuns
      <4>2. HasReviewEvidence(t)
        BY <2>3, <4>1 DEF HasReviewEvidence
      <4>3. t \in scope_history
        BY <1>1, <1>2, <1>3, <1>5, <2>3 DEF Fits, EvidenceFits
      <4> QED  BY <1>2, <4>2, <4>3 DEF HasReviewEvidence, ImplementerRuns
    <3>3. /\ HasReviewEvidence(call[c].task)'
          /\ call'[c].task = t
      BY <1>1, <1>10, <3>2 DEF SameRest
    <3>4. ToolFits(c)' /\ StateFits(c)' /\ PlanFits(c)'
      BY <1>1, <1>2, <1>3, <1>8, <1>10, <2>3, <3>1
         DEF SameRest, Fits, ToolFits, StateFits, PlanFits, Now, FinalizePC
    <3>5. ImplementerRuns(call[c].task)' \subseteq 1 .. i
      BY <1>2, <1>12, <3>3 DEF ImplementerRuns
    <3>6. EvidenceFits(c)'
      BY <1>8, <3>1, <3>2, <3>3, <3>5 DEF EvidenceFits, Now
    <3> QED  BY <3>4, <3>6 DEF Fits
  <2> QED  BY <1>1, <1>2, <1>3, <1>5, <2>1, <2>2, <2>3 DEF Fits, EvidenceFits
<1> QED  BY <1>1, <1>2, <1>9, <1>10, <1>14, <1>15, RecordFrame
         DEF SameRest, LockedPC

\* The failure of a call: FAILED if a worker was proven, or nothing.
LEMMA FailFits ==
  ASSUME SingleProcess, JInv, IInv', NEW c \in Call, EventLoopFree(c),
         call[c].pc \in LockedPC, Fail(c),
         UNCHANGED << envelopes, runs, scope_history >>,
         call[c].pc \notin { "unwritten", "running", "count" }
  PROVE  JInv'
<1>1. PICK t \in Task : t = call[c].task
  BY TaskOfCall DEF JInv, LockedPC
<1>2. IInv /\ Fits(c) /\ DiskFits(t)
  BY DEF JInv
<1>3. CASE record' = record
  BY <1>3, PlainReturnFits DEF Fail
<1>4. CASE record' # record
  <2>1. /\ WorkerProven(c)
        /\ record[t].state \in InFlight
        /\ SetState(t, "FAILED")
    BY <1>1, <1>4 DEF Fail, RecordFailure
  <2>2. Recorded(t, "FAILED")
    BY <1>2, <2>1, SetStateRecords
  <2>3. OnlyTask(t)
    BY <2>2, RecordStep
  <2>4. call'[c] = Idle /\ \A d \in Call \ { c } : call'[d] = call[d]
    BY <1>2, ReturnRest DEF Fail
  <2>5. Fits(c)'
    BY <2>4 DEF Idle, Fits, ToolFits, StateFits, PlanFits, EvidenceFits, FinalizePC
  <2>6. call[c].pc \in { "spawned", "collect", "measure", "freeze", "record_run",
                         "parse", "mark", "mismatch", "land", "await" }
    BY <1>2, <2>1 DEF WorkerProven, Fits, ToolFits, StateFits, LockedPC, FinalizePC
  <2>7. record[t].state = "RUNNING" =>
          ImplementerRuns(t) \subseteq 1 .. record[t].run_count
    <3>1. call[c].tool \in Tool
      BY <1>2 DEF IInv, TypeOK, ToolCall
    <3> QED  BY <1>1, <1>2, <2>6, <3>1
             DEF Tool, Fits, ToolFits, StateFits, EvidenceFits, Now
  <2>8. ImplementerRuns(t) \subseteq 1 .. record[t].run_count
    BY <1>2, <2>7 DEF DiskFits
  <2>9. t \in envelopes
    BY <1>2, <2>1 DEF DiskFits, InFlight
  <2>10. DiskFits(t)'
    BY <2>2, <2>8, <2>9, RecordedFits
  <2> QED  BY <1>1, <2>3, <2>4, <2>5, <2>10, RecordFrame
<1> QED  BY <1>3, <1>4

\* In one process RUNNING is never refused: the task is as the call left it.
LEMMA NeverRefused ==
  ASSUME JInv, NEW c \in Call, MarkRunningRefused(c)
  PROVE  FALSE
<1>1. call[c].pc = "spawned" /\ ~ CanMove(call[c].task, "RUNNING")
  BY DEF MarkRunningRefused, At
<1>2. Fits(c) /\ call[c].tool \in Tool
  BY DEF JInv, IInv, TypeOK, ToolCall
<1>3. Now(c).state \in { "ROUTED", "RESUME_REQUESTED" }
  BY <1>1, <1>2 DEF Tool, Fits, ToolFits, StateFits
<1>4. /\ IsTransitionAllowed("ROUTED", "RUNNING")
      /\ IsTransitionAllowed("RESUME_REQUESTED", "RUNNING")
  BY DEF IsTransitionAllowed, AllowedTransitions
<1> QED  BY <1>1, <1>3, <1>4 DEF CanMove, Now

\* So the child a call gives up is one whose record could not be written.
LEMMA RefusedChildFacts ==
  ASSUME JInv, NEW c \in Call, RefusedChildExits(c)
  PROVE  /\ "io_error" \in Faults
         /\ EventLoopFree(c)
         /\ Return(c)
         /\ UNCHANGED << envelopes, record, runs, scope_history >>
BY DEF JInv, Fits, StateFits, RefusedChildExits, At

LEMMA FailureFits ==
  ASSUME SingleProcess, JInv, IInv', NEW c \in Call,
         \/ PrepareRefused(c) \/ LaunchRefused(c)
         \/ ScopeHistoryCorrupt(c) \/ MeasurementFailed(c) \/ MismatchRaised(c)
         \/ LandRefused(c)
  PROVE  JInv'
<1>1. /\ EventLoopFree(c)
      /\ Fail(c)
      /\ UNCHANGED << envelopes, runs, scope_history >>
      /\ call[c].pc \in { "prepare", "git_listed", "launch", "collect",
                          "measure", "freeze", "mismatch", "land", "await" }
  BY DEF PrepareRefused, LaunchRefused, ScopeHistoryCorrupt,
     MeasurementFailed, MismatchRaised, LandRefused, At
<1> QED  BY <1>1, FailFits DEF LockedPC

\* _land_state: an off-ramp, or the two writes of a clean run.
LEMMA LandFits ==
  ASSUME SingleProcess, JInv, IInv', NEW c \in Call,
         \/ \E target \in OffRamps : LandOffRamp(c, target)
         \/ LandImplemented(c) \/ AwaitReview(c)
  PROVE  JInv'
<1>1. PICK t \in Task : t = call[c].task
  BY TaskOfCall DEF LandOffRamp, LandImplemented, AwaitReview, At, JInv
<1>2. /\ EventLoopFree(c)
      /\ UNCHANGED << envelopes, runs, scope_history >>
      /\ call[c].pc \in { "land", "await" }
  BY DEF LandOffRamp, LandImplemented, AwaitReview, At
<1>3. IInv /\ Fits(c) /\ DiskFits(t)
  BY DEF JInv
<1>4. /\ HasReviewEvidence(t)
      /\ t \in scope_history
      /\ call[c].tool # "review"
      /\ record[t].state \in { "RUNNING", "IMPLEMENTED" }
      /\ t \in envelopes
      /\ ImplementerRuns(t) \subseteq 1 .. record[t].run_count
  BY <1>1, <1>2, <1>3 DEF Fits, ToolFits, StateFits, EvidenceFits, Now, DiskFits
<1>5. CASE LandImplemented(c)
  <2>1. call'[c].pc = "await" /\ SameRest(c) /\ call'[c].phase = call[c].phase
    BY <1>3, <1>5, GotoRest DEF LandImplemented
  <2>2. Recorded(t, "IMPLEMENTED")
    BY <1>1, <1>3, <1>5, SetStateRecords DEF LandImplemented
  <2>3. OnlyTask(t)
    BY <1>2, <2>2, RecordStep
  <2>4. HasReviewEvidence(call[c].task)'
    BY <1>1, <1>2, <1>4, <2>1 DEF SameRest, HasReviewEvidence, ImplementerRuns
  <2>5. call[c].pc = "land"
    BY <1>5 DEF LandImplemented, At
  <2>6. ToolFits(c)' /\ StateFits(c)' /\ PlanFits(c)' /\ EvidenceFits(c)'
    BY <1>1, <1>2, <1>3, <1>4, <2>1, <2>2, <2>4, <2>5
       DEF SameRest, Recorded, Fits, ToolFits, StateFits, PlanFits,
           EvidenceFits, Now, FinalizePC
  <2>7. DiskFits(t)'
    BY <1>2, <1>4, <2>2, RecordedFits
  <2> QED  BY <1>1, <1>2, <2>1, <2>3, <2>6, <2>7, RecordFrame
           DEF SameRest, LockedPC, Fits
<1>6. ASSUME NEW target \in OffRamps \cup { "AWAITING_SOL_REVIEW" },
             SetState(t, target), Return(c)
      PROVE  JInv'
  <2>1. Recorded(t, target)
    BY <1>3, <1>6, SetStateRecords
  <2>2. OnlyTask(t)
    BY <1>2, <2>1, RecordStep
  <2>3. call'[c] = Idle /\ \A d \in Call \ { c } : call'[d] = call[d]
    BY <1>3, <1>6, ReturnRest
  <2>4. Fits(c)'
    BY <2>3 DEF Idle, Fits, ToolFits, StateFits, PlanFits, EvidenceFits, FinalizePC
  <2>5. target # "absent"
    BY <1>6 DEF OffRamps
  <2>6. DiskFits(t)'
    BY <1>2, <1>4, <2>1, <2>5, RecordedFits
  <2> QED  BY <1>1, <1>2, <2>2, <2>3, <2>4, <2>6, RecordFrame DEF LockedPC
<1> QED  BY <1>1, <1>5, <1>6 DEF LandOffRamp, AwaitReview

LEMMA ReviewFits ==
  ASSUME SingleProcess, JInv, IInv', NEW c \in Call,
         AppendReview(c) \/ MarkReviewed(c)
  PROVE  JInv'
<1>1. PICK t \in Task : t = call[c].task
  BY TaskOfCall DEF AppendReview, MarkReviewed, At, JInv
<1>2. /\ EventLoopFree(c)
      /\ UNCHANGED << envelopes, runs, scope_history >>
      /\ call[c].pc \in { "parse", "mark" }
  BY DEF AppendReview, MarkReviewed, At
<1>3. IInv /\ Fits(c) /\ DiskFits(t)
  BY DEF JInv
<1>4. /\ call[c].tool = "review"
      /\ record[t].state = "AWAITING_SOL_REVIEW"
      /\ t \in envelopes
      /\ HasReviewEvidence(t)
      /\ t \in scope_history
      /\ ImplementerRuns(t) \subseteq 1 .. record[t].run_count
  BY <1>1, <1>2, <1>3 DEF Fits, ToolFits, StateFits, Now, DiskFits
<1>5. CASE AppendReview(c)
  <2>1. call'[c].pc = "mark" /\ SameRest(c) /\ call'[c].phase = call[c].phase
    BY <1>3, <1>5, GotoRest DEF AppendReview
  <2>2. PICK held \in [Task -> TaskRecord] : held = record
    BY <1>3 DEF IInv, TypeOK
  <2>3. record' = [held EXCEPT ![t].fable_review_count = @ + 1]
    BY <1>1, <1>5, <2>2 DEF AppendReview
  <2>4. /\ record'[t].state = record[t].state
        /\ record'[t].run_count = record[t].run_count
        /\ \A u \in Task \ { t } : record'[u] = record[u]
    BY <2>2, <2>3 DEF TaskRecord
  <2>5. OnlyTask(t)
    BY <1>2, <2>4 DEF OnlyTask
  <2>6. Fits(c)'
    BY <1>1, <1>2, <1>3, <1>4, <2>1, <2>4
       DEF SameRest, Fits, ToolFits, StateFits, PlanFits, EvidenceFits, Now,
           FinalizePC
  <2>7. DiskFits(t)'
    BY <1>2, <1>3, <1>4, <2>4 DEF DiskFits, ImplementerRuns, HasReviewEvidence
  <2> QED  BY <1>1, <1>2, <2>1, <2>5, <2>6, <2>7, RecordFrame
           DEF SameRest, LockedPC
<1>6. CASE MarkReviewed(c)
  <2>1. Recorded(t, "FABLE_REVIEWED")
    BY <1>1, <1>3, <1>6, SetStateRecords DEF MarkReviewed
  <2>2. OnlyTask(t)
    BY <1>2, <2>1, RecordStep
  <2>3. call'[c] = Idle /\ \A d \in Call \ { c } : call'[d] = call[d]
    BY <1>3, <1>6, ReturnRest DEF MarkReviewed
  <2>4. Fits(c)'
    BY <2>3 DEF Idle, Fits, ToolFits, StateFits, PlanFits, EvidenceFits, FinalizePC
  <2>5. DiskFits(t)'
    BY <1>2, <1>4, <2>1, RecordedFits
  <2> QED  BY <1>1, <1>2, <2>2, <2>3, <2>4, <2>5, RecordFrame DEF LockedPC
<1> QED  BY <1>5, <1>6

\* The failure of a review is recorded without the lock, from a snapshot:
\* alone in its process, it puts back what is there.
LEMMA SaveFailureIsQuiet ==
  ASSUME JInv, NEW c \in Call, SaveFailure(c)
  PROVE  UNCHANGED record
<1>1. PICK t \in Task : t = call[c].task
  BY TaskOfCall DEF SaveFailure, At, JInv
<1>2. /\ call[c].snapshot = record[t]
      /\ record[t].state = "AWAITING_SOL_REVIEW"
  BY <1>1 DEF SaveFailure, At, JInv, Fits, ToolFits, StateFits, Now
<1>3. record' = [record EXCEPT ![t] = call[c].snapshot]
  BY <1>1, <1>2 DEF SaveFailure, InFlight
<1>4. record \in [Task -> TaskRecord]
  BY DEF JInv, IInv, TypeOK
<1> QED  BY <1>2, <1>3, <1>4

LEMMA ReturnFits ==
  ASSUME SingleProcess, JInv, IInv', NEW c \in Call,
         \/ ResumeBusy(c) \/ LockReviewRefused(c) \/ SaveFailure(c)
         \/ WriteFails(c) \/ RefusedChildExits(c)
  PROVE  JInv'
<1>1. /\ EventLoopFree(c)
      /\ Return(c)
      /\ UNCHANGED << envelopes, record, runs, scope_history >>
  BY SaveFailureIsQuiet, RefusedChildFacts
     DEF ResumeBusy, LockReviewRefused, SaveFailure, WriteFails, At, disk
<1> QED  BY <1>1, PlainReturnFits

LEMMA UnwrittenFits ==
  ASSUME SingleProcess, JInv, IInv', NEW c \in Call, MarkRunningFails(c)
  PROVE  JInv'
<1>1. /\ EventLoopFree(c)
      /\ call[c].pc = "spawned"
      /\ "io_error" \in Faults
      /\ UNCHANGED << envelopes, record, runs, scope_history >>
  BY DEF MarkRunningFails, At, disk
<1>2. /\ call'[c].pc = "unwritten"
      /\ SameRest(c)
      /\ call'[c].phase = call[c].phase
  BY GotoRest DEF MarkRunningFails, JInv
<1>3. Fits(c)'
  BY <1>1, <1>2 DEF JInv, SameRest, Fits, ToolFits, StateFits, PlanFits,
     EvidenceFits, Now, FinalizePC
<1> QED  BY <1>1, <1>2, <1>3, QuietFrame DEF SameRest

LEMMA CrashFits ==
  ASSUME JInv, IInv', NEW p \in Process, Crash(p)
  PROVE  JInv'
<1>1. UNCHANGED << envelopes, record, runs, scope_history >>
  BY DEF Crash, disk
<1>2. \A d \in Call : call'[d] = Idle \/ call'[d] = call[d]
  BY DEF Crash
<1>3. Alone'
  BY <1>2, IdleType DEF JInv, Alone, NoAwaitPC
<1>4. ASSUME NEW d \in Call PROVE Fits(d)'
  <2>1. CASE call'[d] = Idle
    BY <2>1 DEF Idle, Fits, ToolFits, StateFits, PlanFits, EvidenceFits, FinalizePC
  <2>2. CASE call'[d] = call[d]
    BY <1>1, <2>2, OtherFits DEF JInv
  <2> QED  BY <1>2, <2>1, <2>2
<1>5. ASSUME NEW t \in Task PROVE DiskFits(t)'
  BY <1>1 DEF JInv, DiskFits, ImplementerRuns, HasReviewEvidence
<1> QED  BY <1>3, <1>4, <1>5 DEF JInv

LEMMA JInvHolds == Init => JInv
<1> SUFFICES ASSUME Init PROVE JInv
  OBVIOUS
<1>1. IInv
  BY InitHolds
<1>2. \A c \in Call : call[c] = Idle
  BY DEF Init
<1>3. Alone
  BY <1>2 DEF Alone, Idle, NoAwaitPC
<1>4. \A c \in Call : Fits(c)
  BY <1>2 DEF Idle, Fits, ToolFits, StateFits, PlanFits, EvidenceFits, FinalizePC
<1>5. ASSUME NEW t \in Task PROVE DiskFits(t)
  <2>1. record[t] = NoRecord /\ \A i \in RunIndex : runs[t][i] = "none"
    BY DEF Init
  <2> QED  BY <2>1 DEF DiskFits, NoRecord, ImplementerRuns
<1> QED  BY <1>1, <1>3, <1>4, <1>5 DEF JInv

LEMMA StepFits ==
  ASSUME SingleProcess, JInv, IInv', NEW c \in Call, Step(c)
  PROVE  JInv'
BY ReserveFits, DispatchFits, RunningFits, LockFits, ExitFits, WriteFits,
   CountFits, FailureFits, LandFits, ReviewFits, ReturnFits, NeverRefused DEF Step

LEMMA NextFits ==
  ASSUME SingleProcess
  PROVE  JInv /\ [Next]_vars => JInv'
<1> SUFFICES ASSUME JInv, [Next]_vars PROVE JInv'
  OBVIOUS
<1>1. IInv'
  BY NextPreserves DEF JInv
<1>2. ASSUME NEW c \in Call, BeginCall(c) PROVE JInv'
  BY <1>1, <1>2, BeginFits
<1>3. ASSUME NEW c \in Call, Step(c) PROVE JInv'
  BY <1>1, <1>3, StepFits
<1>4. ASSUME NEW c \in Call, WriteFails(c) \/ RefusedChildExits(c) PROVE JInv'
  BY <1>1, <1>4, ReturnFits
<1>9. ASSUME NEW c \in Call, MarkRunningFails(c) PROVE JInv'
  BY <1>1, <1>9, UnwrittenFits
<1>5. ASSUME NEW p \in Process, Crash(p) PROVE JInv'
  BY <1>1, <1>5, CrashFits
<1>6. CASE UNCHANGED << envelopes, record, runs, scope_history, call >>
  <2>1. Alone'
    BY <1>6 DEF JInv, Alone
  <2>2. ASSUME NEW d \in Call PROVE Fits(d)'
    BY <1>6, OtherFits DEF JInv
  <2>3. ASSUME NEW t \in Task PROVE DiskFits(t)'
    BY <1>6 DEF JInv, DiskFits, ImplementerRuns, HasReviewEvidence
  <2> QED  BY <1>1, <2>1, <2>2, <2>3 DEF JInv
<1>7. ASSUME NEW t \in Task, OrphanExit(t) PROVE JInv'
  BY <1>6, <1>7 DEF OrphanExit, disk
<1>8. CASE UNCHANGED vars
  BY <1>6, <1>8 DEF vars
<1> QED  BY <1>2, <1>3, <1>4, <1>5, <1>7, <1>8, <1>9 DEF Next

LEMMA RecordInvariance ==
  ASSUME SingleProcess
  PROVE  Spec => []JInv
<1>1. Init => JInv
  BY JInvHolds
<1>2. JInv /\ [Next]_vars => JInv'
  BY NextFits
<1> QED  BY <1>1, <1>2, PTL DEF Spec
-----------------------------------------------------------------------------
(* What a step does to a record. *)

\* A move along the lifecycle table, resumes counted where they start.
LifecycleMove(t) ==
  \/ /\ record'[t].state = record[t].state
     /\ record'[t].resume_count = record[t].resume_count
  \/ /\ record[t].state = "absent"
     /\ record'[t].state = "CREATED"
     /\ record'[t].resume_count = record[t].resume_count
  \/ /\ record[t].state # "absent"
     /\ record'[t].state \in TaskState
     /\ IsTransitionAllowed(record[t].state, record'[t].state)
     /\ ~ (record[t].state = "RESUME_REQUESTED" /\ record'[t].state = "RUNNING")
     /\ record'[t].resume_count = record[t].resume_count
  \/ /\ record[t].state = "RESUME_REQUESTED"
     /\ record'[t].state = "RUNNING"
     /\ record[t].resume_count < MaxResumeCount
     /\ record'[t].resume_count = record[t].resume_count + 1

CountersGrow(t) ==
  /\ record'[t].run_count >= record[t].run_count
  /\ record'[t].resume_count >= record[t].resume_count
  /\ record'[t].fable_review_count >= record[t].fable_review_count

Progress(t) == /\ \A u \in Task \ { t } : record'[u] = record[u]
               /\ LifecycleMove(t)
               /\ CountersGrow(t)
               /\ record'[t].run_count # record[t].run_count =>
                    \E c \in Call : CountRun(c)

LEMMA RecordedProgress ==
  ASSUME IInv, NEW t \in Task, NEW target, Recorded(t, target),
         \/ target = record[t].state
         \/ record[t].state = "absent" /\ target = "CREATED"
         \/ /\ CanMove(t, target)
            /\ target \in TaskState \ { "RUNNING" }
         \/ record[t].state = "ROUTED" /\ target = "RUNNING"
  PROVE  Progress(t)
<1>1. record[t] \in TaskRecord
  BY DEF IInv, TypeOK
<1>2. CountersGrow(t)
  BY <1>1 DEF Recorded, CountersGrow, TaskRecord
<1>3. IsTransitionAllowed("ROUTED", "RUNNING")
  BY DEF IsTransitionAllowed, AllowedTransitions
<1>4. LifecycleMove(t)
  BY <1>3 DEF Recorded, LifecycleMove, CanMove, TaskState
<1> QED  BY <1>2, <1>4 DEF Progress, Recorded

LEMMA QuietRecords ==
  ASSUME NEW c \in Call,
         \/ ReserveDispatch(c) \/ LockResume(c) \/ ResumeBusy(c)
         \/ RecordGitRow(c) \/ SpawnChild(c) \/ MarkRunningRefused(c)
         \/ WorkerExit(c) \/ CheckScopeHistory(c) \/ WorktreeAuthorityMoved(c)
         \/ WriteScopeVerdicts(c) \/ WriteWorkerRun(c) \/ LockReview(c)
         \/ LockReviewRefused(c) \/ ReserveReview(c) \/ WriteReviewRun(c)
         \/ ReviewUnusable(c) \/ MarkReviewedRefused(c) \/ LoadForFailure(c)
  PROVE  UNCHANGED record
BY DEF ReserveDispatch, LockResume, ResumeBusy, RecordGitRow, SpawnChild,
   MarkRunningRefused, WorkerExit, CheckScopeHistory, WorktreeAuthorityMoved, WriteScopeVerdicts,
   WriteWorkerRun, LockReview, LockReviewRefused, ReserveReview,
   WriteReviewRun, WriteRun, ReviewUnusable, MarkReviewedRefused,
   LoadForFailure, disk

LEMMA FailProgress ==
  ASSUME JInv, NEW c \in Call, call[c].pc # "idle",
         Fail(c)
  PROVE  UNCHANGED record \/ Progress(call[c].task)
<1>1. PICK t \in Task : t = call[c].task
  BY TaskOfCall DEF JInv
<1>2. CASE record' = record
  BY <1>2
<1>3. CASE record' # record
  <2>1. record[t].state \in InFlight /\ SetState(t, "FAILED")
    BY <1>1, <1>3 DEF Fail, RecordFailure
  <2>2. Recorded(t, "FAILED")
    BY <2>1, SetStateRecords DEF JInv
  <2>3. CanMove(t, "FAILED")
    BY <2>1, Table DEF CanMove, InFlight
  <2>4. "FAILED" \in TaskState \ { "RUNNING" }
    BY DEF TaskState
  <2>5. Progress(t)
    BY <2>2, <2>3, <2>4, RecordedProgress DEF JInv
  <2> QED  BY <1>1, <2>5
<1> QED  BY <1>2, <1>3

\* A step is a step of a call under way.
LEMMA StepUnderWay ==
  ASSUME NEW c \in Call, Step(c)
  PROVE  call[c].pc # "idle"
BY DEF Step, ReserveDispatch, CreateRecord, Route, SaveWorktree,
   AnchorTask, LockResume, ResumeBusy, RecordGitRow, ReserveResume,
   PrepareRefused, LaunchRefused, SpawnChild, MarkRunning,
   MarkRunningRefused, WorkerExit, CheckScopeHistory, ScopeHistoryCorrupt,
   MeasurementFailed, WorktreeAuthorityMoved, WriteScopeVerdicts,
   WriteWorkerRun, CountRun, MismatchRaised, LandOffRamp, LandImplemented,
   AwaitReview, LandRefused, LockReview, LockReviewRefused, ReserveReview,
   WriteReviewRun, ReviewUnusable, AppendReview, MarkReviewed,
   MarkReviewedRefused, LoadForFailure, SaveFailure, At

LEMMA StepProgress ==
  ASSUME JInv, NEW c \in Call, Step(c)
  PROVE  UNCHANGED record \/ Progress(call[c].task)
<1>1. call[c].pc # "idle"
  BY StepUnderWay
<1>2. PICK t \in Task : t = call[c].task
  BY <1>1, TaskOfCall DEF JInv
<1>3. IInv /\ Fits(c) /\ record[t] \in TaskRecord
  BY DEF JInv, IInv, TypeOK
<1>4. ASSUME CreateRecord(c) PROVE Progress(t)
  <2>1. Recorded(t, "CREATED") /\ record[t].state = "absent"
    BY <1>2, <1>3, <1>4, SetStateRecords
       DEF CreateRecord, SetState, At, Fits, StateFits, Now
  <2> QED  BY <1>3, <2>1, RecordedProgress
<1>5. ASSUME Route(c) PROVE Progress(t)
  <2>1. record' = [record EXCEPT ![t].state = "ROUTED",
                                 ![t].known = @ \cup { "selected_model" }]
    BY <1>2, <1>5, Zenon DEF Route
  <2>2. Recorded(t, "ROUTED")
    BY <1>3, <2>1, MoveAndLearnRecords, Zenon
  <2>3. CanMove(t, "ROUTED") /\ "ROUTED" \in TaskState \ { "RUNNING" }
    BY <1>2, <1>5 DEF Route, TaskState
  <2> QED  BY <1>3, <2>2, <2>3, RecordedProgress
<1>6. ASSUME SaveWorktree(c) PROVE Progress(t)
  <2>1. Recorded(t, record[t].state)
    BY <1>2, <1>3, <1>6, LearnRecords DEF SaveWorktree
  <2> QED  BY <1>3, <2>1, RecordedProgress
<1>7. ASSUME AnchorTask(c) PROVE Progress(t)
  <2>1. Recorded(t, record[t].state)
    BY <1>2, <1>3, <1>7, LearnRecords DEF AnchorTask
  <2> QED  BY <1>3, <2>1, RecordedProgress
<1>8. ASSUME NEW target \in TaskState \ { "RUNNING" },
             CanMove(t, target), SetState(t, target)
      PROVE  Progress(t)
  <2>1. Recorded(t, target)
    BY <1>3, <1>8, SetStateRecords
  <2> QED  BY <1>3, <1>8, <2>1, RecordedProgress
<1>9. ASSUME ReserveResume(c) \/ LandImplemented(c) \/ AwaitReview(c)
             \/ MarkReviewed(c)
             \/ \E target \in OffRamps : LandOffRamp(c, target)
      PROVE  Progress(t)
  <2>1. /\ { "RESUME_REQUESTED", "IMPLEMENTED", "AWAITING_SOL_REVIEW",
             "FABLE_REVIEWED" } \subseteq TaskState \ { "RUNNING" }
        /\ OffRamps \subseteq TaskState \ { "RUNNING" }
    BY DEF TaskState, OffRamps
  <2> QED  BY <1>2, <1>8, <1>9, <2>1
           DEF ReserveResume, LandImplemented, AwaitReview, MarkReviewed,
               LandOffRamp
<1>10. ASSUME MarkRunning(c) PROVE Progress(t)
  <2>1. /\ call[c].pc = "spawned"
        /\ CanMove(t, "RUNNING")
        /\ call[c].tool \in { "dispatch", "resume" }
    BY <1>2, <1>3, <1>10
       DEF MarkRunning, At, Fits, ToolFits, IInv, TypeOK, ToolCall, Tool
  <2>2. CASE call[c].tool = "dispatch"
    <3>1. record' = [record EXCEPT ![t].state = "RUNNING",
                                   ![t].known = @ \cup { "session_id" }]
      BY <1>2, <1>10, <2>2, Zenon DEF MarkRunning
    <3>2. Recorded(t, "RUNNING")
      BY <1>3, <3>1, MoveAndLearnRecords, Zenon
    <3>3. record[t].state = "ROUTED"
      BY <1>2, <1>3, <2>1, <2>2 DEF Fits, StateFits, Now
    <3> QED  BY <1>3, <3>2, <3>3, RecordedProgress
  <2>3. CASE call[c].tool = "resume"
    <3>1. PICK held \in [Task -> TaskRecord] : held = record
      BY <1>3 DEF IInv, TypeOK
    <3>2. record' = [held EXCEPT ![t].state = "RUNNING",
                                 ![t].resume_count = call[c].next_resume_count]
      BY <1>2, <1>10, <2>3, <3>1, Zenon DEF MarkRunning
    <3>3. /\ record[t].state = "RESUME_REQUESTED"
          /\ call[c].next_resume_count = record[t].resume_count + 1
          /\ record[t].resume_count < MaxResumeCount
      BY <1>2, <1>3, <2>1, <2>3 DEF Fits, StateFits, PlanFits, Now
    <3>4. /\ record'[t].state = "RUNNING"
          /\ record'[t].resume_count = record[t].resume_count + 1
          /\ record'[t].run_count = record[t].run_count
          /\ record'[t].fable_review_count = record[t].fable_review_count
          /\ \A u \in Task \ { t } : record'[u] = record[u]
      BY <3>1, <3>2, <3>3 DEF TaskRecord
    <3> QED  BY <1>3, <3>3, <3>4
             DEF Progress, LifecycleMove, CountersGrow, TaskRecord
  <2> QED  BY <2>1, <2>2, <2>3
<1>11. ASSUME CountRun(c) PROVE Progress(t)
  <2>1. PICK held \in [Task -> TaskRecord] : held = record
    BY <1>3 DEF IInv, TypeOK
  <2>2. call[c].run_index \in Nat
    BY <1>3 DEF IInv, TypeOK, ToolCall
  <2>3. record' = [held EXCEPT ![t].run_count =
                     IF @ < call[c].run_index THEN call[c].run_index ELSE @]
    BY <1>2, <1>11, <2>1, Zenon DEF CountRun
  <2>4. /\ record'[t].run_count >= record[t].run_count
        /\ record'[t].state = record[t].state
        /\ record'[t].resume_count = record[t].resume_count
        /\ record'[t].fable_review_count = record[t].fable_review_count
        /\ \A u \in Task \ { t } : record'[u] = record[u]
    BY <2>1, <2>2, <2>3 DEF TaskRecord
  <2> QED  BY <1>3, <1>11, <2>4 DEF Progress, LifecycleMove, CountersGrow, TaskRecord
<1>12. ASSUME AppendReview(c) PROVE Progress(t)
  <2>1. PICK held \in [Task -> TaskRecord] : held = record
    BY <1>3 DEF IInv, TypeOK
  <2>2. record' = [held EXCEPT ![t].fable_review_count = @ + 1]
    BY <1>2, <1>12, <2>1 DEF AppendReview
  <2>3. /\ record'[t].run_count = record[t].run_count
        /\ record'[t].state = record[t].state
        /\ record'[t].resume_count = record[t].resume_count
        /\ record'[t].fable_review_count = record[t].fable_review_count + 1
        /\ \A u \in Task \ { t } : record'[u] = record[u]
    BY <2>1, <2>2 DEF TaskRecord
  <2> QED  BY <1>3, <2>3 DEF Progress, LifecycleMove, CountersGrow, TaskRecord
<1>13. ASSUME PrepareRefused(c) \/ LaunchRefused(c)
              \/ ScopeHistoryCorrupt(c) \/ MeasurementFailed(c)
              \/ MismatchRaised(c) \/ LandRefused(c)
       PROVE  UNCHANGED record \/ Progress(call[c].task)
  <2>1. Fail(c)
    BY <1>13 DEF PrepareRefused, LaunchRefused, ScopeHistoryCorrupt,
       MeasurementFailed, MismatchRaised, LandRefused
  <2> QED  BY <1>1, <2>1, FailProgress
<1>14. ASSUME SaveFailure(c) PROVE UNCHANGED record
  BY <1>14, SaveFailureIsQuiet
<1> QED  BY <1>2, <1>4, <1>5, <1>6, <1>7, <1>9, <1>10, <1>11, <1>12, <1>13,
            <1>14, QuietRecords DEF Step

LEMMA NextProgress ==
  ASSUME JInv, Next
  PROVE  UNCHANGED record \/ \E t \in Task : Progress(t)
<1>1. ASSUME NEW c \in Call,
             \/ BeginCall(c) \/ WriteFails(c) \/ MarkRunningFails(c)
             \/ RefusedChildExits(c)
      PROVE  UNCHANGED record
  BY <1>1, RefusedChildFacts DEF BeginCall, BeginDispatch, BeginResume,
     BeginReview, WriteFails, MarkRunningFails, disk
<1>2. ASSUME NEW c \in Call, Step(c), record' # record
      PROVE  \E t \in Task : Progress(t)
  <2>1. Progress(call[c].task)
    BY <1>2, StepProgress
  <2>2. call[c].task \in Task
    BY <1>2, StepUnderWay, TaskOfCall DEF JInv
  <2> QED  BY <2>1, <2>2
<1>3. ASSUME NEW p \in Process, Crash(p) PROVE UNCHANGED record
  BY <1>3 DEF Crash, disk
<1>4. ASSUME NEW t \in Task, OrphanExit(t) PROVE UNCHANGED record
  BY <1>4 DEF OrphanExit, disk
<1> QED  BY <1>1, <1>2, <1>3, <1>4 DEF Next
-----------------------------------------------------------------------------
(* The theorems of one process, whatever dies or fails *)

\* Whatever dies and whichever writes fail, a task that waits for its review
\* has the frozen evidence of its latest worker run and a scope history: the
\* landing of a run comes after its evidence, and no later call of the same
\* process takes that evidence away (server.py, _land_state).
THEOREM AwaitingWorkIsReviewable ==
  ASSUME SingleProcess
  PROVE  Spec => []AwaitingIsReviewable
<1>1. JInv => AwaitingIsReviewable
  BY DEF JInv, DiskFits, AwaitingIsReviewable
<1> QED  BY <1>1, RecordInvariance, PTL

\* No write of one process puts back an older counter, so neither a run
\* directory nor a review file nor a resume is ever used twice (state.py).
THEOREM CountersOnlyGrow ==
  ASSUME SingleProcess
  PROVE  Spec => CountersNeverDecrease
<1> DEFINE Grows == \A t \in Task : CountersGrow(t)
<1>1. JInv /\ [Next]_vars => [Grows]_record
  <2> SUFFICES ASSUME JInv, Next, record' # record PROVE Grows
    BY DEF vars
  <2>1. PICK t \in Task : Progress(t)
    BY NextProgress
  <2>2. ASSUME NEW u \in Task PROVE CountersGrow(u)
    <3>1. CASE u = t
      BY <2>1, <3>1 DEF Progress
    <3>2. CASE u # t
      <4>1. record'[u] = record[u] /\ record[u] \in TaskRecord
        BY <2>1, <3>2 DEF Progress, JInv, IInv, TypeOK
      <4> QED  BY <4>1 DEF CountersGrow, TaskRecord
    <3> QED  BY <3>1, <3>2
  <2> QED  BY <2>2
<1>2. Spec => [][Grows]_record
  BY <1>1, RecordInvariance, PTL DEF Spec
<1> QED  BY <1>2 DEF CountersNeverDecrease, CountersGrow

\* The abstract task sees a step of the dispatcher as one of its own steps.
LEMMA ProgressIsLifecycle ==
  ASSUME IInv, NEW t \in Task, Progress(t)
  PROVE  [Lifecycle!Next]_(Lifecycle!lifecycle_vars)
<1> DEFINE state == [u \in Task |-> record[u].state]
           resumes == [u \in Task |-> record[u].resume_count]
<1>1. \A u \in Task \ { t } : state'[u] = state[u] /\ resumes'[u] = resumes[u]
  BY DEF Progress
<1>2. \A a, b : Lifecycle!IsTransitionAllowed(a, b) <=> IsTransitionAllowed(a, b)
  BY DEF IsTransitionAllowed, AllowedTransitions, OffRamps,
     Lifecycle!IsTransitionAllowed, Lifecycle!AllowedTransitions,
     Lifecycle!OffRamps
<1>3. CASE /\ record'[t].state = record[t].state
           /\ record'[t].resume_count = record[t].resume_count
  <2>1. state' = state /\ resumes' = resumes
    BY <1>1, <1>3
  <2> QED  BY <2>1 DEF Lifecycle!lifecycle_vars
<1>4. ASSUME record[t].state = "absent",
             record'[t].state = "CREATED",
             record'[t].resume_count = record[t].resume_count
      PROVE  Lifecycle!Create(t)
  <2>1. state' = [state EXCEPT ![t] = "CREATED"] /\ resumes' = resumes
    BY <1>1, <1>4
  <2> QED  BY <1>4, <2>1 DEF Lifecycle!Create
<1>5. ASSUME NEW target \in TaskState, target = record'[t].state,
             record[t].state # "absent",
             IsTransitionAllowed(record[t].state, target),
             ~ (record[t].state = "RESUME_REQUESTED" /\ target = "RUNNING"),
             record'[t].resume_count = record[t].resume_count
      PROVE  Lifecycle!Move(t, target)
  <2>1. /\ state' = [state EXCEPT ![t] = target]
        /\ resumes' = resumes
    BY <1>1, <1>5
  <2> QED  BY <1>2, <1>5, <2>1 DEF Lifecycle!Move
<1>6. ASSUME record[t].state = "RESUME_REQUESTED",
             record'[t].state = "RUNNING",
             record[t].resume_count < MaxResumeCount,
             record'[t].resume_count = record[t].resume_count + 1
      PROVE  Lifecycle!StartResumedWorker(t)
  <2>1. /\ state' = [state EXCEPT ![t] = "RUNNING"]
        /\ resumes' = [resumes EXCEPT ![t] = @ + 1]
    BY <1>1, <1>6
  <2> QED  BY <1>6, <2>1 DEF Lifecycle!StartResumedWorker
<1>7. Lifecycle!TaskState = TaskState
  BY DEF TaskState, Lifecycle!TaskState
<1>8. Lifecycle!Create(t) => Lifecycle!Next
  BY DEF Lifecycle!Next
<1>9. \A target \in TaskState : Lifecycle!Move(t, target) => Lifecycle!Next
  BY <1>7 DEF Lifecycle!Next
<1>10. Lifecycle!StartResumedWorker(t) => Lifecycle!Next
  BY DEF Lifecycle!Next
<1>11. CASE record[t].state = "absent" /\ record'[t].state = "CREATED"
            /\ record'[t].resume_count = record[t].resume_count
  BY <1>4, <1>8, <1>11
<1>12. CASE /\ record[t].state # "absent"
            /\ record'[t].state \in TaskState
            /\ IsTransitionAllowed(record[t].state, record'[t].state)
            /\ ~ (record[t].state = "RESUME_REQUESTED" /\ record'[t].state = "RUNNING")
            /\ record'[t].resume_count = record[t].resume_count
  <2>1. PICK target \in TaskState : target = record'[t].state
    BY <1>12
  <2> QED  BY <1>5, <1>9, <1>12, <2>1
<1>13. CASE /\ record[t].state = "RESUME_REQUESTED"
            /\ record'[t].state = "RUNNING"
            /\ record[t].resume_count < MaxResumeCount
            /\ record'[t].resume_count = record[t].resume_count + 1
  BY <1>6, <1>10, <1>13
<1> QED  BY <1>3, <1>11, <1>12, <1>13 DEF Progress, LifecycleMove

\* The dispatcher of one process implements the lifecycle of models.py:
\* through refusals, failures, crashes and the failure record of a review,
\* saved without the lock, a task moves along the table only, and a resumed
\* worker is counted each time and never past the cap.
THEOREM DispatcherImplementsLifecycle ==
  ASSUME SingleProcess
  PROVE  Spec => ImplementsLifecycle
<1>1. Init => Lifecycle!Init
  BY DEF Init, NoRecord, Lifecycle!Init
<1>2. JInv /\ [Next]_vars => [Lifecycle!Next]_(Lifecycle!lifecycle_vars)
  <2> SUFFICES ASSUME JInv, [Next]_vars
               PROVE  [Lifecycle!Next]_(Lifecycle!lifecycle_vars)
    OBVIOUS
  <2>1. CASE UNCHANGED record
    BY <2>1 DEF Lifecycle!lifecycle_vars
  <2>2. CASE record' # record
    <3>1. \E t \in Task : Progress(t)
      BY <2>2, NextProgress DEF vars
    <3> QED  BY <3>1, ProgressIsLifecycle DEF JInv
  <2> QED  BY <2>1, <2>2
<1> QED  BY <1>1, <1>2, RecordInvariance, PTL
         DEF Spec, ImplementsLifecycle, Lifecycle!Spec
-----------------------------------------------------------------------------
(* The run log *)

\* Away from its count, a step that leaves runs and counts alone leaves the
\* log of every task fitting.
LEMMA LogFrame ==
  ASSUME JInv, \A t \in Task : LogFits(t), NEW c \in Call,
         \A d \in Call \ { c } : call'[d] = call[d],
         call[c].pc # "count", call'[c].pc # "count",
         UNCHANGED runs,
         \A t \in Task : record'[t].run_count = record[t].run_count
  PROVE  \A t \in Task : LogFits(t)'
BY DEF LogFits

\* While a call is between lock and release, no other call on its task is.
LEMMA OneAtATime ==
  ASSUME JInv, NEW c \in Call, NEW d \in Call, call[c].task = call[d].task,
         call[c].pc \in LockedPC, call[d].pc \in LockedPC
  PROVE  c = d
BY DEF JInv, IInv, LockDiscipline, Repo

\* The run a call writes extends the log by the one index it then counts.
LEMMA WriteRunLog ==
  ASSUME JInv, \A t \in Task : LogFits(t), NEW c \in Call, NEW kind,
         call[c].pc \in { "measure", "freeze", "record_run" }, WriteRun(c, kind),
         kind # "none"
  PROVE  /\ \A t \in Task : LogFits(t)'
         /\ \A t \in Task, i \in RunIndex :
              runs[t][i] # "none" => runs'[t][i] = runs[t][i]
<1>1. PICK t \in Task : t = call[c].task
  BY TaskOfCall DEF JInv
<1>2. PICK i \in RunIndex : i = call[c].run_index /\ i = record[t].run_count + 1
  BY <1>1 DEF JInv, Fits, PlanFits, Now
<1>3. RunWritten(c, t, i, kind)
  BY <1>1, <1>2, WriteRunFacts DEF JInv
<1>4. record[t].run_count \in Nat /\ RunIndex \subseteq Nat
  BY DEF JInv, IInv, TypeOK, TaskRecord, RunIndex
<1>5. \A d \in Call : ~ (call[d].task = t /\ call[d].pc = "count")
  <2>1. call[c].pc \in LockedPC /\ "count" \in LockedPC
    BY DEF LockedPC
  <2> QED  BY <1>1, <2>1, OneAtATime
<1>6. runs[t][i] = "none"
  BY <1>2, <1>4, <1>5 DEF LogFits
<1>7. LogFits(t)'
  <2>1. \A j \in RunIndex : runs[t][j] # "none" <=> j <= record[t].run_count
    BY <1>5 DEF LogFits
  <2>2. \A j \in RunIndex : runs'[t][j] # "none" <=>
          j <= record[t].run_count \/ j = i
    BY <1>2, <1>3, <2>1 DEF RunWritten
  <2>3. \A d \in Call : call'[d].task = t /\ call'[d].pc = "count" => d = c
    BY <1>3, <1>5 DEF RunWritten, SameRest
  <2>4. call'[c].task = t /\ call'[c].pc = "count" /\ call'[c].run_index = i
    BY <1>1, <1>2, <1>3 DEF RunWritten, SameRest
  <2>5. record' = record
    BY <1>3 DEF RunWritten
  <2> QED  BY <2>2, <2>3, <2>4, <2>5 DEF LogFits
<1>8. ASSUME NEW u \in Task \ { t } PROVE LogFits(u)'
  <2>1. runs'[u] = runs[u] /\ record' = record
    BY <1>3 DEF RunWritten
  <2>2. \A d \in Call : call'[d].task = u <=> call[d].task = u
    BY <1>3 DEF RunWritten, SameRest
  <2>3. \A d \in Call : call[d].task = u => call'[d] = call[d]
    BY <1>1, <1>3 DEF RunWritten, SameRest
  <2> QED  BY <2>1, <2>2, <2>3 DEF LogFits
<1>9. ASSUME NEW u \in Task, NEW j \in RunIndex, runs[u][j] # "none"
      PROVE  runs'[u][j] = runs[u][j]
  BY <1>3, <1>6, <1>9 DEF RunWritten
<1> QED  BY <1>7, <1>8, <1>9

LEMMA CountRunLog ==
  ASSUME JInv, \A t \in Task : LogFits(t), NEW c \in Call, CountRun(c)
  PROVE  \A t \in Task : LogFits(t)'
<1>1. PICK t \in Task : t = call[c].task
  BY TaskOfCall DEF CountRun, At, JInv
<1>2. PICK held \in [Task -> TaskRecord] : held = record
  BY DEF JInv, IInv, TypeOK
<1>3. PICK i \in RunIndex : i = call[c].run_index /\ i = held[t].run_count + 1
  BY <1>1, <1>2 DEF CountRun, At, JInv, Fits, PlanFits, Now
<1>4. held[t].run_count \in Nat /\ RunIndex = 1 .. MaxRuns
  BY <1>2 DEF TaskRecord, RunIndex
<1>5. record' = [held EXCEPT ![t].run_count = IF @ < i THEN i ELSE @]
  BY <1>1, <1>2, <1>3, Zenon DEF CountRun
<1>6. /\ record'[t].run_count = i
      /\ \A u \in Task \ { t } : record'[u] = record[u]
  BY <1>2, <1>3, <1>4, <1>5 DEF TaskRecord
<1>7. runs' = runs /\ call[c].pc = "count"
  BY DEF CountRun, At
<1>8. SameRest(c) /\ call'[c].pc # "count"
  <2>1. call'[c].pc = CASE runs[t][i] = "bare"   -> "mismatch"
                        [] runs[t][i] = "review" -> "parse"
                        [] OTHER                 -> "land"
    BY <1>1, <1>2, <1>3, GotoRest DEF CountRun, JInv
  <2> QED  BY <2>1, GotoRest DEF CountRun, JInv
<1>9. \A d \in Call : call[d].task = t /\ call[d].pc = "count" => d = c
  <2>1. "count" \in LockedPC
    BY DEF LockedPC
  <2> QED  BY <1>1, <1>7, <2>1, OneAtATime
<1>10. LogFits(t)'
  <2>1. \A j \in RunIndex : runs[t][j] # "none" <=> j <= held[t].run_count \/ j = i
    <3>1. \A j \in RunIndex :
            (\E d \in Call : /\ call[d].task = t
                            /\ call[d].pc = "count"
                            /\ call[d].run_index = j) <=> j = i
      BY <1>1, <1>3, <1>7, <1>9
    <3> QED  BY <1>2, <3>1 DEF LogFits
  <2>2. \A j \in RunIndex : j <= held[t].run_count \/ j = i <=> j <= i
    BY <1>3, <1>4
  <2>3. \A d \in Call : ~ (call'[d].task = t /\ call'[d].pc = "count")
    BY <1>8, <1>9 DEF SameRest
  <2>4. i \in 0 .. MaxRuns
    BY <1>4
  <2> QED  BY <1>6, <1>7, <2>1, <2>2, <2>3, <2>4 DEF LogFits
<1>11. ASSUME NEW u \in Task \ { t } PROVE LogFits(u)'
  <2>1. \A d \in Call : call'[d].task = u <=> call[d].task = u
    BY <1>8 DEF SameRest
  <2>2. \A d \in Call : call[d].task = u => call'[d] = call[d]
    BY <1>1, <1>8 DEF SameRest
  <2> QED  BY <1>6, <1>7, <2>1, <2>2 DEF LogFits
<1> QED  BY <1>10, <1>11

LEMMA StepLog ==
  ASSUME JInv, \A t \in Task : LogFits(t), NEW c \in Call, Step(c)
  PROVE  /\ \A t \in Task : LogFits(t)'
         /\ \A t \in Task, i \in RunIndex :
              runs[t][i] # "none" => runs'[t][i] = runs[t][i]
<1>1. ASSUME NEW d \in Call, CountRun(d)
      PROVE  (\A t \in Task : LogFits(t)') /\ UNCHANGED runs
  BY <1>1, CountRunLog DEF CountRun
<1>2. CASE WorktreeAuthorityMoved(c) \/ WriteWorkerRun(c) \/ WriteReviewRun(c)
  <2>1. PICK kind \in { "bare", "implementer", "review" } : WriteRun(c, kind)
    BY <1>2 DEF WorktreeAuthorityMoved, WriteWorkerRun, WriteReviewRun
  <2>2. call[c].pc \in { "measure", "freeze", "record_run" }
    BY <1>2 DEF WorktreeAuthorityMoved, WriteWorkerRun, WriteReviewRun, At
  <2> QED  BY <2>1, <2>2, WriteRunLog
<1>3. CASE CountRun(c)
  BY <1>1, <1>3
<1>4. CASE /\ call[c].pc # "count"
           /\ call'[c].pc # "count"
           /\ UNCHANGED runs
  <2>1. \A d \in Call \ { c } : call'[d] = call[d]
    BY StepMovesOneCall DEF CallMoves, JInv
  <2>2. \/ \E d \in Call : CountRun(d)
        \/ \A t \in Task : record'[t].run_count = record[t].run_count
    BY StepProgress DEF Progress
  <2>3. ASSUME \A t \in Task : record'[t].run_count = record[t].run_count
        PROVE  \A t \in Task : LogFits(t)'
    BY <1>4, <2>1, <2>3, LogFrame
  <2> QED  BY <1>1, <1>4, <2>2, <2>3
<1>5. /\ call \in [Call -> ToolCall]
      /\ "idle" # "count"
  BY DEF JInv, IInv, TypeOK
<1>6. ASSUME Fail(c) PROVE call'[c].pc # "count"
  BY <1>5, <1>6 DEF Fail, Return, Idle
<1>7. CASE PrepareRefused(c) \/ LaunchRefused(c)
           \/ ScopeHistoryCorrupt(c) \/ MeasurementFailed(c)
           \/ MismatchRaised(c) \/ LandRefused(c)
  BY <1>4, <1>6, <1>7 DEF PrepareRefused, LaunchRefused, ScopeHistoryCorrupt,
     MeasurementFailed, MismatchRaised, LandRefused, At
<1>8. CASE ReserveDispatch(c) \/ CreateRecord(c) \/ Route(c)
           \/ SaveWorktree(c) \/ AnchorTask(c) \/ LockResume(c)
           \/ ResumeBusy(c) \/ RecordGitRow(c) \/ ReserveResume(c)
           \/ SpawnChild(c) \/ MarkRunning(c) \/ MarkRunningRefused(c)
  <2>1. call[c].pc # "count" /\ UNCHANGED runs
    BY <1>8 DEF ReserveDispatch, CreateRecord, Route, SaveWorktree, AnchorTask,
       LockResume, ResumeBusy, RecordGitRow, ReserveResume, SpawnChild,
       MarkRunning, MarkRunningRefused, At, disk
  <2>2. call'[c].pc # "count"
    BY <1>5, <1>8 DEF ReserveDispatch, CreateRecord, Route, SaveWorktree,
       AnchorTask, LockResume, ResumeBusy, RecordGitRow, ReserveResume,
       SpawnChild, MarkRunning, MarkRunningRefused, Goto, GotoIn, Return, Idle,
       ToolCall
  <2> QED  BY <1>4, <2>1, <2>2
<1>9. CASE WorkerExit(c) \/ CheckScopeHistory(c) \/ WriteScopeVerdicts(c)
           \/ (\E target \in OffRamps : LandOffRamp(c, target))
           \/ LandImplemented(c) \/ AwaitReview(c)
  <2>1. call[c].pc # "count" /\ UNCHANGED runs
    BY <1>9 DEF WorkerExit, CheckScopeHistory, WriteScopeVerdicts, LandOffRamp,
       LandImplemented, AwaitReview, At, disk
  <2>2. call'[c].pc # "count"
    BY <1>5, <1>9 DEF WorkerExit, CheckScopeHistory, WriteScopeVerdicts,
       LandOffRamp, LandImplemented, AwaitReview, Goto, GotoIn, Return, Idle,
       ToolCall
  <2> QED  BY <1>4, <2>1, <2>2
<1>10. CASE LockReview(c) \/ LockReviewRefused(c) \/ ReserveReview(c)
            \/ ReviewUnusable(c) \/ AppendReview(c) \/ MarkReviewed(c)
            \/ MarkReviewedRefused(c) \/ LoadForFailure(c) \/ SaveFailure(c)
  <2>1. call[c].pc # "count" /\ UNCHANGED runs
    BY <1>10 DEF LockReview, LockReviewRefused, ReserveReview, ReviewUnusable,
       AppendReview, MarkReviewed, MarkReviewedRefused, LoadForFailure,
       SaveFailure, At, disk
  <2>2. call'[c].pc # "count"
    BY <1>5, <1>10 DEF LockReview, LockReviewRefused, ReserveReview,
       ReviewUnusable, AppendReview, MarkReviewed, MarkReviewedRefused,
       LoadForFailure, SaveFailure, Goto, GotoIn, Return, Idle, ToolCall
  <2> QED  BY <1>4, <2>1, <2>2
<1> QED  BY <1>2, <1>3, <1>7, <1>8, <1>9, <1>10 DEF Step
-----------------------------------------------------------------------------
(* The owner of a running task *)

UnderWay == { "RUNNING", "IMPLEMENTED" }

\* After its step, a call owns its task, the task is not under way, or the
\* call was not its owner before and has left the records alone.
KeepsOwner(c) ==
  \/ record'[call[c].task].state \notin UnderWay
  \/ /\ call'[c].pc \in LockedPC
     /\ call'[c].task = call[c].task
     /\ call'[c].phase \in { "EXECUTE", "FINALIZE" }
  \/ /\ UNCHANGED record
     /\ ~ (call[c].pc \in LockedPC /\ WorkerProven(c))

LEMMA OwnersKept ==
  ASSUME JInv, RunningIsOwned, IInv', NEW c \in Call,
         \A d \in Call \ { c } : call'[d] = call[d],
         UNCHANGED record \/ Progress(call[c].task), KeepsOwner(c)
  PROVE  RunningIsOwned'
<1> SUFFICES ASSUME NEW t \in Task, record'[t].state \in UnderWay
             PROVE  \E d \in Call : /\ call'[d].task = t
                                    /\ lock'[RepositoryOf[t]] = d
                                    /\ call'[d].phase \in { "EXECUTE", "FINALIZE" }
  BY DEF RunningIsOwned, WorkerProven, UnderWay
<1>1. \A d \in Call : call'[d].pc \in LockedPC =>
        lock'[RepositoryOf[call'[d].task]] = d
  BY DEF IInv, LockDiscipline, Repo
<1>2. ASSUME NEW d \in Call, d # c, call[d].task = t,
             lock[RepositoryOf[t]] = d, WorkerProven(d)
      PROVE  /\ call'[d].task = t
             /\ lock'[RepositoryOf[t]] = d
             /\ call'[d].phase \in { "EXECUTE", "FINALIZE" }
  <2>1. d # None /\ RepositoryOf[t] \in Repository
    BY ConstantsAssumption DEF ConstantsAssumption
  <2>2. call[d].pc \in LockedPC
    BY <1>2, <2>1 DEF JInv, IInv, LockDiscipline
  <2> QED  BY <1>1, <1>2, <2>2 DEF WorkerProven
<1>3. CASE call'[c].pc \in LockedPC /\ call'[c].task = t
           /\ call'[c].phase \in { "EXECUTE", "FINALIZE" }
  BY <1>1, <1>3
<1>4. ASSUME record[t].state \in UnderWay,
             \A d \in Call : /\ call[d].task = t
                             /\ lock[RepositoryOf[t]] = d
                             /\ WorkerProven(d)
                             => d # c
      PROVE  \E d \in Call : /\ call'[d].task = t
                             /\ lock'[RepositoryOf[t]] = d
                             /\ call'[d].phase \in { "EXECUTE", "FINALIZE" }
  <2>1. PICK d \in Call : /\ call[d].task = t
                          /\ lock[RepositoryOf[t]] = d
                          /\ WorkerProven(d)
    BY <1>4 DEF RunningIsOwned, UnderWay
  <2> QED  BY <1>2, <1>4, <2>1
<1>5. CASE call[c].task # t
  <2>1. record[t].state \in UnderWay
    BY <1>5 DEF Progress
  <2> QED  BY <1>4, <1>5, <2>1
<1>6. CASE call[c].task = t
  <2>1. CASE /\ UNCHANGED record
             /\ ~ (call[c].pc \in LockedPC /\ WorkerProven(c))
    <3>1. lock[RepositoryOf[t]] = c => call[c].pc \in LockedPC
      BY ConstantsAssumption
         DEF ConstantsAssumption, JInv, IInv, LockDiscipline
    <3> QED  BY <1>4, <2>1, <3>1
  <2> QED  BY <1>3, <1>6, <2>1 DEF KeepsOwner
<1> QED  BY <1>5, <1>6

\* A worker's call that fails once its child existed lands its task.
LEMMA FailLands ==
  ASSUME JInv, NEW c \in Call, Fail(c),
         call[c].pc \in { "collect", "measure", "freeze", "mismatch", "land" }
  PROVE  record'[call[c].task].state = "FAILED"
<1>1. PICK t \in Task : t = call[c].task
  BY TaskOfCall DEF JInv
<1>2. IInv /\ Fits(c) /\ call[c].tool \in Tool
  BY DEF JInv, IInv, TypeOK, ToolCall
<1>3. call[c].tool # "review" /\ WorkerProven(c)
  BY <1>2 DEF Fits, ToolFits, FinalizePC, WorkerProven
<1>4. record[t].state \in { "ROUTED", "RESUME_REQUESTED", "RUNNING" }
  BY <1>1, <1>2, <1>3 DEF Tool, Fits, StateFits, Now
<1>5. SetState(t, "FAILED")
  BY <1>1, <1>3, <1>4 DEF Fail, RecordFailure, InFlight
<1>6. Recorded(t, "FAILED")
  BY <1>2, <1>5, SetStateRecords
<1> QED  BY <1>1, <1>6 DEF Recorded

\* A landing is refused before the first of its two writes only.
LEMMA LandRefusedEarly ==
  ASSUME JInv, NEW c \in Call, LandRefused(c)
  PROVE  call[c].pc = "land"
<1>1. CASE call[c].pc = "await"
  <2>1. record[call[c].task].state = "IMPLEMENTED"
    BY <1>1 DEF JInv, Fits, StateFits, Now
  <2> QED  BY <1>1, <2>1, Table DEF LandRefused, At, CanMove
<1> QED  BY <1>1 DEF LandRefused, At

LEMMA StepOwners ==
  ASSUME JInv, NEW c \in Call, Step(c)
  PROVE  KeepsOwner(c)
<1>1. PICK t \in Task : t = call[c].task
  BY StepUnderWay, TaskOfCall DEF JInv
<1>2. /\ IInv
      /\ Fits(c)
      /\ record[t] \in TaskRecord
      /\ call[c].tool \in Tool
      /\ call[c].phase \in ExecutionPhase
  BY DEF JInv, IInv, TypeOK, ToolCall
<1>3. CASE ReserveDispatch(c) \/ LockResume(c) \/ ResumeBusy(c)
           \/ RecordGitRow(c) \/ LockReview(c) \/ LockReviewRefused(c)
           \/ ReserveReview(c) \/ SpawnChild(c) \/ LoadForFailure(c)
           \/ SaveFailure(c)
  <2>1. UNCHANGED record
    BY <1>3, QuietRecords, SaveFailureIsQuiet
  <2>2. call[c].pc \in { "prepare", "planned", "checked", "launch", "unlocked",
                         "save_failure" }
    BY <1>3 DEF ReserveDispatch, LockResume, ResumeBusy, RecordGitRow, LockReview,
       LockReviewRefused, ReserveReview, SpawnChild, LoadForFailure, SaveFailure, At
  <2>3. ~ (call[c].pc \in LockedPC /\ WorkerProven(c))
    BY <1>2, <2>2 DEF WorkerProven, Fits, ToolFits, LockedPC, FinalizePC
  <2> QED  BY <2>1, <2>3 DEF KeepsOwner
<1>4. CASE PrepareRefused(c) \/ LaunchRefused(c)
  <2>1. /\ Fail(c)
        /\ call[c].pc \in { "prepare", "git_listed", "launch" }
    BY <1>4 DEF PrepareRefused, LaunchRefused, At
  <2>2. ~ WorkerProven(c)
    BY <1>2, <2>1 DEF WorkerProven, Fits, ToolFits, FinalizePC
  <2> QED  BY <2>1, <2>2 DEF KeepsOwner, Fail, RecordFailure
<1>5. CASE MarkRunningRefused(c) \/ ScopeHistoryCorrupt(c)
           \/ MeasurementFailed(c) \/ MismatchRaised(c) \/ LandRefused(c)
  <2>1. /\ Fail(c)
        /\ call[c].pc \in { "collect", "measure", "freeze", "mismatch", "land" }
    BY <1>5, NeverRefused, LandRefusedEarly DEF ScopeHistoryCorrupt,
       MeasurementFailed, MismatchRaised, LandRefused, At
  <2>2. record'[call[c].task].state = "FAILED"
    BY <2>1, FailLands
  <2> QED  BY <2>2 DEF KeepsOwner, UnderWay
<1>6. ASSUME NEW target, target \notin UnderWay, Recorded(t, target)
      PROVE  KeepsOwner(c)
  BY <1>1, <1>6 DEF Recorded, KeepsOwner
<1>7. CASE CreateRecord(c) \/ ReserveResume(c) \/ AwaitReview(c)
           \/ MarkReviewed(c)
           \/ \E target \in OffRamps : LandOffRamp(c, target)
  <2>1. PICK target \in { "CREATED", "RESUME_REQUESTED", "AWAITING_SOL_REVIEW",
                          "FABLE_REVIEWED" } \cup OffRamps :
          SetState(t, target)
    BY <1>1, <1>7 DEF CreateRecord, ReserveResume, AwaitReview, MarkReviewed,
       LandOffRamp, SetState
  <2>2. Recorded(t, target) /\ target \notin UnderWay
    BY <1>2, <2>1, SetStateRecords DEF UnderWay, OffRamps
  <2> QED  BY <1>6, <2>2
<1>8. CASE Route(c)
  <2>1. record' = [record EXCEPT ![t].state = "ROUTED",
                                 ![t].known = @ \cup { "selected_model" }]
    BY <1>1, <1>8, Zenon DEF Route
  <2>2. Recorded(t, "ROUTED")
    BY <1>2, <2>1, MoveAndLearnRecords, Zenon
  <2> QED  BY <1>6, <2>2 DEF UnderWay
<1>9. CASE SaveWorktree(c) \/ AnchorTask(c)
  <2>1. Recorded(t, record[t].state)
    BY <1>1, <1>2, <1>9, LearnRecords DEF SaveWorktree, AnchorTask
  <2>2. record[t].state = "ROUTED"
    BY <1>1, <1>2, <1>9 DEF SaveWorktree, AnchorTask, At, Fits, ToolFits,
       StateFits, Now
  <2> QED  BY <1>6, <2>1, <2>2 DEF UnderWay
<1>10. CASE AppendReview(c) \/ ReviewUnusable(c) \/ MarkReviewedRefused(c)
  <2>1. record[t].state = "AWAITING_SOL_REVIEW"
    BY <1>1, <1>2, <1>10 DEF AppendReview, ReviewUnusable, MarkReviewedRefused,
       At, Fits, ToolFits, StateFits, Now
  <2>2. record'[t].state = record[t].state
    <3>1. PICK held \in [Task -> TaskRecord] : held = record
      BY <1>2 DEF IInv, TypeOK
    <3>2. CASE AppendReview(c)
      <4>1. record' = [held EXCEPT ![t].fable_review_count = @ + 1]
        BY <1>1, <3>1, <3>2 DEF AppendReview
      <4> QED  BY <3>1, <4>1 DEF TaskRecord
    <3>3. CASE ReviewUnusable(c) \/ MarkReviewedRefused(c)
      BY <3>3 DEF ReviewUnusable, MarkReviewedRefused, disk
    <3> QED  BY <1>10, <3>2, <3>3
  <2> QED  BY <1>1, <2>1, <2>2 DEF KeepsOwner, UnderWay
<1>11. ASSUME NEW pc \in LockedPC, Goto(c, pc),
              call[c].phase \in { "EXECUTE", "FINALIZE" }
       PROVE  KeepsOwner(c)
  BY <1>2, <1>11, GotoRest DEF SameRest, KeepsOwner
<1>12. CASE MarkRunning(c) \/ CheckScopeHistory(c)
            \/ WorktreeAuthorityMoved(c) \/ WriteScopeVerdicts(c)
            \/ WriteWorkerRun(c) \/ WriteReviewRun(c) \/ CountRun(c)
            \/ LandImplemented(c)
  <2>1. call[c].phase \in { "EXECUTE", "FINALIZE" }
    BY <1>2, <1>12 DEF MarkRunning, CheckScopeHistory, WorktreeAuthorityMoved,
       WriteScopeVerdicts, WriteWorkerRun, WriteReviewRun, CountRun,
       LandImplemented, At, Fits, ToolFits, FinalizePC
  <2>2. CASE CountRun(c)
    <3>1. PICK pc \in { "mismatch", "parse", "land" } : Goto(c, pc)
      BY <2>2 DEF CountRun
    <3> QED  BY <1>11, <2>1, <3>1 DEF LockedPC
  <2>3. CASE ~ CountRun(c)
    <3>1. PICK pc \in { "running", "measure", "count", "freeze", "await" } :
            Goto(c, pc)
      BY <1>12, <2>3 DEF MarkRunning, CheckScopeHistory, WorktreeAuthorityMoved,
         WriteScopeVerdicts, WriteWorkerRun, WriteReviewRun, WriteRun,
         LandImplemented
    <3> QED  BY <1>11, <2>1, <3>1 DEF LockedPC
  <2> QED  BY <2>2, <2>3
<1>13. CASE WorkerExit(c)
  <2>1. PICK pc \in { "collect", "record_run" } : GotoIn(c, pc, "FINALIZE")
    BY <1>13 DEF WorkerExit
  <2> QED  BY <1>2, <2>1, GotoInRest DEF SameRest, KeepsOwner, LockedPC
<1> QED  BY <1>3, <1>4, <1>5, <1>7, <1>8, <1>9, <1>10, <1>12, <1>13 DEF Step
-----------------------------------------------------------------------------
(* Where nothing dies and no write fails *)

LEMMA BeginQuiet ==
  ASSUME JInv, NEW c \in Call, BeginCall(c)
  PROVE  /\ UNCHANGED << record, runs >>
         /\ \A d \in Call \ { c } : call'[d] = call[d]
         /\ call[c].pc = "idle"
         /\ call'[c].pc # "count"
<1>1. call \in [Call -> ToolCall]
  BY DEF JInv, IInv, TypeOK
<1> QED  BY <1>1 DEF BeginCall, BeginDispatch, BeginResume, BeginReview, At,
         Idle, disk

LEMMA QuietNext ==
  ASSUME SingleProcess, Faults = {}
  PROVE  QuietInv /\ [Next]_vars => QuietInv'
<1> SUFFICES ASSUME QuietInv, [Next]_vars PROVE QuietInv'
  OBVIOUS
<1>1. IInv' /\ JInv'
  BY NextPreserves, NextFits DEF QuietInv, JInv
<1>2. ASSUME NEW c \in Call, BeginCall(c)
      PROVE  (\A t \in Task : LogFits(t)') /\ RunningIsOwned'
  <2>1. /\ UNCHANGED << record, runs >>
        /\ \A d \in Call \ { c } : call'[d] = call[d]
        /\ call[c].pc = "idle"
        /\ call'[c].pc # "count"
    BY <1>2, BeginQuiet DEF QuietInv
  <2>2. KeepsOwner(c)
    BY <2>1 DEF KeepsOwner, LockedPC
  <2> QED  BY <1>1, <2>1, <2>2, LogFrame, OwnersKept DEF QuietInv
<1>3. ASSUME NEW c \in Call, Step(c)
      PROVE  (\A t \in Task : LogFits(t)') /\ RunningIsOwned'
  <2>1. \A d \in Call \ { c } : call'[d] = call[d]
    BY <1>3, StepMovesOneCall DEF CallMoves, QuietInv, JInv
  <2>2. KeepsOwner(c)
    BY <1>3, StepOwners DEF QuietInv
  <2>3. UNCHANGED record \/ Progress(call[c].task)
    BY <1>3, StepProgress DEF QuietInv
  <2>4. RunningIsOwned'
    BY <1>1, <2>1, <2>2, <2>3, OwnersKept DEF QuietInv
  <2>5. \A t \in Task : LogFits(t)'
    BY <1>3, StepLog DEF QuietInv
  <2> QED  BY <2>4, <2>5
<1>4. CASE UNCHANGED << record, runs, call, lock >>
  BY <1>1, <1>4 DEF QuietInv, LogFits, RunningIsOwned, WorkerProven
<1>5. ASSUME NEW t \in Task, OrphanExit(t) PROVE QuietInv'
  BY <1>4, <1>5 DEF OrphanExit, disk
<1>6. CASE UNCHANGED vars
  BY <1>4, <1>6 DEF vars
<1> QED  BY <1>1, <1>2, <1>3, <1>5, <1>6, RefusedChildFacts
         DEF Next, Crash, WriteFails, MarkRunningFails, QuietInv

LEMMA QuietInvariance ==
  ASSUME SingleProcess, Faults = {}
  PROVE  Spec => []QuietInv
<1>1. Init => QuietInv
  <2> SUFFICES ASSUME Init PROVE QuietInv
    OBVIOUS
  <2>1. MaxRuns \in Nat
    BY ConstantsAssumption DEF ConstantsAssumption
  <2>2. ASSUME NEW t \in Task PROVE LogFits(t)
    <3>1. record[t] = NoRecord /\ \A i \in RunIndex : runs[t][i] = "none"
      BY DEF Init
    <3>2. \A c \in Call : call[c].pc # "count"
      BY DEF Init, Idle
    <3> QED  BY <2>1, <3>1, <3>2 DEF LogFits, NoRecord, RunIndex
  <2>3. RunningIsOwned
    BY DEF Init, NoRecord, RunningIsOwned
  <2> QED  BY <2>2, <2>3, JInvHolds DEF QuietInv
<1>2. QuietInv /\ [Next]_vars => QuietInv'
  BY QuietNext
<1> QED  BY <1>1, <1>2, PTL DEF Spec

\* The run log of a task is the runs up to its count, without a gap, and the
\* one run a call has written and is about to count: what append_run's order
\* of writes promises (state.py).
THEOREM RunLogHasNoGap ==
  ASSUME SingleProcess, Faults = {}
  PROVE  Spec => []RunLogIsContiguous
<1>1. QuietInv => RunLogIsContiguous
  <2> SUFFICES ASSUME QuietInv, NEW t \in Task
               PROVE  { i \in RunIndex : runs[t][i] # "none" } =
                        1 .. record[t].run_count \cup
                        { call[c].run_index : c \in { d \in Call :
                            call[d].task = t /\ call[d].pc = "count" } }
    BY DEF RunLogIsContiguous
  <2>1. LogFits(t) /\ MaxRuns \in Nat
    BY ConstantsAssumption DEF QuietInv, ConstantsAssumption
  <2>2. 1 .. record[t].run_count =
          { i \in RunIndex : i <= record[t].run_count }
    BY <2>1 DEF LogFits, RunIndex
  <2>3. \A d \in Call : call[d].pc = "count" => call[d].run_index \in RunIndex
    BY DEF QuietInv, JInv, Fits, PlanFits
  <2> QED  BY <2>1, <2>2, <2>3 DEF LogFits
<1> QED  BY <1>1, QuietInvariance, PTL

\* No task is left running with nobody to land it: it belongs to the call
\* that holds its repository and whose child was spawned (server.py, the
\* try/finally of dispatch and resume).
THEOREM RunningTasksAreOwned ==
  ASSUME SingleProcess, Faults = {}
  PROVE  Spec => []RunningIsOwned
<1>1. QuietInv => RunningIsOwned
  BY DEF QuietInv
<1> QED  BY <1>1, QuietInvariance, PTL

\* A run that was recorded is never written over by another run, of a worker
\* or of a reviewer (server.py: "a stale value would have the review
\* overwrite a worker run's evidence").
THEOREM RunRecordsStand ==
  ASSUME SingleProcess, Faults = {}
  PROVE  Spec => RunRecordsAreWriteOnce
<1> DEFINE WrittenOnce == \A t \in Task, i \in RunIndex :
                            runs[t][i] # "none" => runs'[t][i] = runs[t][i]
<1>1. QuietInv /\ [Next]_vars => [WrittenOnce]_runs
  <2> SUFFICES ASSUME QuietInv, Next, runs' # runs PROVE WrittenOnce
    BY DEF vars
  <2>1. PICK c \in Call : Step(c)
    BY BeginQuiet, RefusedChildFacts
       DEF Next, WriteFails, MarkRunningFails, Crash, OrphanExit, disk, QuietInv
  <2> QED  BY <2>1, StepLog DEF QuietInv
<1>2. Spec => [][WrittenOnce]_runs
  BY <1>1, QuietInvariance, PTL DEF Spec
<1> QED  BY <1>2 DEF RunRecordsAreWriteOnce

\* What a worker's call leaves behind when it returns from its FINALIZE.
LEMMA StepReturns ==
  ASSUME JInv, NEW c \in Call, Step(c), Implements(c),
         call[c].phase = "FINALIZE", call'[c] = Idle
  PROVE  record'[call[c].task].state \in WorkerActionable
<1>1. PICK t \in Task : t = call[c].task
  BY StepUnderWay, TaskOfCall DEF JInv
<1>2. IInv /\ Fits(c) /\ call[c].tool # "review"
  BY DEF JInv, Implements
<1>3. call[c].pc \in { "collect", "measure", "freeze", "count", "mismatch",
                       "land", "await" }
  BY <1>2 DEF Fits, ToolFits, FinalizePC
<1>4. Idle.pc = "idle"
  BY DEF Idle
<1>5. CASE Fail(c) /\ call[c].pc # "count" /\ call[c].pc # "await"
  BY <1>3, <1>5, FailLands DEF WorkerActionable, OffRamps
<1>6. ASSUME NEW target \in WorkerActionable, SetState(t, target)
      PROVE  record'[call[c].task].state \in WorkerActionable
  BY <1>1, <1>2, <1>6, SetStateRecords DEF Recorded
<1>7. ASSUME NEW pc, pc # "idle", Goto(c, pc) PROVE FALSE
  BY <1>2, <1>4, <1>7, GotoRest
<1> QED
  <2>1. CASE CheckScopeHistory(c) \/ WorktreeAuthorityMoved(c)
             \/ WriteScopeVerdicts(c) \/ WriteWorkerRun(c)
             \/ LandImplemented(c)
    BY <1>7, <2>1 DEF CheckScopeHistory, WorktreeAuthorityMoved,
       WriteScopeVerdicts, WriteWorkerRun, WriteRun, LandImplemented
  <2>2. CASE CountRun(c)
    <3>1. PICK pc \in { "mismatch", "parse", "land" } : Goto(c, pc)
      BY <2>2 DEF CountRun
    <3> QED  BY <1>7, <3>1
  <2>3. CASE ScopeHistoryCorrupt(c) \/ MeasurementFailed(c)
             \/ MismatchRaised(c) \/ LandRefused(c)
    BY <1>5, <2>3, LandRefusedEarly DEF ScopeHistoryCorrupt, MeasurementFailed,
       MismatchRaised, LandRefused, At
  <2>4. CASE AwaitReview(c) \/ \E target \in OffRamps : LandOffRamp(c, target)
    BY <1>1, <1>6, <2>4 DEF AwaitReview, LandOffRamp, WorkerActionable
  <2> QED  BY <1>3, <2>1, <2>2, <2>3, <2>4
           DEF Step, ReserveDispatch, CreateRecord, Route, SaveWorktree,
               AnchorTask, LockResume, ResumeBusy, RecordGitRow, ReserveResume,
               PrepareRefused, LaunchRefused, SpawnChild, MarkRunning,
               MarkRunningRefused, WorkerExit, LockReview, LockReviewRefused,
               ReserveReview, WriteReviewRun, ReviewUnusable, AppendReview,
               MarkReviewed, MarkReviewedRefused, LoadForFailure, SaveFailure,
               At

\* A worker's call that got as far as finalising returns on a state its
\* caller can act on: landed on an off-ramp, failed, or awaiting review
\* (waiting.py, WORKER_ACTIONABLE_STATES).
THEOREM WorkerCallsReturnActionable ==
  ASSUME SingleProcess, Faults = {}
  PROVE  Spec => ReturnsActionable
<1> DEFINE Actionable == \A c \in Call :
                           /\ Implements(c)
                           /\ call[c].phase = "FINALIZE"
                           /\ call'[c] = Idle
                           => record'[call[c].task].state \in WorkerActionable
<1>1. JInv /\ [Next]_vars => [Actionable]_vars
  <2> SUFFICES ASSUME JInv, Next,
                      NEW c \in Call, Implements(c),
                      call[c].phase = "FINALIZE", call'[c] = Idle
               PROVE  record'[call[c].task].state \in WorkerActionable
    OBVIOUS
  <2>1. /\ Idle.phase = "PREPARE"
        /\ call[c].pc \in FinalizePC
    BY DEF Idle, JInv, Fits, ToolFits
  <2>2. call'[c] # call[c]
    BY <2>1
  <2>3. PICK d \in Call : BeginCall(d) \/ Step(d)
    BY <2>2, RefusedChildFacts
       DEF Next, Crash, WriteFails, MarkRunningFails, OrphanExit
  <2>4. d = c
    BY <2>2, <2>3, StepMovesOneCall DEF CallMoves, JInv
  <2>5. Step(c)
    BY <2>1, <2>3, <2>4, BeginQuiet DEF FinalizePC
  <2> QED  BY <2>5, StepReturns
<1>2. Spec => [][Actionable]_vars
  BY <1>1, RecordInvariance, PTL DEF Spec
<1> QED  BY <1>2 DEF ReturnsActionable
=============================================================================
