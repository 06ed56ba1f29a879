---------------------------- MODULE RunEvidence ----------------------------
(***************************************************************************)
(* What the dispatcher makes of a run: _finalise_worker_run and            *)
(* _land_state (server.py) over the evidence package (attribution, scope,  *)
(* content, freeze), from the snapshot a run starts with to the state the  *)
(* task lands in and the bundle a Fable review is shown.                   *)
(*                                                                         *)
(* One task and its worktree.  Paths carry what the envelope says of them; *)
(* a path holds an object of a small set, and a snapshot of the worktree   *)
(* is a function from paths to objects.  The primary tree with its HEAD,   *)
(* the repository's administration, its authority and the four files that  *)
(* tie the worktree to it are each a value that is held or changed.        *)
(***************************************************************************)
EXTENDS Naturals, Sequences, FiniteSets, TaskStates

CONSTANTS
  Path,        \* paths of the worktree
  Allowed,     \* those the envelope allows, all of them if it names none
  Forbidden,   \* those it forbids
  Object,      \* what a path may hold
  Absent,      \* nothing
  Directory,   \* a directory
  Opaque,      \* objects no patch can show: binary, special or oversized
  FirstTree,   \* the worktree of the base commit
  Validates,   \* whether the envelope names validation commands
  MaxRuns,     \* bound: runs on the record, reviews included
  MaxEdits     \* bound: changes anyone makes, all in all

Actor == { "worker", "validation", "operator" }

\* A snapshot of the worktree.
Tree == [Path -> Object]

ASSUME EvidenceAssumption ==
  /\ Allowed \subseteq Path /\ Forbidden \subseteq Path
  /\ Absent \in Object
  /\ FirstTree \in Tree
  /\ Validates \in BOOLEAN
  /\ MaxRuns \in Nat /\ MaxEdits \in Nat

VARIABLES
  task,    \* state.json and the runs on the record
  world,   \* what processes can change: the worktree and what surrounds it
  run,     \* the run in progress: its terminals and what they showed
  files,   \* the evidence directory
  shown,   \* what the last review was shown
  truth    \* history: what was really done, whatever was measured

vars == << task, world, run, files, shown, truth >>

\* What a worker has no business with.  "link" is the worktree's own .git
\* file and gitdir.
Part == { "primary", "repository", "admin", "link" }

\* One row of a delta, and of the history.
Change == [path : Path, old : Object, new : Object]

\* build_path_identity_set: identity by identity, never by name alone.
Delta(before, after) ==
  { [path |-> p, old |-> before[p], new |-> after[p]] :
      p \in { q \in Path : before[q] # after[q] } }

PathsOf(changes) == { c.path : c \in changes }

\* decide_scope passes over the scaffolding of directories.
Material(c) == ~ ({ c.old, c.new } \subseteq { Absent, Directory })

ForbiddenHits(changes) ==
  { c.path : c \in { d \in changes : Material(d) /\ d.path \in Forbidden } }

OutsideAllowed(changes) ==
  { c.path : c \in { d \in changes : Material(d)
                       /\ d.path \notin Forbidden \cup Allowed } }

NoLedger == [present |-> FALSE, intact |-> TRUE, changes |-> {}]

NoFreeze == [taken |-> FALSE, patch |-> {}, intact |-> FALSE]

\* The evidence of one run directory: the record of its patch, what was
\* attributed to validation, and the freeze a review will verify.
NoRecord ==
  [written |-> FALSE, intact |-> TRUE, patch |-> {}, complete |-> FALSE,
   validation_only |-> {}, freeze |-> NoFreeze]

NoRun == [pc |-> "idle", index |-> 0, ended |-> "none",
          start |-> [tree |-> FirstTree, part |-> [x \in Part |-> 0]],
          exit |-> [tree |-> FirstTree, part |-> [x \in Part |-> 0]],
          post |-> FirstTree, validated |-> FALSE, in_scope |-> TRUE,
          primary |-> {}, tampered |-> {}, freeze |-> NoFreeze]

NothingShown == [run |-> 0, patch |-> {}]

NoTruth == [offences |-> {}, worker |-> [k \in 1 .. MaxRuns |-> {}],
            validation |-> {}, escapes |-> {}, edits |-> 0]

Init ==
  /\ task = [state |-> "CREATED", runs |-> << >>]
  /\ world = [tree |-> FirstTree, part |-> [x \in Part |-> 0]]
  /\ run = NoRun
  /\ files = [patch |-> {}, patch_intact |-> TRUE, sealed |-> {},
              scope |-> NoLedger, record |-> [k \in 1 .. MaxRuns |-> NoRecord]]
  /\ shown = NothingShown
  /\ truth = NoTruth
-----------------------------------------------------------------------------
(* Who changes what.  Between runs the operator may; a process a worker left *)
(* behind (WorkerProcess) is indistinguishable from validation while that  *)
(* runs.                                                                   *)

May(actor) ==
  /\ run.pc = [worker |-> "worker", validation |-> "validation",
               operator |-> "idle"][actor]
  /\ task.state # "CREATED"
  /\ truth.edits < MaxEdits
  /\ truth' = [truth EXCEPT !.edits = @ + 1]

Edit(actor, p, o) ==
  /\ May(actor)
  /\ o # world.tree[p]
  /\ world' = [world EXCEPT !.tree[p] = o]
  /\ UNCHANGED << task, run, files, shown >>

\* Changed, or put back.
Meddle(actor, x) ==
  /\ May(actor)
  /\ world' = [world EXCEPT !.part[x] = 1 - @]
  /\ UNCHANGED << task, run, files, shown >>

\* A process of the same user can write the evidence too.
Tamper(actor, k) ==
  /\ May(actor)
  /\ actor # "worker"
  /\ \/ files.patch_intact /\ files' = [files EXCEPT !.patch_intact = FALSE]
     \/ /\ files.record[k].written /\ files.record[k].intact
        /\ files' = [files EXCEPT !.record[k].intact = FALSE]
     \/ /\ files.scope.present /\ files.scope.intact
        /\ files' = [files EXCEPT !.scope.intact = FALSE]
  /\ UNCHANGED << task, run, world, shown >>
-----------------------------------------------------------------------------
(* The run begins *)

Close == /\ run' = NoRun
         /\ truth' = [truth EXCEPT !.validation = {}, !.escapes = {}]

\* prepare_dispatch: the seal keeps the content of what the worktree holds.
Dispatch ==
  /\ run.pc = "idle"
  /\ task.state = "CREATED"
  /\ MaxRuns > 0
  /\ task' = [task EXCEPT !.state = "RUNNING"]
  /\ files' = [files EXCEPT !.sealed = { world.tree[p] : p \in Path }]
  /\ run' = [NoRun EXCEPT !.pc = "worker", !.index = 1,
                          !.start = world, !.exit = world, !.post = world.tree]
  /\ UNCHANGED << world, shown, truth >>

\* prepare_resume: authority must be what was sealed and administration what
\* was approved; the primary tree may be anything.
Resume ==
  /\ run.pc = "idle"
  /\ IsTransitionAllowed(task.state, "RESUME_REQUESTED")
  /\ Len(task.runs) < MaxRuns
  /\ \A x \in { "repository", "admin", "link" } : world.part[x] = 0
  /\ task' = [task EXCEPT !.state = "RUNNING"]
  /\ run' = [NoRun EXCEPT !.pc = "worker", !.index = Len(task.runs) + 1,
                          !.start = world, !.exit = world, !.post = world.tree]
  /\ UNCHANGED << world, files, shown, truth >>

Escapes(before, after) ==
  { x \in Part : before.part[x] # after.part[x] }

\* The worker ended, was timed out, or never started.
WorkerEnds(ended) ==
  /\ run.pc = "worker"
  /\ ended = "start_failed" => world = run.start
  /\ run' = [run EXCEPT !.pc = "worker_exit", !.ended = ended]
  /\ truth' = [truth EXCEPT
       !.worker[run.index] = Delta(run.start.tree, world.tree),
       !.escapes = Escapes(run.start, world)]
  /\ UNCHANGED << task, world, files, shown >>
-----------------------------------------------------------------------------
(* The worker's terminal *)

\* Any step of the measurement may fail; the task fails and no run is counted.
Fail ==
  /\ run.pc \in { "worker_exit", "patch", "validate", "validated", "scope", "land" }
  /\ task' = [task EXCEPT !.state = "FAILED"]
  /\ Close
  /\ UNCHANGED << world, files, shown >>

\* The decoded history is what its digest was taken of, row by row.
Authentic == files.scope.intact /\ files.scope.changes \subseteq Change

\* load_prior_cumulative_worker: a damaged history is refused, never empty.
LedgerLoads == files.scope.present /\ Authentic

\* The scope history must be there from the second run on, and not before; the
\* repository must be the one the task was prepared in.
Measurable ==
  /\ run.index = 1 => ~ files.scope.present
  /\ run.index > 1 => LedgerLoads
  /\ world.part["repository"] = run.start.part["repository"]

\* A worktree that no longer hangs where it was sealed: nothing measured in it
\* means anything.  The run is recorded bare.
LinkBroken ==
  /\ run.pc = "worker_exit"
  /\ Measurable
  /\ world.part["link"] # 0
  /\ task' = [task EXCEPT !.state = "FAILED", !.runs = Append(@, "bare")]
  /\ Close
  /\ UNCHANGED << world, files, shown >>

\* Mutant of WorkerMovedPrimary: not measured after a timeout.
WorkerMovedPrimary_IfExited ==
  run.ended = "exited" /\ world.part["primary"] # run.start.part["primary"]

\* Who was seen in which interval; neither interval erases the other.
Blamed(actors, actor, moved) == IF moved THEN actors \cup { actor } ELSE actors

WorkerMovedPrimary == world.part["primary"] # run.start.part["primary"]

\* An administration that cannot be read is taken for a changed one.
WorkerMeasured(readable) ==
  /\ run.pc = "worker_exit"
  /\ Measurable
  /\ world.part["link"] = 0
  /\ run' = [run EXCEPT
       !.pc = "patch",
       !.exit = world,
       !.primary = Blamed({}, "worker", WorkerMovedPrimary),
       !.tampered = IF readable /\ world.part["admin"] = run.start.part["admin"]
                      THEN {} ELSE { "worker" }]
  /\ UNCHANGED << task, world, files, shown, truth >>

\* classify_input: a regular file or a link whose bytes are text, or nothing.
Textual(o) == o \notin Opaque \cup { Directory }

\* The old side of a change is read from the seal, which knows the contents of
\* the first start only.
OldSideFound(c) == c.old # Absent => c.old \in files.sealed

\* render_change gives a section to each change whose sides are both text.
Shows(c) == Textual(c.old) /\ Textual(c.new) /\ OldSideFound(c)

\* patch_file_complete: every change of the delta has its section.
Complete(changes) == \A c \in changes : Shows(c)

\* build_canonical_evidence: the patch is the sections there are.
Sections(changes) == { c \in changes : Shows(c) }

WorkerDelta == Delta(run.start.tree, run.exit.tree)

\* The patch is written, its record, and both are frozen.
PatchFrozen ==
  /\ run.pc = "patch"
  /\ files' = [files EXCEPT
       !.patch = Sections(WorkerDelta), !.patch_intact = TRUE,
       !.record[run.index] =
          [NoRecord EXCEPT !.written = TRUE, !.patch = Sections(WorkerDelta),
                           !.complete = Complete(WorkerDelta)]]
  /\ run' = [run EXCEPT
       !.pc = "validate",
       !.freeze = [taken |-> TRUE, patch |-> Sections(WorkerDelta), intact |-> TRUE]]
  /\ UNCHANGED << task, world, shown, truth >>
-----------------------------------------------------------------------------
(* Validation and its terminal *)

\* Nothing trusted runs over what a worker may have poisoned.
ValidationDue == Validates /\ run.ended = "exited" /\ run.tampered = {}

ValidationBegins ==
  /\ run.pc = "validate"
  /\ IF ValidationDue
       THEN run' = [run EXCEPT !.pc = "validation", !.validated = TRUE]
       ELSE run' = [run EXCEPT !.pc = "validated"]
  /\ UNCHANGED << task, world, files, shown, truth >>

ValidationEnds ==
  /\ run.pc = "validation"
  /\ run' = [run EXCEPT !.pc = "validated"]
  /\ truth' = [truth EXCEPT
       !.validation = Delta(run.exit.tree, world.tree),
       !.escapes = @ \cup (Escapes(run.exit, world) \ { "link" })]
  /\ UNCHANGED << task, world, files, shown >>

\* Mutant of FreezeHolds: only the patch is measured again.
FreezeHolds_PatchOnly(frozen, k) ==
  files.patch_intact /\ files.patch = frozen.patch

FreezeHolds(frozen, k) ==
  /\ frozen.taken /\ frozen.intact
  /\ files.patch_intact /\ files.patch = frozen.patch
  /\ files.record[k].intact

\* Adjacent terminals: validation may not put back what the worker changed.
ValidationMovedPrimary ==
  world.part["primary"] # run.exit.part["primary"]

\* Frozen files, primary tree, administration and worktree, in that order.
ValidationMeasured(readable) ==
  /\ run.pc = "validated"
  /\ world.part["repository"] = run.exit.part["repository"]
  /\ run' = [run EXCEPT
       !.pc = "scope",
       !.post = IF run.validated THEN world.tree ELSE run.exit.tree,
       !.primary = Blamed(@, "validation", ValidationMovedPrimary),
       !.tampered = @ \cup
          IF /\ FreezeHolds(run.freeze, run.index)
             /\ run.validated =>
                  readable /\ world.part["admin"] = run.exit.part["admin"]
            THEN {} ELSE { "validation" }]
  /\ UNCHANGED << task, world, files, shown, truth >>
-----------------------------------------------------------------------------
(* Attribution, scope and the record *)

ValidationDelta == Delta(run.exit.tree, run.post)

ValidationOnly ==
  { c \in ValidationDelta : c.path \notin PathsOf(WorkerDelta) }

\* Mutant of Ledger: each run is judged alone.
Ledger_ThisRun == WorkerDelta

\* decide_scope_verdicts: the latest change of each path, over all runs.
Ledger ==
  WorkerDelta \cup { c \in files.scope.changes : c.path \notin PathsOf(WorkerDelta) }

\* Mutant of Outside: validation is held to the worker's envelope.
Outside_Everyone == OutsideAllowed(Ledger \cup ValidationOnly)

\* Allowed paths bind workers; forbidden ones bind validation as well.
Outside == OutsideAllowed(WorkerDelta) \cup OutsideAllowed(Ledger)

Hits == ForbiddenHits(WorkerDelta) \cup ForbiddenHits(Ledger)
          \cup ForbiddenHits(ValidationOnly)

\* The cumulative record, the record of the run and the freeze for the review.
ScopeDecided ==
  /\ run.pc = "scope"
  /\ files' = [files EXCEPT
       !.scope = [present |-> TRUE, intact |-> TRUE, changes |-> Ledger],
       !.record[run.index] =
          [@ EXCEPT !.validation_only = PathsOf(ValidationOnly),
                    !.freeze = [taken |-> TRUE, patch |-> files.patch,
                                intact |-> files.patch_intact /\ files.record[run.index].intact]]]
  /\ run' = [run EXCEPT !.pc = "land", !.in_scope = Outside \cup Hits = {}]
  /\ truth' = [truth EXCEPT !.offences =
       @ \cup ForbiddenHits(truth.worker[run.index])
         \cup OutsideAllowed(truth.worker[run.index])]
  /\ UNCHANGED << task, world, shown >>

Status == { "IMPLEMENTED", "BLOCKED", "FAILED" }

\* What the child said of itself: the envelope of the command line tool, the
\* exit code, and what its structured_output and its result hold.
Reports ==
  [envelope : { "result", "provider_limit", "api_error", "none" },
   exit : { "zero", "nonzero" },
   structured : Status \cup { "absent", "invalid" },
   result : Status \cup { "absent", "invalid" }]

\* extract_structured_payload: the first that is there, whatever it holds.
Payload(report) ==
  IF report.structured # "absent" THEN report.structured ELSE report.result

\* parse_worker_result.
Claim(report) == IF Payload(report) \in Status THEN Payload(report) ELSE "none"

\* provider_failure: said by the tool itself, whatever its exit code.
ProviderEnded(report) ==
  run.ended = "exited" /\ report.envelope \in { "provider_limit", "api_error" }

\* cli_failure: nothing on stdout and an exit that is not zero.
ToolUnusable(report) ==
  /\ run.ended = "exited" /\ report.exit = "nonzero"
  /\ report.envelope = "none" /\ Payload(report) = "absent"

\* A result is read only from a run nothing else ended.
WorkerResult(report) ==
  IF run.ended # "exited" \/ ProviderEnded(report) \/ ToolUnusable(report)
    THEN "none" ELSE Claim(report)

Violated == ~ run.in_scope \/ run.primary # {} \/ run.tampered # {}

\* Mutant of LandingState: the exit code is not looked at.
LandingState_AnyExit(report) ==
  CASE Violated -> "POLICY_VIOLATION"
    [] ~ Violated /\ run.ended = "timed_out" -> "TIMED_OUT"
    [] ~ Violated /\ run.ended # "timed_out" ->
         [none |-> "FAILED", FAILED |-> "FAILED", BLOCKED |-> "BLOCKED",
          IMPLEMENTED |-> "AWAITING_SOL_REVIEW"][WorkerResult(report)]

\* _land_state, in its order: policy before the timeout, the timeout before the
\* provider, the provider before the result, the result before the exit code.
LandingState(report) ==
  IF Violated THEN "POLICY_VIOLATION"
  ELSE IF run.ended = "timed_out" THEN "TIMED_OUT"
  ELSE IF ProviderEnded(report) \/ WorkerResult(report) = "none" \/ report.exit # "zero"
    THEN "FAILED"
  ELSE [FAILED |-> "FAILED", BLOCKED |-> "BLOCKED",
        IMPLEMENTED |-> "AWAITING_SOL_REVIEW"][WorkerResult(report)]

Land(report) ==
  /\ run.pc = "land"
  /\ task' = [state |-> LandingState(report), runs |-> Append(task.runs, "run")]
  /\ Close
  /\ UNCHANGED << world, files, shown >>
-----------------------------------------------------------------------------
(* Review *)

Implementers == { k \in 1 .. Len(task.runs) : task.runs[k] # "review" }

\* The latest worker run, bare ones included.
Selected(k) == k \in Implementers /\ \A j \in Implementers : j <= k

\* Mutant of Presentable: what lies in evidence/ is taken as it is.
Presentable_Unverified(k) == task.runs[k] = "run" /\ files.record[k].complete

\* _load_fable_evidence: frozen, unchanged since, complete, and the patch is
\* the one the record of that run names.
Presentable(k) ==
  /\ task.runs[k] = "run"
  /\ FreezeHolds(files.record[k].freeze, k)
  /\ files.record[k].complete
  /\ files.patch = files.record[k].patch

Review ==
  /\ run.pc = "idle"
  /\ IsTransitionAllowed(task.state, "FABLE_REVIEWED")
  /\ Len(task.runs) < MaxRuns
  /\ world.part["link"] = 0 /\ world.part["repository"] = 0
  /\ \E k \in 1 .. MaxRuns :
       /\ Selected(k) /\ Presentable(k)
       /\ shown' = [run |-> k,
                    patch |-> IF files.patch_intact THEN files.patch ELSE {}]
  /\ task' = [task EXCEPT !.runs = Append(@, "review"), !.state = "FABLE_REVIEWED"]
  /\ UNCHANGED << world, run, files, truth >>
-----------------------------------------------------------------------------
Processes ==
  \E actor \in Actor :
    \/ \E p \in Path, o \in Object : Edit(actor, p, o)
    \/ \E x \in Part : Meddle(actor, x)
    \/ \E k \in 1 .. MaxRuns : Tamper(actor, k)

Measurement ==
  \/ LinkBroken \/ PatchFrozen \/ ScopeDecided \/ Fail
  \/ \E readable \in BOOLEAN : WorkerMeasured(readable) \/ ValidationMeasured(readable)
  \/ \E report \in Reports : Land(report)

Next ==
  \/ Processes \/ Measurement
  \/ Dispatch \/ Resume \/ ValidationBegins \/ ValidationEnds \/ Review
  \/ \E ended \in { "exited", "timed_out", "start_failed" } : WorkerEnds(ended)

Spec == Init /\ [][Next]_vars
-----------------------------------------------------------------------------
(* Properties *)

\* A change out of scope that a worker made in any measured run keeps the task
\* from review for good: a later run that puts it back, leaves it, or changes
\* it again does not erase it (decide_scope_verdicts).
ViolationsPersist ==
  task.state \in { "AWAITING_SOL_REVIEW", "FABLE_REVIEWED" } => truth.offences = {}

Landed == run.pc = "land" /\ Len(task'.runs) > Len(task.runs)

\* What a worker really did outside its worktree's content, and what validation
\* did, is a violation even if validation puts it back or the run was ended by
\* its timeout or the provider.  The worktree's link is not measured again after
\* validation: the next resume or review is refused over it.
EscapesAreViolations ==
  [][ Landed /\ truth.escapes # {} => task'.state = "POLICY_VIOLATION" ]_vars

\* Nobody is charged with what another did: a task lands as a violation only
\* over a worker's own offence, a forbidden path validation changed, an escape,
\* evidence that was altered, or an administration nobody could read.
ChargesAreEarned ==
  [][ Landed /\ task'.state = "POLICY_VIOLATION" =>
        \/ truth.offences # {}
        \/ ForbiddenHits(truth.validation) # {}
        \/ truth.escapes # {}
        \/ run.tampered # {} ]_vars

\* Altered evidence never gets to review: whatever a command changed of what
\* was frozen lands the task as a violation.
FrozenEvidenceHolds ==
  [][ Landed /\ task'.state = "AWAITING_SOL_REVIEW" =>
        files.patch_intact /\ files.record[run.index].intact ]_vars

\* A review is shown what the worker of its run changed, all of it, and never
\* the patch of a run that came after, whatever became of that run.
ReviewShowsItsRun ==
  shown.run # 0 => shown.patch = truth.worker[shown.run]

\* Only a run that ended by itself with zero, unhindered by the provider, and
\* that says so where it is read first, counts as implemented.
ImplementedIsEarned ==
  [][ Landed /\ task'.state = "AWAITING_SOL_REVIEW" =>
        \A report \in Reports : Land(report) =>
          /\ run.ended = "exited"
          /\ report.exit = "zero"
          /\ report.envelope \notin { "provider_limit", "api_error" }
          /\ "IMPLEMENTED" \in { report.structured, report.result }
          /\ report.structured \in { "absent", "IMPLEMENTED" } ]_vars
=============================================================================
