------------------------- MODULE RunEvidenceProofs -------------------------
(***************************************************************************)
(* Theorems about RunEvidence for every worktree, envelope and number of   *)
(* runs and of changes: what a run is charged with is what was done in it, *)
(* what was done is charged, and a review sees the patch of its run.       *)
(*                                                                         *)
(* The inductive invariant IInv ties what the dispatcher holds (run, the   *)
(* evidence files) to the history of what was really done (truth), phase   *)
(* by phase: each measurement of a terminal turns a relation to the world  *)
(* as it is into one to the snapshot that was taken.                       *)
(***************************************************************************)
EXTENDS RunEvidence, TLAPS

\* What can be attributed is always a difference.
Changes == SUBSET { c \in Change : c.old # c.new }

Snapshot == [tree : Tree, part : [Part -> { 0, 1 }]]

Freeze == [taken : BOOLEAN, patch : Changes, intact : BOOLEAN]

Record ==
  [written : BOOLEAN, intact : BOOLEAN, patch : Changes, complete : BOOLEAN,
   validation_only : SUBSET Path, freeze : Freeze]

\* From the worker's exit to the verdict nobody acts: the world stands still.
PC == { "idle", "worker", "worker_exit", "patch", "validate", "validation",
        "validated", "scope", "land" }

Run ==
  [pc : PC, index : Nat, ended : { "none", "exited", "timed_out", "start_failed" },
   start : Snapshot, exit : Snapshot, post : Tree, validated : BOOLEAN,
   in_scope : BOOLEAN, primary : SUBSET Actor, tampered : SUBSET Actor,
   freeze : Freeze]

Files ==
  [patch : Changes, patch_intact : BOOLEAN, sealed : SUBSET Object,
   scope : [present : BOOLEAN, intact : BOOLEAN, changes : Changes],
   record : [1 .. MaxRuns -> Record]]

Truth ==
  [offences : SUBSET Path, worker : [1 .. MaxRuns -> Changes],
   validation : Changes, escapes : SUBSET Part, edits : Nat]

Types ==
  /\ task \in [state : TaskState, runs : Seq({ "run", "bare", "review" })]
  /\ world \in Snapshot
  /\ run \in Run
  /\ files \in Files
  /\ shown \in [run : Nat, patch : Changes]
  /\ truth \in Truth

\* A run is under way exactly while the task is RUNNING, it is the next on the
\* record, and until the first one nobody has touched anything.
RunIsNext ==
  /\ run.pc # "idle" => task.state = "RUNNING"
  /\ run.pc # "idle" => run.index = Len(task.runs) + 1 /\ run.index \in 1 .. MaxRuns
  /\ task.state = "CREATED" =>
       task.runs = << >> /\ \A x \in Part : world.part[x] = 0

LinkHeld == run.pc # "idle" => run.start.part["link"] = 0

\* What the dispatcher holds of the worker's delta is what the worker did.
WorkerKnown ==
  /\ run.pc = "worker_exit" =>
       /\ truth.worker[run.index] = Delta(run.start.tree, world.tree)
       /\ truth.escapes = Escapes(run.start, world)
  /\ run.pc \in { "patch", "validate", "validation", "validated", "scope", "land" } =>
       truth.worker[run.index] = WorkerDelta

\* What it holds of validation's is what was done while that ran.
ValidationKnown ==
  /\ run.pc \in { "idle", "worker" } => truth.escapes = {}
  /\ run.pc \in { "idle", "worker", "worker_exit", "patch", "validate", "validation" } =>
       truth.validation = {}
  /\ run.pc \in { "worker", "worker_exit", "patch", "validate" } => ~ run.validated
  /\ run.pc = "validation" => run.validated
  /\ run.pc \in { "patch", "validate" } => world = run.exit
  /\ run.pc = "validated" =>
       /\ truth.validation = Delta(run.exit.tree, world.tree)
       /\ ~ run.validated => world = run.exit
  /\ run.pc \in { "scope", "land" } => truth.validation = ValidationDelta

\* Escapes since the worker's exit that the second terminal will measure.
Unmeasured == Escapes(run.exit, world) \ { "link" }

\* An escape is blamed on somebody, and nobody is blamed without one.
EscapesBlamed ==
  /\ run.pc \in { "patch", "validate", "validation", "scope", "land" } =>
       /\ truth.escapes # {} => run.primary # {} \/ run.tampered # {}
       /\ run.primary # {} => truth.escapes # {}
  /\ run.pc = "validated" =>
       /\ truth.escapes # {} =>
            run.primary # {} \/ run.tampered # {} \/ Unmeasured # {}
       /\ run.primary # {} \/ Unmeasured # {} => truth.escapes # {}

\* The paths a set of changes would be charged for.
Offences(changes) == ForbiddenHits(changes) \cup OutsideAllowed(changes)

\* The cumulative history charges nobody for what no worker did; a verdict out
\* of scope is one of these or a forbidden path that validation changed.
VerdictEarned ==
  /\ Offences(files.scope.changes) \subseteq truth.offences
  /\ run.pc = "land" /\ ~ run.in_scope =>
       truth.offences # {} \/ ForbiddenHits(truth.validation) # {}

EvidenceFrozen ==
  run.pc \in { "scope", "land" } /\ run.tampered = {} =>
    files.patch_intact /\ files.record[run.index].intact

\* The runs whose record is that of the run they name: a record may be stale
\* until the run that takes its directory writes its patch.
Recorded(k) ==
  \/ k \in 1 .. Len(task.runs) /\ task.runs[k] = "run"
  \/ /\ run.pc \in { "validate", "validation", "validated", "scope", "land" }
     /\ k = run.index

RecordsTrue ==
  \A k \in 1 .. MaxRuns : Recorded(k) /\ files.record[k].complete =>
    files.record[k].patch = truth.worker[k]

ShownTrue ==
  /\ shown.run \in 0 .. Len(task.runs)
  /\ Len(task.runs) <= MaxRuns
  /\ ReviewShowsItsRun

IInv ==
  /\ Types
  /\ RunIsNext
  /\ LinkHeld
  /\ WorkerKnown
  /\ ValidationKnown
  /\ EscapesBlamed
  /\ VerdictEarned
  /\ EvidenceFrozen
  /\ RecordsTrue
  /\ ShownTrue

\* Every worker's change is one decide_scope looks at.
AllMaterial == \A k \in 1 .. MaxRuns : \A c \in truth.worker[k] : Material(c)

\* The history keeps every offence, and so does the verdict.
OffencesKept ==
  /\ truth.offences \subseteq Offences(files.scope.changes)
  /\ run.pc = "land" /\ run.in_scope => truth.offences = {}
  /\ ViolationsPersist
-----------------------------------------------------------------------------
(* What the actors do: they leave the dispatcher's own state alone. *)

LEMMA Typed ==
  ASSUME Types
  PROVE  /\ task.state \in TaskState /\ task.runs \in Seq({ "run", "bare", "review" })
         /\ world.tree \in Tree /\ world.part \in [Part -> { 0, 1 }]
         /\ truth.worker \in [1 .. MaxRuns -> Changes]
         /\ truth.edits \in Nat
         /\ files.record \in [1 .. MaxRuns -> Record]
         /\ MaxRuns \in Nat
BY EvidenceAssumption DEF EvidenceAssumption, Types, Snapshot, Truth, Files

\* A change is counted, and no other part of the history moves.
LEMMA Counted ==
  ASSUME Types, NEW actor \in Actor, May(actor)
  PROVE  /\ truth' \in Truth
         /\ truth'.offences = truth.offences /\ truth'.worker = truth.worker
         /\ truth'.validation = truth.validation /\ truth'.escapes = truth.escapes
         /\ run.pc \in { "idle", "worker", "validation" }
         /\ task.state # "CREATED"
BY DEF Types, Truth, May, Actor

LEMMA ActorKeeps ==
  ASSUME IInv, NEW actor \in Actor, May(actor), world' \in Snapshot,
         UNCHANGED << task, run, files, shown >>
  PROVE  IInv'
<1> USE DEF IInv
<1>1. /\ truth' \in Truth
      /\ truth'.offences = truth.offences /\ truth'.worker = truth.worker
      /\ truth'.validation = truth.validation /\ truth'.escapes = truth.escapes
      /\ run.pc \in { "idle", "worker", "validation" }
      /\ task.state # "CREATED"
  BY Counted
<1>2. Types'
  BY <1>1 DEF Types
<1>3. RunIsNext' /\ LinkHeld'
  BY <1>1 DEF RunIsNext, LinkHeld
<1>4. WorkerKnown' /\ ValidationKnown' /\ EscapesBlamed'
  BY <1>1 DEF WorkerKnown, ValidationKnown, EscapesBlamed, WorkerDelta
<1>5. VerdictEarned' /\ EvidenceFrozen' /\ RecordsTrue' /\ ShownTrue'
  BY <1>1 DEF VerdictEarned, EvidenceFrozen, RecordsTrue, Recorded, ShownTrue,
              ReviewShowsItsRun
<1> QED  BY <1>2, <1>3, <1>4, <1>5

LEMMA EditKeeps ==
  ASSUME IInv, NEW actor \in Actor, NEW p \in Path, NEW o \in Object, Edit(actor, p, o)
  PROVE  IInv'
<1>1. world' \in Snapshot
  BY DEF IInv, Types, Edit, Snapshot, Tree
<1> QED  BY <1>1, ActorKeeps DEF Edit

LEMMA MeddleKeeps ==
  ASSUME IInv, NEW actor \in Actor, NEW x \in Part, Meddle(actor, x)
  PROVE  IInv'
<1>1. world.part[x] \in { 0, 1 }
  BY DEF IInv, Types, Snapshot
<1>2. 1 - world.part[x] \in { 0, 1 }
  BY <1>1
<1>3. world' \in Snapshot
  BY <1>2 DEF IInv, Types, Meddle, Snapshot
<1> QED  BY <1>3, ActorKeeps DEF Meddle

\* A record that is rewritten, in the directory of its run.
LEMMA Rerecorded ==
  ASSUME NEW held \in Files, NEW k \in 1 .. MaxRuns, NEW new \in Record
  PROVE  /\ [held EXCEPT !.record = [held.record EXCEPT ![k] = new]] \in Files
         /\ [held EXCEPT !.record = [held.record EXCEPT ![k] = new]].scope = held.scope
         /\ [held EXCEPT !.record = [held.record EXCEPT ![k] = new]].record[k] = new
         /\ \A j \in 1 .. MaxRuns : j # k =>
              [held EXCEPT !.record = [held.record EXCEPT ![k] = new]].record[j]
                = held.record[j]
BY DEF Files

LEMMA Spoiled ==
  ASSUME NEW old \in Record
  PROVE  /\ [old EXCEPT !.intact = FALSE] \in Record
         /\ [old EXCEPT !.intact = FALSE].patch = old.patch
         /\ [old EXCEPT !.intact = FALSE].complete = old.complete
BY DEF Record

\* Whatever is tampered with, what was written stays what it says.
LEMMA TamperKeeps ==
  ASSUME IInv, NEW actor \in Actor, NEW k \in 1 .. MaxRuns, Tamper(actor, k)
  PROVE  IInv'
<1> USE DEF IInv
<1>1. /\ truth' \in Truth
      /\ truth'.offences = truth.offences /\ truth'.worker = truth.worker
      /\ truth'.validation = truth.validation /\ truth'.escapes = truth.escapes
      /\ run.pc \in { "idle", "worker", "validation" }
      /\ task.state # "CREATED"
  BY Counted DEF Tamper
<1>2. /\ files' \in Files
      /\ files'.scope.changes = files.scope.changes
      /\ \A j \in 1 .. MaxRuns : /\ files'.record[j].patch = files.record[j].patch
                                 /\ files'.record[j].complete = files.record[j].complete
  <2>1. PICK held \in Files : held = files
    BY DEF Types
  <2>2. CASE files' = [files EXCEPT !.patch_intact = FALSE]
    BY <2>1, <2>2 DEF Files
  <2>3. CASE files' = [files EXCEPT !.record[k].intact = FALSE]
    <3>1. files.record[k] \in Record
      BY Typed
    <3> QED  BY <2>1, <2>3, <3>1, Spoiled, Rerecorded
  <2>4. CASE files' = [files EXCEPT !.scope.intact = FALSE]
    BY <2>1, <2>4 DEF Files
  <2> QED  BY <2>2, <2>3, <2>4 DEF Tamper
<1>3. UNCHANGED << task, run, world, shown >>
  BY DEF Tamper
<1>4. Types'
  BY <1>1, <1>2, <1>3 DEF Types
<1>5. RunIsNext' /\ LinkHeld'
  BY <1>3 DEF RunIsNext, LinkHeld
<1>6. WorkerKnown' /\ ValidationKnown' /\ EscapesBlamed'
  BY <1>1, <1>3 DEF WorkerKnown, ValidationKnown, EscapesBlamed, WorkerDelta
<1>7. VerdictEarned' /\ EvidenceFrozen'
  BY <1>1, <1>2, <1>3 DEF VerdictEarned, EvidenceFrozen
<1>8. RecordsTrue' /\ ShownTrue'
  BY <1>1, <1>2, <1>3 DEF RecordsTrue, Recorded, ShownTrue, ReviewShowsItsRun
<1> QED  BY <1>4, <1>5, <1>6, <1>7, <1>8
-----------------------------------------------------------------------------
(* How a run begins and ends. *)

LEMMA Starts ==
  ASSUME IInv, run.pc = "idle", Len(task.runs) < MaxRuns,
         world.part["link"] = 0,
         task' = [task EXCEPT !.state = "RUNNING"],
         run' = [NoRun EXCEPT !.pc = "worker", !.index = Len(task.runs) + 1,
                              !.start = world, !.exit = world, !.post = world.tree],
         files' \in Files, files'.record = files.record, files'.scope = files.scope,
         UNCHANGED << world, shown, truth >>
  PROVE  IInv'
<1> USE DEF IInv
<1>1. /\ task' \in [state : TaskState, runs : Seq({ "run", "bare", "review" })]
      /\ task'.state = "RUNNING" /\ task'.runs = task.runs
  BY DEF Types, TaskState
<1>2. /\ run' \in Run
      /\ run'.pc = "worker" /\ run'.index = Len(task.runs) + 1
      /\ run'.start = world /\ run'.validated = FALSE
  <2>1. NoRun \in Run
    BY EvidenceAssumption DEF EvidenceAssumption, NoRun, NoFreeze, Run, PC, Snapshot,
         Freeze, Changes
  <2>2. world \in Snapshot /\ world.tree \in Tree /\ Len(task.runs) + 1 \in Nat
    BY Typed DEF Types
  <2> QED  BY <2>1, <2>2 DEF Run, PC, NoRun
<1>3. Types'
  BY <1>1, <1>2 DEF Types
<1>4. RunIsNext' /\ LinkHeld'
  BY <1>1, <1>2, Typed DEF RunIsNext, LinkHeld
<1>5. WorkerKnown' /\ ValidationKnown' /\ EscapesBlamed'
  BY <1>2 DEF WorkerKnown, ValidationKnown, EscapesBlamed
<1>6. VerdictEarned' /\ EvidenceFrozen'
  BY <1>2 DEF VerdictEarned, EvidenceFrozen
<1>7. RecordsTrue' /\ ShownTrue'
  BY <1>1, <1>2 DEF RecordsTrue, Recorded, ShownTrue, ReviewShowsItsRun
<1> QED  BY <1>3, <1>4, <1>5, <1>6, <1>7

LEMMA DispatchKeeps == ASSUME IInv, Dispatch PROVE IInv'
<1>1. Len(task.runs) = 0 /\ world.part["link"] = 0
  BY DEF Dispatch, IInv, RunIsNext, Part
<1>2. /\ files' \in Files
      /\ files'.record = files.record /\ files'.scope = files.scope
  <2>1. { world.tree[p] : p \in Path } \in SUBSET Object
    BY Typed DEF IInv, Tree
  <2> QED  BY <2>1 DEF Dispatch, IInv, Types, Files
<1> QED  BY <1>1, <1>2, Starts, Typed DEF Dispatch, IInv

LEMMA ResumeKeeps == ASSUME IInv, Resume PROVE IInv'
<1>1. files \in Files
  BY DEF IInv, Types
<1> QED  BY <1>1, Starts DEF Resume

\* The task gets a state and, of a run that was recorded, a kind.
Ends ==
  /\ run.pc # "idle"
  /\ Close
  /\ \/ task'.state \in TaskState \ { "CREATED", "AWAITING_SOL_REVIEW", "FABLE_REVIEWED" }
     \/ run.pc = "land" /\ task'.state \in TaskState \ { "CREATED" }
  /\ \/ task'.runs = task.runs
     \/ task'.runs = Append(task.runs, "bare")
     \/ task'.runs = Append(task.runs, "run") /\ run.pc = "land"
  /\ task' = [state |-> task'.state, runs |-> task'.runs]
  /\ UNCHANGED << world, files, shown >>

LEMMA Closed ==
  ASSUME Types, Close
  PROVE  /\ run' \in Run /\ run'.pc = "idle"
         /\ truth' \in Truth
         /\ truth'.offences = truth.offences /\ truth'.worker = truth.worker
         /\ truth'.validation = {} /\ truth'.escapes = {}
BY EvidenceAssumption DEF EvidenceAssumption, Types, Close, Truth, Changes, NoRun,
     NoFreeze, Run, PC, Snapshot, Freeze

LEMMA EndsKeep == ASSUME IInv, Ends PROVE IInv'
<1> USE DEF IInv
<1>1. /\ run' \in Run /\ run'.pc = "idle"
      /\ truth' \in Truth
      /\ truth'.offences = truth.offences /\ truth'.worker = truth.worker
      /\ truth'.validation = {} /\ truth'.escapes = {}
  BY Closed DEF Ends
<1>2. /\ task.runs \in Seq({ "run", "bare", "review" })
      /\ run.index = Len(task.runs) + 1 /\ run.index \in 1 .. MaxRuns
  BY Typed DEF Ends, RunIsNext
<1>3. /\ task'.runs \in Seq({ "run", "bare", "review" })
      /\ Len(task'.runs) \in { Len(task.runs), run.index }
  BY <1>2 DEF Ends
<1>4. \A k \in 1 .. MaxRuns : Recorded(k)' => Recorded(k)
  BY <1>1, <1>2 DEF Ends, Recorded
<1>5. Types'
  BY <1>1, <1>3 DEF Types, Ends
<1>6. RunIsNext' /\ LinkHeld'
  BY <1>1 DEF RunIsNext, LinkHeld, Ends
<1>7. WorkerKnown' /\ ValidationKnown' /\ EscapesBlamed'
  BY <1>1 DEF WorkerKnown, ValidationKnown, EscapesBlamed
<1>8. VerdictEarned' /\ EvidenceFrozen'
  BY <1>1 DEF VerdictEarned, EvidenceFrozen, Ends
<1>9. RecordsTrue'
  BY <1>1, <1>4 DEF RecordsTrue, Ends
<1>10. ShownTrue'
  BY <1>1, <1>2, <1>3, Typed DEF ShownTrue, ReviewShowsItsRun, Ends
<1> QED  BY <1>5, <1>6, <1>7, <1>8, <1>9, <1>10

LEMMA FailKeeps == ASSUME IInv, Fail PROVE IInv'
<1>1. Ends
  BY Typed DEF Fail, Ends, TaskState, IInv, Types
<1> QED  BY <1>1, EndsKeep

LEMMA LinkBrokenKeeps == ASSUME IInv, LinkBroken PROVE IInv'
<1>1. Ends
  BY Typed DEF LinkBroken, Ends, TaskState, IInv, Types
<1> QED  BY <1>1, EndsKeep

\* Where a run lands.
LEMMA Landings ==
  ASSUME NEW report \in Reports
  PROVE  LandingState(report) \in
           { "POLICY_VIOLATION", "TIMED_OUT", "FAILED", "BLOCKED", "AWAITING_SOL_REVIEW" }
<1>1. WorkerResult(report) \in Status \cup { "none" }
  BY DEF WorkerResult, Claim
<1>2. CASE WorkerResult(report) = "FAILED"
  BY <1>2 DEF LandingState
<1>3. CASE WorkerResult(report) = "BLOCKED"
  BY <1>3 DEF LandingState
<1>4. CASE WorkerResult(report) = "IMPLEMENTED"
  BY <1>4 DEF LandingState
<1>5. CASE WorkerResult(report) = "none"
  BY <1>5 DEF LandingState
<1> QED  BY <1>1, <1>2, <1>3, <1>4, <1>5 DEF Status

LEMMA LandKeeps ==
  ASSUME IInv, NEW report \in Reports, Land(report) PROVE IInv'
<1>1. LandingState(report) \in TaskState \ { "CREATED" }
  BY Landings DEF TaskState
<1>2. Ends
  BY <1>1 DEF Land, Ends
<1> QED  BY <1>2, EndsKeep
-----------------------------------------------------------------------------
(* The worker's terminal. *)

LEMMA DeltaType ==
  ASSUME NEW before \in Tree, NEW after \in Tree
  PROVE  Delta(before, after) \in Changes
BY DEF Delta, Changes, Change, Tree

\* Nothing that did not move is in a delta.
LEMMA NoDelta ==
  ASSUME NEW tree PROVE Delta(tree, tree) = {}
BY DEF Delta

\* The history of one run is written, the others stay.
LEMMA WorkerHistory ==
  ASSUME truth \in Truth, NEW k \in 1 .. MaxRuns, NEW delta \in Changes,
         NEW out \in SUBSET Part,
         truth' = [truth EXCEPT !.worker[k] = delta, !.escapes = out]
  PROVE  /\ truth' \in Truth
         /\ truth'.worker[k] = delta
         /\ \A j \in 1 .. MaxRuns : j # k => truth'.worker[j] = truth.worker[j]
         /\ truth'.escapes = out
         /\ truth'.offences = truth.offences /\ truth'.validation = truth.validation
BY DEF Truth

LEMMA WorkerEndsKeeps ==
  ASSUME IInv, NEW ended \in { "exited", "timed_out", "start_failed" }, WorkerEnds(ended)
  PROVE  IInv'
<1> USE DEF IInv
<1>1. /\ run.pc = "worker" /\ run.index \in 1 .. MaxRuns
      /\ run.index = Len(task.runs) + 1 /\ task.runs \in Seq({ "run", "bare", "review" })
      /\ UNCHANGED << task, world, files, shown >>
  BY Typed DEF WorkerEnds, RunIsNext
<1>2. /\ run' \in Run
      /\ run'.pc = "worker_exit" /\ run'.index = run.index /\ run'.start = run.start
      /\ run'.validated = run.validated
  BY DEF WorkerEnds, Types, Run, PC
<1>3. /\ truth' \in Truth
      /\ truth'.worker[run.index] = Delta(run.start.tree, world.tree)
      /\ \A j \in 1 .. MaxRuns : j # run.index => truth'.worker[j] = truth.worker[j]
      /\ truth'.escapes = Escapes(run.start, world)
      /\ truth'.offences = truth.offences /\ truth'.validation = truth.validation
  <2>1. run.start.tree \in Tree /\ world.tree \in Tree
    BY DEF Types, Run, Snapshot
  <2>2. Delta(run.start.tree, world.tree) \in Changes
    BY <2>1, DeltaType
  <2>3. Escapes(run.start, world) \in SUBSET Part
    BY DEF Escapes
  <2>4. truth \in Truth
    BY DEF Types
  <2>5. truth' = [truth EXCEPT !.worker[run.index] = Delta(run.start.tree, world.tree),
                               !.escapes = Escapes(run.start, world)]
    BY DEF WorkerEnds
  <2> HIDE DEF IInv
  <2> QED  BY <1>1, <2>2, <2>3, <2>4, <2>5, WorkerHistory
<1>4. Types'
  BY <1>1, <1>2, <1>3 DEF Types
<1>5. RunIsNext' /\ LinkHeld'
  BY <1>1, <1>2 DEF RunIsNext, LinkHeld
<1>6. WorkerKnown' /\ ValidationKnown' /\ EscapesBlamed'
  BY <1>1, <1>2, <1>3 DEF WorkerKnown, ValidationKnown, EscapesBlamed
<1>7. VerdictEarned' /\ EvidenceFrozen'
  BY <1>1, <1>2, <1>3 DEF VerdictEarned, EvidenceFrozen
<1>8. RecordsTrue'
  BY <1>1, <1>2, <1>3 DEF RecordsTrue, Recorded
<1>9. ShownTrue'
  <2>1. shown.run \in Nat /\ shown.run # run.index
    BY <1>1 DEF ShownTrue
  <2> QED  BY <1>1, <1>3, <2>1, Typed DEF ShownTrue, ReviewShowsItsRun
<1> QED  BY <1>4, <1>5, <1>6, <1>7, <1>8, <1>9

\* What moved outside the worktree is one of the four parts.
LEMMA Parted ==
  ASSUME NEW before, NEW after
  PROVE  \A x : x \in Escapes(before, after) <=>
           x \in { "primary", "repository", "admin", "link" }
             /\ before.part[x] # after.part[x]
BY DEF Escapes, Part

LEMMA WorkerMeasuredKeeps ==
  ASSUME IInv, NEW readable \in BOOLEAN, WorkerMeasured(readable)
  PROVE  IInv'
<1> USE DEF IInv
<1>1. /\ run.pc = "worker_exit" /\ run.index \in 1 .. MaxRuns
      /\ run.start.part["link"] = 0 /\ world.part["link"] = 0
      /\ world.part["repository"] = run.start.part["repository"]
      /\ UNCHANGED << task, world, files, shown, truth >>
  BY DEF WorkerMeasured, Measurable, RunIsNext, LinkHeld
<1>2. /\ run' \in Run
      /\ run'.pc = "patch" /\ run'.index = run.index /\ run'.start = run.start
      /\ run'.exit = world /\ run'.validated = run.validated
      /\ run'.primary = IF world.part["primary"] # run.start.part["primary"]
                          THEN { "worker" } ELSE {}
      /\ world.part["admin"] # run.start.part["admin"] => run'.tampered = { "worker" }
  <2>1. PICK old \in Run : old = run
    BY DEF Types
  <2>2. world \in Snapshot
    BY DEF Types
  <2> QED  BY <2>1, <2>2 DEF WorkerMeasured, Run, PC, Actor, Blamed, WorkerMovedPrimary
<1>3. truth.escapes \subseteq { "primary", "admin" }
  BY <1>1, Parted DEF WorkerKnown
<1>4. Types'
  BY <1>1, <1>2 DEF Types
<1>5. RunIsNext' /\ LinkHeld'
  BY <1>1, <1>2 DEF RunIsNext, LinkHeld
<1>6. WorkerKnown'
  BY <1>1, <1>2 DEF WorkerKnown, WorkerDelta
<1>7. ValidationKnown'
  BY <1>1, <1>2 DEF ValidationKnown
<1>8. EscapesBlamed'
  <2>1. "primary" \in truth.escapes <=>
          world.part["primary"] # run.start.part["primary"]
    BY <1>1, Parted DEF WorkerKnown
  <2>2. "admin" \in truth.escapes => run'.tampered # {}
    BY <1>1, <1>2, Parted DEF WorkerKnown
  <2>3. truth.escapes # {} <=> "primary" \in truth.escapes \/ "admin" \in truth.escapes
    BY <1>3
  <2> QED  BY <1>1, <1>2, <2>1, <2>2, <2>3 DEF EscapesBlamed
<1>9. VerdictEarned' /\ EvidenceFrozen'
  BY <1>1, <1>2 DEF VerdictEarned, EvidenceFrozen
<1>10. RecordsTrue' /\ ShownTrue'
  BY <1>1, <1>2 DEF RecordsTrue, Recorded, ShownTrue, ReviewShowsItsRun
<1> QED  BY <1>4, <1>5, <1>6, <1>7, <1>8, <1>9, <1>10

\* A patch whose record calls it complete is the delta itself.
LEMMA CompleteIsWhole ==
  ASSUME NEW changes, Complete(changes) PROVE Sections(changes) = changes
BY DEF Complete, Sections

LEMMA DeltaOfWorker ==
  ASSUME Types PROVE WorkerDelta \in Changes /\ Sections(WorkerDelta) \in Changes
<1>1. run.start.tree \in Tree /\ run.exit.tree \in Tree
  BY DEF Types, Run, Snapshot
<1> QED  BY <1>1, DeltaType DEF WorkerDelta, Sections, Changes

LEMMA PatchFrozenKeeps == ASSUME IInv, PatchFrozen PROVE IInv'
<1> USE DEF IInv
<1> DEFINE new == [NoRecord EXCEPT !.written = TRUE, !.patch = Sections(WorkerDelta),
                                   !.complete = Complete(WorkerDelta)]
<1>1. /\ run.pc = "patch" /\ run.index \in 1 .. MaxRuns
      /\ truth.worker[run.index] = WorkerDelta
      /\ UNCHANGED << task, world, shown, truth >>
  BY DEF PatchFrozen, RunIsNext, WorkerKnown
<1>2. /\ run' \in Run
      /\ run'.pc = "validate" /\ run'.index = run.index /\ run'.start = run.start
      /\ run'.exit = run.exit /\ run'.validated = run.validated
      /\ run'.primary = run.primary /\ run'.tampered = run.tampered
  <2>1. PICK old \in Run : old = run
    BY DEF Types
  <2>2. [taken |-> TRUE, patch |-> Sections(WorkerDelta), intact |-> TRUE] \in Freeze
    BY DeltaOfWorker DEF Freeze
  <2> QED  BY <2>1, <2>2 DEF PatchFrozen, Run, PC
<1>3. /\ new \in Record
      /\ new.patch = Sections(WorkerDelta) /\ new.complete = Complete(WorkerDelta)
  <2>1. NoRecord \in Record /\ Complete(WorkerDelta) \in BOOLEAN
    BY DEF NoRecord, Record, NoFreeze, Freeze, Changes, Complete
  <2> QED  BY <2>1, DeltaOfWorker DEF Record
<1>4. /\ files' \in Files
      /\ files'.scope = files.scope
      /\ files'.record[run.index] = new
      /\ \A j \in 1 .. MaxRuns : j # run.index => files'.record[j] = files.record[j]
  <2>1. PICK held \in Files : held = files
    BY DEF Types
  <2>2. files' = [files EXCEPT !.patch = Sections(WorkerDelta), !.patch_intact = TRUE,
                               !.record = [files.record EXCEPT ![run.index] = new]]
    BY DEF PatchFrozen
  <2> HIDE DEF new
  <2> QED  BY <1>1, <1>3, <2>1, <2>2, DeltaOfWorker DEF Files
<1> HIDE DEF new
<1>5. Types'
  BY <1>1, <1>2, <1>4 DEF Types
<1>6. RunIsNext' /\ LinkHeld'
  BY <1>1, <1>2 DEF RunIsNext, LinkHeld
<1>7. WorkerKnown' /\ ValidationKnown'
  BY <1>1, <1>2 DEF WorkerKnown, ValidationKnown, WorkerDelta
<1>8. EscapesBlamed'
  BY <1>1, <1>2 DEF EscapesBlamed
<1>9. VerdictEarned' /\ EvidenceFrozen'
  BY <1>1, <1>2, <1>4 DEF VerdictEarned, EvidenceFrozen
<1>10. RecordsTrue'
  <2>1. files'.record[run.index].complete =>
          files'.record[run.index].patch = truth.worker[run.index]
    BY <1>1, <1>3, <1>4, CompleteIsWhole
  <2> QED  BY <1>1, <1>2, <1>4, <2>1 DEF RecordsTrue, Recorded
<1>11. ShownTrue'
  BY <1>1 DEF ShownTrue, ReviewShowsItsRun
<1> QED  BY <1>5, <1>6, <1>7, <1>8, <1>9, <1>10, <1>11
-----------------------------------------------------------------------------
(* Validation and its terminal. *)

LEMMA ValidationBeginsKeeps == ASSUME IInv, ValidationBegins PROVE IInv'
<1> USE DEF IInv
<1>1. /\ run.pc = "validate"
      /\ UNCHANGED << task, world, files, shown, truth >>
  BY DEF ValidationBegins
<1>2. /\ run' \in Run
      /\ run'.index = run.index /\ run'.start = run.start /\ run'.exit = run.exit
      /\ run'.primary = run.primary /\ run'.tampered = run.tampered
      /\ \/ run'.pc = "validation" /\ run'.validated
         \/ run'.pc = "validated" /\ run'.validated = run.validated
  <2>1. PICK old \in Run : old = run
    BY DEF Types
  <2> QED  BY <2>1 DEF ValidationBegins, Run, PC
<1>3. Types'
  BY <1>1, <1>2 DEF Types
<1>4. RunIsNext' /\ LinkHeld'
  BY <1>1, <1>2 DEF RunIsNext, LinkHeld
<1>5. WorkerKnown'
  BY <1>1, <1>2 DEF WorkerKnown, WorkerDelta
<1>6. ValidationKnown'
  BY <1>1, <1>2, NoDelta DEF ValidationKnown
<1>7. EscapesBlamed'
  <2>1. world = run.exit
    BY <1>1 DEF ValidationKnown
  <2>2. Unmeasured' = {}
    BY <1>1, <1>2, <2>1 DEF Unmeasured, Escapes
  <2> QED  BY <1>1, <1>2, <2>2 DEF EscapesBlamed
<1>8. VerdictEarned' /\ EvidenceFrozen'
  BY <1>1, <1>2 DEF VerdictEarned, EvidenceFrozen
<1>9. RecordsTrue' /\ ShownTrue'
  BY <1>1, <1>2 DEF RecordsTrue, Recorded, ShownTrue, ReviewShowsItsRun
<1> QED  BY <1>3, <1>4, <1>5, <1>6, <1>7, <1>8, <1>9

LEMMA ValidationEndsKeeps == ASSUME IInv, ValidationEnds PROVE IInv'
<1> USE DEF IInv
<1>1. /\ run.pc = "validation"
      /\ UNCHANGED << task, world, files, shown >>
  BY DEF ValidationEnds
<1>2. /\ run' \in Run
      /\ run'.pc = "validated" /\ run'.index = run.index /\ run'.start = run.start
      /\ run'.exit = run.exit /\ run'.validated = run.validated
      /\ run'.primary = run.primary /\ run'.tampered = run.tampered
  BY DEF ValidationEnds, Types, Run, PC
<1>3. /\ truth' \in Truth
      /\ truth'.offences = truth.offences /\ truth'.worker = truth.worker
      /\ truth'.validation = Delta(run.exit.tree, world.tree)
      /\ truth'.escapes = truth.escapes \cup Unmeasured
  <2>1. run.exit.tree \in Tree /\ world.tree \in Tree
    BY DEF Types, Run, Snapshot
  <2>2. Delta(run.exit.tree, world.tree) \in Changes /\ Unmeasured \subseteq Part
    BY <2>1, DeltaType DEF Unmeasured, Escapes
  <2>3. PICK old \in Truth : old = truth
    BY DEF Types
  <2>4. truth' = [truth EXCEPT !.validation = Delta(run.exit.tree, world.tree),
                               !.escapes = truth.escapes \cup Unmeasured]
    BY DEF ValidationEnds, Unmeasured
  <2> QED  BY <2>2, <2>3, <2>4 DEF Truth
<1>4. Types'
  BY <1>1, <1>2, <1>3 DEF Types
<1>5. RunIsNext' /\ LinkHeld'
  BY <1>1, <1>2 DEF RunIsNext, LinkHeld
<1>6. WorkerKnown'
  BY <1>1, <1>2, <1>3 DEF WorkerKnown, WorkerDelta
<1>7. ValidationKnown'
  BY <1>1, <1>2, <1>3 DEF ValidationKnown
<1>8. EscapesBlamed'
  <2>1. Unmeasured' = Unmeasured
    BY <1>1, <1>2 DEF Unmeasured
  <2> QED  BY <1>1, <1>2, <1>3, <2>1 DEF EscapesBlamed
<1>9. VerdictEarned' /\ EvidenceFrozen'
  BY <1>1, <1>2, <1>3 DEF VerdictEarned, EvidenceFrozen
<1>10. RecordsTrue' /\ ShownTrue'
  BY <1>1, <1>2, <1>3 DEF RecordsTrue, Recorded, ShownTrue, ReviewShowsItsRun
<1> QED  BY <1>4, <1>5, <1>6, <1>7, <1>8, <1>9, <1>10

LEMMA ValidationMeasuredKeeps ==
  ASSUME IInv, NEW readable \in BOOLEAN, ValidationMeasured(readable)
  PROVE  IInv'
<1> USE DEF IInv
<1>1. /\ run.pc = "validated" /\ run.index \in 1 .. MaxRuns
      /\ world.part["repository"] = run.exit.part["repository"]
      /\ UNCHANGED << task, world, files, shown, truth >>
  BY DEF ValidationMeasured, RunIsNext
<1>2. /\ run' \in Run
      /\ run'.pc = "scope" /\ run'.index = run.index /\ run'.start = run.start
      /\ run'.exit = run.exit
      /\ run'.post = IF run.validated THEN world.tree ELSE run.exit.tree
      /\ run'.primary = IF world.part["primary"] # run.exit.part["primary"]
                          THEN run.primary \cup { "validation" } ELSE run.primary
      /\ run.tampered \subseteq run'.tampered
      /\ run'.tampered = {} =>
           /\ files.patch_intact /\ files.record[run.index].intact
           /\ run.validated => world.part["admin"] = run.exit.part["admin"]
  <2>1. PICK old \in Run : old = run
    BY DEF Types
  <2>2. world.tree \in Tree /\ run.exit.tree \in Tree
    BY DEF Types, Run, Snapshot
  <2> QED  BY <2>1, <2>2 DEF ValidationMeasured, Run, PC, Actor, Blamed,
              ValidationMovedPrimary, FreezeHolds
<1>3. run'.post = world.tree /\ (~ run.validated => world = run.exit)
  BY <1>1, <1>2 DEF ValidationKnown
<1>4. \A x : x \in Unmeasured <=>
        x \in { "primary", "admin" } /\ run.exit.part[x] # world.part[x]
  BY <1>1, Parted DEF Unmeasured
<1>5. Types'
  BY <1>1, <1>2 DEF Types
<1>6. RunIsNext' /\ LinkHeld'
  BY <1>1, <1>2 DEF RunIsNext, LinkHeld
<1>7. WorkerKnown'
  BY <1>1, <1>2 DEF WorkerKnown, WorkerDelta
<1>8. ValidationKnown'
  BY <1>1, <1>2, <1>3 DEF ValidationKnown, ValidationDelta
<1>9. EscapesBlamed'
  <2>1. "primary" \in Unmeasured => run'.primary # {}
    BY <1>2, <1>4
  <2>2. "admin" \in Unmeasured => run'.tampered # {}
    BY <1>2, <1>3, <1>4
  <2>3. Unmeasured # {} => "primary" \in Unmeasured \/ "admin" \in Unmeasured
    BY <1>4
  <2>4. run'.primary # {} => run.primary # {} \/ Unmeasured # {}
    BY <1>2, <1>4
  <2> QED  BY <1>1, <1>2, <2>1, <2>2, <2>3, <2>4 DEF EscapesBlamed
<1>10. VerdictEarned'
  BY <1>1, <1>2 DEF VerdictEarned
<1>11. EvidenceFrozen'
  BY <1>1, <1>2 DEF EvidenceFrozen
<1>12. RecordsTrue' /\ ShownTrue'
  BY <1>1, <1>2 DEF RecordsTrue, Recorded, ShownTrue, ReviewShowsItsRun
<1> QED  BY <1>5, <1>6, <1>7, <1>8, <1>9, <1>10, <1>11, <1>12
-----------------------------------------------------------------------------
(* The verdict. *)

\* The hits of two sets of changes are the hits of both.
LEMMA OffencesOf ==
  ASSUME NEW changes
  PROVE  \A p : p \in Offences(changes) <=>
           \E c \in changes : c.path = p /\ Material(c) /\
             (p \in Forbidden \/ p \notin Allowed)
BY DEF Offences, ForbiddenHits, OutsideAllowed

LEMMA LedgerType ==
  ASSUME Types PROVE Ledger \in Changes /\ ValidationOnly \in Changes
<1>1. files.scope.changes \in Changes
  BY DEF Types, Files
<1>2. WorkerDelta \in Changes
  BY DeltaOfWorker
<1>3. run.exit.tree \in Tree /\ run.post \in Tree
  BY DEF Types, Run, Snapshot
<1>4. ValidationDelta \in Changes
  BY <1>3, DeltaType DEF ValidationDelta
<1> QED  BY <1>1, <1>2, <1>4 DEF Ledger, ValidationOnly, Changes

\* The history never charges more than the runs did.
LEMMA LedgerEarned ==
  ASSUME NEW p \in Offences(Ledger)
  PROVE  p \in Offences(WorkerDelta) \cup Offences(files.scope.changes)
<1>1. PICK c \in Ledger : /\ c.path = p /\ Material(c)
                          /\ p \in Forbidden \/ p \notin Allowed
  BY OffencesOf
<1>2. c \in WorkerDelta \/ c \in files.scope.changes
  BY DEF Ledger
<1> QED  BY <1>1, <1>2, OffencesOf

LEMMA VerdictOf ==
  /\ Outside \cup Hits =
       Offences(WorkerDelta) \cup Offences(Ledger) \cup ForbiddenHits(ValidationOnly)
  /\ ForbiddenHits(ValidationOnly) \subseteq ForbiddenHits(ValidationDelta)
  /\ ForbiddenHits(WorkerDelta) \cup OutsideAllowed(WorkerDelta) = Offences(WorkerDelta)
BY DEF Outside, Hits, Offences, ForbiddenHits, ValidationOnly

\* What deciding the scope leaves behind.
LEMMA ScopeDecidedFacts ==
  ASSUME IInv, ScopeDecided
  PROVE  /\ run.pc = "scope" /\ run.index \in 1 .. MaxRuns
         /\ truth.worker[run.index] = WorkerDelta
         /\ UNCHANGED << task, world, shown >>
         /\ run' \in Run
         /\ run'.pc = "land" /\ run'.index = run.index /\ run'.start = run.start
         /\ run'.exit = run.exit /\ run'.post = run.post
         /\ run'.primary = run.primary /\ run'.tampered = run.tampered
         /\ run'.in_scope = (Outside \cup Hits = {})
         /\ truth' \in Truth
         /\ truth'.offences = truth.offences \cup Offences(WorkerDelta)
         /\ truth'.worker = truth.worker /\ truth'.validation = truth.validation
         /\ truth'.escapes = truth.escapes
         /\ files' \in Files
         /\ files'.patch_intact = files.patch_intact
         /\ files'.scope.changes = Ledger
         /\ \A k \in 1 .. MaxRuns :
              /\ files'.record[k].intact = files.record[k].intact
              /\ files'.record[k].patch = files.record[k].patch
              /\ files'.record[k].complete = files.record[k].complete
<1> USE DEF IInv
<1>1. /\ run.pc = "scope" /\ run.index \in 1 .. MaxRuns
      /\ truth.worker[run.index] = WorkerDelta
      /\ UNCHANGED << task, world, shown >>
  BY DEF ScopeDecided, RunIsNext, WorkerKnown
<1>2. /\ run' \in Run
      /\ run'.pc = "land" /\ run'.index = run.index /\ run'.start = run.start
      /\ run'.exit = run.exit /\ run'.post = run.post
      /\ run'.primary = run.primary /\ run'.tampered = run.tampered
      /\ run'.in_scope = (Outside \cup Hits = {})
  <2>1. PICK old \in Run : old = run
    BY DEF Types
  <2>2. (Outside \cup Hits = {}) \in BOOLEAN
    OBVIOUS
  <2> QED  BY <2>1, <2>2 DEF ScopeDecided, Run, PC
<1>3. /\ truth' \in Truth
      /\ truth'.offences = truth.offences \cup Offences(WorkerDelta)
      /\ truth'.worker = truth.worker /\ truth'.validation = truth.validation
      /\ truth'.escapes = truth.escapes
  <2>1. Offences(WorkerDelta) \subseteq Path
    BY DeltaOfWorker, OffencesOf DEF Changes, Change
  <2>2. PICK old \in Truth : old = truth
    BY DEF Types
  <2>3. truth' = [truth EXCEPT !.offences = truth.offences \cup Offences(WorkerDelta)]
    BY <1>1 DEF ScopeDecided, Offences
  <2> QED  BY <2>1, <2>2, <2>3 DEF Truth
<1>4. /\ files' \in Files
      /\ files'.patch_intact = files.patch_intact
      /\ files'.scope.changes = Ledger
      /\ \A k \in 1 .. MaxRuns :
           /\ files'.record[k].intact = files.record[k].intact
           /\ files'.record[k].patch = files.record[k].patch
           /\ files'.record[k].complete = files.record[k].complete
  <2> DEFINE frozen == [taken |-> TRUE, patch |-> files.patch,
                        intact |-> files.patch_intact /\ files.record[run.index].intact]
             new == [files.record[run.index] EXCEPT
                       !.validation_only = PathsOf(ValidationOnly), !.freeze = frozen]
             ledger == [present |-> TRUE, intact |-> TRUE, changes |-> Ledger]
  <2>1. PICK held \in Files : held = files
    BY DEF Types
  <2>2. files.record[run.index] \in Record /\ files.patch \in Changes
    BY <1>1, Typed DEF Types, Files
  <2>3. frozen \in Freeze
    BY <2>2 DEF Freeze, Record
  <2>4. PathsOf(ValidationOnly) \in SUBSET Path
    BY LedgerType DEF PathsOf, Changes, Change
  <2>5. files' = [files EXCEPT !.scope = ledger,
                               !.record = [files.record EXCEPT ![run.index] = new]]
    BY <1>1 DEF ScopeDecided
  <2> HIDE DEF frozen
  <2>6. /\ new \in Record
        /\ new.intact = files.record[run.index].intact
        /\ new.patch = files.record[run.index].patch
        /\ new.complete = files.record[run.index].complete
    BY <2>2, <2>3, <2>4 DEF Record
  <2> HIDE DEF new
  <2>7. /\ ledger \in [present : BOOLEAN, intact : BOOLEAN, changes : Changes]
        /\ ledger.changes = Ledger
    BY LedgerType
  <2> HIDE DEF ledger
  <2> QED  BY <1>1, <2>1, <2>5, <2>6, <2>7 DEF Files
<1> QED  BY <1>1, <1>2, <1>3, <1>4

LEMMA ScopeDecidedKeeps == ASSUME IInv, ScopeDecided PROVE IInv'
<1>1. /\ run.pc = "scope" /\ run.index \in 1 .. MaxRuns
      /\ truth.worker[run.index] = WorkerDelta
      /\ UNCHANGED << task, world, shown >>
  BY ScopeDecidedFacts
<1>2. /\ run' \in Run
      /\ run'.pc = "land" /\ run'.index = run.index /\ run'.start = run.start
      /\ run'.exit = run.exit /\ run'.post = run.post
      /\ run'.primary = run.primary /\ run'.tampered = run.tampered
      /\ run'.in_scope = (Outside \cup Hits = {})
  BY ScopeDecidedFacts
<1>3. /\ truth' \in Truth
      /\ truth'.offences = truth.offences \cup Offences(WorkerDelta)
      /\ truth'.worker = truth.worker /\ truth'.validation = truth.validation
      /\ truth'.escapes = truth.escapes
  BY ScopeDecidedFacts
<1>4. /\ files' \in Files
      /\ files'.patch_intact = files.patch_intact
      /\ files'.scope.changes = Ledger
      /\ \A k \in 1 .. MaxRuns :
           /\ files'.record[k].intact = files.record[k].intact
           /\ files'.record[k].patch = files.record[k].patch
           /\ files'.record[k].complete = files.record[k].complete
  BY ScopeDecidedFacts
<1> USE DEF IInv
<1>5. Types'
  BY <1>1, <1>2, <1>3, <1>4 DEF Types
<1>6. RunIsNext' /\ LinkHeld'
  BY <1>1, <1>2 DEF RunIsNext, LinkHeld
<1>7. WorkerKnown'
  BY <1>1, <1>2, <1>3 DEF WorkerKnown, WorkerDelta
<1>8. ValidationKnown'
  BY <1>1, <1>2, <1>3 DEF ValidationKnown, ValidationDelta
<1>9. EscapesBlamed'
  BY <1>1, <1>2, <1>3 DEF EscapesBlamed
<1>10. VerdictEarned'
  <2>1. Offences(Ledger) \subseteq truth'.offences
    BY <1>3, LedgerEarned DEF VerdictEarned
  <2>2. truth'.validation = ValidationDelta
    BY <1>1, <1>3 DEF ValidationKnown
  <2>3. ~ run'.in_scope => truth'.offences # {} \/ ForbiddenHits(truth'.validation) # {}
    BY <1>2, <1>3, <2>1, <2>2, VerdictOf
  <2> QED  BY <1>4, <2>1, <2>3 DEF VerdictEarned
<1>11. EvidenceFrozen'
  BY <1>1, <1>2, <1>4 DEF EvidenceFrozen
<1>12. RecordsTrue'
  BY <1>1, <1>2, <1>3, <1>4 DEF RecordsTrue, Recorded
<1>13. ShownTrue'
  BY <1>1, <1>3 DEF ShownTrue, ReviewShowsItsRun
<1> QED  BY <1>5, <1>6, <1>7, <1>8, <1>9, <1>10, <1>11, <1>12, <1>13
-----------------------------------------------------------------------------
(* Review. *)

LEMMA ReviewKeeps == ASSUME IInv, Review PROVE IInv'
<1> USE DEF IInv
<1> PICK k \in 1 .. MaxRuns :
      /\ Selected(k) /\ Presentable(k)
      /\ shown' = [run |-> k,
                   patch |-> IF files.patch_intact THEN files.patch ELSE {}]
  BY DEF Review
<1>1. /\ run.pc = "idle" /\ Len(task.runs) < MaxRuns
      /\ UNCHANGED << world, run, files, truth >>
  BY DEF Review
<1>2. /\ task' \in [state : TaskState, runs : Seq({ "run", "bare", "review" })]
      /\ task'.state = "FABLE_REVIEWED" /\ task'.runs = Append(task.runs, "review")
  <2>1. task \in [state : TaskState, runs : Seq({ "run", "bare", "review" })]
    BY DEF Types
  <2>2. Append(task.runs, "review") \in Seq({ "run", "bare", "review" })
    BY <2>1
  <2> QED  BY <2>1, <2>2 DEF Review, TaskState
<1>3. /\ task.runs \in Seq({ "run", "bare", "review" })
      /\ Len(task'.runs) = Len(task.runs) + 1
      /\ \A j \in 1 .. MaxRuns : Recorded(j)' => Recorded(j)
  <2>1. ASSUME NEW j \in 1 .. MaxRuns, Recorded(j)' PROVE Recorded(j)
    <3>1. j \in 1 .. Len(task'.runs) /\ task'.runs[j] = "run"
      BY <1>1, <2>1 DEF Recorded
    <3> QED  BY <1>2, <3>1, Typed DEF Recorded
  <2> QED  BY <1>2, <2>1, Typed
<1>4. k \in 1 .. Len(task.runs)
  BY DEF Selected, Implementers
<1>5. Recorded(k)
  BY <1>4 DEF Presentable, Recorded
<1>6. shown'.patch = truth.worker[k] /\ shown' \in [run : Nat, patch : Changes]
  <2>1. /\ files.patch_intact /\ files.patch = files.record[k].patch
        /\ files.record[k].complete
    BY DEF Presentable, FreezeHolds
  <2>2. files.record[k].patch = truth.worker[k]
    BY <1>5, <2>1 DEF RecordsTrue
  <2>3. truth.worker[k] \in Changes
    BY Typed
  <2> QED  BY <1>4, <2>1, <2>2, <2>3
<1>7. Types'
  BY <1>1, <1>2, <1>6 DEF Types
<1>8. RunIsNext' /\ LinkHeld'
  BY <1>1, <1>2 DEF RunIsNext, LinkHeld
<1>9. WorkerKnown' /\ ValidationKnown' /\ EscapesBlamed'
  BY <1>1 DEF WorkerKnown, ValidationKnown, EscapesBlamed
<1>10. VerdictEarned' /\ EvidenceFrozen'
  BY <1>1 DEF VerdictEarned, EvidenceFrozen
<1>11. RecordsTrue'
  BY <1>1, <1>3 DEF RecordsTrue
<1>12. ShownTrue'
  <2>1. Len(task.runs) \in Nat /\ MaxRuns \in Nat
    BY Typed
  <2>2. shown'.run = k
    OBVIOUS
  <2> QED  BY <1>1, <1>3, <1>4, <1>6, <2>1, <2>2 DEF ShownTrue, ReviewShowsItsRun
<1> QED  BY <1>7, <1>8, <1>9, <1>10, <1>11, <1>12
-----------------------------------------------------------------------------
(* The theorems *)

LEMMA InitHolds == Init => IInv
<1> SUFFICES ASSUME Init PROVE IInv
  OBVIOUS
<1>1. Types
  BY EvidenceAssumption DEF EvidenceAssumption, Init, Types, TaskState, Snapshot, Part,
     NoRun, NoFreeze, Run, PC, Freeze, Changes, Files, NoLedger, NoRecord, Record,
     NothingShown, NoTruth, Truth
<1>2. Offences({}) = {}
  BY OffencesOf
<1>3. /\ run.pc = "idle" /\ task.state = "CREATED" /\ task.runs = << >>
      /\ \A x \in Part : world.part[x] = 0
      /\ shown.run = 0 /\ truth.validation = {} /\ truth.escapes = {}
      /\ files.scope.changes = {}
  BY DEF Init, NoRun, NothingShown, NoTruth, NoLedger
<1>4. RunIsNext /\ LinkHeld /\ WorkerKnown /\ ValidationKnown /\ EscapesBlamed
  BY <1>3 DEF RunIsNext, LinkHeld, WorkerKnown, ValidationKnown, EscapesBlamed
<1>5. VerdictEarned /\ EvidenceFrozen /\ RecordsTrue
  BY <1>2, <1>3 DEF VerdictEarned, EvidenceFrozen, RecordsTrue, Recorded
<1>6. ShownTrue
  BY <1>3, EvidenceAssumption DEF EvidenceAssumption, ShownTrue, ReviewShowsItsRun
<1> QED  BY <1>1, <1>4, <1>5, <1>6 DEF IInv

LEMMA StutterKeeps == ASSUME IInv, UNCHANGED vars PROVE IInv'
BY DEF vars, IInv, Types, RunIsNext, LinkHeld, WorkerKnown, WorkerDelta,
   ValidationKnown, ValidationDelta, EscapesBlamed, Unmeasured, VerdictEarned,
   EvidenceFrozen, RecordsTrue, Recorded, ShownTrue, ReviewShowsItsRun

LEMMA NextKeeps == ASSUME IInv, [Next]_vars PROVE IInv'
<1>1. CASE Processes
  BY <1>1, EditKeeps, MeddleKeeps, TamperKeeps DEF Processes
<1>2. CASE Measurement
  BY <1>2, LinkBrokenKeeps, PatchFrozenKeeps, ScopeDecidedKeeps, FailKeeps,
     WorkerMeasuredKeeps, ValidationMeasuredKeeps, LandKeeps DEF Measurement
<1>3. CASE Dispatch \/ Resume \/ ValidationBegins \/ ValidationEnds \/ Review
  BY <1>3, DispatchKeeps, ResumeKeeps, ValidationBeginsKeeps, ValidationEndsKeeps,
     ReviewKeeps
<1>4. CASE \E ended \in { "exited", "timed_out", "start_failed" } : WorkerEnds(ended)
  BY <1>4, WorkerEndsKeeps
<1>5. CASE UNCHANGED vars
  BY <1>5, StutterKeeps
<1> QED  BY <1>1, <1>2, <1>3, <1>4, <1>5 DEF Next

\* The relation of evidence to history holds whatever was done, by whom, in
\* whichever phase.
THEOREM EvidenceInvariant == Spec => []IInv
BY InitHolds, NextKeeps, PTL DEF Spec

\* A review is shown all of what the worker of its run changed and no other
\* patch (_load_fable_evidence), for every worktree and number of runs.
THEOREM ReviewsShowTheirRun == Spec => []ReviewShowsItsRun
<1>1. IInv => ReviewShowsItsRun
  BY DEF IInv, ShownTrue
<1> QED  BY <1>1, EvidenceInvariant, PTL

\* Only a landing leaves "land" with a run more on the record.
LEMMA OnlyLandLands ==
  ASSUME IInv, [Next]_vars, Landed
  PROVE  \E report \in Reports : Land(report) /\ task'.state = LandingState(report)
<1>1. run.pc = "land" /\ Len(task'.runs) > Len(task.runs) /\ Len(task.runs) \in Nat
  BY Typed DEF Landed, IInv
<1>2. CASE Processes
  <2>1. PICK actor \in Actor : May(actor)
    BY <1>2 DEF Processes, Edit, Meddle, Tamper
  <2> QED  BY <1>1, <2>1, Counted DEF IInv
<1>3. CASE Measurement
  <2>1. CASE \E report \in Reports : Land(report)
    BY <2>1 DEF Land
  <2>2. CASE Fail
    BY <1>1, <2>2, Typed DEF Fail, IInv
  <2>3. CASE LinkBroken \/ PatchFrozen \/ ScopeDecided \/
             (\E readable \in BOOLEAN : WorkerMeasured(readable) \/ ValidationMeasured(readable))
    BY <1>1, <2>3 DEF LinkBroken, PatchFrozen, ScopeDecided, WorkerMeasured, ValidationMeasured
  <2> QED  BY <1>3, <2>1, <2>2, <2>3 DEF Measurement
<1>4. CASE Dispatch \/ Resume \/ ValidationBegins \/ ValidationEnds \/ Review
  BY <1>1, <1>4 DEF Dispatch, Resume, ValidationBegins, ValidationEnds, Review
<1>5. CASE \E ended \in { "exited", "timed_out", "start_failed" } : WorkerEnds(ended)
  BY <1>1, <1>5 DEF WorkerEnds
<1>6. CASE UNCHANGED vars
  BY <1>1, <1>6 DEF vars
<1> QED  BY <1>2, <1>3, <1>4, <1>5, <1>6 DEF Next

LEMMA EscapeLands ==
  ASSUME IInv, [Next]_vars, Landed, truth.escapes # {}
  PROVE  task'.state = "POLICY_VIOLATION"
<1>1. PICK report \in Reports : Land(report) /\ task'.state = LandingState(report)
  BY OnlyLandLands
<1>2. Violated
  BY DEF Landed, IInv, EscapesBlamed, Violated
<1> QED  BY <1>1, <1>2 DEF LandingState

\* Whatever a worker or validation moved outside the worktree's content lands
\* the task as a violation, whoever ended the run and whoever put it back
\* (_finalise_worker_run, _land_state).
THEOREM EscapesLandAsViolations == Spec => EscapesAreViolations
<1>1. IInv /\ [Next]_vars =>
        (Landed /\ truth.escapes # {} => task'.state = "POLICY_VIOLATION")
  BY EscapeLands
<1> QED  BY <1>1, EvidenceInvariant, PTL DEF Spec, EscapesAreViolations

LEMMA ViolationLands ==
  ASSUME IInv, [Next]_vars, Landed, task'.state = "POLICY_VIOLATION"
  PROVE  \/ truth.offences # {} \/ ForbiddenHits(truth.validation) # {}
         \/ truth.escapes # {} \/ run.tampered # {}
<1>1. PICK report \in Reports : Land(report) /\ task'.state = LandingState(report)
  BY OnlyLandLands
<1>2. Violated
  <2> SUFFICES ASSUME ~ Violated PROVE FALSE
    OBVIOUS
  <2>1. LandingState(report) =
          IF run.ended = "timed_out" THEN "TIMED_OUT"
          ELSE IF ProviderEnded(report) \/ WorkerResult(report) = "none"
                    \/ report.exit # "zero" THEN "FAILED"
          ELSE [FAILED |-> "FAILED", BLOCKED |-> "BLOCKED",
                IMPLEMENTED |-> "AWAITING_SOL_REVIEW"][WorkerResult(report)]
    BY DEF LandingState
  <2>2. WorkerResult(report) \in { "none", "FAILED", "BLOCKED", "IMPLEMENTED" }
    BY DEF WorkerResult, Claim, Status
  <2> QED  BY <1>1, <2>1, <2>2
<1> QED  BY <1>2 DEF Landed, Violated, IInv, VerdictEarned, EscapesBlamed

\* A task lands as a violation only over something that was done: an offence of
\* one of its workers, a forbidden path that validation changed, an escape, or
\* evidence or administration that did not measure as it had (_land_state).
THEOREM ViolationsAreEarned == Spec => ChargesAreEarned
<1>1. IInv /\ [Next]_vars =>
        (Landed /\ task'.state = "POLICY_VIOLATION" =>
           \/ truth.offences # {} \/ ForbiddenHits(truth.validation) # {}
           \/ truth.escapes # {} \/ run.tampered # {})
  BY ViolationLands
<1> QED  BY <1>1, EvidenceInvariant, PTL DEF Spec, ChargesAreEarned

\* What a run must have been for its task to await a review.
LEMMA AwaitingLands ==
  ASSUME NEW report \in Reports, LandingState(report) = "AWAITING_SOL_REVIEW"
  PROVE  /\ ~ Violated
         /\ run.ended # "timed_out" /\ ~ ProviderEnded(report)
         /\ WorkerResult(report) = "IMPLEMENTED" /\ report.exit = "zero"
<1>1. WorkerResult(report) \in { "none", "FAILED", "BLOCKED", "IMPLEMENTED" }
  BY DEF WorkerResult, Claim, Status
<1>2. CASE WorkerResult(report) = "FAILED"
  BY <1>2 DEF LandingState
<1>3. CASE WorkerResult(report) = "BLOCKED"
  BY <1>3 DEF LandingState
<1>4. CASE WorkerResult(report) = "IMPLEMENTED"
  BY <1>4 DEF LandingState
<1>5. CASE WorkerResult(report) = "none"
  BY <1>5 DEF LandingState
<1> QED  BY <1>1, <1>2, <1>3, <1>4, <1>5

LEMMA FrozenLands ==
  ASSUME IInv, [Next]_vars, Landed, task'.state = "AWAITING_SOL_REVIEW"
  PROVE  files.patch_intact /\ files.record[run.index].intact
<1>1. PICK report \in Reports : Land(report) /\ task'.state = LandingState(report)
  BY OnlyLandLands
<1> QED  BY <1>1, AwaitingLands DEF Landed, Violated, IInv, EvidenceFrozen

\* Evidence that no longer is what was frozen never gets a task to review.
THEOREM FrozenEvidenceLands == Spec => FrozenEvidenceHolds
<1>1. IInv /\ [Next]_vars =>
        (Landed /\ task'.state = "AWAITING_SOL_REVIEW" =>
           files.patch_intact /\ files.record[run.index].intact)
  BY FrozenLands
<1> QED  BY <1>1, EvidenceInvariant, PTL DEF Spec, FrozenEvidenceHolds

LEMMA ImplementedLands ==
  ASSUME task'.state = "AWAITING_SOL_REVIEW", NEW report \in Reports, Land(report)
  PROVE  /\ run.ended = "exited" /\ report.exit = "zero"
         /\ report.envelope \notin { "provider_limit", "api_error" }
         /\ "IMPLEMENTED" \in { report.structured, report.result }
         /\ report.structured \in { "absent", "IMPLEMENTED" }
<1>1. LandingState(report) = "AWAITING_SOL_REVIEW"
  BY DEF Land
<1>2. WorkerResult(report) = "IMPLEMENTED" /\ report.exit = "zero"
  BY <1>1, AwaitingLands
<1>3. /\ run.ended = "exited" /\ ~ ProviderEnded(report)
      /\ Payload(report) = "IMPLEMENTED"
  BY <1>2 DEF WorkerResult, Claim, Status
<1> QED  BY <1>2, <1>3 DEF ProviderEnded, Payload

\* A run counts as implemented only if it ended by itself with zero, nothing the
\* provider said stands against it, and it says so where it is read first.
THEOREM ImplementedMeansExited == Spec => ImplementedIsEarned
<1>1. [Next]_vars =>
        (Landed /\ task'.state = "AWAITING_SOL_REVIEW" =>
           \A report \in Reports : Land(report) =>
             /\ run.ended = "exited"
             /\ report.exit = "zero"
             /\ report.envelope \notin { "provider_limit", "api_error" }
             /\ "IMPLEMENTED" \in { report.structured, report.result }
             /\ report.structured \in { "absent", "IMPLEMENTED" })
  BY ImplementedLands
<1> QED  BY <1>1, PTL DEF Spec, ImplementedIsEarned
-----------------------------------------------------------------------------
(* No offence is forgotten, as long as every worker's change is one that     *)
(* decide_scope looks at: a later change between nothing and a directory     *)
(* would take the place of the offence in the history and not count.         *)

LEMMA OffencesPersist ==
  ASSUME IInv, OffencesKept, AllMaterial, [Next]_vars
  PROVE  OffencesKept'
<1> DEFINE Same == /\ truth'.offences = truth.offences
                   /\ files'.scope.changes = files.scope.changes
<1> USE DEF IInv
<1>1. CASE Processes
  <2>1. PICK actor \in Actor :
          /\ May(actor) /\ UNCHANGED << task, run >>
          /\ UNCHANGED files \/ \E k \in 1 .. MaxRuns : Tamper(actor, k)
    BY <1>1 DEF Processes, Edit, Meddle, Tamper
  <2>2. files'.scope.changes = files.scope.changes
    <3>1. PICK held \in Files : held = files
      BY DEF Types
    <3> QED  BY <2>1, <3>1 DEF Tamper, Files
  <2>3. truth'.offences = truth.offences
    BY <2>1, Counted
  <2> QED  BY <2>1, <2>2, <2>3 DEF OffencesKept, ViolationsPersist
<1>2. ASSUME Dispatch \/ Resume PROVE OffencesKept'
  <2>1. /\ task'.state = "RUNNING" /\ run'.pc = "worker" /\ Same
    <3>1. PICK held \in Files, old \in [state : TaskState, runs : Seq({ "run", "bare", "review" })] :
            held = files /\ old = task
      BY DEF Types
    <3>2. task'.state = "RUNNING" /\ run'.pc = "worker"
      BY <1>2, <3>1 DEF Dispatch, Resume, NoRun
    <3>3. Same
      BY <1>2, <3>1 DEF Dispatch, Resume, Files
    <3> QED  BY <3>2, <3>3
  <2> QED  BY <2>1 DEF OffencesKept, ViolationsPersist
<1>3. ASSUME Fail \/ LinkBroken PROVE OffencesKept'
  <2>1. task'.state = "FAILED" /\ run'.pc = "idle" /\ Same
    BY <1>3, Closed DEF Fail, LinkBroken, Types, Close
  <2> QED  BY <2>1 DEF OffencesKept, ViolationsPersist
<1>4. ASSUME NEW report \in Reports, Land(report) PROVE OffencesKept'
  <2>1. task'.state = LandingState(report) /\ run.pc = "land" /\ run'.pc = "idle" /\ Same
    BY <1>4, Closed DEF Land
  <2>2. task'.state # "FABLE_REVIEWED"
    BY <2>1, Landings
  <2>3. task'.state = "AWAITING_SOL_REVIEW" => truth.offences = {}
    BY <2>1, AwaitingLands DEF OffencesKept, Violated
  <2> QED  BY <2>1, <2>2, <2>3 DEF OffencesKept, ViolationsPersist
<1>5. ASSUME \/ PatchFrozen \/ ValidationBegins \/ ValidationEnds
             \/ \E readable \in BOOLEAN : WorkerMeasured(readable)
             \/ \E readable \in BOOLEAN : ValidationMeasured(readable)
             \/ \E ended \in { "exited", "timed_out", "start_failed" } : WorkerEnds(ended)
      PROVE  OffencesKept'
  <2>1. Same
    <3>1. PICK held \in Files : held = files
      BY DEF Types
    <3>2. PICK old \in Truth : old = truth
      BY DEF Types
    <3> QED  BY <1>5, <3>1, <3>2 DEF PatchFrozen, ValidationBegins, ValidationEnds,
                WorkerMeasured, ValidationMeasured, WorkerEnds, Files, Truth
  <2>2. run'.pc # "land" /\ task' = task
    <3>1. PICK old \in Run : old = run
      BY DEF Types
    <3> QED  BY <1>5, <3>1 DEF Run, PatchFrozen, ValidationBegins, ValidationEnds,
                WorkerMeasured, ValidationMeasured, WorkerEnds
  <2> QED  BY <2>1, <2>2 DEF OffencesKept, ViolationsPersist
<1>6. ASSUME ScopeDecided PROVE OffencesKept'
  <2>1. /\ run.pc = "scope" /\ run.index \in 1 .. MaxRuns /\ task' = task
        /\ truth.worker[run.index] = WorkerDelta
        /\ run'.in_scope = (Outside \cup Hits = {})
        /\ truth'.offences = truth.offences \cup Offences(WorkerDelta)
        /\ files'.scope.changes = Ledger
    BY <1>6, ScopeDecidedFacts
  <2>2. \A c \in WorkerDelta : Material(c)
    BY <2>1 DEF AllMaterial
  <2>3. ASSUME NEW p \in truth'.offences PROVE p \in Offences(Ledger)
    <3>1. PICK c \in WorkerDelta \cup files.scope.changes :
            c.path = p /\ Material(c) /\ (p \in Forbidden \/ p \notin Allowed)
      BY <2>1, <2>3, OffencesOf DEF OffencesKept
    <3>2. \E d \in Ledger : d.path = p /\ Material(d)
      BY <2>2, <3>1 DEF Ledger, PathsOf
    <3> QED  BY <3>1, <3>2, OffencesOf
  <2>4. run'.in_scope => truth'.offences = {}
    BY <2>1, <2>3, VerdictOf
  <2>5. task.state = "RUNNING"
    BY <2>1 DEF RunIsNext
  <2> QED  BY <2>1, <2>3, <2>4, <2>5 DEF OffencesKept, ViolationsPersist
<1>7. ASSUME Review PROVE OffencesKept'
  <2>1. task.state \in TaskState /\ IsTransitionAllowed(task.state, "FABLE_REVIEWED")
    BY <1>7 DEF Review, Types
  <2>2. task.state = "AWAITING_SOL_REVIEW"
    BY <2>1 DEF IsTransitionAllowed, AllowedTransitions, TaskState, OffRamps
  <2> QED  BY <1>7, <2>2 DEF Review, OffencesKept, ViolationsPersist
<1>8. CASE UNCHANGED vars
  BY <1>8 DEF vars, OffencesKept, ViolationsPersist
<1> QED  BY <1>1, <1>2, <1>3, <1>4, <1>5, <1>6, <1>7, <1>8 DEF Next, Measurement

\* A change out of scope keeps the task from review for good, whatever later runs
\* change again or put back, in every behaviour whose workers make no change
\* between nothing and a directory (decide_scope_verdicts).
THEOREM ViolationsOutliveRuns == Spec /\ []AllMaterial => []ViolationsPersist
<1>1. Init => OffencesKept
  BY DEF Init, OffencesKept, ViolationsPersist, NoTruth, NoRun, TaskState
<1>2. IInv /\ AllMaterial /\ OffencesKept /\ [Next]_vars => OffencesKept'
  BY OffencesPersist
<1>3. OffencesKept => ViolationsPersist
  BY DEF OffencesKept
<1> QED  BY <1>1, <1>2, <1>3, EvidenceInvariant, PTL DEF Spec

\* So it does wherever a snapshot lists files and links only.
THEOREM ViolationsPersistAmongFiles ==
  ASSUME Directory \notin Object PROVE Spec => []ViolationsPersist
<1>1. IInv => AllMaterial
  BY Typed DEF IInv, AllMaterial, Material, Changes, Change
<1> QED  BY <1>1, EvidenceInvariant, ViolationsOutliveRuns, PTL
=============================================================================
