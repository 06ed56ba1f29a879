---------------------------- MODULE Preparation ----------------------------
(***************************************************************************)
(* What stands between a call and its worker: prepare_dispatch and         *)
(* prepare_resume (evidence/prepare.py), the Git rows they may run         *)
(* (git_order.py, git.py), the repository authority and administration     *)
(* they capture (identity.py, gitadmin.py), the worktree they tie to them  *)
(* (worktreeauth.py) and the seal they leave (seal.py, basetree.py).       *)
(*                                                                         *)
(* One task.  The repository lock keeps other dispatchers away and nobody  *)
(* else: whatever else uses the repository may change it between any two   *)
(* of these steps, and a file is the number of the change that wrote it.   *)
(***************************************************************************)
EXTENDS Naturals, Sequences, FiniteSets, SequencesExt

CONSTANTS
  Path,         \* paths of the base commit
  Blob,         \* its blobs
  Gitlink,      \* a submodule, which is no blob of this repository
  BaseTree,     \* what `git ls-tree` may answer
  Loose,        \* loose objects
  Malformed,    \* those that are not canonical for their name
  Baselined,    \* those the operator's baseline was published over
  None,
  MaxChanges,   \* bound: changes made by whatever else uses the repository
  MaxFaults,    \* bound: failing commands and writes, and deaths
  MaxCalls      \* bound: calls

\* root, dot_git and commondir are objects; shape is what lstat says of .git.
Layout == [root : Nat, dot_git : Nat, commondir : Nat,
           shape : { "directory", "gitfile", "other" }]

ASSUME PreparationAssumption ==
  /\ BaseTree \subseteq [Path -> Blob \cup {Gitlink}]
  /\ Malformed \subseteq Loose /\ Baselined \subseteq Loose \ Malformed
  /\ Gitlink \notin Blob /\ None \notin Layout
  /\ MaxChanges \in Nat /\ MaxFaults \in Nat /\ MaxCalls \in Nat

VARIABLES
  live,      \* the repository
  baseline,  \* the operator's baseline (module AdminBaseline)
  worktree,  \* the task's worktree
  staging,   \* the seal in the making: what each of its files holds
  sealed,    \* the seal published beside the task
  created,   \* whether the task is in the store
  runs,      \* run_count
  journal,   \* git-invocations.jsonl: 0 is the dispatch, k is runs/k
  call,      \* the call in progress, or the last one
  spent,     \* bounds: changes, faults and calls so far
  layouts,   \* history: the layouts the repository has had
  launched   \* history: what each worker was started on

vars == << live, baseline, worktree, staging, sealed, created, runs, journal,
           call, spent, layouts, launched >>

disk == << staging, sealed, created, runs >>

DispatchRows == << "G1", "G2", "G3", "G4", "G8", "G9" >>

ResumeRows == << "G1_PRIME" >>

Row(kind) == IF kind = "dispatch" THEN DispatchRows ELSE ResumeRows

\* The declared order names each row once.
Rank(kind, row) == CHOOSE i \in DOMAIN Row(kind) : Row(kind)[i] = row

\* The entries of the authority are captured twice.
DispatchSteps ==
  << "root", "dot_git", "commondir", "matches",
     "administration", "head", "tree", "context", "establish",
     "G1", "G2", "G3", "G4", "worktree", "start", "G8", "G9",
     "root_again", "dot_git_again", "commondir_again", "matches_again",
     "tree_again", "head_again",
     "seal", "load", "worker_start", "create", "publish", "launch" >>

ResumeSteps ==
  << "read", "root", "dot_git", "commondir", "matches",
     "verify", "administration", "head", "context", "authenticate", "tree",
     "establish", "G1_PRIME",
     "root_again", "dot_git_again", "commondir_again", "matches_again",
     "tree_again", "head_again",
     "worker_start", "launch" >>

Steps(kind) == IF kind = "dispatch" THEN DispatchSteps ELSE ResumeSteps

Position(kind, step) ==
  CHOOSE i \in DOMAIN Steps(kind) : Steps(kind)[i] = step

FirstLayout ==
  [root |-> 0, dot_git |-> 0, shape |-> "directory", commondir |-> 0]

NoWorktree ==
  [made |-> "no", link |-> 0, common |-> 0, at_base |-> FALSE, registered |-> FALSE]

NoFiles == << >>

NoCall ==
  [kind |-> "dispatch", step |-> "idle", index |-> 0, seen |-> FirstLayout,
   authority |-> None, anchor |-> None, identity |-> None, old_loose |-> {},
   head |-> 0, tree |-> 0, head_again |-> 0, tree_again |-> 0,
   listing |-> None, start |-> {}, batch |-> {}, ran |-> << >>]

Init ==
  /\ live = [layout |-> FirstLayout, exact |-> 0, loose |-> Baselined,
             head |-> 0, tree |-> 0]
  /\ baseline = [commondir |-> 0, exact |-> 0, loose |-> Baselined]
  /\ worktree = NoWorktree
  /\ staging = NoFiles /\ sealed = NoFiles
  /\ created = FALSE
  /\ runs = 0
  /\ journal = [k \in 0 .. MaxCalls |-> << >>]
  /\ call = NoCall
  /\ spent = [changes |-> 0, faults |-> 0, calls |-> 0]
  /\ layouts = { FirstLayout }
  /\ launched = << >>
-----------------------------------------------------------------------------
(* gitadmin: what a capture accepts, and what reconciles with the baseline *)

LayoutResolves == live.layout.shape # "other"

\* Bounded, inflated and hashed, each is the object its name says.
Canonical(objects) == objects \cap Malformed = {}

\* Objects of the baseline are not looked into again.
Captures(old_loose) == LayoutResolves /\ Canonical(live.loose \ old_loose)

Reconciles ==
  /\ baseline.commondir = live.layout.commondir
  /\ baseline.exact = live.exact
  /\ baseline.loose \subseteq live.loose
-----------------------------------------------------------------------------
(* Everybody else *)

Fresh == spent.changes + 1

Change == /\ spent.changes < MaxChanges
          /\ spent' = [spent EXCEPT !.changes = Fresh]

\* .git, its commondir or the whole root is replaced, or put back: not while
\* a call looks at it, see AuthorityWasReal.
ChangeLayout ==
  /\ Change
  /\ \E s \in { "directory", "gitfile", "other" },
        d \in { live.layout.commondir, Fresh } :
     \E layout \in
       (IF call.step \in { "over", "running" } THEN layouts ELSE {}) \cup
       { [live.layout EXCEPT !.commondir = Fresh],
         [live.layout EXCEPT !.root = Fresh],
         [live.layout EXCEPT !.dot_git = Fresh, !.shape = s, !.commondir = d] } :
       /\ layout # live.layout
       /\ live' = [live EXCEPT !.layout = layout]
       /\ layouts' = layouts \cup { layout }
  /\ UNCHANGED << baseline, worktree, disk, journal, call, launched >>

ChangeRepository ==
  /\ Change
  /\ \/ live' = [live EXCEPT !.exact = Fresh]
     \/ \E o \in Loose :
          live' = [live EXCEPT !.loose = IF o \in @ THEN @ \ {o} ELSE @ \cup {o}]
     \/ \E v \in { 0, Fresh, None } \ { live.head } :
          live' = [live EXCEPT !.head = v]  \* None does not resolve
     \/ \E v \in { 0, Fresh, None } \ { live.tree } :
          live' = [live EXCEPT !.tree = v]  \* None holds what cannot be read
  /\ UNCHANGED << baseline, worktree, disk, journal, call, layouts, launched >>

\* The four files that tie the worktree to the repository are one link.
ChangeWorktree ==
  /\ Change
  /\ worktree.made = "yes"
  /\ \/ worktree' = [worktree EXCEPT !.link = Fresh]
     \/ worktree' = [worktree EXCEPT !.at_base = ~ @]
     \/ worktree' = [worktree EXCEPT !.registered = FALSE]
     \/ worktree' = [worktree EXCEPT !.made = "no"]
  /\ UNCHANGED << live, baseline, disk, journal, call, layouts, launched >>

\* A file of the seal is written anew from what there is now, or lost: it is
\* not put back, see RunsAgree.
ChangeSeal ==
  /\ Change
  /\ \E f \in DOMAIN sealed \ { "seal-manifest" } :
       \/ sealed' = [g \in DOMAIN sealed \ {f} |-> sealed[g]]
       \/ /\ f = "repository-authority"
          /\ sealed' = [sealed EXCEPT ![f] = live.layout]
       \/ /\ f = "worktree-authority"
          /\ sealed' = [sealed EXCEPT ![f] =
                          [link |-> worktree.link, common |-> worktree.common]]
  /\ UNCHANGED << live, baseline, worktree, staging, created, runs, journal,
                  call, layouts, launched >>

\* trust-repo-admin publishes what there is now.
Rebaseline ==
  /\ Change
  /\ Captures({})
  /\ baseline' = [commondir |-> live.layout.commondir, exact |-> live.exact,
                  loose |-> live.loose]
  /\ UNCHANGED << live, worktree, disk, journal, call, layouts, launched >>

Others == ChangeLayout \/ ChangeRepository \/ ChangeWorktree \/ ChangeSeal
            \/ Rebaseline
-----------------------------------------------------------------------------
(* The ways on and the ways out of a step *)

At(step) == call.step = step

Past(step) ==
  /\ call.step \in Range(Steps(call.kind))
  /\ Position(call.kind, call.step) > Position(call.kind, step)

Go(c) ==
  call' = [c EXCEPT !.step =
             Steps(call.kind)[Position(call.kind, call.step) + 1]]

Over(c) == call' = [c EXCEPT !.step = "over"]

Fault == /\ spent.faults < MaxFaults
         /\ spent' = [spent EXCEPT !.faults = @ + 1]

\* The except clause of prepare_dispatch: staging goes, and the worktree if
\* the command that makes it had returned.  Its registration stays.
CleanUp ==
  IF call.kind = "dispatch" /\ Past("establish") /\ ~ Past("worker_start")
    THEN /\ staging' = NoFiles
         /\ worktree' = IF Past("G4") THEN [worktree EXCEPT !.made = "no"]
                                      ELSE worktree
    ELSE UNCHANGED << staging, worktree >>

Refuse ==
  /\ Over(call)
  /\ CleanUp
  /\ UNCHANGED << live, baseline, sealed, created, runs, journal, spent,
                  layouts, launched >>

\* A step that only looks: on with what it saw, or refused.
Look(holds, c) ==
  IF holds
    THEN /\ Go(c)
         /\ UNCHANGED << live, baseline, worktree, disk, journal, spent,
                         layouts, launched >>
    ELSE Refuse

BeginDispatch ==
  /\ spent.calls = 0
  /\ spent' = [spent EXCEPT !.calls = 1]
  /\ call' = [NoCall EXCEPT !.step = "root"]
  /\ UNCHANGED << live, baseline, worktree, disk, journal, layouts, launched >>

\* run_index is one more than the runs on the record, so that a resume that
\* recorded no run is followed by one of the same index.
BeginResume ==
  /\ At("over")
  /\ launched # << >>
  /\ spent.calls < MaxCalls
  /\ spent' = [spent EXCEPT !.calls = @ + 1]
  /\ call' = [NoCall EXCEPT !.kind = "resume", !.step = "read",
                            !.index = runs + 1]
  /\ UNCHANGED << live, baseline, worktree, disk, journal, layouts, launched >>

DispatcherDies ==
  /\ call.step \in Range(Steps(call.kind))
  /\ Fault
  /\ Over(call)
  /\ UNCHANGED << live, baseline, worktree, disk, journal, layouts, launched >>
-----------------------------------------------------------------------------
(* capture_repository_authority, entry by entry *)

CaptureRoot ==
  /\ call.step \in { "root", "root_again" }
  /\ Look(TRUE, [call EXCEPT !.seen.root = live.layout.root])

\* A dispatch knows no administration root that a gitfile could name; a
\* later capture authorises the directories of the first.
CaptureDotGit ==
  /\ call.step \in { "dot_git", "dot_git_again" }
  /\ Look(\/ live.layout.shape = "directory"
          \/ live.layout.shape = "gitfile" /\ call.authority # None,
          [call EXCEPT !.seen.dot_git = live.layout.dot_git,
                       !.seen.shape = live.layout.shape])

CaptureCommondir ==
  /\ call.step \in { "commondir", "commondir_again" }
  /\ \/ Look(TRUE, [call EXCEPT !.seen.commondir = live.layout.commondir])
     \/ live.layout.commondir # 0 /\ Refuse  \* not a directory it may be

\* Mutant of CaptureMatches: the second capture is not compared.
CaptureMatches_Once ==
  /\ call.step \in { "matches", "matches_again" }
  /\ Look(/\ call.seen.root = live.layout.root
          /\ call.authority # None /\ At("matches") => call.seen = call.authority,
          [call EXCEPT !.authority = IF At("matches") THEN call.seen ELSE @])

\* The root is looked at a second time, then the capture is complete: it is
\* the authority of a dispatch, and has to equal that of what is sealed.
CaptureMatches ==
  /\ call.step \in { "matches", "matches_again" }
  /\ Look(/\ call.seen.root = live.layout.root
          /\ call.authority # None => call.seen = call.authority,
          [call EXCEPT !.authority = call.seen])
-----------------------------------------------------------------------------
(* The gates on the administration and on the primary tree *)

Administration ==
  /\ At("administration")
  /\ Look(Captures(baseline.loose) /\ Reconciles,
          [call EXCEPT !.old_loose = baseline.loose])

\* The selected registration is a directory of the common directory.
\* A resume compares the primary tree only here.
WorkerStart ==
  /\ At("worker_start")
  /\ Look(/\ Captures(call.old_loose)
          /\ worktree.common = live.layout.commondir
          /\ call.kind = "resume" =>
               call.head = call.head_again /\ call.tree = call.tree_again, call)

\* At most five symbolic hops, loose before packed, to a full commit id.
HeadResolves == live.head # None

\* Nothing unreadable, ambiguous or left out.
Usable == live.tree # None

\* Mutant of PrimaryAgain: HEAD is compared, the tree is not.
PrimaryAgain_HeadOnly ==
  \/ At("tree_again") /\ Look(Usable, [call EXCEPT !.tree_again = live.tree])
  \/ /\ At("head_again")
     /\ Look(HeadResolves /\ (call.kind = "dispatch" => live.head = call.head),
             [call EXCEPT !.head_again = live.head])

PrimaryHead ==
  At("head") /\ Look(HeadResolves, [call EXCEPT !.head = live.head])

PrimaryTree == At("tree") /\ Look(Usable, [call EXCEPT !.tree = live.tree])

PrimaryAgain ==
  \/ At("tree_again") /\ Look(Usable, [call EXCEPT !.tree_again = live.tree])
  \/ /\ At("head_again")
     /\ Look(/\ HeadResolves
             /\ call.kind = "dispatch" =>
                  live.head = call.head /\ call.tree = call.tree_again,
             [call EXCEPT !.head_again = live.head])

\* identity_preflight and context_preflight (module WorkerTerms) may refuse.
Context == At("context") /\ (Look(TRUE, call) \/ Refuse)
-----------------------------------------------------------------------------
(* Git rows *)

Written == SelectSeq(journal[call.index], LAMBDA row : row # "marker")

\* assert_row_may_follow asks the file, whichever call wrote its last row.
MayFollow(row) ==
  Written # << >> => Rank(call.kind, Last(Written)) < Rank(call.kind, row)

Recorded(row) == journal' = [journal EXCEPT ![call.index] = Append(@, row)]

Ran(row) == [call EXCEPT !.ran = Append(@, row)]

Establish ==
  /\ At("establish")
  /\ \/ /\ Recorded("marker")
        /\ Go(call)
        /\ UNCHANGED spent
     \/ Fault /\ Over(call) /\ UNCHANGED journal
  /\ UNCHANGED << live, baseline, worktree, disk, layouts, launched >>

\* Mutant of RowRuns: the row is journalled before its command runs.
RowRuns_RecordedFirst(row, c) ==
  /\ At(row)
  /\ MayFollow(row)
  /\ Recorded(row)
  /\ \/ Go([c EXCEPT !.ran = Append(@, row)]) /\ UNCHANGED spent
     \/ Fault /\ Over(call)
  /\ UNCHANGED << live, baseline, worktree, disk, layouts, launched >>

\* execute_declared_git: the command, then its row.
RowRuns(row, c) ==
  /\ At(row)
  /\ MayFollow(row)
  /\ Recorded(row)
  /\ Go([c EXCEPT !.ran = Append(@, row)])
  /\ UNCHANGED << live, baseline, worktree, disk, spent, layouts, launched >>

\* It fails or times out, or its row cannot be written.
RowFails(row) ==
  /\ At(row)
  /\ MayFollow(row)
  /\ Fault
  /\ Over(Ran(row))
  /\ Recorded(row) \/ UNCHANGED journal
  /\ CleanUp
  /\ UNCHANGED << live, baseline, sealed, created, runs, layouts, launched >>

RowRefused == /\ call.step \in Range(Row(call.kind))
              /\ ~ MayFollow(call.step)
              /\ Refuse

BaseRows ==
  \/ RowRuns("G1", call)
  \/ \E t \in BaseTree : RowRuns("G2", [call EXCEPT !.listing = t])
  \/ RowRuns("G3", call)
  \/ RowRuns("G9", call)  \* what it prints is not read
  \/ \E row \in { "G1", "G2", "G3", "G8", "G9", "G1_PRIME" } : RowFails(row)

\* `git worktree add` checks files out, which may run what the repository
\* configures, and what that changes is a change as well.
CreateWorktree ==
  /\ At("G4")
  /\ MayFollow("G4")
  /\ Recorded("G4")
  /\ Go(Ran("G4"))
  /\ worktree' = [made |-> "yes", link |-> 0, common |-> live.layout.commondir,
                  at_base |-> TRUE, registered |-> TRUE]
  /\ \/ UNCHANGED << live, spent >>
     \/ Change /\ live' = [live EXCEPT !.tree = Fresh]
  /\ UNCHANGED << baseline, disk, layouts, launched >>

\* However far it came, nobody removes what it made: created is still false.
CreateWorktreeFails ==
  /\ At("G4")
  /\ MayFollow("G4")
  /\ Fault
  /\ Over(Ran("G4"))
  /\ Recorded("G4") \/ UNCHANGED journal
  /\ worktree' \in { worktree, [worktree EXCEPT !.made = "partial"],
                     [made |-> "yes", link |-> 0, registered |-> TRUE,
                      common |-> live.layout.commondir, at_base |-> TRUE] }
  /\ staging' = NoFiles
  /\ UNCHANGED << live, baseline, sealed, created, runs, layouts, launched >>

\* A missing registration is refused after the row.
ListForResume ==
  \/ worktree.registered /\ RowRuns("G1_PRIME", call)
  \/ /\ ~ worktree.registered /\ At("G1_PRIME") /\ MayFollow("G1_PRIME")
     /\ Recorded("G1_PRIME")
     /\ Over(Ran("G1_PRIME"))
     /\ UNCHANGED << live, baseline, worktree, disk, spent, layouts, launched >>
-----------------------------------------------------------------------------
(* The worktree, and the bytes of its base *)

Anchor == [link |-> worktree.link, common |-> worktree.common]

CaptureWorktree ==
  /\ At("worktree")
  /\ Look(/\ worktree.made = "yes" /\ worktree.at_base
          /\ worktree.common = call.authority.commondir,
          [call EXCEPT !.anchor = Anchor])

\* Mutant of VerifyWorktree: HEAD is enough.
VerifyWorktree_HeadOnly ==
  /\ At("verify")
  /\ Look(worktree.made = "yes" /\ worktree.at_base,
          [call EXCEPT !.anchor = Anchor])

\* verify_worktree_authority: the verdict base_held.
VerifyWorktree ==
  /\ At("verify")
  /\ Look(worktree.made = "yes" /\ worktree.at_base /\ Anchor = call.anchor,
          call)

Files(t) == { p \in Path : t[p] # Gitlink }

\* prepare_dispatch asks for a blob where the file checked out at a path is
\* not the blob of that path.
Requested(t, start) == { t[p] : p \in Files(t) \ start }

Blobs(t) == { t[p] : p \in Files(t) }

\* create_task_seal wants those that no path at all has brought.
Unresolved(t, start) == Blobs(t) \ { t[p] : p \in Files(t) \cap start }

\* The paths whose checked-out bytes are those of the base: a filter, an
\* attribute or a sparse checkout leaves a path out.
CaptureStart ==
  /\ At("start")
  /\ \E start \in SUBSET Files(call.listing) :
       Look(worktree.made = "yes", [call EXCEPT !.start = start])

\* A blob the repository lacks is answered as missing.
ReadBatch ==
  LET wanted == Requested(call.listing, call.start) IN
  \/ RowRuns("G8", [call EXCEPT !.batch = wanted])
  \/ /\ At("G8") /\ MayFollow("G8") /\ Recorded("G8")
     /\ Fault
     /\ \E b \in wanted :
          Go([call EXCEPT !.batch = wanted \ {b}, !.ran = Append(@, "G8")])
     /\ UNCHANGED << live, baseline, worktree, disk, layouts, launched >>
-----------------------------------------------------------------------------
(* The seal *)

SealOrder == << "cas", "base-tree", "identity-record", "repository-authority",
                "worktree-authority", "seal-manifest" >>

Identity == [root |-> call.authority.root, dot_git |-> call.authority.dot_git,
             commondir |-> call.authority.commondir, tree |-> call.listing]

Content(f) ==
  CASE f = "cas" -> Blobs(call.listing)
    [] f = "base-tree" -> call.listing
    [] f = "identity-record" -> Identity
    [] f = "repository-authority" -> call.authority
    [] f = "worktree-authority" -> call.anchor
    [] f = "seal-manifest" -> staging  \* what it names is what was written

\* create_task_seal: the batch answers what is unresolved and no more, and
\* each file is published by a rename, the manifest last.
WriteSeal ==
  LET f == SealOrder[Cardinality(DOMAIN staging) + 1] IN
  /\ At("seal")
  /\ call.batch = Unresolved(call.listing, call.start)
  /\ \/ /\ staging' = [g \in DOMAIN staging \cup {f} |->
                         IF g = f THEN Content(f) ELSE staging[g]]
        /\ IF f = "seal-manifest" THEN Go(call) ELSE UNCHANGED call
        /\ UNCHANGED << worktree, spent >>
     \/ Fault /\ Over(call) /\ CleanUp
  /\ UNCHANGED << live, baseline, sealed, created, runs, journal, layouts,
                  launched >>

SealRefused == /\ At("seal")
               /\ call.batch # Unresolved(call.listing, call.start)
               /\ Refuse

\* load_task_seal: every file is what the manifest says, ...
AsListed(seal) ==
  /\ "seal-manifest" \in DOMAIN seal
  /\ \A f \in DOMAIN seal["seal-manifest"] :
       f \in DOMAIN seal /\ seal[f] = seal["seal-manifest"][f]

\* ... the identity record agrees with the tree and the authority, ...
IdentityCoheres(seal) ==
  LET identity == seal["identity-record"]
      authority == seal["repository-authority"] IN
  /\ identity.tree = seal["base-tree"]
  /\ identity.root = authority.root
  /\ identity.dot_git = authority.dot_git
  /\ identity.commondir = authority.commondir

\* ... and the content store holds the blobs of the tree and no more.
Loads(seal) ==
  AsListed(seal) /\ IdentityCoheres(seal) /\ seal["cas"] = Blobs(seal["base-tree"])

LoadBack == At("load") /\ Look(Loads(staging), call)

\* What a resume reads before anything vouches for it.
ReadSeal ==
  /\ At("read")
  /\ IF { "identity-record", "repository-authority", "worktree-authority" }
          \subseteq DOMAIN sealed
       THEN Look(TRUE, [call EXCEPT !.identity = sealed["identity-record"],
                          !.authority = sealed["repository-authority"],
                          !.anchor = sealed["worktree-authority"]])
       ELSE Refuse

Authenticate ==
  /\ At("authenticate")
  /\ Look(Loads(sealed) /\ sealed["identity-record"] = call.identity, call)

\* store.create, then the seal moves beside the task.  prepare_dispatch has
\* returned: what fails from here on is not cleaned up.
CreateTask ==
  /\ At("create")
  /\ \/ created' = TRUE /\ Go(call) /\ UNCHANGED spent
     \/ Fault /\ Over(call) /\ UNCHANGED created
  /\ UNCHANGED << live, baseline, worktree, staging, sealed, runs, journal,
                  layouts, launched >>

PublishSeal ==
  /\ At("publish")
  /\ \/ sealed' = staging /\ staging' = NoFiles /\ Go(call) /\ UNCHANGED spent
     \/ Fault /\ Over(call) /\ UNCHANGED << sealed, staging >>
  /\ UNCHANGED << live, baseline, worktree, created, runs, journal, layouts,
                  launched >>

Launch ==
  /\ At("launch")
  /\ \/ /\ launched' = Append(launched,
             [authority |-> call.authority, anchor |-> call.anchor,
              tree |-> call.tree, tree_again |-> call.tree_again])
        /\ call' = [call EXCEPT !.step = "running"]
        /\ UNCHANGED spent
     \/ Fault /\ Over(call) /\ UNCHANGED launched
  /\ UNCHANGED << live, baseline, worktree, disk, journal, layouts >>

\* Its run is put on the record, or is lost with the dispatcher.
WorkerEnds ==
  LET index == IF call.kind = "dispatch" THEN 1 ELSE call.index IN
  /\ At("running")
  /\ Over(call)
  /\ \/ runs' = (IF index > runs THEN index ELSE runs) /\ UNCHANGED spent
     \/ Fault /\ UNCHANGED runs
  /\ UNCHANGED << live, baseline, worktree, staging, sealed, created, journal,
                  layouts, launched >>
-----------------------------------------------------------------------------
Authority ==
  \/ CaptureRoot \/ CaptureDotGit \/ CaptureCommondir \/ CaptureMatches
  \/ Administration \/ WorkerStart \/ PrimaryHead \/ PrimaryTree \/ PrimaryAgain
  \/ Context

GitRows ==
  \/ Establish \/ BaseRows \/ CreateWorktree \/ CreateWorktreeFails
  \/ ReadBatch \/ ListForResume \/ RowRefused

Sealing ==
  \/ CaptureWorktree \/ VerifyWorktree \/ CaptureStart \/ WriteSeal
  \/ SealRefused \/ LoadBack \/ ReadSeal \/ Authenticate \/ CreateTask
  \/ PublishSeal

Next ==
  \/ BeginDispatch \/ BeginResume \/ DispatcherDies
  \/ Authority \/ GitRows \/ Sealing \/ Launch \/ WorkerEnds
  \/ Others

Spec == Init /\ [][Next]_vars
-----------------------------------------------------------------------------
(* Every worker is started on a repository authority that the repository   *)
(* had as a whole.  capture_repository_authority reads it entry by entry,  *)
(* and only the second capture finds out that the first one was torn.      *)
(* Two captures that agree prove it of a layout that does not come back    *)
(* while they look.                                                        *)
AuthorityWasReal == \A i \in DOMAIN launched : launched[i].authority \in layouts

(* All workers of a task are started on one repository and one worktree,   *)
(* whatever became of them and of the seal between two calls.  The seal    *)
(* is read, then compared with what there is, then authenticated, in this  *)
(* order (prepare_resume), so the claim is about a seal whose files are    *)
(* not put back in between: of what was read first only the identity       *)
(* record is compared with what was authenticated.                         *)
RunsAgree ==
  \A i, j \in DOMAIN launched :
    /\ launched[i].authority = launched[j].authority
    /\ launched[i].anchor = launched[j].anchor

MarkersOf(rows) == { i \in DOMAIN rows : rows[i] = "marker" }

RowsOfLastCall(rows) ==
  SubSeq(rows, 1 + Max(MarkersOf(rows) \cup { 0 }), Len(rows))

(* No Git command runs but after the marker of its own call, in declared   *)
(* order, each once; and each leaves its row, save the last one of a call  *)
(* that it ended (execute_declared_git).                                   *)
GitIsAccounted ==
  /\ \A k \in DOMAIN journal : journal[k] # << >> => journal[k][1] = "marker"
  /\ \A i, j \in DOMAIN call.ran :
       i < j => Rank(call.kind, call.ran[i]) < Rank(call.kind, call.ran[j])
  /\ call.ran # << >> =>
       \/ RowsOfLastCall(journal[call.index]) = call.ran
       \/ At("over") /\ RowsOfLastCall(journal[call.index]) = Front(call.ran)

(* What a worker is measured against is a primary tree that preparation    *)
(* left alone, though `git worktree add` and everybody else may touch it:  *)
(* dispatcher setup is never charged to the worker                         *)
(* (DispatcherSetupTouchedPrimaryTree).                                    *)
SetupIsNotCharged ==
  \A i \in DOMAIN launched : launched[i].tree = launched[i].tree_again

(* A batch that answers all that prepare_dispatch asked of Git is accepted *)
(* by create_task_seal: "All other non-gitlink entries must appear, in oid *)
(* order, in the injected Route-B batch response".                         *)
AnsweredBatchIsAccepted ==
  [][ /\ At("seal") /\ call.batch = Requested(call.listing, call.start)
      /\ call'.step = "over"
      => spent'.faults > spent.faults ]_vars
=============================================================================
