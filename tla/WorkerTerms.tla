---------------------------- MODULE WorkerTerms ----------------------------
(***************************************************************************)
(* What a worker is told and the terms it runs on: the approved skills     *)
(* (skills.py), the curated project guidance (project_guidance.py), the    *)
(* lifecycle profiles (lifecycle.py) and the composer over them            *)
(* (worker_context.py), as dispatch, resume and review use them            *)
(* (server.py), with the budgets, the route and the transport limits that  *)
(* decide whether a run may start (config.py, router.py, runner.py).       *)
(*                                                                         *)
(* One dispatcher and one of its tasks.  Operators edit manifests and      *)
(* texts between any two steps; dispatches to other repositories share the *)
(* dispatcher's engines.  A text is its content, of which only the size    *)
(* and the equality matter.                                                *)
(***************************************************************************)
EXTENDS Naturals, FiniteSets, FiniteSetsExt

CONSTANTS
  Skill,              \* entries of the skill manifest
  Scope,              \* entries of the guidance manifest
  Artifact,           \* entries of the lifecycle manifest
  Place,              \* the parts of a repository a task may be allowed
  Fenced,             \* the places every guidance manifest must deny
  Text, Size,         \* contents of files, and their sizes
  Inert, Clean,       \* texts without a mechanism, without operator content
  Deny, AlwaysDenied, \* patterns of denied tools, and those no config drops
  Root, Spelling, Canonical,  \* repositories, names for them, what they resolve to
  Stray,              \* instruction files nobody approved
  Policies,           \* the policies the dispatcher is installed with
  Broken,             \* which of Files may be unusable from the start
  SkillManifests,     \* what approved-skills.json may say
  GuidanceManifests,  \* what approved-guidance.json may say
  Profiles,           \* what approved-lifecycle-profiles.json may say
  Configs,            \* what config.toml may say
  Requests,           \* what a caller may ask
  Timeouts,           \* what a resume may ask instead of the envelope's
  Reserve,            \* bytes reserved for the dispatcher's own text
  SkillCap, GuidanceCap,  \* [skills] and [project_guidance] max_projected_bytes
  Ceiling,            \* MAX_APPEND_SYSTEM_PROMPT_BYTES
  ToolCeiling,        \* MAX_TOTAL_RUN_BUDGET_CEILING
  None,
  Touched,            \* bound: the texts somebody edits
  Littered,           \* bound: the repositories and files somebody leaves in them
  MaxEdits,           \* bound: edits by operators, and restarts
  MaxCalls            \* bound: calls

Phase == { "dispatch", "correction", "validation_only", "review" }

\* The dispatcher's own texts, which nobody pins.
Policy == { "worker_policy", "fable_policy" }

Item == Skill \cup Scope \cup Artifact \cup Policy

\* The files a call reads beside the texts.
Files == { "skill_manifest", "guidance_manifest", "worker_schema", "fable_schema" }

\* The kinds of task the tables of the manifests tell apart.
Kinds == BOOLEAN

\* An approved skill or artifact: its text, and what must be denied to a worker
\* who is told it.
SkillEntry == [text : Text, requires : SUBSET Deny, projectable : BOOLEAN]

ArtifactEntry == [text : Text, requires : SUBSET Deny]

\* Every selector names approved skills, for every run and every kind of task.
SelectionLoads(m) ==
  /\ m.core \subseteq DOMAIN m.entries
  /\ m.by_run \in [{ "dispatch", "resume" } -> SUBSET DOMAIN m.entries]
  /\ m.by_task \in [Kinds -> SUBSET DOMAIN m.entries]

SkillsLoad(m) ==
  /\ \E approved \in SUBSET Skill : m.entries \in [approved -> SkillEntry]
  /\ m.cap \in Nat
  /\ SelectionLoads(m)

\* What must never be guidance is denied by every manifest.
PinLoads(m) == Fenced \subseteq m.denied /\ m.denied \subseteq Place

\* A scope covers a place, and may have an entry for each audience.
ScopesLoad(m) ==
  /\ DOMAIN m.worker \subseteq Place /\ DOMAIN m.review = DOMAIN m.worker
  /\ \A p \in DOMAIN m.worker : { m.worker[p], m.review[p] } \subseteq Scope \cup { None }
  /\ m.limit \in Nat

\* A reviewer's scope is no worker's.
GuidanceLoads(m) ==
  /\ PinLoads(m) /\ ScopesLoad(m)
  /\ DOMAIN m.pins \subseteq Scope
  /\ \A i \in DOMAIN m.pins : m.pins[i] \in Text
  /\ m.root.worker # m.root.review
  /\ \A p \in DOMAIN m.worker :
       m.worker[p] # m.root.review /\ m.review[p] # m.root.worker
  /\ m.approved \in BOOLEAN

SelectedArtifacts(p, phase, kind) ==
  p.fixed[phase] \cup (IF kind THEN p.by_risk[phase] ELSE {})

\* A reviewer is told no methodology, and whoever only validates no more than
\* whoever corrects.
LatticeHolds(p) ==
  \A kind \in Kinds :
    /\ SelectedArtifacts(p, "review", kind) = {}
    /\ SelectedArtifacts(p, "validation_only", kind)
         \subseteq SelectedArtifacts(p, "correction", kind)

ProfileLoads(p) ==
  /\ p.entries \in [Artifact -> ArtifactEntry]
  /\ p.fixed \in [Phase -> SUBSET Artifact]
  /\ p.by_risk \in [Phase -> SUBSET Artifact]
  /\ LatticeHolds(p)

RequestLoads(r) ==
  /\ r.root \in Spelling /\ r.paths \subseteq Place
  /\ r.timeout \in Nat \ { 0 } /\ r.validation \in Nat /\ r.max_resume \in Nat
  /\ r.model \in { None, "sonnet", "opus" } /\ r.escalates \in Kinds

\* What may be projected, and run, fits the transport.
ContextFits == SkillCap + GuidanceCap + Reserve <= Ceiling

BudgetFits(c) == c.clamp <= c.budget /\ c.budget <= ToolCeiling

\* The roots that are allowed are directories by their canonical name.
SecurityLoads(c) == c.roots \subseteq Root /\ c.roots # {} /\ c.depth \in { 0, 1 }

\* What a record keeps of the skills and of the guidance its worker was told.
SkillPolicyRecord ==
  [ids : SUBSET Skill,
   fingerprint : { m.version : m \in SkillManifests }
                   \X UNION { [items -> Text] : items \in SUBSET Skill }]

ProjectGuidanceRecord ==
  [ids : SUBSET Scope, fingerprint : UNION { [items -> Text] : items \in SUBSET Scope }]

\* Skills and scopes are named apart, and None is no manifest and no record.
ASSUME TermsAssumption ==
  /\ Skill \cap Scope = {}
  /\ None \notin SkillManifests \cup GuidanceManifests
  /\ None \notin SkillPolicyRecord /\ None \notin ProjectGuidanceRecord
  /\ Size \in [Text -> Nat]
  /\ Inert \subseteq Text /\ Clean \subseteq Text
  /\ AlwaysDenied \subseteq Deny
  /\ Canonical \in [Spelling -> Root \cup { None }]
  /\ Policies \in [Policy -> Text]
  /\ \A m \in SkillManifests : SkillsLoad(m)
  /\ \A m \in GuidanceManifests : GuidanceLoads(m)
  /\ \A p \in Profiles : ProfileLoads(p)
  /\ \A r \in Requests : RequestLoads(r)
  /\ ContextFits
  /\ \A c \in Configs : BudgetFits(c) /\ SecurityLoads(c)
  /\ Touched \subseteq Item \cup Files /\ Littered \subseteq Root \X Stray
  /\ Broken \subseteq SUBSET Files
  /\ MaxEdits \in Nat /\ MaxCalls \in Nat

VARIABLES
  disk,     \* the manifests, the texts, stray instruction files, unusable files
  config,   \* the configuration this process was started with
  engines,  \* the composer's skill engine and guidance engine, None until built
  record,   \* what the store and the seal keep of the task
  call,     \* the call in progress, or the last one
  spent,    \* bounds: edits and calls so far
  told      \* history: what each worker was told

vars == << disk, config, engines, record, call, spent, told >>

\* skills and guidance are what a record of them would hold.
NoContext ==
  [manifest |-> None, skills |-> None, guidance |-> None, text |-> << >>, size |-> 0]

NoCall ==
  [kind |-> "dispatch", step |-> "idle", why |-> None, request |-> None,
   timeout |-> 0, model |-> None, facts |-> None, report |-> None,
   contexts |-> [s \in { "own", "worker", "correction", "review" } |-> NoContext],
   prompt |-> NoContext, overlapped |-> FALSE]

\* since: the edits made before its dispatch began.
NoTask ==
  [created |-> FALSE, spawned |-> FALSE, request |-> None, model |-> None,
   facts |-> None, skill_policy |-> None, project_guidance |-> None,
   report |-> None, resumes |-> 0, since |-> 0]

Init ==
  /\ \E s \in SkillManifests, g \in GuidanceManifests, p \in Profiles, b \in Broken :
       disk = [skills |-> s, guidance |-> g, lifecycle |-> p,
               strays |-> {}, broken |-> b,
               texts |-> [i \in Item |->
                            IF i \in DOMAIN s.entries THEN s.entries[i].text
                            ELSE IF i \in DOMAIN g.pins THEN g.pins[i]
                            ELSE IF i \in Artifact THEN p.entries[i].text
                            ELSE IF i \in Policy THEN Policies[i]
                            ELSE None]]
  /\ config \in Configs
  /\ engines = [skills |-> None, guidance |-> None]
  /\ record = NoTask
  /\ call = NoCall
  /\ spent = [edits |-> 0, calls |-> 0]
  /\ told = {}

----------------------------------------------------------------------------
(* What starts and ends a call.                                            *)

Ready == call.step \in { "idle", "refused", "done" } /\ spent.calls < MaxCalls

At(kinds, step) == call.kind \in kinds /\ call.step = step

Refuse(why) ==
  /\ call' = [NoCall EXCEPT !.kind = call.kind, !.step = "refused", !.why = why]
  /\ UNCHANGED << disk, config, record, spent, told >>

\* clamp_timeout and assert_validation_budget.
Clamp(timeout) == IF timeout <= config.clamp THEN timeout ELSE config.clamp

Fits(request, timeout) == timeout + request.validation <= config.budget

\* explain_route: an explicit request, or what the task calls for; never the
\* reviewer's model.
Route(request) ==
  config.models[IF request.model # None THEN request.model
                ELSE IF request.escalates THEN "opus" ELSE "sonnet"]

\* The name resolves to one of the configured roots, not to a place in one.
RootAllowed(request) == Canonical[request.root] \in config.roots

\* The depth this process was started at.
DepthAllowed == config.inherited <= config.depth

Called == spent' = [spent EXCEPT !.calls = @ + 1]

BeginDispatch ==
  /\ Ready /\ ~record.spawned
  /\ \E r \in Requests :
       LET admitted == Fits(r, Clamp(r.timeout))
           allowed == RootAllowed(r) /\ DepthAllowed
           routed == Route(r) # config.models["fable"]
       IN call' = [NoCall EXCEPT
                     !.request = r, !.timeout = Clamp(r.timeout),
                     !.model = Route(r),
                     !.step = IF admitted /\ allowed /\ routed THEN "facts"
                              ELSE "refused",
                     !.why = IF ~admitted THEN "budget"
                             ELSE IF ~allowed THEN "root"
                             ELSE IF ~routed THEN "route" ELSE None]
  /\ record' = [NoTask EXCEPT !.since = spent.edits]
  /\ Called
  /\ UNCHANGED << disk, config, engines, told >>

\* resume_plan on the stored state: the caller brings a timeout at most.
BeginResume ==
  /\ Ready /\ record.spawned
  /\ \E t \in Timeouts \cup { None } :
       LET timeout == Clamp(IF t = None THEN record.request.timeout ELSE t)
           allowed == record.resumes < record.request.max_resume
           admitted == Fits(record.request, timeout)
           rooted == RootAllowed(record.request)
       IN call' = [NoCall EXCEPT
                     !.kind = "resume", !.request = record.request,
                     !.timeout = timeout, !.model = record.model,
                     !.facts = record.facts,
                     !.step = IF allowed /\ admitted /\ rooted THEN "verify_skills"
                              ELSE "refused",
                     !.why = IF ~allowed THEN "limit"
                             ELSE IF ~admitted
                                  THEN IF t = None THEN "budget" ELSE "raised"
                             ELSE IF ~rooted THEN "root" ELSE None]
  /\ Called
  /\ UNCHANGED << disk, config, engines, record, told >>

BeginReview ==
  /\ Ready /\ record.spawned
  /\ LET timeout == Clamp(record.request.timeout)
         admitted == Fits(record.request, timeout)
         rooted == RootAllowed(record.request)
     IN call' = [NoCall EXCEPT
                   !.kind = "review", !.request = record.request,
                   !.timeout = timeout, !.model = config.models["fable"],
                   !.facts = record.facts,
                   !.step = IF admitted /\ rooted THEN "review" ELSE "refused",
                   !.why = IF ~admitted THEN "budget"
                           ELSE IF ~rooted THEN "root" ELSE None]
  /\ Called
  /\ UNCHANGED << disk, config, engines, record, told >>

----------------------------------------------------------------------------
(* The two engines.  Each is built when it is first asked for and kept;    *)
(* the guidance engine is replaced by every dispatch.                      *)

Unusable(file) == file \in disk.broken

SkillsReadable == engines.skills # None \/ ~Unusable("skill_manifest")

GuidanceReadable == engines.guidance # None \/ ~Unusable("guidance_manifest")

SkillEngine ==
  IF ~config.skills THEN None
  ELSE IF engines.skills = None THEN disk.skills ELSE engines.skills

GuidanceEngine ==
  IF ~config.guidance THEN None
  ELSE IF engines.guidance = None THEN disk.guidance ELSE engines.guidance

SkillTexts(items) == [i \in items |-> SkillEngine.entries[i].text]

ScopeTexts(items) == [i \in items |-> GuidanceEngine.pins[i]]

Bytes(texts) == MapThenSumSet(LAMBDA i : Size[texts[i]], DOMAIN texts)

\* A manifest may only lower what the configuration allows.
SkillBudget == Min({ SkillCap, SkillEngine.cap })

\* A text is read when it is projected, and must be what was pinned.
SkillVerified(i) == disk.texts[i] = SkillEngine.entries[i].text

ScopeVerified(i) == disk.texts[i] = GuidanceEngine.pins[i]

ArtifactVerified(i) ==
  /\ disk.texts[i] = disk.lifecycle.entries[i].text
  /\ disk.lifecycle.entries[i].requires \subseteq AlwaysDenied

\* Front matter that declares a mechanism, a command in the text.
SkillInert(i) == SkillEngine.entries[i].text \in Inert

ArtifactInert(i) == disk.lifecycle.entries[i].text \in Inert

ScopeClean(i) == GuidanceEngine.pins[i] \in Clean

\* Only guidance whose prohibitions are in force is projected.
Projectable(i) ==
  /\ SkillEngine.entries[i].projectable
  /\ SkillEngine.entries[i].requires \subseteq config.denied \cup AlwaysDenied

SkillsProject(items) ==
  SkillEngine # None =>
    /\ SkillsReadable
    /\ items \subseteq DOMAIN SkillEngine.entries
    /\ \A i \in items : Projectable(i) /\ SkillVerified(i) /\ SkillInert(i)
    /\ Bytes(SkillTexts(items)) <= SkillBudget

\* The toplevel is the repository's, the origin is what the dispatch sealed.
SameRepository ==
  /\ call.facts # None
  /\ GuidanceEngine.toplevel = Canonical[call.request.root]
  /\ GuidanceEngine.origin = call.facts.origin

GuidanceProjects(items) ==
  GuidanceEngine # None =>
    /\ GuidanceReadable
    /\ GuidanceEngine.approved
    /\ SameRepository
    /\ items \subseteq DOMAIN GuidanceEngine.pins
    /\ \A i \in items : ScopeVerified(i) /\ ScopeClean(i)
    /\ Bytes(ScopeTexts(items)) <= GuidanceCap

\* The skills' fingerprint names their manifest too.
SkillRecord(items) ==
  IF items = {} THEN None
  ELSE [ids |-> items,
        fingerprint |-> << SkillEngine.version, SkillTexts(items) >>]

GuidanceRecord(items) ==
  IF GuidanceEngine = None THEN None
  ELSE [ids |-> items, fingerprint |-> ScopeTexts(items)]

SkillsFor(run) ==
  IF SkillEngine = None \/ run = "review" THEN {}
  ELSE SkillEngine.core \cup SkillEngine.by_run[run]
         \cup SkillEngine.by_task[call.request.escalates]

\* A reviewer is told no skills: for_review does not touch the skill engine.
SkillsGiven(run) == run # "review" => SkillsProject(SkillsFor(run))

\* No path of the task may lead where guidance is denied.
WithinFence == call.request.paths \cap GuidanceEngine.denied = {}

Matched == call.request.paths \cap DOMAIN GuidanceEngine.worker

\* A scope nobody approved for the audience is refused, never left out.
ScopesApproved(run) ==
  \A p \in Matched : (IF run = "review" THEN GuidanceEngine.review
                      ELSE GuidanceEngine.worker)[p] # None

GuidanceSelects(run) ==
  GuidanceEngine # None =>
    /\ WithinFence
    /\ Cardinality(Matched) <= GuidanceEngine.limit
    /\ ScopesApproved(run)

\* The root's entry always, and each matched scope's.
GuidanceFor(run) ==
  IF GuidanceEngine = None THEN {}
  ELSE IF run = "review"
       THEN { GuidanceEngine.root.review }
              \cup { GuidanceEngine.review[p] : p \in Matched }
       ELSE { GuidanceEngine.root.worker }
              \cup { GuidanceEngine.worker[p] : p \in Matched }

PolicyFile(run) == IF run = "review" THEN "fable_policy" ELSE "worker_policy"

PolicyReads(run) == disk.texts[PolicyFile(run)] # None

Composed(run) ==
  LET skills == SkillsFor(run)
      scopes == GuidanceFor(run)
      text == [i \in skills \cup scopes |->
                 IF i \in skills THEN SkillTexts(skills)[i] ELSE ScopeTexts(scopes)[i]]
  IN [manifest |-> GuidanceEngine,
      skills |-> SkillRecord(skills), guidance |-> GuidanceRecord(scopes),
      text |-> text, size |-> Size[disk.texts[PolicyFile(run)]] + Bytes(text)]

----------------------------------------------------------------------------
(* The context, step by step: other calls of this dispatcher may replace   *)
(* the guidance engine between any two.                                    *)

Go(next) == call' = next /\ UNCHANGED << disk, config, record, spent, told >>

AskedSkills ==
  [engines EXCEPT !.skills = IF SkillsReadable THEN SkillEngine ELSE None]

AskedGuidance ==
  [engines EXCEPT !.guidance = IF GuidanceReadable THEN GuidanceEngine ELSE None]

AskedBoth == [skills |-> AskedSkills.skills, guidance |-> AskedGuidance.guidance]

Read == IF config.guidance THEN disk.guidance ELSE None

\* Mutant: the engine an earlier call built is kept.
Facts_CachedEngine ==
  /\ At({ "dispatch" }, "facts")
  /\ \/ /\ config.guidance /\ Unusable("guidance_manifest")
        /\ UNCHANGED engines
        /\ Refuse("guidance")
     \/ /\ ~(config.guidance /\ Unusable("guidance_manifest"))
        /\ engines' = [engines EXCEPT !.guidance = GuidanceEngine]
        /\ Go([call EXCEPT !.step = "scan", !.facts = Read])

\* approved_identity_facts: one reading for the seal and for the engine.
Facts ==
  /\ At({ "dispatch" }, "facts")
  /\ \/ /\ config.guidance /\ Unusable("guidance_manifest")
        /\ UNCHANGED engines
        /\ Refuse("guidance")
     \/ /\ ~(config.guidance /\ Unusable("guidance_manifest"))
        /\ engines' = [engines EXCEPT !.guidance = Read]
        /\ Go([call EXCEPT !.step = "scan", !.facts = Read])

\* The scan for instruction files nobody reviewed, and what it passes over.
Walked(root) == { f \in Stray : << root, f >> \in disk.strays }

Excluded(f) == f \in GuidanceEngine.excluded

Unreviewed ==
  /\ GuidanceEngine # None
  /\ \E f \in Walked(GuidanceEngine.toplevel) : ~Excluded(f)

Scan ==
  /\ At({ "dispatch" }, "scan")
  /\ engines' = AskedGuidance
  /\ IF Unreviewed THEN Refuse("stray") ELSE Go([call EXCEPT !.step = "worker"])

\* verify_dispatch_anchor: what the record holds of the dispatch, once more.
SkillsStand ==
  record.skill_policy # None =>
    /\ SkillEngine # None
    /\ SkillsProject(record.skill_policy.ids)
    /\ SkillRecord(record.skill_policy.ids) = record.skill_policy

\* Mutant: it projects, so it stands.
GuidanceStands_Projects ==
  record.project_guidance # None =>
    /\ GuidanceEngine # None
    /\ GuidanceProjects(record.project_guidance.ids)

GuidanceStands ==
  record.project_guidance # None =>
    /\ GuidanceEngine # None
    /\ GuidanceProjects(record.project_guidance.ids)
    /\ GuidanceRecord(record.project_guidance.ids) = record.project_guidance

VerifySkills ==
  /\ At({ "resume" }, "verify_skills")
  /\ engines' = IF record.skill_policy = None THEN engines ELSE AskedSkills
  /\ IF SkillsStand THEN Go([call EXCEPT !.step = "verify_guidance"])
     ELSE Refuse("skills")

VerifyGuidance ==
  /\ At({ "resume" }, "verify_guidance")
  /\ engines' = IF record.project_guidance = None THEN engines
                ELSE AskedGuidance
  /\ IF GuidanceStands THEN Go([call EXCEPT !.step = "own"])
     ELSE Refuse("guidance")

\* A resume projects its own context, then every phase's as the dispatch did.
RunOf(step) == IF step = "worker" THEN "dispatch"
               ELSE IF step = "review" THEN "review" ELSE "resume"

After(step) == IF step = "own" THEN "worker"
               ELSE IF step = "worker" THEN "correction"
               ELSE IF step = "correction" THEN "review"
               ELSE IF call.kind = "review" THEN "invoke" ELSE "lifecycle"

\* for_worker and for_review, with the policy read first: skills before
\* guidance, and none for a reviewer.
ComposeContext ==
  /\ call.step \in DOMAIN call.contexts
  /\ LET run == RunOf(call.step)
         policed == PolicyReads(run)
         skilled == SkillsGiven(run)
         guided == GuidanceSelects(run) /\ GuidanceProjects(GuidanceFor(run))
         asked == IF run = "review" THEN AskedGuidance ELSE AskedBoth
     IN \/ /\ ~policed
           /\ UNCHANGED engines
           /\ Refuse("policy")
        \/ /\ policed /\ ~skilled
           /\ engines' = AskedSkills
           /\ Refuse("skills")
        \/ /\ policed /\ skilled /\ ~guided
           /\ engines' = asked
           /\ Refuse("guidance")
        \/ /\ policed /\ skilled /\ guided
           /\ engines' = asked
           /\ Go([call EXCEPT !.contexts[call.step] = Composed(run),
                              !.prompt = IF call.kind = "review" THEN Composed(run) ELSE @,
                              !.step = After(call.step)])

----------------------------------------------------------------------------
(* The lifecycle proof.                                                    *)

ReachablePhases(request) ==
  IF request.max_resume > 0 THEN Phase ELSE { "dispatch", "review" }

ContextOf(phase) ==
  call.contexts[IF phase = "dispatch" THEN "worker"
                ELSE IF phase = "review" THEN "review" ELSE "correction"]

\* What a phase of this task adds.
Profile(phase) == SelectedArtifacts(disk.lifecycle, phase, call.request.escalates)

ProfileSize(phase) ==
  Bytes([i \in Profile(phase) |-> disk.lifecycle.entries[i].text])

ProfileProjects ==
  \A p \in ReachablePhases(call.request) :
    \A i \in Profile(p) : ArtifactVerified(i) /\ ArtifactInert(i)

\* A block that is empty is left out.
Extended(size, phase) ==
  IF Profile(phase) = {} THEN size ELSE size + ProfileSize(phase)

Carried(phase) == Extended(ContextOf(phase).size, phase)

\* Mutant: only the phase about to start.
Feasible_DispatchOnly == Carried("dispatch") <= Ceiling

Feasible == \A p \in ReachablePhases(call.request) : Carried(p) <= Ceiling

Report ==
  [version |-> disk.lifecycle.version,
   rows |-> [p \in ReachablePhases(call.request) |->
               << ContextOf(p).size, ProfileSize(p), Profile(p) >>]]

WithProfile(context, phase) ==
  [context EXCEPT !.size = Extended(@, phase)]

\* preflight_lifecycle, and on a resume the persisted report against it.
Lifecycle ==
  /\ At({ "dispatch", "resume" }, "lifecycle")
  /\ UNCHANGED engines
  /\ LET resumed == call.kind = "resume"
         prompt == IF resumed THEN WithProfile(call.contexts["own"], "correction")
                   ELSE WithProfile(call.contexts["worker"], "dispatch")
     IN \/ ~ProfileProjects /\ Refuse("profile")
        \/ ProfileProjects /\ ~Feasible /\ Refuse("horizon")
        \/ /\ ProfileProjects /\ Feasible
           /\ resumed /\ record.report # Report
           /\ Refuse("report")
        \/ /\ ProfileProjects /\ Feasible
           /\ resumed => record.report = Report
           /\ Go([call EXCEPT !.report = Report, !.prompt = prompt,
                              !.step = "invoke"])

----------------------------------------------------------------------------
(* What is kept, and the launch.                                           *)

InvokeWorker ==
  /\ At({ "dispatch", "resume" }, "invoke")
  /\ UNCHANGED engines
  /\ IF Unusable("worker_schema") THEN Refuse("schema")
     ELSE Go([call EXCEPT !.step = IF call.kind = "resume" THEN "launch" ELSE "create"])

InvokeReviewer ==
  /\ At({ "review" }, "invoke")
  /\ UNCHANGED engines
  /\ IF Unusable("fable_schema") THEN Refuse("schema")
     ELSE Go([call EXCEPT !.step = "launch"])

Keep(next, kept) ==
  /\ call' = [call EXCEPT !.step = next]
  /\ record' = kept
  /\ UNCHANGED << disk, config, engines, spent, told >>

Create ==
  /\ At({ "dispatch" }, "create")
  /\ Keep("anchor", [record EXCEPT !.created = TRUE, !.request = call.request,
                                   !.model = call.model, !.facts = call.facts])

Anchor ==
  /\ At({ "dispatch" }, "anchor")
  /\ Keep("report",
          [record EXCEPT !.skill_policy = call.contexts["worker"].skills,
                         !.project_guidance = call.contexts["worker"].guidance])

KeepReport ==
  /\ At({ "dispatch" }, "report")
  /\ Keep("launch", [record EXCEPT !.report = call.report])

\* build_argv's ceiling; execve's own limits are the system's business.
PromptFits == call.prompt.size <= Ceiling

ContextTooLarge ==
  /\ call.step = "launch" /\ ~PromptFits
  /\ UNCHANGED engines
  /\ Refuse("context")

TransportTooLarge ==
  /\ call.step = "launch" /\ PromptFits
  /\ UNCHANGED engines
  /\ Refuse("transport")

Launch ==
  /\ call.step = "launch"
  /\ PromptFits
  /\ call' = [NoCall EXCEPT !.kind = call.kind, !.step = "done"]
  /\ record' = [record EXCEPT !.spawned = TRUE,
                              !.resumes = IF call.kind = "resume" THEN @ + 1 ELSE @]
  /\ told' = told \cup { [kind |-> call.kind, text |-> call.prompt.text,
                          manifest |-> call.prompt.manifest, facts |-> call.facts,
                          overlapped |-> call.overlapped] }
  /\ UNCHANGED << disk, config, engines, spent >>

----------------------------------------------------------------------------
(* Everybody else.                                                         *)

InProgress == call.step \notin { "idle", "refused", "done" }

\* A call for another repository builds the engines, and replaces the guidance
\* engine by what the manifest says now if it is a dispatch.
OtherCall ==
  /\ spent.calls < MaxCalls
  /\ \E s \in { engines.skills, AskedSkills.skills },
        g \in { AskedGuidance.guidance }
               \cup { r \in { Read } : ~Unusable("guidance_manifest") } :
       engines' = [skills |-> s, guidance |-> g]
  /\ engines' # engines
  /\ Called
  /\ call' = IF InProgress THEN [call EXCEPT !.overlapped = TRUE] ELSE call
  /\ UNCHANGED << disk, config, record, told >>

Edited ==
  /\ spent.edits < MaxEdits
  /\ spent' = [spent EXCEPT !.edits = @ + 1]
  /\ UNCHANGED << record, told >>

\* An operator approves other manifests, with the texts they pin or without.
Approve ==
  /\ Edited
  /\ \/ \E m \in SkillManifests : disk' = [disk EXCEPT !.skills = m]
     \/ \E m \in GuidanceManifests : disk' = [disk EXCEPT !.guidance = m]
     \/ \E p \in Profiles : disk' = [disk EXCEPT !.lifecycle = p]
  /\ disk' # disk
  /\ UNCHANGED << config, engines, call >>

EditText ==
  /\ Edited
  /\ \/ \E i \in Touched \cap Item, t \in Text \cup { None } :
          disk' = [disk EXCEPT !.texts[i] = t]
     \/ \E l \in Littered : disk' = [disk EXCEPT !.strays = @ \cup { l }]
     \/ \E f \in Touched \cap Files : disk' = [disk EXCEPT !.broken = @ \cup { f }]
  /\ disk' # disk
  /\ UNCHANGED << config, engines, call >>

\* The dispatcher ends, with its call, and is started with some configuration.
Restart ==
  /\ Edited
  /\ config' \in Configs
  /\ engines' = [skills |-> None, guidance |-> None]
  /\ call' = IF InProgress THEN NoCall ELSE call
  /\ UNCHANGED disk

Calls == BeginDispatch \/ BeginResume \/ BeginReview

Contexts == Facts \/ Scan \/ VerifySkills \/ VerifyGuidance \/ ComposeContext

Terms == Lifecycle \/ InvokeWorker \/ InvokeReviewer \/ Create \/ Anchor \/ KeepReport

Launches == ContextTooLarge \/ TransportTooLarge \/ Launch

Next == Calls \/ Contexts \/ Terms \/ Launches \/ OtherCall \/ Approve \/ EditText \/ Restart

Spec == Init /\ [][Next]_vars

----------------------------------------------------------------------------
(* What must hold.                                                         *)

\* The identity a dispatch seals is that of the manifest its worker's guidance
\* came from, whatever manifest this dispatcher had loaded before: the comment
\* in approved_identity_facts says no replacement of the file can part the two.
\* (A dispatch to another repository that runs at the same time can.)
SealMatchesContext ==
  \A t \in told : (t.kind = "dispatch" /\ ~t.overlapped) => t.manifest = t.facts

\* A task that was admitted can be seen through: while nobody edits anything
\* and the dispatcher lives, no resume and no review of it is refused, but for
\* its limit of resumes, a timeout the caller raised, what execve will not
\* carry, or the reviewer's schema, which no dispatch reads.  The dispatch
\* looked at every phase for this (lifecycle.py).
HorizonHolds ==
  (/\ call.step = "refused" /\ call.kind \in { "resume", "review" }
   /\ spent.edits = record.since)
    => \/ call.why \in { "limit", "raised", "transport" }
       \/ call.kind = "review" /\ call.why = "schema"

\* No resumed worker is told another text than the dispatched one was of any
\* skill or scope both were told, whatever was approved, edited or restarted
\* in between; a call overlapped by a dispatch elsewhere is left out.
InstructionsStand ==
  \A d, r \in told :
    (d.kind = "dispatch" /\ r.kind = "resume" /\ ~r.overlapped) =>
      \A i \in DOMAIN d.text \cap DOMAIN r.text : r.text[i] = d.text[i]
=============================================================================
