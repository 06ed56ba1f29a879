------------------------- MODULE WorkerTermsProofs -------------------------
(***************************************************************************)
(* Theorems about WorkerTerms for every value of its constants: any        *)
(* manifests, texts, profiles, configurations and requests, any number of  *)
(* calls, edits and restarts between any two steps.                        *)
(*                                                                         *)
(* A call is followed from step to step: what it is told comes from the    *)
(* engines at one moment, what is kept of it comes from what it was told,  *)
(* and a resume is measured against what was kept.                         *)
(***************************************************************************)
EXTENDS WorkerTerms, TLAPS

CallFields ==
  { "kind", "step", "why", "request", "timeout", "model", "facts", "report",
    "contexts", "prompt", "overlapped" }

TaskFields ==
  { "created", "spawned", "request", "model", "facts", "skill_policy",
    "project_guidance", "report", "resumes", "since" }

\* The steps of a dispatch after it read the identity facts, after it was told
\* its own context, and after the lifecycle proof.
AfterReport == { "launch" }
AfterAnchor == { "report" } \cup AfterReport
AfterCreate == { "anchor" } \cup AfterAnchor
AfterInvoke == { "create" } \cup AfterCreate
AfterLifecycle == { "invoke" } \cup AfterInvoke
AfterReview == { "lifecycle" } \cup AfterLifecycle
AfterCorrection == { "review" } \cup AfterReview
AfterWorker == { "correction" } \cup AfterCorrection
AfterScan == { "worker" } \cup AfterWorker
AfterFacts == { "scan" } \cup AfterScan

Over == { "idle", "refused", "done" }

Placed ==
  \/ call.kind = "dispatch" /\ call.step \in Over \cup { "facts" } \cup AfterFacts
  \/ /\ call.kind = "resume"
     /\ call.step \in { "refused", "done", "verify_skills", "verify_guidance", "own", "worker",
                        "correction", "review", "lifecycle", "invoke", "launch" }
  \/ call.kind = "review" /\ call.step \in { "refused", "done", "review", "invoke", "launch" }

Types ==
  /\ DOMAIN call = CallFields
  /\ DOMAIN call.contexts = { "own", "worker", "correction", "review" }
  /\ DOMAIN record = TaskFields
  /\ DOMAIN engines = { "skills", "guidance" }
  /\ DOMAIN disk = { "skills", "guidance", "lifecycle", "strays", "broken", "texts" }
  /\ disk.skills \in SkillManifests
  /\ disk.guidance \in GuidanceManifests
  /\ disk.lifecycle \in Profiles
  /\ config \in Configs
  /\ engines.skills \in SkillManifests \cup { None }
  /\ engines.guidance \in GuidanceManifests \cup { None }
  /\ spent \in [edits : Nat, calls : Nat]
  /\ record.spawned \in BOOLEAN
  /\ record.resumes \in Nat
  /\ record.since \in 0 .. spent.edits

----------------------------------------------------------------------------
(* What a step does to the call.                                           *)

\* It goes on, and but for some fields the call is what it was.
Goes(next, changed) ==
  /\ DOMAIN call' = CallFields
  /\ call'.step = next
  /\ \A f \in CallFields \ (changed \cup { "step" }) : call'[f] = call[f]

\* Nothing else a call writes changes.
Rest == UNCHANGED << disk, config, record, spent, told >>

\* It is refused.
Refused(why) ==
  /\ DOMAIN call' = CallFields
  /\ call'.step = "refused" /\ call'.why = why /\ call'.kind = call.kind
  /\ call'.contexts = NoCall.contexts
  /\ Rest

LEMMA Refusal == ASSUME NEW why, Refuse(why) PROVE Refused(why)
BY DEF Refuse, NoCall, Refused, Rest, CallFields

LEMMA Going ==
  ASSUME Types, NEW next, Go([call EXCEPT !.step = next])
  PROVE  Goes(next, {}) /\ Rest
BY DEF Go, Goes, Types, Rest, CallFields

LEMMA Keeping ==
  ASSUME Types, NEW next, NEW kept, Keep(next, kept)
  PROVE  Goes(next, {}) /\ record' = kept /\ UNCHANGED << disk, config, engines, spent, told >>
BY DEF Keep, Goes, Types, CallFields

\* ComposeContext, with the context it composed.
Composes(context) ==
  /\ call.step \in DOMAIN call.contexts
  /\ context = Composed(RunOf(call.step))
  /\ PolicyReads(RunOf(call.step))
  /\ SkillsGiven(RunOf(call.step))
  /\ GuidanceSelects(RunOf(call.step)) /\ GuidanceProjects(GuidanceFor(RunOf(call.step)))
  /\ Goes(After(call.step), { "contexts", "prompt" })
  /\ call'.contexts = [call.contexts EXCEPT ![call.step] = context]
  /\ call'.prompt = IF call.kind = "review" THEN context ELSE call.prompt
  /\ Rest

\* Or it does not, for something the context of this run lacks.
Fitting(run) ==
  /\ PolicyReads(run) /\ SkillsGiven(run)
  /\ GuidanceSelects(run) /\ GuidanceProjects(GuidanceFor(run))

Misfits(why) ==
  /\ call.step \in DOMAIN call.contexts /\ ~Fitting(RunOf(call.step))
  /\ Refused(why)

\* Which engine is asked, and built if it is not there.
Asks == engines' \in { engines, AskedSkills, AskedGuidance, AskedBoth }

LEMMA Composing ==
  ASSUME Types, ComposeContext
  PROVE  /\ Asks
         /\ \/ \E why : Misfits(why)
            \/ \E context : Composes(context)
<1> DEFINE run == RunOf(call.step)
           asked == IF run = "review" THEN AskedGuidance ELSE AskedBoth
           context == Composed(run)
           fits == /\ PolicyReads(run) /\ SkillsGiven(run)
                   /\ GuidanceSelects(run) /\ GuidanceProjects(GuidanceFor(run))
           next == [call EXCEPT !.contexts[call.step] = context,
                                !.prompt = IF call.kind = "review" THEN context ELSE @,
                                !.step = After(call.step)]
<1>1. /\ call.step \in DOMAIN call.contexts
      /\ \/ ~fits /\ UNCHANGED engines /\ Refuse("policy")
         \/ ~fits /\ engines' = AskedSkills /\ Refuse("skills")
         \/ ~fits /\ engines' = asked /\ Refuse("guidance")
         \/ fits /\ engines' = asked /\ Go(next)
  BY Zenon DEF ComposeContext
<1>2. Asks
  BY <1>1, Zenon DEF Asks
<1>3. CASE fits /\ Go(next)
  <2> HIDE DEF run, context
  <2>1. call' = next /\ Rest
    BY <1>3 DEF Go, Rest
  <2>2. /\ DOMAIN next = CallFields
        /\ next.step = After(call.step)
        /\ next.contexts = [call.contexts EXCEPT ![call.step] = context]
        /\ next.prompt = IF call.kind = "review" THEN context ELSE call.prompt
        /\ \A f \in CallFields \ { "contexts", "prompt", "step" } : next[f] = call[f]
    BY DEF Types, CallFields
  <2> HIDE DEF next
  <2>3. Goes(After(call.step), { "contexts", "prompt" })
    BY <2>1, <2>2 DEF Goes
  <2> QED
    BY <1>1, <1>2, <1>3, <2>1, <2>2, <2>3 DEF Composes, run, context
<1>4. fits <=> Fitting(run)
  BY Zenon DEF Fitting
<1> QED
  BY <1>1, <1>2, <1>3, <1>4, Refusal DEF Misfits

----------------------------------------------------------------------------
(* Types. *)

LEMMA EngineTypes ==
  ASSUME Types
  PROVE  /\ SkillEngine \in SkillManifests \cup { None }
         /\ GuidanceEngine \in GuidanceManifests \cup { None }
         /\ DOMAIN AskedSkills = { "skills", "guidance" }
         /\ AskedSkills.skills \in { None, SkillEngine } /\ AskedSkills.guidance = engines.guidance
         /\ DOMAIN AskedGuidance = { "skills", "guidance" }
         /\ AskedGuidance.guidance \in { None, GuidanceEngine }
         /\ AskedGuidance.skills = engines.skills
         /\ DOMAIN AskedBoth = { "skills", "guidance" }
         /\ AskedBoth.skills = AskedSkills.skills
         /\ AskedBoth.guidance = AskedGuidance.guidance
<1>1. /\ SkillEngine \in SkillManifests \cup { None }
      /\ GuidanceEngine \in GuidanceManifests \cup { None }
  BY DEF Types, SkillEngine, GuidanceEngine
<1> QED
  BY <1>1 DEF AskedSkills, AskedGuidance, AskedBoth, Types

EnginesTyped ==
  /\ DOMAIN engines' = { "skills", "guidance" }
  /\ engines'.skills \in SkillManifests \cup { None }
  /\ engines'.guidance \in GuidanceManifests \cup { None }

LEMMA AskedTyped == ASSUME Types, Asks PROVE EnginesTyped
BY EngineTypes DEF Asks, EnginesTyped, Types

\* Where a call can be, whichever it is.
InPlace(kind, step) ==
  \/ kind = "dispatch" /\ step \in Over \cup { "facts" } \cup AfterFacts
  \/ /\ kind = "resume"
     /\ step \in { "refused", "done", "verify_skills", "verify_guidance", "own", "worker",
                   "correction", "review", "lifecycle", "invoke", "launch" }
  \/ kind = "review" /\ step \in { "refused", "done", "review", "invoke", "launch" }

LEMMA TypesFrame ==
  ASSUME Types, Placed, UNCHANGED << disk, config, record, spent >>, EnginesTyped,
         DOMAIN call' = CallFields, InPlace(call'.kind, call'.step),
         DOMAIN call'.contexts = DOMAIN NoCall.contexts
  PROVE  Types' /\ Placed'
BY DEF Types, Placed, InPlace, EnginesTyped, NoCall

LEMMA TypesRefused ==
  ASSUME Types, Placed, NEW why, Refused(why), EnginesTyped
  PROVE  Types' /\ Placed'
<1>1. InPlace(call'.kind, call'.step)
  BY DEF Refused, InPlace, Placed, Over
<1> QED
  BY <1>1, TypesFrame DEF Refused, Rest, NoCall

LEMMA TypesGoing ==
  ASSUME Types, Placed, NEW next, Goes(next, {}) /\ Rest, EnginesTyped, InPlace(call.kind, next)
  PROVE  Types' /\ Placed'
<1>1. /\ call'.kind = call.kind /\ call'.contexts = call.contexts /\ call'.step = next
      /\ DOMAIN call' = CallFields
  BY DEF Goes, CallFields
<1> QED
  BY <1>1, TypesFrame DEF Rest, Types, NoCall

LEMMA TypesKeeping ==
  ASSUME Types, Placed, NEW next, NEW kept, Keep(next, kept), InPlace(call.kind, next),
         DOMAIN kept = TaskFields, kept.spawned = record.spawned,
         kept.resumes = record.resumes, kept.since = record.since
  PROVE  Types' /\ Placed'
<1>1. /\ call'.kind = call.kind /\ call'.contexts = call.contexts /\ call'.step = next
      /\ DOMAIN call' = CallFields
      /\ record' = kept /\ UNCHANGED << disk, config, engines, spent, told >>
  BY Keeping DEF Goes, CallFields
<1> QED
  BY <1>1 DEF Types, Placed, InPlace

\* A call begins: the fields a later step reads.
FreshCall(kind, request, timeout, model, facts, step, why) ==
  [kind |-> kind, step |-> step, why |-> why, request |-> request, timeout |-> timeout,
   model |-> model, facts |-> facts, report |-> None, contexts |-> NoCall.contexts,
   prompt |-> NoContext, overlapped |-> FALSE]

DispatchAdmitted(r) ==
  /\ Fits(r, Clamp(r.timeout)) /\ RootAllowed(r) /\ DepthAllowed
  /\ Route(r) # config.models["fable"]

Begins ==
  /\ DOMAIN call' = CallFields
  /\ call'.contexts = NoCall.contexts /\ call'.prompt = NoContext /\ call'.overlapped = FALSE
  /\ UNCHANGED << disk, config, engines, told >>
  /\ spent' = [spent EXCEPT !.calls = @ + 1]

LEMMA BeginningDispatch ==
  ASSUME BeginDispatch
  PROVE  /\ Begins /\ ~record.spawned /\ record' = [NoTask EXCEPT !.since = spent.edits]
         /\ call'.kind = "dispatch" /\ call'.step \in { "facts", "refused" }
         /\ call'.request \in Requests /\ call'.facts = None
         /\ call'.step = "facts" => DispatchAdmitted(call'.request)
<1>1. PICK r \in Requests :
        LET admitted == Fits(r, Clamp(r.timeout))
            allowed == RootAllowed(r) /\ DepthAllowed
            routed == Route(r) # config.models["fable"]
        IN call' = [NoCall EXCEPT
                      !.request = r, !.timeout = Clamp(r.timeout),
                      !.model = Route(r),
                      !.step = IF admitted /\ allowed /\ routed THEN "facts" ELSE "refused",
                      !.why = IF ~admitted THEN "budget"
                              ELSE IF ~allowed THEN "root"
                              ELSE IF ~routed THEN "route" ELSE None]
  BY Zenon DEF BeginDispatch
<1>2. PICK timeout, model : timeout = Clamp(r.timeout) /\ model = Route(r)
  OBVIOUS
<1> DEFINE admitted == Fits(r, Clamp(r.timeout))
           allowed == RootAllowed(r) /\ DepthAllowed
           routed == Route(r) # config.models["fable"]
<1>3. DispatchAdmitted(r) <=> admitted /\ allowed /\ routed
  BY DEF DispatchAdmitted
<1> HIDE DEF admitted, allowed, routed
<1>4. PICK step, why :
        /\ step = IF admitted /\ allowed /\ routed THEN "facts" ELSE "refused"
        /\ why = IF ~admitted THEN "budget"
                 ELSE IF ~allowed THEN "root"
                 ELSE IF ~routed THEN "route" ELSE None
  OBVIOUS
<1> USE DEF admitted, allowed, routed
<1>5. call' = [NoCall EXCEPT !.request = r, !.timeout = timeout, !.model = model,
                            !.step = step, !.why = why]
  BY <1>1, <1>2, <1>4
<1> HIDE DEF admitted, allowed, routed
<1>6. call' = FreshCall("dispatch", r, timeout, model, None, step, why)
  BY <1>5 DEF FreshCall, NoCall
<1>7. step = "facts" => DispatchAdmitted(r)
  BY <1>3, <1>4
<1> QED
  BY <1>4, <1>6, <1>7 DEF BeginDispatch, FreshCall, CallFields, Called, Begins

\* Why a resume is refused at once.
ResumeWhy(why) ==
  \/ why \in { "limit", "raised" }
  \/ why = "budget" /\ ~Fits(record.request, Clamp(record.request.timeout))
  \/ why = "root" /\ ~RootAllowed(record.request)

LEMMA BeginningResume ==
  ASSUME BeginResume
  PROVE  /\ Begins /\ record.spawned /\ record' = record
         /\ call'.kind = "resume" /\ call'.step \in { "verify_skills", "refused" }
         /\ call'.request = record.request /\ call'.facts = record.facts
         /\ call'.model = record.model
         /\ call'.step = "refused" => ResumeWhy(call'.why)
         /\ call'.step = "verify_skills" => record.resumes < record.request.max_resume
<1>1. PICK t \in Timeouts \cup { None } :
        LET timeout == Clamp(IF t = None THEN record.request.timeout ELSE t)
            allowed == record.resumes < record.request.max_resume
            admitted == Fits(record.request, timeout)
            rooted == RootAllowed(record.request)
        IN call' = [NoCall EXCEPT
                      !.kind = "resume", !.request = record.request,
                      !.timeout = timeout, !.model = record.model,
                      !.facts = record.facts,
                      !.step = IF allowed /\ admitted /\ rooted THEN "verify_skills"
                               ELSE "refused",
                      !.why = IF ~allowed THEN "limit"
                              ELSE IF ~admitted
                                   THEN IF t = None THEN "budget" ELSE "raised"
                              ELSE IF ~rooted THEN "root" ELSE None]
  BY Zenon DEF BeginResume
<1>2. PICK request, model, facts :
        request = record.request /\ model = record.model /\ facts = record.facts
  OBVIOUS
<1>3. PICK timeout : timeout = Clamp(IF t = None THEN record.request.timeout ELSE t)
  OBVIOUS
<1> DEFINE allowed == record.resumes < record.request.max_resume
           admitted == Fits(record.request, timeout)
           rooted == RootAllowed(record.request)
<1>4. /\ ~admitted /\ t = None => ~Fits(record.request, Clamp(record.request.timeout))
      /\ ~rooted => ~RootAllowed(record.request)
  BY <1>3
<1> HIDE DEF admitted, allowed, rooted
<1>5. PICK step, why :
        /\ step = IF allowed /\ admitted /\ rooted THEN "verify_skills" ELSE "refused"
        /\ why = IF ~allowed THEN "limit"
                 ELSE IF ~admitted THEN IF t = None THEN "budget" ELSE "raised"
                 ELSE IF ~rooted THEN "root" ELSE None
  OBVIOUS
<1> USE DEF admitted, allowed, rooted
<1>6. call' = [NoCall EXCEPT !.kind = "resume", !.request = request, !.timeout = timeout,
                            !.model = model, !.facts = facts, !.step = step, !.why = why]
  BY <1>1, <1>2, <1>3, <1>5
<1> HIDE DEF admitted, allowed, rooted
<1>7. call' = FreshCall("resume", request, timeout, model, facts, step, why)
  BY <1>6 DEF FreshCall, NoCall
<1>8. step = "refused" => ResumeWhy(why)
  BY <1>4, <1>5 DEF ResumeWhy
<1>9. step = "verify_skills" => record.resumes < record.request.max_resume
  BY <1>5 DEF allowed
<1> QED
  BY <1>2, <1>5, <1>7, <1>8, <1>9 DEF BeginResume, FreshCall, CallFields, Called, Begins, ResumeWhy

ReviewWhy(why) ==
  \/ why = "budget" /\ ~Fits(record.request, Clamp(record.request.timeout))
  \/ why = "root" /\ ~RootAllowed(record.request)

LEMMA BeginningReview ==
  ASSUME BeginReview
  PROVE  /\ Begins /\ record.spawned /\ record' = record
         /\ call'.kind = "review" /\ call'.step \in { "review", "refused" }
         /\ call'.request = record.request /\ call'.facts = record.facts
         /\ call'.step = "refused" => ReviewWhy(call'.why)
<1>1. LET timeout == Clamp(record.request.timeout)
          admitted == Fits(record.request, timeout)
          rooted == RootAllowed(record.request)
      IN call' = [NoCall EXCEPT
                    !.kind = "review", !.request = record.request,
                    !.timeout = timeout, !.model = config.models["fable"],
                    !.facts = record.facts,
                    !.step = IF admitted /\ rooted THEN "review" ELSE "refused",
                    !.why = IF ~admitted THEN "budget"
                            ELSE IF ~rooted THEN "root" ELSE None]
  BY Zenon DEF BeginReview
<1>2. PICK request, model, facts, timeout :
        /\ request = record.request /\ model = config.models["fable"] /\ facts = record.facts
        /\ timeout = Clamp(record.request.timeout)
  OBVIOUS
<1> DEFINE admitted == Fits(record.request, timeout)
           rooted == RootAllowed(record.request)
<1>3. /\ ~admitted => ~Fits(record.request, Clamp(record.request.timeout))
      /\ ~rooted => ~RootAllowed(record.request)
  BY <1>2
<1> HIDE DEF admitted, rooted
<1>4. PICK step, why :
        /\ step = IF admitted /\ rooted THEN "review" ELSE "refused"
        /\ why = IF ~admitted THEN "budget" ELSE IF ~rooted THEN "root" ELSE None
  OBVIOUS
<1> USE DEF admitted, rooted
<1>5. call' = [NoCall EXCEPT !.kind = "review", !.request = request, !.timeout = timeout,
                            !.model = model, !.facts = facts, !.step = step, !.why = why]
  BY <1>1, <1>2, <1>4
<1> HIDE DEF admitted, rooted
<1>6. call' = FreshCall("review", request, timeout, model, facts, step, why)
  BY <1>5 DEF FreshCall, NoCall
<1>7. step = "refused" => ReviewWhy(why)
  BY <1>3, <1>4 DEF ReviewWhy
<1>8. record.spawned /\ record' = record /\ Called /\ UNCHANGED << disk, config, engines, told >>
  BY Zenon DEF BeginReview
<1> QED
  BY <1>2, <1>4, <1>6, <1>7, <1>8 DEF FreshCall, CallFields, Called, Begins

LEMMA Beginning ==
  ASSUME BeginDispatch \/ BeginResume \/ BeginReview
  PROVE  /\ Begins
         /\ \/ /\ ~record.spawned /\ record' = [NoTask EXCEPT !.since = spent.edits]
               /\ call'.kind = "dispatch" /\ call'.step \in { "facts", "refused" }
            \/ /\ record.spawned /\ record' = record
               /\ call'.kind = "resume" /\ call'.step \in { "verify_skills", "refused" }
            \/ /\ record.spawned /\ record' = record
               /\ call'.kind = "review" /\ call'.step \in { "review", "refused" }
BY BeginningDispatch, BeginningResume, BeginningReview

LEMMA TypesNext ==
  ASSUME Types, Placed, [Next]_vars
  PROVE  Types' /\ Placed'
<1> USE DEF InPlace, Over, AfterFacts, AfterScan, AfterWorker, AfterCorrection, AfterReview,
            AfterLifecycle, AfterInvoke, AfterCreate, AfterAnchor, AfterReport
<1>0. engines' = engines => EnginesTyped
  BY DEF EnginesTyped, Types
<1>1. CASE BeginDispatch \/ BeginResume \/ BeginReview
  <2>1. spent.edits \in Nat /\ spent.edits \in 0 .. spent.edits
    BY DEF Types
  <2>2. record' = [NoTask EXCEPT !.since = spent.edits]
          => /\ DOMAIN record' = TaskFields /\ record'.spawned \in BOOLEAN
             /\ record'.resumes = 0 /\ record'.since = spent.edits
    BY DEF NoTask, TaskFields
  <2>3. /\ DOMAIN record' = TaskFields /\ record'.spawned \in BOOLEAN /\ record'.resumes \in Nat
        /\ record'.since \in 0 .. spent.edits
    <3>1. record' = record \/ record' = [NoTask EXCEPT !.since = spent.edits]
      BY <1>1, Beginning
    <3>2. record.spawned \in BOOLEAN /\ record.resumes \in Nat /\ record.since \in 0 .. spent.edits
          /\ DOMAIN record = TaskFields
      BY DEF Types
    <3> QED
      BY <2>1, <2>2, <3>1, <3>2
  <2>4. spent' = [spent EXCEPT !.calls = @ + 1] /\ UNCHANGED << disk, config, engines >>
    BY <1>1, Beginning DEF Begins
  <2>5. spent' \in [edits : Nat, calls : Nat] /\ spent'.edits = spent.edits
    BY <2>4 DEF Types
  <2>6. InPlace(call'.kind, call'.step)
    BY <1>1, Beginning
  <2>7. DOMAIN call' = CallFields /\ DOMAIN call'.contexts = { "own", "worker", "correction", "review" }
    BY <1>1, Beginning DEF Begins, NoCall
  <2> QED
    BY <2>3, <2>4, <2>5, <2>6, <2>7 DEF Types, Placed
<1>2. CASE Facts
  <2>1. EnginesTyped
    BY <1>2 DEF Facts, EnginesTyped, Types, Read
  <2>2. CASE Refuse("guidance")
    BY <2>1, <2>2, Refusal, TypesRefused
  <2>3. CASE Go([call EXCEPT !.step = "scan", !.facts = Read])
    <3>1. PICK facts : facts = Read
      OBVIOUS
    <3>2. /\ DOMAIN call' = CallFields /\ call'.step = "scan" /\ call'.kind = call.kind
          /\ call'.contexts = call.contexts /\ Rest
      BY <2>3, <3>1 DEF Go, Types, CallFields, Rest
    <3> QED
      BY <1>2, <2>1, <3>2, TypesFrame DEF Facts, At, Rest, Types, NoCall
  <2> QED
    BY <1>2, <2>2, <2>3 DEF Facts
<1>3. CASE Scan \/ VerifySkills \/ VerifyGuidance
  <2>1. EnginesTyped
    BY <1>3, <1>0, AskedTyped DEF Scan, VerifySkills, VerifyGuidance, Asks
  <2>2. ASSUME NEW why, Refuse(why) PROVE Types' /\ Placed'
    BY <2>1, <2>2, Refusal, TypesRefused
  <2>3. ASSUME NEW next \in { "worker", "verify_guidance", "own" }, InPlace(call.kind, next),
               Go([call EXCEPT !.step = next])
        PROVE  Types' /\ Placed'
    BY <2>1, <2>3, Going, TypesGoing
  <2> QED
    BY <1>3, <2>2, <2>3 DEF Scan, VerifySkills, VerifyGuidance, At
<1>4. CASE ComposeContext
  <2>1. EnginesTyped
    BY <1>4, Composing, AskedTyped
  <2>2. ASSUME NEW context, Composes(context) PROVE Types' /\ Placed'
    <3>1. /\ DOMAIN call' = CallFields /\ call'.step = After(call.step) /\ call'.kind = call.kind
          /\ DOMAIN call'.contexts = DOMAIN call.contexts /\ Rest
      BY <2>2 DEF Composes, Goes, CallFields
    <3>2. call.step \in { "own", "worker", "correction", "review" }
      BY <2>2 DEF Composes, Types
    <3>3. InPlace(call.kind, After(call.step))
      BY <3>2 DEF Placed, After
    <3> QED
      BY <2>1, <3>1, <3>3, TypesFrame DEF Rest, Types, NoCall
  <2> QED
    BY <1>4, <2>1, <2>2, Composing, TypesRefused DEF Misfits
<1>5. CASE Lifecycle
  <2>1. EnginesTyped
    BY <1>0, <1>5 DEF Lifecycle
  <2>2. ASSUME NEW why, Refuse(why) PROVE Types' /\ Placed'
    BY <2>1, <2>2, Refusal, TypesRefused
  <2>3. ASSUME NEW report, NEW prompt,
               Go([call EXCEPT !.report = report, !.prompt = prompt, !.step = "invoke"])
        PROVE  Types' /\ Placed'
    <3>1. /\ DOMAIN call' = CallFields /\ call'.step = "invoke" /\ call'.kind = call.kind
          /\ call'.contexts = call.contexts /\ Rest
      BY <2>3 DEF Go, Types, CallFields, Rest
    <3> QED
      BY <1>5, <2>1, <3>1, TypesFrame DEF Lifecycle, At, Rest, Types, NoCall
  <2> QED
    BY <1>5, <2>2, <2>3, Zenon DEF Lifecycle
<1>6. CASE InvokeWorker \/ InvokeReviewer
  <2>1. EnginesTyped
    BY <1>0, <1>6 DEF InvokeWorker, InvokeReviewer
  <2>2. ASSUME NEW why, Refuse(why) PROVE Types' /\ Placed'
    BY <2>1, <2>2, Refusal, TypesRefused
  <2>3. ASSUME NEW next \in { "launch", "create" }, InPlace(call.kind, next),
               Go([call EXCEPT !.step = next])
        PROVE  Types' /\ Placed'
    BY <2>1, <2>3, Going, TypesGoing
  <2> QED
    BY <1>6, <2>2, <2>3 DEF InvokeWorker, InvokeReviewer, At
<1>7. CASE Create
  <2>1. PICK request, model, facts : request = call.request /\ model = call.model /\ facts = call.facts
    OBVIOUS
  <2> DEFINE kept == [record EXCEPT !.created = TRUE, !.request = request, !.model = model,
                                    !.facts = facts]
  <2>2. /\ DOMAIN kept = TaskFields /\ kept.spawned = record.spawned
        /\ kept.resumes = record.resumes /\ kept.since = record.since
    BY DEF Types, TaskFields
  <2>3. Keep("anchor", kept)
    BY <1>7, <2>1 DEF Create
  <2> HIDE DEF kept
  <2> QED
    BY <1>7, <2>2, <2>3, TypesKeeping DEF Create, At
<1>8. CASE Anchor
  <2>1. PICK skills, guidance :
          skills = call.contexts["worker"].skills /\ guidance = call.contexts["worker"].guidance
    OBVIOUS
  <2> DEFINE kept == [record EXCEPT !.skill_policy = skills, !.project_guidance = guidance]
  <2>2. /\ DOMAIN kept = TaskFields /\ kept.spawned = record.spawned
        /\ kept.resumes = record.resumes /\ kept.since = record.since
    BY DEF Types, TaskFields
  <2>3. Keep("report", kept)
    BY <1>8, <2>1 DEF Anchor
  <2> HIDE DEF kept
  <2> QED
    BY <1>8, <2>2, <2>3, TypesKeeping DEF Anchor, At
<1>9. CASE KeepReport
  <2>1. PICK report : report = call.report
    OBVIOUS
  <2> DEFINE kept == [record EXCEPT !.report = report]
  <2>2. /\ DOMAIN kept = TaskFields /\ kept.spawned = record.spawned
        /\ kept.resumes = record.resumes /\ kept.since = record.since
    BY DEF Types, TaskFields
  <2>3. Keep("launch", kept)
    BY <1>9, <2>1 DEF KeepReport
  <2> HIDE DEF kept
  <2> QED
    BY <1>9, <2>2, <2>3, TypesKeeping DEF KeepReport, At
<1>10. CASE ContextTooLarge \/ TransportTooLarge
  BY <1>0, <1>10, Refusal, TypesRefused DEF ContextTooLarge, TransportTooLarge
<1>11. CASE Launch
  <2>1. /\ DOMAIN call' = CallFields /\ call'.kind = call.kind /\ call'.step = "done"
        /\ call'.contexts = NoCall.contexts
    BY <1>11 DEF Launch, NoCall, CallFields
  <2>2. /\ DOMAIN record' = TaskFields /\ record'.spawned = TRUE /\ record'.resumes \in Nat
        /\ record'.since = record.since
    BY <1>11 DEF Launch, Types, TaskFields
  <2> QED
    BY <1>11, <2>1, <2>2 DEF Launch, Types, Placed, NoCall
<1>12. CASE OtherCall
  <2>1. EnginesTyped
    BY <1>12, EngineTypes DEF OtherCall, EnginesTyped, Types, Read
  <2>2. /\ DOMAIN call' = CallFields /\ call'.kind = call.kind /\ call'.step = call.step
        /\ call'.contexts = call.contexts
    BY <1>12 DEF OtherCall, Types, CallFields
  <2>3. spent' \in [edits : Nat, calls : Nat] /\ spent'.edits = spent.edits
    BY <1>12 DEF OtherCall, Called, Types
  <2> QED
    BY <1>12, <2>1, <2>2, <2>3 DEF OtherCall, Types, Placed, EnginesTyped
<1>13. CASE Approve \/ EditText \/ Restart
  <2>1. spent' \in [edits : Nat, calls : Nat] /\ spent'.edits = spent.edits + 1 /\ record' = record
    BY <1>13 DEF Approve, EditText, Restart, Edited, Types
  <2>2. record'.since \in 0 .. spent'.edits
    BY <2>1 DEF Types
  <2>3. CASE Approve
    BY <2>1, <2>2, <2>3 DEF Approve, Types, Placed
  <2>4. CASE EditText
    BY <2>1, <2>2, <2>4 DEF EditText, Types, Placed
  <2>5. CASE Restart
    <3>1. /\ DOMAIN call' = CallFields /\ DOMAIN call'.contexts = DOMAIN call.contexts
          /\ InPlace(call'.kind, call'.step)
      BY <2>5 DEF Restart, NoCall, CallFields, Types, Placed
    <3>2. /\ engines'.skills = None /\ engines'.guidance = None
          /\ DOMAIN engines' = { "skills", "guidance" } /\ config' \in Configs /\ disk' = disk
      BY <2>5 DEF Restart
    <3> QED
      BY <2>1, <2>2, <3>1, <3>2 DEF Types, Placed
  <2> QED
    BY <1>13, <2>3, <2>4, <2>5
<1>14. CASE UNCHANGED vars
  BY <1>14 DEF vars, Types, Placed
<1> QED
  BY <1>1, <1>2, <1>3, <1>4, <1>5, <1>6, <1>7, <1>8, <1>9, <1>10, <1>11, <1>12, <1>13, <1>14
     DEF Next, Calls, Contexts, Terms, Launches

----------------------------------------------------------------------------
(* What each other step does, in the terms the invariants are about. *)

\* The facts are read, and the guidance engine with them.
ReadsFacts ==
  /\ call.kind = "dispatch" /\ call.step = "facts"
  /\ config.guidance => ~Unusable("guidance_manifest")
  /\ Goes("scan", { "facts" }) /\ call'.facts = Read
  /\ DOMAIN engines' = { "skills", "guidance" }
  /\ engines'.skills = engines.skills /\ engines'.guidance = Read
  /\ Rest

LEMMA ReadingFacts ==
  ASSUME Types, Facts
  PROVE  ReadsFacts \/ (Refused("guidance") /\ UNCHANGED engines)
<1>1. CASE Refuse("guidance") /\ UNCHANGED engines
  BY <1>1, Refusal
<1>2. CASE ~(config.guidance /\ Unusable("guidance_manifest"))
           /\ engines' = [engines EXCEPT !.guidance = Read]
           /\ Go([call EXCEPT !.step = "scan", !.facts = Read])
  <2>1. PICK facts : facts = Read
    OBVIOUS
  <2>2. call' = [call EXCEPT !.step = "scan", !.facts = facts] /\ Rest
    BY <1>2, <2>1 DEF Go, Rest
  <2>3. Goes("scan", { "facts" }) /\ call'.facts = facts
    BY <2>2 DEF Goes, Types, CallFields
  <2>4. engines' = [engines EXCEPT !.guidance = facts]
    BY <1>2, <2>1
  <2>5. /\ DOMAIN engines' = { "skills", "guidance" }
        /\ engines'.skills = engines.skills /\ engines'.guidance = facts
    BY <2>4 DEF Types
  <2> QED
    BY <1>2, <2>1, <2>2, <2>3, <2>5 DEF ReadsFacts, Facts, At
<1> QED
  BY <1>1, <1>2 DEF Facts

\* The lifecycle proof holds of the call, and of the record if it is a resume.
LifecycleShown(prompt) ==
  /\ call.kind \in { "dispatch", "resume" } /\ call.step = "lifecycle"
  /\ ProfileProjects /\ Feasible
  /\ prompt = IF call.kind = "resume" THEN WithProfile(call.contexts["own"], "correction")
              ELSE WithProfile(call.contexts["worker"], "dispatch")
  /\ call.kind = "resume" => record.report = Report
  /\ Goes("invoke", { "report", "prompt" })
  /\ call'.report = Report /\ call'.prompt = prompt
  /\ UNCHANGED engines /\ Rest

\* Or it does not, and the call is refused.
LifecycleRefused(why) ==
  /\ call.kind \in { "dispatch", "resume" } /\ call.step = "lifecycle"
  /\ \/ ~ProfileProjects /\ why = "profile"
     \/ ~Feasible /\ why = "horizon"
     \/ call.kind = "resume" /\ record.report # Report /\ why = "report"
  /\ UNCHANGED engines /\ Refused(why)

LEMMA ShowingLifecycle ==
  ASSUME Types, Lifecycle
  PROVE  (\E prompt : LifecycleShown(prompt)) \/ (\E why : LifecycleRefused(why))
<1> DEFINE prompt == IF call.kind = "resume" THEN WithProfile(call.contexts["own"], "correction")
                     ELSE WithProfile(call.contexts["worker"], "dispatch")
           next == [call EXCEPT !.report = Report, !.prompt = prompt, !.step = "invoke"]
<1>1. /\ call.kind \in { "dispatch", "resume" } /\ call.step = "lifecycle" /\ UNCHANGED engines
      /\ \/ ~ProfileProjects /\ Refuse("profile")
         \/ ~Feasible /\ Refuse("horizon")
         \/ call.kind = "resume" /\ record.report # Report /\ Refuse("report")
         \/ /\ ProfileProjects /\ Feasible
            /\ call.kind = "resume" => record.report = Report
            /\ Go(next)
  BY Zenon DEF Lifecycle, At
<1>2. CASE /\ ProfileProjects /\ Feasible
           /\ call.kind = "resume" => record.report = Report
           /\ Go(next)
  <2>1. PICK report, text : report = Report /\ text = prompt
    OBVIOUS
  <2>2. call' = [call EXCEPT !.report = report, !.prompt = text, !.step = "invoke"] /\ Rest
    BY <1>2, <2>1 DEF Go, Rest
  <2>3. /\ Goes("invoke", { "report", "prompt" })
        /\ call'.report = report /\ call'.prompt = text
    BY <2>2 DEF Goes, Types, CallFields
  <2>4. LifecycleShown(text)
    BY <1>1, <1>2, <2>1, <2>2, <2>3 DEF LifecycleShown
  <2> QED
    BY <2>4
<1> QED
  BY <1>1, <1>2, Refusal DEF LifecycleRefused

\* A worker, or the reviewer, is told the prompt.
Told ==
  [kind |-> call.kind, text |-> call.prompt.text, manifest |-> call.prompt.manifest,
   facts |-> call.facts, overlapped |-> call.overlapped]

TellsPrompt ==
  /\ call.step = "launch" /\ PromptFits
  /\ DOMAIN call' = CallFields /\ call'.kind = call.kind /\ call'.step = "done"
  /\ call'.contexts = NoCall.contexts
  /\ DOMAIN record' = TaskFields /\ record'.spawned = TRUE
  /\ \A f \in TaskFields \ { "spawned", "resumes" } : record'[f] = record[f]
  /\ told' = told \cup { Told }
  /\ UNCHANGED << disk, config, engines, spent >>

LEMMA Launching == ASSUME Types, Launch PROVE TellsPrompt
<1>1. /\ DOMAIN call' = CallFields /\ call'.kind = call.kind /\ call'.step = "done"
      /\ call'.contexts = NoCall.contexts
  BY DEF Launch, NoCall, CallFields
<1>2. /\ DOMAIN record' = TaskFields /\ record'.spawned = TRUE
      /\ \A f \in TaskFields \ { "spawned", "resumes" } : record'[f] = record[f]
  BY DEF Launch, Types, TaskFields
<1> QED
  BY <1>1, <1>2 DEF Launch, TellsPrompt, Told

\* A call for another repository asks the engines, or replaces the guidance
\* engine by what the manifest says.
Overlaps ==
  /\ DOMAIN engines' = { "skills", "guidance" }
  /\ engines'.skills \in { engines.skills, AskedSkills.skills }
  /\ engines'.guidance \in { AskedGuidance.guidance, Read }
  /\ DOMAIN call' = CallFields
  /\ \A f \in CallFields \ { "overlapped" } : call'[f] = call[f]
  /\ InProgress => call'.overlapped = TRUE
  /\ ~InProgress => call' = call
  /\ spent' = [spent EXCEPT !.calls = @ + 1]
  /\ UNCHANGED << disk, config, record, told >>

LEMMA Overlapping == ASSUME Types, OtherCall PROVE Overlaps
<1>1. PICK s \in { engines.skills, AskedSkills.skills },
           g \in { AskedGuidance.guidance } \cup { r \in { Read } : ~Unusable("guidance_manifest") } :
        engines' = [skills |-> s, guidance |-> g]
  BY Zenon DEF OtherCall
<1>2. /\ DOMAIN engines' = { "skills", "guidance" }
      /\ engines'.skills = s /\ engines'.guidance = g
  BY <1>1
<1>3. /\ DOMAIN call' = CallFields
      /\ \A f \in CallFields \ { "overlapped" } : call'[f] = call[f]
      /\ InProgress => call'.overlapped = TRUE
      /\ ~InProgress => call' = call
  BY DEF OtherCall, Types, CallFields
<1>4. UNCHANGED << disk, config, record, told >> /\ spent' = [spent EXCEPT !.calls = @ + 1]
  BY DEF OtherCall, Called
<1> QED
  BY <1>1, <1>2, <1>3, <1>4 DEF Overlaps

\* An operator edits, or the dispatcher dies with its call.
Edits ==
  /\ spent' = [spent EXCEPT !.edits = @ + 1]
  /\ UNCHANGED << record, told >>
  /\ \/ UNCHANGED << config, engines, call >>
     \/ /\ config' \in Configs /\ engines'.skills = None /\ engines'.guidance = None
        /\ call' = call \/ call' = NoCall
        /\ InProgress => call' = NoCall

LEMMA Editing == ASSUME Approve \/ EditText \/ Restart PROVE Edits
BY DEF Approve, EditText, Restart, Edited, Edits

\* The steps that only go on.
Passes(next) ==
  /\ \/ Scan /\ next = "worker" /\ call.kind = "dispatch" /\ call.step = "scan"
     \/ VerifySkills /\ next = "verify_guidance" /\ SkillsStand
        /\ call.kind = "resume" /\ call.step = "verify_skills"
        /\ engines' = IF record.skill_policy = None THEN engines ELSE AskedSkills
     \/ VerifyGuidance /\ next = "own" /\ GuidanceStands
        /\ call.kind = "resume" /\ call.step = "verify_guidance"
        /\ engines' = IF record.project_guidance = None THEN engines ELSE AskedGuidance
     \/ /\ InvokeWorker /\ ~Unusable("worker_schema") /\ UNCHANGED engines /\ call.step = "invoke"
        /\ \/ call.kind = "dispatch" /\ next = "create"
           \/ call.kind = "resume" /\ next = "launch"
     \/ InvokeReviewer /\ UNCHANGED engines /\ call.kind = "review" /\ call.step = "invoke"
        /\ next = "launch"
  /\ Goes(next, {}) /\ Asks /\ Rest

\* And those that stop there.
Stops(why) ==
  /\ \/ Scan /\ why = "stray" /\ call.kind = "dispatch"
     \/ VerifySkills /\ why = "skills" /\ ~SkillsStand
        /\ call.kind = "resume" /\ call.step = "verify_skills"
     \/ VerifyGuidance /\ why = "guidance" /\ ~GuidanceStands
        /\ call.kind = "resume" /\ call.step = "verify_guidance"
     \/ InvokeWorker /\ Unusable("worker_schema") /\ why = "schema" /\ call.step = "invoke"
        /\ call.kind \in { "dispatch", "resume" }
     \/ InvokeReviewer /\ why = "schema" /\ call.kind = "review" /\ call.step = "invoke"
     \/ ContextTooLarge /\ ~PromptFits /\ why = "context" /\ call.step = "launch"
     \/ TransportTooLarge /\ why = "transport" /\ call.step = "launch"
  /\ Refused(why) /\ Asks

LEMMA PassingOrStopping ==
  ASSUME Types, \/ Scan \/ VerifySkills \/ VerifyGuidance
                \/ InvokeWorker \/ InvokeReviewer \/ ContextTooLarge \/ TransportTooLarge
  PROVE  (\E next : Passes(next)) \/ (\E why : Stops(why))
<1>1. CASE Scan
  <2>1. Asks
    BY <1>1 DEF Scan, Asks
  <2>2. CASE Refuse("stray")
    BY <1>1, <2>1, <2>2, Refusal DEF Scan, At, Stops
  <2>3. CASE Go([call EXCEPT !.step = "worker"])
    BY <1>1, <2>1, <2>3, Going DEF Scan, At, Passes
  <2> QED
    BY <1>1, <2>2, <2>3 DEF Scan
<1>2. CASE VerifySkills
  <2>1. Asks /\ call.kind = "resume" /\ call.step = "verify_skills"
        /\ engines' = IF record.skill_policy = None THEN engines ELSE AskedSkills
    BY <1>2 DEF VerifySkills, Asks, At
  <2>2. CASE ~SkillsStand /\ Refuse("skills")
    BY <1>2, <2>1, <2>2, Refusal DEF Stops
  <2>3. CASE SkillsStand /\ Go([call EXCEPT !.step = "verify_guidance"])
    BY <1>2, <2>1, <2>3, Going DEF Passes
  <2> QED
    BY <1>2, <2>2, <2>3 DEF VerifySkills
<1>3. CASE VerifyGuidance
  <2>1. Asks /\ call.kind = "resume" /\ call.step = "verify_guidance"
        /\ engines' = IF record.project_guidance = None THEN engines ELSE AskedGuidance
    BY <1>3 DEF VerifyGuidance, Asks, At
  <2>2. CASE ~GuidanceStands /\ Refuse("guidance")
    BY <1>3, <2>1, <2>2, Refusal DEF Stops
  <2>3. CASE GuidanceStands /\ Go([call EXCEPT !.step = "own"])
    BY <1>3, <2>1, <2>3, Going DEF Passes
  <2> QED
    BY <1>3, <2>2, <2>3 DEF VerifyGuidance
<1>4. CASE InvokeWorker
  <2>1. Asks /\ UNCHANGED engines /\ call.step = "invoke" /\ call.kind \in { "dispatch", "resume" }
    BY <1>4 DEF InvokeWorker, Asks, At
  <2>2. CASE Unusable("worker_schema") /\ Refuse("schema")
    BY <1>4, <2>1, <2>2, Refusal DEF Stops
  <2>3. CASE ~Unusable("worker_schema")
             /\ Go([call EXCEPT !.step = IF call.kind = "resume" THEN "launch" ELSE "create"])
    <3>1. PICK next : next = IF call.kind = "resume" THEN "launch" ELSE "create"
      OBVIOUS
    <3>2. Goes(next, {}) /\ Rest
      BY <2>3, <3>1, Going
    <3> QED
      BY <1>4, <2>1, <2>3, <3>1, <3>2 DEF Passes
  <2> QED
    BY <1>4, <2>2, <2>3 DEF InvokeWorker
<1>5. CASE InvokeReviewer
  <2>1. Asks /\ UNCHANGED engines /\ call.step = "invoke" /\ call.kind = "review"
    BY <1>5 DEF InvokeReviewer, Asks, At
  <2>2. CASE Refuse("schema")
    BY <1>5, <2>1, <2>2, Refusal DEF Stops
  <2>3. CASE Go([call EXCEPT !.step = "launch"])
    BY <1>5, <2>1, <2>3, Going DEF Passes
  <2> QED
    BY <1>5, <2>2, <2>3 DEF InvokeReviewer
<1>6. CASE ContextTooLarge
  BY <1>6, Refusal DEF ContextTooLarge, Asks, Stops
<1>7. CASE TransportTooLarge
  BY <1>7, Refusal DEF TransportTooLarge, Asks, Stops
<1> QED
  BY <1>1, <1>2, <1>3, <1>4, <1>5, <1>6, <1>7

----------------------------------------------------------------------------
(* The engines.                                                            *)

\* An engine is only there if the configuration asks for it.
EnginesFit ==
  /\ engines.skills # None => config.skills
  /\ engines.guidance # None => config.guidance

\* To ask an engine changes nothing it says, and what was read stays readable.
LEMMA Asking ==
  ASSUME Types, EnginesFit, Asks, UNCHANGED << disk, config >>
  PROVE  /\ EnginesFit'
         /\ engines.skills # None => engines'.skills = engines.skills
         /\ engines.guidance # None => engines'.guidance = engines.guidance
         /\ SkillEngine' = SkillEngine /\ GuidanceEngine' = GuidanceEngine
         /\ SkillsReadable => SkillsReadable'
         /\ GuidanceReadable => GuidanceReadable'
<1>1. /\ engines'.skills \in { engines.skills, AskedSkills.skills }
      /\ engines'.guidance \in { engines.guidance, AskedGuidance.guidance }
  BY EngineTypes DEF Asks
<1>2. /\ AskedSkills.skills = IF SkillsReadable THEN SkillEngine ELSE None
      /\ AskedGuidance.guidance = IF GuidanceReadable THEN GuidanceEngine ELSE None
  BY DEF AskedSkills, AskedGuidance, Types
<1> QED
  BY <1>1, <1>2
     DEF EnginesFit, SkillEngine, GuidanceEngine, SkillsReadable, GuidanceReadable, Unusable

\* What a call for another repository does to them.
LEMMA AskingElsewhere ==
  ASSUME Types, EnginesFit, Overlaps
  PROVE  /\ EnginesFit'
         /\ engines.skills # None => engines'.skills = engines.skills
         /\ SkillEngine' = SkillEngine
         /\ SkillsReadable => SkillsReadable'
         /\ (config.guidance => engines.guidance = disk.guidance)
              => /\ config.guidance => engines'.guidance = disk.guidance
                 /\ GuidanceEngine' = GuidanceEngine
<1>1. /\ engines'.skills \in { engines.skills, AskedSkills.skills }
      /\ engines'.guidance \in { AskedGuidance.guidance, Read }
      /\ UNCHANGED << disk, config >>
  BY DEF Overlaps
<1>2. /\ AskedSkills.skills = IF SkillsReadable THEN SkillEngine ELSE None
      /\ AskedGuidance.guidance = IF GuidanceReadable THEN GuidanceEngine ELSE None
  BY DEF AskedSkills, AskedGuidance, Types
<1>3. EnginesFit' /\ (engines.skills # None => engines'.skills = engines.skills)
  BY <1>1, <1>2 DEF EnginesFit, SkillEngine, GuidanceEngine, SkillsReadable, Read
<1>4. SkillEngine' = SkillEngine /\ (SkillsReadable => SkillsReadable')
  BY <1>1, <1>2 DEF EnginesFit, SkillEngine, SkillsReadable, Unusable
<1>5. (config.guidance => engines.guidance = disk.guidance)
        => /\ config.guidance => engines'.guidance = disk.guidance
           /\ GuidanceEngine' = GuidanceEngine
  <2>1. disk.guidance # None
    BY TermsAssumption DEF Types
  <2> QED
    BY <1>1, <1>2, <2>1 DEF EnginesFit, GuidanceEngine, GuidanceReadable, Read
<1> QED
  BY <1>3, <1>4, <1>5

LEMMA EnginesNext ==
  ASSUME Types, EnginesFit, [Next]_vars
  PROVE  EnginesFit'
<1>1. CASE UNCHANGED << engines, config >>
  BY <1>1 DEF EnginesFit
<1>2. CASE Asks /\ UNCHANGED << disk, config >>
  BY <1>2, Asking
<1>3. CASE BeginDispatch \/ BeginResume \/ BeginReview
  BY <1>1, <1>3, Beginning DEF Begins
<1>4. CASE Facts
  BY <1>4, <1>1, ReadingFacts DEF EnginesFit, ReadsFacts, Read, Rest, Refused
<1>5. CASE \/ Scan \/ VerifySkills \/ VerifyGuidance
           \/ InvokeWorker \/ InvokeReviewer \/ ContextTooLarge \/ TransportTooLarge
  BY <1>2, <1>5, PassingOrStopping DEF Passes, Stops, Refused, Rest
<1>6. CASE ComposeContext
  BY <1>2, <1>6, Composing DEF Composes, Misfits, Refused, Rest
<1>7. CASE Lifecycle \/ Create \/ Anchor \/ KeepReport \/ Launch
  BY <1>1, <1>7 DEF Lifecycle, Create, Anchor, KeepReport, Launch, Keep, Refuse, Go
<1>8. CASE OtherCall
  BY <1>8, Overlapping, AskingElsewhere
<1>9. CASE Approve \/ EditText \/ Restart
  BY <1>1, <1>9, Editing DEF Edits, EnginesFit
<1>10. CASE UNCHANGED vars
  BY <1>1, <1>10 DEF vars
<1> QED
  BY <1>3, <1>4, <1>5, <1>6, <1>7, <1>8, <1>9, <1>10
     DEF Next, Calls, Contexts, Terms, Launches

----------------------------------------------------------------------------
(* The seal.                                                               *)

ContextFields == { "manifest", "skills", "guidance", "text", "size" }

ContextsTyped == \A s \in DOMAIN call.contexts : DOMAIN call.contexts[s] = ContextFields

LEMMA ComposedFields ==
  ASSUME NEW run
  PROVE  DOMAIN Composed(run) = ContextFields /\ Composed(run).manifest = GuidanceEngine
BY DEF Composed, ContextFields

\* What was read into the facts is the manifest the engine holds, as long as no
\* dispatch elsewhere replaces it; the context and the prompt came from it.
Sealed ==
  (call.kind = "dispatch" /\ call.step \in AfterFacts /\ ~call.overlapped) =>
    /\ config.guidance => engines.guidance = call.facts /\ call.facts # None
    /\ ~config.guidance => call.facts = None
    /\ call.step \in AfterWorker => call.contexts["worker"].manifest = call.facts
    /\ call.step \in AfterLifecycle => call.prompt.manifest = call.facts

SealFits == ContextsTyped /\ Sealed /\ SealMatchesContext

LEMMA FreshContexts ==
  ASSUME call'.contexts = NoCall.contexts
  PROVE  ContextsTyped'
BY DEF ContextsTyped, NoCall, NoContext, ContextFields

LEMMA SealRefused ==
  ASSUME Types, SealFits, NEW why, Refused(why)
  PROVE  SealFits'
BY FreshContexts DEF SealFits, Refused, Rest, Sealed, SealMatchesContext, AfterFacts, AfterScan,
     AfterWorker, AfterCorrection, AfterReview, AfterLifecycle, AfterInvoke, AfterCreate,
     AfterAnchor, AfterReport

\* A call that goes on, with the same facts.
LEMMA SealGoes ==
  ASSUME Types, Placed, EnginesFit, SealFits, NEW next, Goes(next, {}), Asks \/ UNCHANGED engines,
         UNCHANGED << disk, config, told >>,
         next \in AfterFacts => call.step \in AfterFacts \/ call.kind # "dispatch",
         next \in AfterWorker => call.step \in AfterWorker \/ call.kind # "dispatch",
         next \in AfterLifecycle => call.step \in AfterLifecycle \/ call.kind # "dispatch"
  PROVE  SealFits'
<1>1. /\ call'.kind = call.kind /\ call'.step = next /\ call'.overlapped = call.overlapped
      /\ call'.facts = call.facts /\ call'.contexts = call.contexts /\ call'.prompt = call.prompt
  BY DEF Goes, CallFields
<1>2. engines.guidance # None => engines'.guidance = engines.guidance
  BY Asking
<1>3. ContextsTyped' /\ SealMatchesContext'
  BY <1>1 DEF SealFits, ContextsTyped, SealMatchesContext
<1>4. Sealed'
  BY <1>1, <1>2 DEF SealFits, Sealed
<1> QED
  BY <1>3, <1>4 DEF SealFits

LEMMA SealComposes ==
  ASSUME Types, Placed, EnginesFit, SealFits, Asks, NEW context, Composes(context)
  PROVE  SealFits'
<1>1. /\ call'.kind = call.kind /\ call'.step = After(call.step)
      /\ call'.overlapped = call.overlapped /\ call'.facts = call.facts
      /\ call'.contexts = [call.contexts EXCEPT ![call.step] = context]
      /\ call'.prompt = IF call.kind = "review" THEN context ELSE call.prompt
      /\ DOMAIN context = ContextFields /\ context.manifest = GuidanceEngine
      /\ call.step \in { "own", "worker", "correction", "review" }
      /\ UNCHANGED << disk, config, told >>
  BY ComposedFields DEF Composes, Goes, CallFields, Rest, Types
<1>2. engines.guidance # None => engines'.guidance = engines.guidance
  BY Asking DEF Composes, Rest
<1>3. ContextsTyped'
  BY <1>1 DEF SealFits, ContextsTyped, Types
<1>4. SealMatchesContext'
  BY <1>1 DEF SealFits, SealMatchesContext
<1>5. Sealed'
  <2> SUFFICES ASSUME call'.kind = "dispatch", call'.step \in AfterFacts, ~call'.overlapped
               PROVE  /\ config.guidance => engines'.guidance = call.facts /\ call.facts # None
                      /\ ~config.guidance => call.facts = None
                      /\ call'.step \in AfterWorker
                           => call'.contexts["worker"].manifest = call.facts
                      /\ call'.step \in AfterLifecycle => call'.prompt.manifest = call.facts
    BY <1>1 DEF Sealed
  <2>1. /\ call.step \in { "worker", "correction", "review" }
        /\ call'.step \in { "correction", "review", "lifecycle" }
    BY <1>1 DEF Placed, After, Over, AfterFacts, AfterScan, AfterWorker, AfterCorrection,
         AfterReview, AfterLifecycle, AfterInvoke, AfterCreate, AfterAnchor, AfterReport
  <2>2. /\ config.guidance => engines.guidance = call.facts /\ call.facts # None
        /\ ~config.guidance => call.facts = None
    BY <1>1, <2>1 DEF SealFits, Sealed, AfterFacts, AfterScan, AfterWorker, AfterCorrection,
         AfterReview
  <2>3. GuidanceEngine = call.facts
    BY <2>2 DEF GuidanceEngine
  <2>4. call.step # "worker" => call.contexts["worker"].manifest = call.facts
    BY <1>1, <2>1 DEF SealFits, Sealed, AfterFacts, AfterScan, AfterWorker, AfterCorrection,
         AfterReview
  <2>5. call'.contexts["worker"].manifest = call.facts
    BY <1>1, <2>3, <2>4 DEF Types
  <2>6. call'.step \notin AfterLifecycle
    BY <2>1 DEF AfterLifecycle, AfterInvoke, AfterCreate, AfterAnchor, AfterReport
  <2> QED
    BY <1>2, <2>2, <2>5, <2>6
<1> QED
  BY <1>3, <1>4, <1>5 DEF SealFits

LEMMA SealLifecycle ==
  ASSUME Types, Placed, SealFits, NEW prompt, LifecycleShown(prompt)
  PROVE  SealFits'
<1>1. /\ call'.kind = call.kind /\ call'.step = "invoke" /\ call.step = "lifecycle"
      /\ call'.overlapped = call.overlapped /\ call'.facts = call.facts
      /\ call'.contexts = call.contexts /\ call'.prompt = prompt
      /\ UNCHANGED << disk, config, told, engines >>
  BY DEF LifecycleShown, Goes, CallFields, Rest
<1>2. call.kind = "dispatch" => prompt.manifest = call.contexts["worker"].manifest
  BY DEF SealFits, ContextsTyped, ContextFields, LifecycleShown, WithProfile, Types
<1>3. ContextsTyped' /\ SealMatchesContext'
  BY <1>1 DEF SealFits, ContextsTyped, SealMatchesContext
<1>4. Sealed'
  BY <1>1, <1>2 DEF SealFits, Sealed, AfterFacts, AfterScan, AfterWorker, AfterCorrection,
       AfterReview
<1> QED
  BY <1>3, <1>4 DEF SealFits

LEMMA SealLaunch ==
  ASSUME Types, Placed, SealFits, TellsPrompt
  PROVE  SealFits'
<1>1. ContextsTyped'
  BY FreshContexts DEF TellsPrompt
<1>2. Sealed'
  BY DEF TellsPrompt, Sealed, AfterFacts, AfterScan, AfterWorker, AfterCorrection,
       AfterReview, AfterLifecycle, AfterInvoke, AfterCreate, AfterAnchor, AfterReport
<1>3. call.kind = "dispatch" /\ ~call.overlapped => call.prompt.manifest = call.facts
  BY DEF TellsPrompt, SealFits, Sealed, AfterFacts, AfterScan, AfterWorker, AfterCorrection,
       AfterReview, AfterLifecycle, AfterInvoke, AfterCreate, AfterAnchor, AfterReport
<1>4. /\ Told.kind = call.kind /\ Told.manifest = call.prompt.manifest
      /\ Told.facts = call.facts /\ Told.overlapped = call.overlapped
  BY DEF Told
<1>5. SealMatchesContext'
  BY <1>3, <1>4 DEF TellsPrompt, SealFits, SealMatchesContext
<1> QED
  BY <1>1, <1>2, <1>5 DEF SealFits

LEMMA SealNext ==
  ASSUME Types, Placed, EnginesFit, SealFits, [Next]_vars
  PROVE  SealFits'
<1> USE DEF AfterFacts, AfterScan, AfterWorker, AfterCorrection, AfterReview, AfterLifecycle,
            AfterInvoke, AfterCreate, AfterAnchor, AfterReport
<1>1. CASE BeginDispatch \/ BeginResume \/ BeginReview
  BY <1>1, Beginning, FreshContexts DEF Begins, SealFits, Sealed, SealMatchesContext
<1>2. CASE Facts
  <2>1. CASE ReadsFacts
    <3>1. /\ call'.kind = call.kind /\ call'.step = "scan" /\ call'.overlapped = call.overlapped
          /\ call'.facts = Read /\ call'.contexts = call.contexts
          /\ engines'.guidance = Read /\ UNCHANGED << disk, config, told >>
      BY <2>1 DEF ReadsFacts, Goes, CallFields, Rest
    <3>2. disk.guidance # None
      BY TermsAssumption DEF Types
    <3>3. Sealed'
      BY <3>1, <3>2 DEF Sealed, Read
    <3> QED
      BY <3>1, <3>3 DEF SealFits, ContextsTyped, SealMatchesContext
  <2> QED
    BY <1>2, <2>1, ReadingFacts, SealRefused
<1>3. CASE \/ Scan \/ VerifySkills \/ VerifyGuidance
           \/ InvokeWorker \/ InvokeReviewer \/ ContextTooLarge \/ TransportTooLarge
  <2>1. ASSUME NEW next, Passes(next) PROVE SealFits'
    <3>1. Goes(next, {}) /\ Asks /\ UNCHANGED << disk, config, told >>
      BY <2>1 DEF Passes, Rest
    <3>2. /\ next \in AfterFacts => call.step \in AfterFacts \/ call.kind # "dispatch"
          /\ next \in AfterWorker => call.step \in AfterWorker \/ call.kind # "dispatch"
          /\ next \in AfterLifecycle => call.step \in AfterLifecycle \/ call.kind # "dispatch"
      BY <2>1 DEF Passes
    <3> QED
      BY <3>1, <3>2, SealGoes
  <2>2. ASSUME NEW why, Stops(why) PROVE SealFits'
    BY <2>2, SealRefused DEF Stops
  <2> QED
    BY <1>3, <2>1, <2>2, PassingOrStopping
<1>4. CASE ComposeContext
  BY <1>4, Composing, SealRefused, SealComposes DEF Misfits
<1>5. CASE Lifecycle
  BY <1>5, ShowingLifecycle, SealLifecycle, SealRefused DEF LifecycleRefused
<1>6. CASE Create \/ Anchor \/ KeepReport
  <2>1. PICK next, kept : Keep(next, kept) /\ next \in { "anchor", "report", "launch" }
                          /\ call.step \in { "create", "anchor", "report" }
    BY <1>6 DEF Create, Anchor, KeepReport, At
  <2> QED
    BY <2>1, Keeping, SealGoes
<1>7. CASE Launch
  BY <1>7, Launching, SealLaunch
<1>8. CASE OtherCall
  <2>1. Overlaps
    BY <1>8, Overlapping
  <2>2. /\ call'.contexts = call.contexts /\ call'.step = call.step /\ told' = told
        /\ call'.step \in AfterFacts => call'.overlapped
    BY <2>1 DEF Overlaps, InProgress, CallFields
  <2> QED
    BY <2>2 DEF SealFits, ContextsTyped, Sealed, SealMatchesContext
<1>9. CASE Approve \/ EditText \/ Restart
  <2>1. Edits
    BY <1>9, Editing
  <2>2. CASE UNCHANGED << config, engines, call >>
    BY <2>1, <2>2 DEF Edits, SealFits, ContextsTyped, Sealed, SealMatchesContext
  <2>3. CASE call' = NoCall
    BY <2>1, <2>3, FreshContexts DEF Edits, SealFits, Sealed, SealMatchesContext, NoCall
  <2>4. CASE call' = call /\ ~InProgress
    BY <2>1, <2>4 DEF Edits, SealFits, ContextsTyped, Sealed, SealMatchesContext, InProgress
  <2> QED
    BY <2>1, <2>2, <2>3, <2>4 DEF Edits
<1>10. CASE UNCHANGED vars
  BY <1>10 DEF vars, SealFits, ContextsTyped, Sealed, SealMatchesContext
<1> QED
  BY <1>1, <1>2, <1>3, <1>4, <1>5, <1>6, <1>7, <1>8, <1>9, <1>10
     DEF Next, Calls, Contexts, Terms, Launches

----------------------------------------------------------------------------
(* The instructions.                                                       *)

PastTerms == { "invoke", "launch" }
PastOwn == { "worker", "correction", "review", "lifecycle" } \cup PastTerms
PastGuidance == { "own" } \cup PastOwn
PastSkills == { "verify_guidance" } \cup PastGuidance

\* Every entry of a text is of those the policy and the guidance pinned.
Covered(text, policy, guidance) ==
  \A i \in DOMAIN text :
    \/ /\ i \in Skill /\ policy # None /\ i \in policy.ids
       /\ text[i] = policy.fingerprint[2][i]
    \/ /\ i \in Scope /\ guidance # None /\ i \in guidance.ids
       /\ text[i] = guidance.fingerprint[i]

\* A text says of the entries they pinned what was pinned.
Follows(text, policy, guidance) ==
  \A i \in DOMAIN text :
    /\ (i \in Skill /\ policy # None /\ i \in policy.ids)
         => text[i] = policy.fingerprint[2][i]
    /\ (i \in Scope /\ guidance # None /\ i \in guidance.ids)
         => text[i] = guidance.fingerprint[i]

\* The engines say what the record holds.
SkillsAgree ==
  record.skill_policy # None =>
    /\ engines.skills # None
    /\ \A i \in record.skill_policy.ids :
         engines.skills.entries[i].text = record.skill_policy.fingerprint[2][i]

GuidanceAgrees ==
  record.project_guidance # None =>
    /\ engines.guidance # None
    /\ \A i \in record.project_guidance.ids :
         engines.guidance.pins[i] = record.project_guidance.fingerprint[i]

\* Only what was never spawned is dispatched, and only what was is resumed.
Owned ==
  call.step \notin Over => (record.spawned <=> call.kind # "dispatch")

DispatchCovered ==
  call.kind = "dispatch" =>
    /\ call.step \in AfterWorker =>
         Covered(call.contexts["worker"].text, call.contexts["worker"].skills,
                 call.contexts["worker"].guidance)
    /\ call.step \in AfterLifecycle => call.prompt.text = call.contexts["worker"].text
    /\ call.step \in AfterAnchor =>
         /\ record.skill_policy = call.contexts["worker"].skills
         /\ record.project_guidance = call.contexts["worker"].guidance

ResumeFollows ==
  (call.kind = "resume" /\ ~call.overlapped) =>
    /\ call.step \in PastSkills => SkillsAgree
    /\ call.step \in PastGuidance => GuidanceAgrees
    /\ call.step \in PastOwn =>
         Follows(call.contexts["own"].text, record.skill_policy, record.project_guidance)
    /\ call.step \in PastTerms =>
         Follows(call.prompt.text, record.skill_policy, record.project_guidance)

ToldStands ==
  \A t \in told :
    /\ t.kind \in { "dispatch", "resume" } => record.spawned
    /\ t.kind = "dispatch" => Covered(t.text, record.skill_policy, record.project_guidance)
    /\ t.kind = "resume" /\ ~t.overlapped
         => Follows(t.text, record.skill_policy, record.project_guidance)

StandFits == Owned /\ DispatchCovered /\ ResumeFollows /\ ToldStands

LEMMA TextsStand == ASSUME StandFits PROVE InstructionsStand
BY DEF StandFits, ToldStands, Covered, Follows, InstructionsStand

\* What a context is made of.
LEMMA ComposedText ==
  ASSUME Types, NEW run, SkillsGiven(run), GuidanceProjects(GuidanceFor(run))
  PROVE  /\ SkillsFor(run) \subseteq Skill /\ GuidanceFor(run) \subseteq Scope
         /\ SkillsFor(run) # {} => SkillEngine # None
         /\ GuidanceFor(run) # {} => GuidanceEngine # None
         /\ Composed(run).skills = SkillRecord(SkillsFor(run))
         /\ Composed(run).guidance = GuidanceRecord(GuidanceFor(run))
         /\ DOMAIN Composed(run).text = SkillsFor(run) \cup GuidanceFor(run)
         /\ \A i \in SkillsFor(run) : Composed(run).text[i] = SkillEngine.entries[i].text
         /\ \A i \in GuidanceFor(run) : Composed(run).text[i] = GuidanceEngine.pins[i]
<1>1. PICK skills, scopes : skills = SkillsFor(run) /\ scopes = GuidanceFor(run)
  OBVIOUS
<1>2. skills # {} => SkillEngine # None /\ SkillsProject(skills)
  BY <1>1 DEF SkillsFor, SkillsGiven
<1>3. scopes # {} => GuidanceEngine # None
  BY <1>1 DEF GuidanceFor
<1>4. skills \subseteq Skill
  <2>1. CASE skills = {}
    BY <2>1
  <2>2. CASE skills # {}
    <3>1. SkillsLoad(SkillEngine)
      BY <1>2, <2>2, EngineTypes, TermsAssumption
    <3>2. DOMAIN SkillEngine.entries \subseteq Skill
      BY <3>1 DEF SkillsLoad
    <3> QED
      BY <1>2, <2>2, <3>2 DEF SkillsProject
  <2> QED
    BY <2>1, <2>2
<1>5. scopes \subseteq Scope
  <2>1. CASE GuidanceEngine = None
    BY <1>3, <2>1
  <2>2. CASE GuidanceEngine # None
    <3>1. GuidanceLoads(GuidanceEngine)
      BY <2>2, EngineTypes, TermsAssumption
    <3> QED
      BY <1>1, <2>2, <3>1 DEF GuidanceProjects, GuidanceLoads
  <2> QED
    BY <2>1, <2>2
<1>6. Skill \cap Scope = {}
  BY TermsAssumption
<1>7. PICK text : text = [i \in skills \cup scopes |->
                            IF i \in skills THEN SkillTexts(skills)[i] ELSE ScopeTexts(scopes)[i]]
  OBVIOUS
<1>8. /\ Composed(run).text = text
      /\ Composed(run).skills = SkillRecord(skills) /\ Composed(run).guidance = GuidanceRecord(scopes)
  BY <1>1, <1>7 DEF Composed
<1>9. /\ DOMAIN text = skills \cup scopes
      /\ \A i \in skills : text[i] = SkillEngine.entries[i].text
      /\ \A i \in scopes : text[i] = GuidanceEngine.pins[i]
  BY <1>4, <1>5, <1>6, <1>7 DEF SkillTexts, ScopeTexts
<1> QED
  BY <1>1, <1>2, <1>3, <1>4, <1>5, <1>8, <1>9

\* A context is covered by what it records of itself.
LEMMA ComposedCovered ==
  ASSUME Types, NEW run, SkillsGiven(run), GuidanceProjects(GuidanceFor(run))
  PROVE  Covered(Composed(run).text, Composed(run).skills, Composed(run).guidance)
<1>1. PICK skills, scopes, context :
        skills = SkillsFor(run) /\ scopes = GuidanceFor(run) /\ context = Composed(run)
  OBVIOUS
<1>2. /\ skills # {} => SkillRecord(skills) # None
      /\ scopes # {} => GuidanceRecord(scopes) # None
  <2>1. ASSUME skills # {} PROVE SkillRecord(skills) # None
    <3>1. SkillEngine \in SkillManifests /\ skills \subseteq Skill
      BY <1>1, <2>1, ComposedText, EngineTypes
    <3>2. SkillsLoad(SkillEngine) /\ skills \subseteq DOMAIN SkillEngine.entries
      <4>1. SkillEngine # None /\ SkillsProject(skills)
        BY <1>1, <2>1 DEF SkillsGiven, SkillsFor
      <4> QED
        BY <3>1, <4>1, TermsAssumption DEF SkillsProject
    <3>3. SkillTexts(skills) \in [skills -> Text]
      BY <3>2 DEF SkillsLoad, SkillEntry, SkillTexts
    <3>4. SkillRecord(skills) \in SkillPolicyRecord
      BY <2>1, <3>1, <3>3 DEF SkillRecord, SkillPolicyRecord
    <3> QED
      BY <3>4, TermsAssumption
  <2>2. ASSUME scopes # {} PROVE GuidanceRecord(scopes) # None
    <3>1. GuidanceEngine # None /\ GuidanceEngine \in GuidanceManifests /\ scopes \subseteq Scope
      BY <1>1, <2>2, ComposedText, EngineTypes
    <3>2. GuidanceLoads(GuidanceEngine) /\ scopes \subseteq DOMAIN GuidanceEngine.pins
      BY <1>1, <3>1, TermsAssumption DEF GuidanceProjects
    <3>3. ScopeTexts(scopes) \in [scopes -> Text]
      BY <3>2 DEF GuidanceLoads, ScopeTexts
    <3>4. GuidanceRecord(scopes) \in ProjectGuidanceRecord
      BY <3>1, <3>3 DEF GuidanceRecord, ProjectGuidanceRecord
    <3> QED
      BY <3>4, TermsAssumption
  <2> QED
    BY <2>1, <2>2
<1>3. ASSUME NEW i \in skills
      PROVE  /\ i \in Skill /\ i \in SkillRecord(skills).ids
             /\ SkillRecord(skills).fingerprint[2][i] = SkillEngine.entries[i].text
  BY <1>1, <1>3, ComposedText DEF SkillRecord, SkillTexts
<1>4. ASSUME NEW i \in scopes
      PROVE  /\ i \in Scope /\ i \in GuidanceRecord(scopes).ids
             /\ GuidanceRecord(scopes).fingerprint[i] = GuidanceEngine.pins[i]
  BY <1>1, <1>4, ComposedText DEF GuidanceRecord, ScopeTexts
<1> QED
  BY <1>1, <1>2, <1>3, <1>4, ComposedText DEF Covered

\* A context follows the record if the engines agree with it.
LEMMA ComposedFollows ==
  ASSUME Types, EnginesFit, NEW run,
         SkillsGiven(run), GuidanceProjects(GuidanceFor(run)),
         SkillsAgree, GuidanceAgrees
  PROVE  Follows(Composed(run).text, record.skill_policy, record.project_guidance)
<1>1. PICK skills, scopes, context :
        skills = SkillsFor(run) /\ scopes = GuidanceFor(run) /\ context = Composed(run)
  OBVIOUS
<1>2. /\ engines.skills # None => SkillEngine = engines.skills
      /\ engines.guidance # None => GuidanceEngine = engines.guidance
  BY DEF EnginesFit, SkillEngine, GuidanceEngine
<1>3. Skill \cap Scope = {}
  BY TermsAssumption
<1> QED
  BY <1>1, <1>2, <1>3, ComposedText DEF Follows, SkillsAgree, GuidanceAgrees

\* A step that leaves the record and what was told, of a call that is over or
\* at a step about which nothing is promised.
LEMMA StandEnds ==
  ASSUME StandFits, UNCHANGED << record, told >>, call'.step \in Over
  PROVE  StandFits'
BY DEF StandFits, Owned, DispatchCovered, ResumeFollows, ToldStands, Over, PastTerms, PastOwn,
     PastGuidance, PastSkills, AfterWorker, AfterCorrection, AfterReview, AfterLifecycle,
     AfterInvoke, AfterCreate, AfterAnchor, AfterReport

LEMMA StandRefused ==
  ASSUME StandFits, NEW why, Refused(why)
  PROVE  StandFits'
BY StandEnds DEF Refused, Rest, Over

LEMMA StandPasses ==
  ASSUME Types, Placed, EnginesFit, StandFits, NEW next, Passes(next)
  PROVE  StandFits'
<1>1. /\ call'.kind = call.kind /\ call'.step = next /\ call'.overlapped = call.overlapped
      /\ call'.contexts = call.contexts /\ call'.prompt = call.prompt
      /\ UNCHANGED << disk, config, record, told >> /\ Asks
  BY DEF Passes, Goes, CallFields, Rest
<1>2. /\ engines.skills # None => engines'.skills = engines.skills
      /\ engines.guidance # None => engines'.guidance = engines.guidance
      /\ SkillEngine' = SkillEngine /\ GuidanceEngine' = GuidanceEngine
  BY <1>1, Asking
<1>3. \/ call.kind = "dispatch" /\ call.step = "scan" /\ next = "worker"
      \/ call.kind = "resume" /\ call.step = "verify_skills" /\ next = "verify_guidance"
      \/ call.kind = "resume" /\ call.step = "verify_guidance" /\ next = "own"
      \/ call.kind = "dispatch" /\ call.step = "invoke" /\ next = "create"
      \/ call.kind = "resume" /\ call.step = "invoke" /\ next = "launch"
      \/ call.kind = "review" /\ call.step = "invoke" /\ next = "launch"
  BY DEF Passes
<1>4. Owned'
  BY <1>1, <1>3 DEF StandFits, Owned, Over
<1>5. DispatchCovered'
  BY <1>1, <1>3 DEF StandFits, DispatchCovered, AfterWorker, AfterCorrection, AfterReview,
       AfterLifecycle, AfterInvoke, AfterCreate, AfterAnchor, AfterReport
<1>6. SkillsAgree => SkillsAgree'
  BY <1>1, <1>2 DEF SkillsAgree
<1>7. GuidanceAgrees => GuidanceAgrees'
  BY <1>1, <1>2 DEF GuidanceAgrees
<1>8. next = "verify_guidance" => SkillsAgree'
  <2> SUFFICES ASSUME next = "verify_guidance", record.skill_policy # None
               PROVE  /\ engines'.skills # None
                      /\ \A i \in record.skill_policy.ids :
                           engines'.skills.entries[i].text = record.skill_policy.fingerprint[2][i]
    BY <1>1 DEF SkillsAgree
  <2>1. SkillsStand /\ engines' = AskedSkills
    BY DEF Passes
  <2>2. PICK policy : policy = record.skill_policy
    OBVIOUS
  <2>3. /\ SkillEngine # None /\ SkillsReadable /\ SkillRecord(policy.ids) = policy
    BY <2>1, <2>2 DEF SkillsStand, SkillsProject
  <2>4. engines'.skills = SkillEngine
    BY <2>1, <2>3 DEF AskedSkills, Types
  <2>5. \A i \in policy.ids : SkillRecord(policy.ids).fingerprint[2][i] = SkillEngine.entries[i].text
    <3>1. PICK ids : ids = policy.ids
      OBVIOUS
    <3>2. \A i \in ids : SkillRecord(ids).fingerprint[2][i] = SkillEngine.entries[i].text
      BY DEF SkillRecord, SkillTexts
    <3> QED
      BY <3>1, <3>2
  <2> QED
    BY <2>2, <2>3, <2>4, <2>5
<1>9. next = "own" => GuidanceAgrees'
  <2> SUFFICES ASSUME next = "own", record.project_guidance # None
               PROVE  /\ engines'.guidance # None
                      /\ \A i \in record.project_guidance.ids :
                           engines'.guidance.pins[i] = record.project_guidance.fingerprint[i]
    BY <1>1 DEF GuidanceAgrees
  <2>1. GuidanceStands /\ engines' = AskedGuidance
    BY DEF Passes
  <2>2. PICK guidance : guidance = record.project_guidance
    OBVIOUS
  <2>3. GuidanceEngine # None /\ GuidanceReadable /\ GuidanceRecord(guidance.ids) = guidance
    BY <2>1, <2>2 DEF GuidanceStands, GuidanceProjects
  <2>4. engines'.guidance = GuidanceEngine
    BY <2>1, <2>3 DEF AskedGuidance, Types
  <2>5. \A i \in guidance.ids :
          GuidanceRecord(guidance.ids).fingerprint[i] = GuidanceEngine.pins[i]
    <3>1. PICK ids : ids = guidance.ids
      OBVIOUS
    <3>2. \A i \in ids : GuidanceRecord(ids).fingerprint[i] = GuidanceEngine.pins[i]
      BY <2>3 DEF GuidanceRecord, ScopeTexts
    <3> QED
      BY <3>1, <3>2
  <2> QED
    BY <2>2, <2>3, <2>4, <2>5
<1>10. ResumeFollows'
  <2> SUFFICES ASSUME call.kind = "resume", ~call.overlapped
               PROVE  /\ next \in PastSkills => SkillsAgree'
                      /\ next \in PastGuidance => GuidanceAgrees'
                      /\ next \in PastOwn =>
                           Follows(call.contexts["own"].text, record.skill_policy,
                                   record.project_guidance)
                      /\ next \in PastTerms =>
                           Follows(call.prompt.text, record.skill_policy, record.project_guidance)
    BY <1>1 DEF ResumeFollows
  <2> QED
    BY <1>3, <1>6, <1>7, <1>8, <1>9
       DEF StandFits, ResumeFollows, PastTerms, PastOwn, PastGuidance, PastSkills
<1>11. ToldStands'
  BY <1>1 DEF StandFits, ToldStands
<1> QED
  BY <1>4, <1>5, <1>10, <1>11 DEF StandFits

LEMMA StandComposes ==
  ASSUME Types, Placed, EnginesFit, StandFits, Asks, NEW context, Composes(context)
  PROVE  StandFits'
<1>1. /\ call'.kind = call.kind /\ call'.step = After(call.step)
      /\ call'.overlapped = call.overlapped
      /\ call'.contexts = [call.contexts EXCEPT ![call.step] = context]
      /\ call.step \in { "own", "worker", "correction", "review" }
      /\ call.kind # "review" => call'.prompt = call.prompt
      /\ UNCHANGED << disk, config, record, told >>
  BY DEF Composes, Goes, CallFields, Rest, Types
<1>2. /\ engines.skills # None => engines'.skills = engines.skills
      /\ engines.guidance # None => engines'.guidance = engines.guidance
  BY <1>1, Asking
<1>3. /\ SkillsGiven(RunOf(call.step))
      /\ GuidanceProjects(GuidanceFor(RunOf(call.step)))
      /\ context = Composed(RunOf(call.step))
  BY DEF Composes
<1>4. Covered(context.text, context.skills, context.guidance)
  BY <1>3, ComposedCovered
<1>5. SkillsAgree /\ GuidanceAgrees
        => Follows(context.text, record.skill_policy, record.project_guidance)
  BY <1>3, ComposedFollows
<1>6. \/ /\ call.kind = "review" /\ call.step = "review" /\ call'.step = "invoke"
      \/ /\ call.kind # "review"
         /\ \/ call.step = "own" /\ call'.step = "worker"
            \/ call.step = "worker" /\ call'.step = "correction"
            \/ call.step = "correction" /\ call'.step = "review"
            \/ call.step = "review" /\ call'.step = "lifecycle"
  BY <1>1 DEF Placed, After
<1>7. /\ call.step = "worker" => call'.contexts["worker"] = context
      /\ call.step # "worker" => call'.contexts["worker"] = call.contexts["worker"]
      /\ call.step = "own" => call'.contexts["own"] = context
      /\ call.step # "own" => call'.contexts["own"] = call.contexts["own"]
  BY <1>1 DEF Types
<1>8. call.kind = "dispatch" => call.step # "own"
  BY DEF Placed, Over, AfterFacts, AfterScan, AfterWorker, AfterCorrection, AfterReview,
       AfterLifecycle, AfterInvoke, AfterCreate, AfterAnchor, AfterReport
<1>9. Owned'
  BY <1>1, <1>6 DEF StandFits, Owned, Over
<1>10. DispatchCovered'
  <2> SUFFICES ASSUME call.kind = "dispatch"
               PROVE  /\ call'.step \notin AfterLifecycle /\ call'.step \notin AfterAnchor
                      /\ Covered(call'.contexts["worker"].text, call'.contexts["worker"].skills,
                                 call'.contexts["worker"].guidance)
    BY <1>1 DEF DispatchCovered
  <2>1. call.step # "worker" =>
          Covered(call.contexts["worker"].text, call.contexts["worker"].skills,
                  call.contexts["worker"].guidance)
    BY <1>6, <1>8 DEF StandFits, DispatchCovered, AfterWorker, AfterCorrection, AfterReview
  <2> QED
    BY <1>4, <1>6, <1>7, <2>1 DEF AfterLifecycle, AfterInvoke, AfterCreate, AfterAnchor, AfterReport
<1>11. ResumeFollows'
  <2> SUFFICES ASSUME call.kind = "resume", ~call.overlapped
               PROVE  /\ SkillsAgree' /\ GuidanceAgrees'
                      /\ Follows(call'.contexts["own"].text, record.skill_policy,
                                 record.project_guidance)
                      /\ call'.step \notin PastTerms
    BY <1>1 DEF ResumeFollows
  <2>1. SkillsAgree /\ GuidanceAgrees
    BY <1>6 DEF StandFits, ResumeFollows, PastTerms, PastOwn, PastGuidance, PastSkills
  <2>2. SkillsAgree' /\ GuidanceAgrees'
    BY <1>1, <1>2, <2>1 DEF SkillsAgree, GuidanceAgrees
  <2>3. call.step # "own" =>
          Follows(call.contexts["own"].text, record.skill_policy, record.project_guidance)
    BY <1>6 DEF StandFits, ResumeFollows, PastTerms, PastOwn
  <2> QED
    BY <1>5, <1>6, <1>7, <2>1, <2>2, <2>3 DEF PastTerms
<1>12. ToldStands'
  BY <1>1 DEF StandFits, ToldStands
<1> QED
  BY <1>9, <1>10, <1>11, <1>12 DEF StandFits

LEMMA StandLifecycle ==
  ASSUME Types, Placed, ContextsTyped, StandFits, NEW prompt, LifecycleShown(prompt)
  PROVE  StandFits'
<1>1. /\ call'.kind = call.kind /\ call'.step = "invoke" /\ call.step = "lifecycle"
      /\ call'.overlapped = call.overlapped /\ call'.contexts = call.contexts
      /\ call'.prompt = prompt /\ UNCHANGED << disk, config, told, engines, record >>
  BY DEF LifecycleShown, Goes, CallFields, Rest
<1>2. /\ call.kind = "dispatch" => prompt.text = call.contexts["worker"].text
      /\ call.kind = "resume" => prompt.text = call.contexts["own"].text
  BY DEF ContextsTyped, ContextFields, LifecycleShown, WithProfile, Types
<1>3. Owned' /\ ToldStands'
  BY <1>1 DEF StandFits, Owned, ToldStands, Over
<1>4. DispatchCovered'
  BY <1>1, <1>2 DEF StandFits, DispatchCovered, AfterWorker, AfterCorrection, AfterReview,
       AfterLifecycle, AfterInvoke, AfterCreate, AfterAnchor, AfterReport
<1>5. ResumeFollows'
  <2>1. SkillsAgree' <=> SkillsAgree
    BY <1>1 DEF SkillsAgree
  <2>2. GuidanceAgrees' <=> GuidanceAgrees
    BY <1>1 DEF GuidanceAgrees
  <2> QED
    BY <1>1, <1>2, <2>1, <2>2
       DEF StandFits, ResumeFollows, PastTerms, PastOwn, PastGuidance, PastSkills
<1> QED
  BY <1>3, <1>4, <1>5 DEF StandFits

\* What a dispatch keeps.
LEMMA KeptFields ==
  ASSUME Types, Create \/ Anchor \/ KeepReport
  PROVE  /\ DOMAIN call' = CallFields
         /\ \A f \in CallFields \ { "step" } : call'[f] = call[f]
         /\ UNCHANGED << disk, config, told, engines, spent >>
         /\ call.kind = "dispatch"
         /\ record'.spawned = record.spawned /\ record'.since = record.since
         /\ \/ /\ call.step = "create" /\ call'.step = "anchor"
               /\ record'.request = call.request /\ record'.facts = call.facts
            \/ /\ call.step = "anchor" /\ call'.step = "report"
               /\ record'.request = record.request /\ record'.facts = record.facts
               /\ record'.skill_policy = call.contexts["worker"].skills
               /\ record'.project_guidance = call.contexts["worker"].guidance
            \/ /\ call.step = "report" /\ call'.step = "launch"
               /\ record'.request = record.request /\ record'.facts = record.facts
               /\ record'.skill_policy = record.skill_policy
               /\ record'.project_guidance = record.project_guidance
               /\ record'.report = call.report
<1>1. PICK next, kept : Keep(next, kept)
  BY DEF Create, Anchor, KeepReport
<1>2. /\ DOMAIN call' = CallFields
      /\ \A f \in CallFields \ { "step" } : call'[f] = call[f]
      /\ UNCHANGED << disk, config, told, engines, spent >>
  BY <1>1, Keeping DEF Goes
<1>3. CASE Create
  <2>1. PICK request, model, facts :
          /\ request = call.request /\ model = call.model /\ facts = call.facts
          /\ record' = [record EXCEPT !.created = TRUE, !.request = request, !.model = model,
                                      !.facts = facts]
    BY <1>3, Zenon DEF Create, Keep
  <2>2. /\ record'.spawned = record.spawned /\ record'.since = record.since
        /\ record'.request = request /\ record'.facts = facts
    BY <2>1 DEF Types, TaskFields
  <2>3. call.kind = "dispatch" /\ call.step = "create" /\ call'.step = "anchor"
    BY <1>3 DEF Create, At, Keep, Types, CallFields
  <2> QED
    BY <1>2, <2>1, <2>2, <2>3
<1>4. CASE Anchor
  <2>1. PICK skills, guidance :
          /\ skills = call.contexts["worker"].skills /\ guidance = call.contexts["worker"].guidance
          /\ record' = [record EXCEPT !.skill_policy = skills, !.project_guidance = guidance]
    BY <1>4, Zenon DEF Anchor, Keep
  <2>2. /\ record'.spawned = record.spawned /\ record'.since = record.since
        /\ record'.request = record.request /\ record'.facts = record.facts
        /\ record'.skill_policy = skills /\ record'.project_guidance = guidance
    BY <2>1 DEF Types, TaskFields
  <2>3. call.kind = "dispatch" /\ call.step = "anchor" /\ call'.step = "report"
    BY <1>4 DEF Anchor, At, Keep, Types, CallFields
  <2> QED
    BY <1>2, <2>1, <2>2, <2>3
<1>5. CASE KeepReport
  <2>1. PICK report : report = call.report /\ record' = [record EXCEPT !.report = report]
    BY <1>5, Zenon DEF KeepReport, Keep
  <2>2. /\ record'.spawned = record.spawned /\ record'.since = record.since
        /\ record'.request = record.request /\ record'.facts = record.facts
        /\ record'.skill_policy = record.skill_policy
        /\ record'.project_guidance = record.project_guidance /\ record'.report = report
    BY <2>1 DEF Types, TaskFields
  <2>3. call.kind = "dispatch" /\ call.step = "report" /\ call'.step = "launch"
    BY <1>5 DEF KeepReport, At, Keep, Types, CallFields
  <2> QED
    BY <1>2, <2>1, <2>2, <2>3
<1> QED
  BY <1>3, <1>4, <1>5

LEMMA StandKeeps ==
  ASSUME Types, Placed, StandFits, Create \/ Anchor \/ KeepReport
  PROVE  StandFits'
<1>1. /\ call'.kind = call.kind /\ call'.overlapped = call.overlapped
      /\ call'.contexts = call.contexts /\ call'.prompt = call.prompt
      /\ UNCHANGED << disk, config, told, engines >>
      /\ call.kind = "dispatch" /\ record'.spawned = record.spawned
      /\ \/ call.step = "create" /\ call'.step = "anchor"
         \/ /\ call.step = "anchor" /\ call'.step = "report"
            /\ record'.skill_policy = call.contexts["worker"].skills
            /\ record'.project_guidance = call.contexts["worker"].guidance
         \/ /\ call.step = "report" /\ call'.step = "launch"
            /\ record'.skill_policy = record.skill_policy
            /\ record'.project_guidance = record.project_guidance
  BY KeptFields DEF CallFields
<1>2. ~record.spawned
  BY <1>1 DEF StandFits, Owned, Over
<1>3. Owned' /\ ToldStands' /\ ResumeFollows'
  BY <1>1, <1>2 DEF StandFits, Owned, ToldStands, ResumeFollows, Over
<1>4. DispatchCovered'
  BY <1>1 DEF StandFits, DispatchCovered, AfterWorker, AfterCorrection, AfterReview,
       AfterLifecycle, AfterInvoke, AfterCreate, AfterAnchor, AfterReport
<1> QED
  BY <1>3, <1>4 DEF StandFits

LEMMA StandLaunch ==
  ASSUME Types, Placed, StandFits, TellsPrompt
  PROVE  StandFits'
<1>1. /\ record'.spawned = TRUE /\ call'.step = "done" /\ call.step = "launch"
      /\ call'.kind = call.kind /\ told' = told \cup { Told }
      /\ record'.skill_policy = record.skill_policy
      /\ record'.project_guidance = record.project_guidance
  BY DEF TellsPrompt, TaskFields
<1>2. Owned' /\ DispatchCovered' /\ ResumeFollows'
  BY <1>1 DEF Owned, DispatchCovered, ResumeFollows, Over, PastTerms, PastOwn, PastGuidance,
       PastSkills, AfterWorker, AfterCorrection, AfterReview, AfterLifecycle, AfterInvoke,
       AfterCreate, AfterAnchor, AfterReport
<1>3. /\ Told.kind = call.kind /\ Told.text = call.prompt.text /\ Told.overlapped = call.overlapped
  BY DEF Told
<1>4. call.kind = "dispatch" =>
        Covered(call.prompt.text, record.skill_policy, record.project_guidance)
  BY <1>1 DEF StandFits, DispatchCovered, AfterWorker, AfterCorrection, AfterReview,
       AfterLifecycle, AfterInvoke, AfterCreate, AfterAnchor, AfterReport
<1>5. call.kind = "resume" /\ ~call.overlapped =>
        Follows(call.prompt.text, record.skill_policy, record.project_guidance)
  BY <1>1 DEF StandFits, ResumeFollows, PastTerms
<1>6. ToldStands'
  BY <1>1, <1>3, <1>4, <1>5 DEF StandFits, ToldStands
<1> QED
  BY <1>2, <1>6 DEF StandFits

LEMMA StandNext ==
  ASSUME Types, Placed, EnginesFit, ContextsTyped, StandFits, [Next]_vars
  PROVE  StandFits'
<1>1. CASE BeginDispatch \/ BeginResume \/ BeginReview
  <2>1. Begins
    BY <1>1, Beginning
  <2>2. CASE record' = record /\ record.spawned
             /\ \/ call'.kind = "resume" /\ call'.step \in { "verify_skills", "refused" }
                \/ call'.kind = "review" /\ call'.step \in { "review", "refused" }
    BY <2>1, <2>2 DEF Begins, StandFits, Owned, DispatchCovered, ResumeFollows, ToldStands, Over,
         PastTerms, PastOwn, PastGuidance, PastSkills
  <2>3. CASE /\ ~record.spawned /\ record' = [NoTask EXCEPT !.since = spent.edits]
             /\ call'.kind = "dispatch" /\ call'.step \in { "facts", "refused" }
    <3>1. ~record'.spawned
      BY <2>3 DEF NoTask
    <3> QED
      BY <2>1, <2>3, <3>1 DEF Begins, StandFits, Owned, DispatchCovered, ResumeFollows, ToldStands,
         Over, AfterWorker, AfterCorrection, AfterReview, AfterLifecycle, AfterInvoke,
         AfterCreate, AfterAnchor, AfterReport
  <2> QED
    BY <1>1, <2>2, <2>3, Beginning
<1>2. CASE Facts
  <2>1. CASE ReadsFacts
    <3>1. /\ call'.kind = "dispatch" /\ call.kind = "dispatch" /\ call.step = "facts"
          /\ call'.step = "scan" /\ UNCHANGED << record, told >>
      BY <2>1 DEF ReadsFacts, Goes, CallFields, Rest
    <3> QED
      BY <3>1 DEF StandFits, Owned, DispatchCovered, ResumeFollows, ToldStands,
         Over, AfterWorker, AfterCorrection, AfterReview, AfterLifecycle, AfterInvoke,
         AfterCreate, AfterAnchor, AfterReport
  <2> QED
    BY <1>2, <2>1, ReadingFacts, StandRefused
<1>3. CASE \/ Scan \/ VerifySkills \/ VerifyGuidance
           \/ InvokeWorker \/ InvokeReviewer \/ ContextTooLarge \/ TransportTooLarge
  BY <1>3, PassingOrStopping, StandPasses, StandRefused DEF Stops
<1>4. CASE ComposeContext
  BY <1>4, Composing, StandRefused, StandComposes DEF Misfits
<1>5. CASE Lifecycle
  BY <1>5, ShowingLifecycle, StandLifecycle, StandRefused DEF LifecycleRefused
<1>6. CASE Create \/ Anchor \/ KeepReport
  BY <1>6, StandKeeps
<1>7. CASE Launch
  BY <1>7, Launching, StandLaunch
<1>8. CASE OtherCall
  <2>1. Overlaps
    BY <1>8, Overlapping
  <2>2. /\ call'.contexts = call.contexts /\ call'.step = call.step /\ call'.kind = call.kind
        /\ call'.prompt = call.prompt /\ UNCHANGED << record, told >>
        /\ call'.step \notin Over => call'.overlapped
    BY <2>1 DEF Overlaps, InProgress, CallFields, Over
  <2> QED
    BY <2>2 DEF StandFits, Owned, DispatchCovered, ResumeFollows, ToldStands, Over, PastTerms,
       PastOwn, PastGuidance, PastSkills
<1>9. CASE Approve \/ EditText \/ Restart
  <2>1. Edits
    BY <1>9, Editing
  <2>2. CASE UNCHANGED << config, engines, call >>
    <3>1. (SkillsAgree' <=> SkillsAgree) /\ (GuidanceAgrees' <=> GuidanceAgrees)
      BY <2>1, <2>2 DEF Edits, SkillsAgree, GuidanceAgrees
    <3> QED
      BY <2>1, <2>2, <3>1
         DEF Edits, StandFits, Owned, DispatchCovered, ResumeFollows, ToldStands
  <2>3. CASE call'.step \in Over
    BY <2>1, <2>3, StandEnds DEF Edits
  <2> QED
    BY <2>1, <2>2, <2>3 DEF Edits, NoCall, InProgress, Over
<1>10. CASE UNCHANGED vars
  <2>1. (SkillsAgree' <=> SkillsAgree) /\ (GuidanceAgrees' <=> GuidanceAgrees)
    BY <1>10 DEF vars, SkillsAgree, GuidanceAgrees
  <2> QED
    BY <1>10, <2>1 DEF vars, StandFits, Owned, DispatchCovered, ResumeFollows, ToldStands
<1> QED
  BY <1>1, <1>2, <1>3, <1>4, <1>5, <1>6, <1>7, <1>8, <1>9, <1>10
     DEF Next, Calls, Contexts, Terms, Launches

----------------------------------------------------------------------------
(* The horizon: what a call is told and shown, for any request and facts.  *)

SkillsOf(r, run) ==
  IF SkillEngine = None \/ run = "review" THEN {}
  ELSE SkillEngine.core \cup SkillEngine.by_run[run] \cup SkillEngine.by_task[r.escalates]

MatchedOf(r) == r.paths \cap DOMAIN GuidanceEngine.worker

GuidanceOf(r, run) ==
  IF GuidanceEngine = None THEN {}
  ELSE IF run = "review"
       THEN { GuidanceEngine.root.review } \cup { GuidanceEngine.review[p] : p \in MatchedOf(r) }
       ELSE { GuidanceEngine.root.worker } \cup { GuidanceEngine.worker[p] : p \in MatchedOf(r) }

Selects(r, run) ==
  GuidanceEngine # None =>
    /\ r.paths \cap GuidanceEngine.denied = {}
    /\ Cardinality(MatchedOf(r)) <= GuidanceEngine.limit
    /\ \A p \in MatchedOf(r) : (IF run = "review" THEN GuidanceEngine.review
                                ELSE GuidanceEngine.worker)[p] # None

Projects(r, facts, items) ==
  GuidanceEngine # None =>
    /\ GuidanceReadable
    /\ GuidanceEngine.approved
    /\ facts # None
    /\ GuidanceEngine.toplevel = Canonical[r.root]
    /\ GuidanceEngine.origin = facts.origin
    /\ items \subseteq DOMAIN GuidanceEngine.pins
    /\ \A i \in items : ScopeVerified(i) /\ ScopeClean(i)
    /\ Bytes(ScopeTexts(items)) <= GuidanceCap

Composable(r, facts, run) ==
  /\ PolicyReads(run)
  /\ run # "review" => SkillsProject(SkillsOf(r, run))
  /\ Selects(r, run)
  /\ Projects(r, facts, GuidanceOf(r, run))

TextOf(skills, scopes) ==
  [i \in skills \cup scopes |->
     IF i \in skills THEN SkillTexts(skills)[i] ELSE ScopeTexts(scopes)[i]]

ContextFor(r, run) ==
  [manifest |-> GuidanceEngine,
   skills |-> SkillRecord(SkillsOf(r, run)), guidance |-> GuidanceRecord(GuidanceOf(r, run)),
   text |-> TextOf(SkillsOf(r, run), GuidanceOf(r, run)),
   size |-> Size[disk.texts[PolicyFile(run)]]
              + Bytes(TextOf(SkillsOf(r, run), GuidanceOf(r, run)))]

ProfileOf(r, phase) == SelectedArtifacts(disk.lifecycle, phase, r.escalates)

ProfileTexts(items) == [i \in items |-> disk.lifecycle.entries[i].text]

RunIn(phase) ==
  IF phase = "dispatch" THEN "dispatch" ELSE IF phase = "review" THEN "review" ELSE "resume"

Grown(r, size, phase) ==
  IF ProfileOf(r, phase) = {} THEN size ELSE size + Bytes(ProfileTexts(ProfileOf(r, phase)))

ProfilesProject(r) ==
  \A p \in ReachablePhases(r) :
    \A i \in ProfileOf(r, p) : ArtifactVerified(i) /\ ArtifactInert(i)

PhasesFit(r) ==
  \A p \in ReachablePhases(r) : Grown(r, ContextFor(r, RunIn(p)).size, p) <= Ceiling

ReportFor(r) ==
  [version |-> disk.lifecycle.version,
   rows |-> [p \in ReachablePhases(r) |->
               << ContextFor(r, RunIn(p)).size, Bytes(ProfileTexts(ProfileOf(r, p))),
                  ProfileOf(r, p) >>]]

Admitted(r) == Fits(r, Clamp(r.timeout)) /\ RootAllowed(r)

\* The guidance engine says what the manifest says.
GuidanceSettled ==
  config.guidance => engines.guidance = disk.guidance /\ engines.guidance # None

LEMMA OfTheCall ==
  ASSUME NEW run
  PROVE  /\ Fitting(run) <=> Composable(call.request, call.facts, run)
         /\ Composed(run) = ContextFor(call.request, run)
         /\ SkillsFor(run) = SkillsOf(call.request, run)
         /\ GuidanceFor(run) = GuidanceOf(call.request, run)
<1>1. SkillsFor(run) = SkillsOf(call.request, run)
  BY DEF SkillsFor, SkillsOf
<1>2. GuidanceFor(run) = GuidanceOf(call.request, run)
  BY DEF GuidanceFor, GuidanceOf, Matched, MatchedOf
<1>3. GuidanceSelects(run) <=> Selects(call.request, run)
  BY DEF GuidanceSelects, Selects, WithinFence, ScopesApproved, Matched, MatchedOf
<1>4. GuidanceProjects(GuidanceOf(call.request, run))
        <=> Projects(call.request, call.facts, GuidanceOf(call.request, run))
  BY DEF GuidanceProjects, Projects, SameRepository
<1>5. Composed(run) = ContextFor(call.request, run)
  <2>1. PICK skills, scopes : skills = SkillsFor(run) /\ scopes = GuidanceFor(run)
    OBVIOUS
  <2>2. PICK text : text = TextOf(skills, scopes)
    OBVIOUS
  <2>3. Composed(run)
          = [manifest |-> GuidanceEngine,
             skills |-> SkillRecord(skills), guidance |-> GuidanceRecord(scopes),
             text |-> text, size |-> Size[disk.texts[PolicyFile(run)]] + Bytes(text)]
    BY <2>1, <2>2, Zenon DEF Composed, TextOf
  <2>4. ContextFor(call.request, run)
          = [manifest |-> GuidanceEngine,
             skills |-> SkillRecord(skills), guidance |-> GuidanceRecord(scopes),
             text |-> text, size |-> Size[disk.texts[PolicyFile(run)]] + Bytes(text)]
    BY <1>1, <1>2, <2>1, <2>2, Zenon DEF ContextFor
  <2> QED
    BY <2>3, <2>4, Zenon
<1> QED
  BY <1>1, <1>2, <1>3, <1>4, <1>5 DEF Fitting, SkillsGiven, Composable

\* The contexts of a call are those of its request, for every phase.
ContextsOfCall ==
  /\ call.contexts["worker"] = ContextFor(call.request, "dispatch")
  /\ call.contexts["correction"] = ContextFor(call.request, "resume")
  /\ call.contexts["review"] = ContextFor(call.request, "review")

LEMMA LifecycleOfTheCall ==
  ASSUME ContextsOfCall
  PROVE  /\ ProfileProjects <=> ProfilesProject(call.request)
         /\ Feasible <=> PhasesFit(call.request)
         /\ Report = ReportFor(call.request)
         /\ \A size, phase : Extended(size, phase) = Grown(call.request, size, phase)
<1>1. \A p \in Phase : ContextOf(p) = ContextFor(call.request, RunIn(p))
  BY DEF ContextsOfCall, ContextOf, RunIn, Phase
<1>2. \A p : Profile(p) = ProfileOf(call.request, p)
  BY DEF Profile, ProfileOf
<1>3. \A p : ProfileSize(p) = Bytes(ProfileTexts(ProfileOf(call.request, p)))
  <2>1. ASSUME NEW p PROVE ProfileSize(p) = Bytes(ProfileTexts(Profile(p)))
    BY Zenon DEF ProfileSize, ProfileTexts
  <2> QED
    BY <1>2, <2>1
<1>4. ReachablePhases(call.request) \subseteq Phase
  BY DEF ReachablePhases, Phase
<1>5. \A size, phase : Extended(size, phase) = Grown(call.request, size, phase)
  BY <1>2, <1>3 DEF Extended, Grown
<1>6. \A p \in Phase : Carried(p) = Grown(call.request, ContextFor(call.request, RunIn(p)).size, p)
  BY <1>1, <1>5 DEF Carried
<1>7. ProfileProjects <=> ProfilesProject(call.request)
  BY <1>2 DEF ProfileProjects, ProfilesProject
<1>8. Feasible <=> PhasesFit(call.request)
  BY <1>4, <1>6 DEF Feasible, PhasesFit
<1>9. Report = ReportFor(call.request)
  <2>1. PICK phases : phases = ReachablePhases(call.request)
    OBVIOUS
  <2>2. [p \in phases |-> << ContextOf(p).size, ProfileSize(p), Profile(p) >>]
          = [p \in phases |->
               << ContextFor(call.request, RunIn(p)).size,
                  Bytes(ProfileTexts(ProfileOf(call.request, p))), ProfileOf(call.request, p) >>]
    BY <1>1, <1>2, <1>3, <1>4, <2>1
  <2> QED
    BY <2>1, <2>2, Zenon DEF Report, ReportFor
<1> QED
  BY <1>5, <1>7, <1>8, <1>9

\* A reviewer is told no methodology.
LEMMA ReviewGrowsNothing ==
  ASSUME Types, NEW r \in Requests, NEW size
  PROVE  Grown(r, size, "review") = size
<1>1. ProfileLoads(disk.lifecycle) /\ r.escalates \in Kinds
  BY TermsAssumption DEF Types, RequestLoads
<1>2. ProfileOf(r, "review") = {}
  BY <1>1 DEF ProfileLoads, LatticeHolds, ProfileOf
<1> QED
  BY <1>2 DEF Grown

----------------------------------------------------------------------------
(* What stays as it is while nobody edits.                                 *)

Steady ==
  /\ UNCHANGED << disk, config >>
  /\ SkillEngine' = SkillEngine /\ GuidanceEngine' = GuidanceEngine
  /\ SkillsReadable => SkillsReadable'
  /\ GuidanceEngine # None /\ GuidanceReadable => GuidanceReadable'
  /\ GuidanceSettled => GuidanceSettled'

LEMMA AsksSteady ==
  ASSUME Types, EnginesFit, Asks, UNCHANGED << disk, config >>
  PROVE  Steady
BY Asking DEF Steady, GuidanceSettled

LEMMA UnaskedSteady ==
  ASSUME Types, EnginesFit, UNCHANGED << disk, config, engines >>
  PROVE  Steady
BY AsksSteady DEF Asks

LEMMA ElsewhereSteady ==
  ASSUME Types, EnginesFit, Overlaps, GuidanceSettled
  PROVE  Steady
<1>1. config.guidance => engines'.guidance = disk.guidance /\ engines'.guidance # None
  BY AskingElsewhere, TermsAssumption DEF GuidanceSettled, Types
<1>2. UNCHANGED << disk, config >>
  BY DEF Overlaps
<1>3. GuidanceEngine # None => GuidanceReadable'
  BY <1>1, <1>2 DEF GuidanceEngine, GuidanceReadable
<1>4. GuidanceEngine' = GuidanceEngine
  BY AskingElsewhere DEF GuidanceSettled
<1> QED
  BY <1>1, <1>2, <1>3, <1>4, AskingElsewhere DEF Steady, GuidanceSettled

LEMMA SteadySelection ==
  ASSUME Steady, NEW r, NEW run
  PROVE  SkillsOf(r, run)' = SkillsOf(r, run) /\ GuidanceOf(r, run)' = GuidanceOf(r, run)
BY DEF Steady, SkillsOf, GuidanceOf, MatchedOf

LEMMA SteadyTexts ==
  ASSUME Steady, NEW skills, NEW scopes
  PROVE  /\ SkillTexts(skills)' = SkillTexts(skills)
         /\ ScopeTexts(scopes)' = ScopeTexts(scopes)
         /\ TextOf(skills, scopes)' = TextOf(skills, scopes)
         /\ SkillRecord(skills)' = SkillRecord(skills)
         /\ GuidanceRecord(scopes)' = GuidanceRecord(scopes)
<1>1. /\ SkillTexts(skills)' = SkillTexts(skills)
      /\ ScopeTexts(scopes)' = ScopeTexts(scopes)
  BY DEF Steady, SkillTexts, ScopeTexts
<1> QED
  BY <1>1 DEF Steady, TextOf, SkillRecord, GuidanceRecord

LEMMA SteadyContext ==
  ASSUME Steady, NEW r, NEW run
  PROVE  ContextFor(r, run)' = ContextFor(r, run)
<1>1. PICK skills, scopes : skills = SkillsOf(r, run) /\ scopes = GuidanceOf(r, run)
  OBVIOUS
<1>2. SkillsOf(r, run)' = skills /\ GuidanceOf(r, run)' = scopes
  BY <1>1, SteadySelection
<1>3. PICK text : text = TextOf(skills, scopes)
  OBVIOUS
<1> QED
  BY <1>1, <1>2, <1>3, SteadyTexts DEF Steady, ContextFor, PolicyFile

LEMMA SteadyProjects ==
  ASSUME Steady, NEW items, SkillsProject(items)
  PROVE  SkillsProject(items)'
<1>1. SkillTexts(items)' = SkillTexts(items)
  BY SteadyTexts
<1> QED
  BY <1>1 DEF Steady, SkillsProject, SkillVerified, SkillInert, Projectable, SkillBudget

LEMMA SteadyComposable ==
  ASSUME Steady, NEW r, NEW facts, NEW run, Composable(r, facts, run)
  PROVE  Composable(r, facts, run)'
<1>1. PICK skills, scopes : skills = SkillsOf(r, run) /\ scopes = GuidanceOf(r, run)
  OBVIOUS
<1>2. SkillsOf(r, run)' = skills /\ GuidanceOf(r, run)' = scopes
  BY <1>1, SteadySelection
<1>3. PolicyReads(run)'
  BY DEF Composable, Steady, PolicyReads, PolicyFile
<1>4. run # "review" => SkillsProject(skills)'
  BY <1>1, SteadyProjects DEF Composable
<1>5. Selects(r, run)'
  BY DEF Composable, Steady, Selects, MatchedOf
<1>6. Projects(r, facts, scopes)'
  <2>1. ScopeTexts(scopes)' = ScopeTexts(scopes)
    BY SteadyTexts
  <2> QED
    BY <1>1, <2>1 DEF Composable, Steady, Projects, ScopeVerified, ScopeClean
<1> QED
  BY <1>2, <1>3, <1>4, <1>5, <1>6 DEF Composable

LEMMA SteadyTerms ==
  ASSUME Steady, NEW r
  PROVE  /\ Admitted(r) => Admitted(r)'
         /\ ProfilesProject(r) => ProfilesProject(r)'
         /\ PhasesFit(r) => PhasesFit(r)'
         /\ ReportFor(r)' = ReportFor(r)
         /\ \A file : Unusable(file)' <=> Unusable(file)
<1>1. \A run : ContextFor(r, run)' = ContextFor(r, run)
  BY SteadyContext
<1>2. \A p : ProfileOf(r, p)' = ProfileOf(r, p)
  BY DEF Steady, ProfileOf
<1>3. \A items : ProfileTexts(items)' = ProfileTexts(items)
  BY DEF Steady, ProfileTexts
<1>4. Admitted(r) => Admitted(r)'
  BY DEF Steady, Admitted, Fits, Clamp, RootAllowed
<1>5. ProfilesProject(r) => ProfilesProject(r)'
  BY <1>2 DEF Steady, ProfilesProject, ArtifactVerified, ArtifactInert
<1>6. \A size, p : Grown(r, size, p)' = Grown(r, size, p)
  BY <1>2, <1>3 DEF Grown
<1>7. PhasesFit(r) => PhasesFit(r)'
  BY <1>1, <1>6 DEF PhasesFit
<1>8. ReportFor(r)' = ReportFor(r)
  BY <1>1, <1>2, <1>3 DEF ReportFor, Steady
<1>9. \A file : Unusable(file)' <=> Unusable(file)
  BY DEF Steady, Unusable
<1> QED
  BY <1>4, <1>5, <1>7, <1>8, <1>9

----------------------------------------------------------------------------
(* The horizon.                                                            *)

Has(slot) ==
  /\ Composable(call.request, call.facts, RunOf(slot))
  /\ call.contexts[slot] = ContextFor(call.request, RunOf(slot))

\* What a dispatch has shown, from step to step.
DispatchSteady ==
  (call.kind = "dispatch" /\ call.step \notin Over) =>
    /\ call.request \in Requests /\ Admitted(call.request)
    /\ call.step \in AfterFacts => GuidanceSettled
    /\ call.step \in AfterWorker => Has("worker")
    /\ call.step \in AfterCorrection => Has("correction")
    /\ call.step \in AfterReview => Has("review")
    /\ call.step \in AfterLifecycle =>
         /\ ProfilesProject(call.request) /\ PhasesFit(call.request)
         /\ call.report = ReportFor(call.request)
    /\ call.step \in AfterInvoke => ~Unusable("worker_schema")
    /\ call.step \in AfterCreate =>
         record.request = call.request /\ record.facts = call.facts
    /\ call.step \in AfterReport => record.report = call.report

\* What a task that ran can be seen through with.
Promise(r, facts) ==
  /\ r \in Requests /\ Admitted(r)
  /\ GuidanceSettled
  /\ \A run \in { "dispatch", "resume", "review" } : Composable(r, facts, run)
  /\ ProfilesProject(r) /\ PhasesFit(r)
  /\ ~Unusable("worker_schema")

RecordSteady ==
  record.spawned =>
    /\ Promise(record.request, record.facts)
    /\ record.report = ReportFor(record.request)
    /\ record.skill_policy = ContextFor(record.request, "dispatch").skills
    /\ record.project_guidance = ContextFor(record.request, "dispatch").guidance

PastReview == { "lifecycle" } \cup PastTerms
PastCorrection == { "review" } \cup PastReview
PastWorker == { "correction" } \cup PastCorrection

\* What a resume or a review brings and is told.
LaterSteady ==
  (call.kind \in { "resume", "review" } /\ call.step \notin Over) =>
    /\ call.request = record.request /\ call.facts = record.facts
    /\ call.kind = "resume" =>
         /\ call.request.max_resume > 0
         /\ call.step \in PastOwn => call.contexts["own"] = ContextFor(call.request, "resume")
         /\ call.step \in PastWorker => call.contexts["worker"] = ContextFor(call.request, "dispatch")
         /\ call.step \in PastCorrection =>
              call.contexts["correction"] = ContextFor(call.request, "resume")
         /\ call.step \in PastReview => call.contexts["review"] = ContextFor(call.request, "review")
    /\ call.step \in PastTerms => call.prompt.size <= Ceiling

RefusedSteady ==
  (call.step = "refused" /\ call.kind \in { "resume", "review" }) =>
    \/ call.why \in { "limit", "raised", "transport" }
    \/ call.kind = "review" /\ call.why = "schema"

Unedited == spent.edits = record.since

HorizonFits ==
  Unedited => DispatchSteady /\ RecordSteady /\ LaterSteady /\ RefusedSteady

LEMMA HorizonShown == ASSUME HorizonFits PROVE HorizonHolds
BY DEF HorizonFits, RefusedSteady, HorizonHolds, Unedited

\* The promise is kept while nobody edits.
LEMMA PromiseSteady ==
  ASSUME Steady, NEW r, NEW facts, Promise(r, facts)
  PROVE  Promise(r, facts)'
<1>1. \A run \in { "dispatch", "resume", "review" } : Composable(r, facts, run)'
  BY SteadyComposable DEF Promise
<1> QED
  BY <1>1, SteadyTerms DEF Promise, Steady

LEMMA RecordKept ==
  ASSUME Steady, RecordSteady, UNCHANGED record
  PROVE  RecordSteady'
<1>1. PICK r, facts : r = record.request /\ facts = record.facts
  OBVIOUS
<1>2. ReportFor(r)' = ReportFor(r) /\ ContextFor(r, "dispatch")' = ContextFor(r, "dispatch")
  BY SteadyTerms, SteadyContext
<1>3. Promise(r, facts) => Promise(r, facts)'
  BY PromiseSteady
<1>4. record.spawned =>
        /\ Promise(r, facts)
        /\ record.report = ReportFor(r)
        /\ record.skill_policy = ContextFor(r, "dispatch").skills
        /\ record.project_guidance = ContextFor(r, "dispatch").guidance
  BY <1>1 DEF RecordSteady
<1>5. record.spawned =>
        /\ Promise(r, facts)'
        /\ record.report = ReportFor(r)'
        /\ record.skill_policy = ContextFor(r, "dispatch")'.skills
        /\ record.project_guidance = ContextFor(r, "dispatch")'.guidance
  BY <1>2, <1>3, <1>4
<1> QED
  BY <1>1, <1>5 DEF RecordSteady

LEMMA HasKept ==
  ASSUME Steady, NEW slot, Has(slot), call'.request = call.request, call'.facts = call.facts,
         call'.contexts[slot] = call.contexts[slot]
  PROVE  Has(slot)'
<1>1. PICK r, facts, run : r = call.request /\ facts = call.facts /\ run = RunOf(slot)
  OBVIOUS
<1>2. Composable(r, facts, run)' /\ ContextFor(r, run)' = ContextFor(r, run)
  BY <1>1, SteadyComposable, SteadyContext DEF Has
<1> QED
  BY <1>1, <1>2 DEF Has, RunOf

\* A task that was dispatched and that nobody edited around has all it needs.
LEMMA LaterFits ==
  ASSUME RecordSteady, LaterSteady, Owned, call.kind # "dispatch", call.step \notin Over,
         call.kind \in { "resume", "review" }
  PROVE  /\ Promise(call.request, call.facts)
         /\ call.request = record.request /\ call.facts = record.facts
         /\ \A run \in { "dispatch", "resume", "review" } : Fitting(run)
         /\ SkillsStand /\ GuidanceStands
<1>1. /\ record.spawned
      /\ call.request = record.request /\ call.facts = record.facts
  BY DEF Owned, LaterSteady
<1>2. PICK r, facts : r = call.request /\ facts = call.facts
  OBVIOUS
<1>3. Promise(r, facts)
  BY <1>1, <1>2 DEF RecordSteady
<1>4. \A run \in { "dispatch", "resume", "review" } : Fitting(run)
  BY <1>2, <1>3, OfTheCall DEF Promise
<1>5. PICK skills, scopes : skills = SkillsOf(r, "dispatch") /\ scopes = GuidanceOf(r, "dispatch")
  OBVIOUS
<1>6. /\ record.skill_policy = SkillRecord(skills)
      /\ record.project_guidance = GuidanceRecord(scopes)
  BY <1>1, <1>2, <1>5 DEF RecordSteady, ContextFor
<1>7. /\ SkillsProject(skills) /\ GuidanceProjects(scopes)
      /\ skills = SkillsFor("dispatch") /\ scopes = GuidanceFor("dispatch")
  <2>1. SkillsGiven("dispatch") /\ GuidanceProjects(GuidanceFor("dispatch"))
    BY <1>4 DEF Fitting
  <2>2. skills = SkillsFor("dispatch") /\ scopes = GuidanceFor("dispatch")
    BY <1>2, <1>5, OfTheCall
  <2> QED
    BY <2>1, <2>2 DEF SkillsGiven
<1>8. SkillsStand
  <2>1. CASE skills = {}
    BY <1>6, <2>1 DEF SkillRecord, SkillsStand
  <2>2. CASE skills # {}
    <3>1. SkillRecord(skills).ids = skills
      BY <2>2 DEF SkillRecord
    <3>2. SkillEngine # None
      BY <1>7, <2>2 DEF SkillsFor
    <3> QED
      BY <1>6, <1>7, <3>1, <3>2 DEF SkillsStand
  <2> QED
    BY <2>1, <2>2
<1>9. GuidanceStands
  <2>1. CASE GuidanceEngine = None
    BY <1>6, <2>1 DEF GuidanceRecord, GuidanceStands
  <2>2. CASE GuidanceEngine # None
    <3>1. GuidanceRecord(scopes).ids = scopes
      BY <2>2 DEF GuidanceRecord
    <3> QED
      BY <1>6, <1>7, <2>2, <3>1 DEF GuidanceStands
  <2> QED
    BY <2>1, <2>2
<1> QED
  BY <1>1, <1>2, <1>3, <1>4, <1>8, <1>9

\* Of a refusal, only its reason is left.
LEMMA HorizonRefused ==
  ASSUME HorizonFits, Steady, NEW why, Refused(why),
         (Unedited /\ call.kind \in { "resume", "review" }) =>
           \/ why \in { "limit", "raised", "transport" }
           \/ call.kind = "review" /\ why = "schema"
  PROVE  HorizonFits'
<1>1. Unedited' <=> Unedited
  BY DEF Unedited, Refused, Rest
<1>2. Unedited => RecordSteady'
  BY RecordKept DEF HorizonFits, Refused, Rest
<1> QED
  BY <1>1, <1>2 DEF HorizonFits, Refused, DispatchSteady, LaterSteady, RefusedSteady, Over

LEMMA HorizonBegins ==
  ASSUME Types, EnginesFit, HorizonFits, BeginDispatch \/ BeginResume \/ BeginReview
  PROVE  HorizonFits'
<1>1. Begins
  BY Beginning
<1>2. Steady
  BY <1>1, UnaskedSteady DEF Begins
<1>3. spent'.edits = spent.edits
  BY <1>1 DEF Begins, Types
<1>4. CASE BeginDispatch
  <2>1. /\ call'.kind = "dispatch" /\ call'.step \in { "facts", "refused" }
        /\ call'.request \in Requests
        /\ call'.step = "facts" => DispatchAdmitted(call'.request)
    BY <1>4, BeginningDispatch
  <2>2. ~record'.spawned
    BY <1>4, BeginningDispatch DEF NoTask
  <2>3. PICK r : r = call'.request
    OBVIOUS
  <2>4. call'.step = "facts" => Admitted(r)'
    BY <1>2, <2>1, <2>3, SteadyTerms DEF DispatchAdmitted, Admitted
  <2>5. DispatchSteady'
    <3>1. Admitted(r)' => Admitted(call.request)'
      BY <2>3 DEF Admitted, Fits, Clamp, RootAllowed
    <3> QED
      BY <2>1, <2>3, <2>4, <3>1
         DEF DispatchSteady, Over, AfterFacts, AfterScan, AfterWorker, AfterCorrection, AfterReview,
             AfterLifecycle, AfterInvoke, AfterCreate, AfterAnchor, AfterReport
  <2>6. RecordSteady' /\ LaterSteady' /\ RefusedSteady'
    BY <2>1, <2>2 DEF RecordSteady, LaterSteady, RefusedSteady
  <2> QED
    BY <2>5, <2>6 DEF HorizonFits
<1>5. CASE BeginResume \/ BeginReview
  <2>1. /\ record' = record /\ record.spawned
        /\ call'.request = record.request /\ call'.facts = record.facts
        /\ call'.kind \in { "resume", "review" }
        /\ call'.kind = "resume" =>
             /\ call'.step \in { "verify_skills", "refused" }
             /\ call'.step = "refused" => ResumeWhy(call'.why)
             /\ call'.step = "verify_skills" => record.resumes < record.request.max_resume
        /\ call'.kind = "review" =>
             /\ call'.step \in { "review", "refused" }
             /\ call'.step = "refused" => ReviewWhy(call'.why)
    BY <1>5, BeginningResume, BeginningReview
  <2>2. Unedited' <=> Unedited
    BY <1>3, <2>1 DEF Unedited
  <2> SUFFICES ASSUME Unedited PROVE HorizonFits'
    BY <2>2 DEF HorizonFits
  <2>3. RecordSteady /\ RecordSteady'
    BY <1>2, <2>1, RecordKept DEF HorizonFits
  <2>4. record.request \in Requests /\ Admitted(record.request)
    BY <2>1, <2>3 DEF RecordSteady, Promise
  <2>5. call'.step = "verify_skills" => record.request.max_resume > 0
    <3>1. record.request.max_resume \in Nat /\ record.resumes \in Nat
      BY <2>4, TermsAssumption DEF RequestLoads, Types
    <3> QED
      BY <2>1, <3>1
  <2>6. RefusedSteady'
    BY <2>1, <2>4 DEF RefusedSteady, ResumeWhy, ReviewWhy, Admitted
  <2>7. DispatchSteady' /\ LaterSteady'
    BY <2>1, <2>5 DEF DispatchSteady, LaterSteady, Over, PastTerms, PastOwn, PastReview,
         PastCorrection, PastWorker
  <2> QED
    BY <2>3, <2>6, <2>7 DEF HorizonFits
<1> QED
  BY <1>4, <1>5

LEMMA HorizonFacts ==
  ASSUME Types, EnginesFit, Owned, HorizonFits, ReadsFacts
  PROVE  HorizonFits'
<1>1. /\ call.kind = "dispatch" /\ call.step = "facts"
      /\ call'.kind = "dispatch" /\ call'.step = "scan" /\ call'.request = call.request
      /\ engines'.guidance = Read /\ UNCHANGED << disk, config, record, spent >>
  BY DEF ReadsFacts, Goes, CallFields, Rest
<1>2. Unedited' <=> Unedited
  BY <1>1 DEF Unedited
<1>3. ~record'.spawned
  BY <1>1 DEF Owned, Over
<1>4. GuidanceSettled'
  BY <1>1, TermsAssumption DEF GuidanceSettled, Read, Types
<1>5. Admitted(call.request) => Admitted(call.request)'
  BY <1>1 DEF Admitted, Fits, Clamp, RootAllowed
<1>6. Unedited => DispatchSteady'
  BY <1>1, <1>4, <1>5
     DEF HorizonFits, DispatchSteady, Over, AfterFacts, AfterScan, AfterWorker, AfterCorrection,
         AfterReview, AfterLifecycle, AfterInvoke, AfterCreate, AfterAnchor, AfterReport
<1> QED
  BY <1>1, <1>2, <1>3, <1>6 DEF HorizonFits, RecordSteady, LaterSteady, RefusedSteady

\* A call that goes on with its request, its facts and its contexts.
LEMMA ContextsKept ==
  ASSUME Steady, call'.request = call.request, call'.facts = call.facts,
         NEW slot, call'.contexts[slot] = call.contexts[slot]
  PROVE  /\ Has(slot) => Has(slot)'
         /\ \A run : (call.contexts[slot] = ContextFor(call.request, run))
                       => (call.contexts[slot] = ContextFor(call.request, run))'
<1>1. PICK r : r = call.request
  OBVIOUS
<1>2. \A run : ContextFor(r, run)' = ContextFor(r, run)
  BY SteadyContext
<1> QED
  BY <1>1, <1>2, HasKept

LEMMA HorizonPasses ==
  ASSUME Types, Placed, EnginesFit, Owned, HorizonFits, NEW next, Passes(next)
  PROVE  HorizonFits'
<1>1. /\ call'.kind = call.kind /\ call'.step = next /\ call'.request = call.request
      /\ call'.contexts = call.contexts /\ call'.prompt = call.prompt
      /\ call'.facts = call.facts /\ call'.report = call.report
      /\ UNCHANGED << disk, config, record, spent, told >> /\ Asks
  BY DEF Passes, Goes, CallFields, Rest
<1>2. Steady
  BY <1>1, AsksSteady
<1>3. Unedited' <=> Unedited
  BY <1>1 DEF Unedited
<1> SUFFICES ASSUME Unedited PROVE HorizonFits'
  BY <1>3 DEF HorizonFits
<1>4. \/ call.kind = "dispatch" /\ call.step = "scan" /\ next = "worker"
      \/ call.kind = "resume" /\ call.step = "verify_skills" /\ next = "verify_guidance"
      \/ call.kind = "resume" /\ call.step = "verify_guidance" /\ next = "own"
      \/ call.kind = "dispatch" /\ call.step = "invoke" /\ next = "create"
         /\ ~Unusable("worker_schema")
      \/ call.kind = "resume" /\ call.step = "invoke" /\ next = "launch"
      \/ call.kind = "review" /\ call.step = "invoke" /\ next = "launch"
  BY DEF Passes
<1>5. RecordSteady'
  BY <1>1, <1>2, RecordKept DEF HorizonFits
<1>6. RefusedSteady'
  BY <1>1, <1>4 DEF RefusedSteady
<1>7. PICK r : r = call.request
  OBVIOUS
<1>8. /\ Admitted(call.request) => Admitted(call.request)'
      /\ ProfilesProject(call.request) => ProfilesProject(call.request)'
      /\ PhasesFit(call.request) => PhasesFit(call.request)'
      /\ call.report = ReportFor(call.request) => (call.report = ReportFor(call.request))'
      /\ Unusable("worker_schema")' <=> Unusable("worker_schema")
  <2>1. /\ Admitted(r) => Admitted(r)'
        /\ ProfilesProject(r) => ProfilesProject(r)'
        /\ PhasesFit(r) => PhasesFit(r)'
        /\ ReportFor(r)' = ReportFor(r)
        /\ Unusable("worker_schema")' <=> Unusable("worker_schema")
    BY <1>2, SteadyTerms
  <2> QED
    BY <1>1, <1>7, <2>1
<1>9. /\ Has("worker") => Has("worker")'
      /\ Has("correction") => Has("correction")'
      /\ Has("review") => Has("review")'
  BY <1>1, <1>2, ContextsKept
<1>10. DispatchSteady'
  <2> SUFFICES ASSUME call.kind = "dispatch" PROVE DispatchSteady'
    BY <1>1 DEF DispatchSteady
  <2>1. GuidanceSettled'
    BY <1>2, <1>4 DEF HorizonFits, DispatchSteady, Steady, Over, AfterFacts, AfterScan, AfterWorker,
         AfterCorrection, AfterReview, AfterLifecycle, AfterInvoke
  <2> QED
    BY <1>1, <1>4, <1>8, <1>9, <2>1
       DEF HorizonFits, DispatchSteady, Over, AfterFacts, AfterScan, AfterWorker, AfterCorrection,
           AfterReview, AfterLifecycle, AfterInvoke, AfterCreate, AfterAnchor, AfterReport
<1>11. LaterSteady'
  <2>1. \A slot \in { "own", "worker", "correction", "review" } : \A run :
          (call.contexts[slot] = ContextFor(call.request, run))
            => (call.contexts[slot] = ContextFor(call.request, run))'
    BY <1>1, <1>2, ContextsKept
  <2> QED
    BY <1>1, <1>4, <2>1
       DEF HorizonFits, LaterSteady, Over, PastTerms, PastOwn, PastReview, PastCorrection, PastWorker
<1> QED
  BY <1>5, <1>6, <1>10, <1>11 DEF HorizonFits

\* Nothing a resume or a review of an unedited task asks is missing.
LEMMA HorizonStops ==
  ASSUME Types, Placed, EnginesFit, Owned, HorizonFits, NEW why, Stops(why)
  PROVE  HorizonFits'
<1>1. Refused(why) /\ Asks /\ UNCHANGED << disk, config >>
  BY DEF Stops, Refused, Rest
<1>2. Steady
  BY <1>1, AsksSteady
<1>3. ASSUME Unedited, call.kind \in { "resume", "review" }
      PROVE  \/ why \in { "limit", "raised", "transport" }
             \/ call.kind = "review" /\ why = "schema"
  <2>1. /\ Stops(why) => call.step \in { "scan", "verify_skills", "verify_guidance", "invoke", "launch" }
        /\ call.kind # "dispatch"
    BY <1>3 DEF Stops, Scan, At
  <2>2. /\ SkillsStand /\ GuidanceStands /\ Promise(call.request, call.facts)
    BY <1>3, <2>1, LaterFits DEF HorizonFits, Over
  <2>3. call.step \in PastTerms => PromptFits
    BY <1>3 DEF HorizonFits, LaterSteady, PastTerms, PromptFits, Over
  <2> QED
    BY <1>3, <2>2, <2>3 DEF Stops, Promise, PastTerms
<1> QED
  BY <1>1, <1>2, <1>3, HorizonRefused

LEMMA HorizonMisfits ==
  ASSUME Types, Placed, EnginesFit, Owned, HorizonFits, Asks, NEW why, Misfits(why)
  PROVE  HorizonFits'
<1>1. Refused(why) /\ UNCHANGED << disk, config >>
  BY DEF Misfits, Refused, Rest
<1>2. Steady
  BY <1>1, AsksSteady
<1>3. ~(Unedited /\ call.kind \in { "resume", "review" })
  <2> SUFFICES ASSUME Unedited, call.kind \in { "resume", "review" } PROVE FALSE
    OBVIOUS
  <2>1. call.step \in { "own", "worker", "correction", "review" } /\ ~Fitting(RunOf(call.step))
    BY DEF Misfits, Types
  <2>2. RunOf(call.step) \in { "dispatch", "resume", "review" }
    BY DEF RunOf
  <2>3. Fitting(RunOf(call.step))
    BY <2>1, <2>2, LaterFits DEF HorizonFits, Over
  <2> QED
    BY <2>1, <2>3
<1> QED
  BY <1>1, <1>2, <1>3, HorizonRefused

LEMMA HorizonComposes ==
  ASSUME Types, Placed, EnginesFit, Owned, HorizonFits, Asks, NEW context, Composes(context)
  PROVE  HorizonFits'
<1>1. /\ call'.kind = call.kind /\ call'.step = After(call.step)
      /\ call'.request = call.request /\ call'.facts = call.facts
      /\ call'.contexts = [call.contexts EXCEPT ![call.step] = context]
      /\ call.step \in { "own", "worker", "correction", "review" }
      /\ call'.prompt = IF call.kind = "review" THEN context ELSE call.prompt
      /\ UNCHANGED << disk, config, record, spent, told >>
  BY DEF Composes, Goes, CallFields, Rest, Types
<1>2. Steady
  BY <1>1, AsksSteady
<1>3. Unedited' <=> Unedited
  BY <1>1 DEF Unedited
<1> SUFFICES ASSUME Unedited PROVE HorizonFits'
  BY <1>3 DEF HorizonFits
<1>4. \/ /\ call.kind = "review" /\ call.step = "review" /\ call'.step = "invoke"
      \/ /\ call.kind # "review"
         /\ \/ call.step = "own" /\ call'.step = "worker"
            \/ call.step = "worker" /\ call'.step = "correction"
            \/ call.step = "correction" /\ call'.step = "review"
            \/ call.step = "review" /\ call'.step = "lifecycle"
  BY <1>1 DEF Placed, After
<1>5. /\ context = ContextFor(call.request, RunOf(call.step))
      /\ Composable(call.request, call.facts, RunOf(call.step))
  BY OfTheCall DEF Composes, Fitting
<1>6. RecordSteady'
  BY <1>1, <1>2, RecordKept DEF HorizonFits
<1>7. RefusedSteady'
  BY <1>1, <1>4 DEF RefusedSteady
<1>8. PICK r, facts, slot : r = call.request /\ facts = call.facts /\ slot = call.step
  OBVIOUS
<1>9. /\ slot \in { "own", "worker", "correction", "review" }
      /\ call'.contexts[slot] = context
      /\ \A s \in { "own", "worker", "correction", "review" } \ { slot } :
           call'.contexts[s] = call.contexts[s]
  BY <1>1, <1>8 DEF Types
<1>10. ContextFor(r, RunOf(slot))' = ContextFor(r, RunOf(slot))
  <2>1. PICK run : run = RunOf(slot)
    OBVIOUS
  <2>2. ContextFor(r, run)' = ContextFor(r, run)
    BY <1>2, SteadyContext
  <2> QED
    BY <2>1, <2>2 DEF RunOf
<1>11. Composable(r, facts, RunOf(slot))'
  <2>1. PICK run : run = RunOf(slot)
    OBVIOUS
  <2>2. Composable(r, facts, run) => Composable(r, facts, run)'
    BY <1>2, SteadyComposable
  <2> QED
    BY <1>5, <1>8, <2>1, <2>2 DEF RunOf
<1>12. call'.contexts[slot] = ContextFor(r, RunOf(slot))'
  BY <1>5, <1>8, <1>9, <1>10
<1>13. Has(slot)'
  BY <1>1, <1>8, <1>11, <1>12 DEF Has, RunOf
<1>14. /\ slot # "worker" /\ Has("worker") => Has("worker")'
       /\ slot # "correction" /\ Has("correction") => Has("correction")'
       /\ slot # "review" /\ Has("review") => Has("review")'
  BY <1>1, <1>2, <1>9, HasKept
<1>15. /\ Admitted(call.request) => Admitted(call.request)'
       /\ call'.request \in Requests <=> call.request \in Requests
  <2>1. Admitted(r) => Admitted(r)'
    BY <1>2, SteadyTerms
  <2> QED
    BY <1>1, <1>8, <2>1
<1>16. DispatchSteady'
  <2> SUFFICES ASSUME call.kind = "dispatch" PROVE DispatchSteady'
    BY <1>1 DEF DispatchSteady
  <2>1. slot \in { "worker", "correction", "review" }
    BY <1>8, <1>9 DEF Placed, Over, AfterFacts, AfterScan, AfterWorker, AfterCorrection, AfterReview,
         AfterLifecycle, AfterInvoke, AfterCreate, AfterAnchor, AfterReport
  <2>2. GuidanceSettled'
    BY <1>2, <1>8, <2>1
       DEF HorizonFits, DispatchSteady, Steady, Over, AfterFacts, AfterScan, AfterWorker,
           AfterCorrection, AfterReview
  <2>3. /\ slot \in { "correction", "review" } => Has("worker")
        /\ slot = "review" => Has("correction")
    BY <1>8, <2>1 DEF HorizonFits, DispatchSteady, Over, AfterFacts, AfterScan, AfterWorker,
           AfterCorrection, AfterReview
  <2>4. call.request \in Requests /\ Admitted(call.request)
    BY <1>8, <2>1 DEF HorizonFits, DispatchSteady, Over
  <2>5. CASE slot = "worker"
    <3>1. call'.step = "correction" /\ Has("worker")'
      BY <1>4, <1>8, <1>13, <2>5
    <3> QED
      BY <1>1, <1>15, <2>2, <2>4, <3>1
         DEF DispatchSteady, AfterFacts, AfterScan, AfterWorker, AfterCorrection, AfterReview,
             AfterLifecycle, AfterInvoke, AfterCreate, AfterAnchor, AfterReport
  <2>6. CASE slot = "correction"
    <3>1. call'.step = "review" /\ Has("worker")' /\ Has("correction")'
      BY <1>4, <1>8, <1>13, <1>14, <2>3, <2>6
    <3> QED
      BY <1>1, <1>15, <2>2, <2>4, <3>1
         DEF DispatchSteady, AfterFacts, AfterScan, AfterWorker, AfterCorrection, AfterReview,
             AfterLifecycle, AfterInvoke, AfterCreate, AfterAnchor, AfterReport
  <2>7. CASE slot = "review"
    <3>1. call'.step = "lifecycle" /\ Has("worker")' /\ Has("correction")' /\ Has("review")'
      BY <1>4, <1>8, <1>13, <1>14, <2>3, <2>7
    <3> QED
      BY <1>1, <1>15, <2>2, <2>4, <3>1
         DEF DispatchSteady, AfterFacts, AfterScan, AfterWorker, AfterCorrection, AfterReview,
             AfterLifecycle, AfterInvoke, AfterCreate, AfterAnchor, AfterReport
  <2> QED
    BY <2>1, <2>5, <2>6, <2>7
<1>17. LaterSteady'
  <2> SUFFICES ASSUME call.kind \in { "resume", "review" } PROVE LaterSteady'
    BY <1>1 DEF LaterSteady
  <2>1. \A s \in { "own", "worker", "correction", "review" } : \A run :
          (s # slot /\ call.contexts[s] = ContextFor(call.request, run))
            => call'.contexts[s] = ContextFor(call.request, run)'
    <3>1. \A run : ContextFor(r, run)' = ContextFor(r, run)
      BY <1>2, SteadyContext
    <3> QED
      BY <1>1, <1>8, <1>9, <3>1
  <2>2. call.request = record.request /\ call.facts = record.facts
    BY <1>4 DEF HorizonFits, LaterSteady, Over
  <2>3. CASE call.kind = "review"
    <3>1. Promise(call.request, call.facts)
      BY <1>4, <2>3, LaterFits DEF HorizonFits, Over
    <3>2. context = ContextFor(call.request, "review") /\ RunIn("review") = "review"
      BY <1>4, <1>5, <2>3 DEF RunOf, RunIn
    <3>3. Grown(call.request, context.size, "review") <= Ceiling
      BY <3>1, <3>2 DEF Promise, PhasesFit, ReachablePhases, Phase
    <3>4. context.size <= Ceiling
      BY <3>1, <3>3, ReviewGrowsNothing DEF Promise
    <3> QED
      BY <1>1, <2>2, <2>3, <3>4 DEF LaterSteady
  <2>4. CASE call.kind = "resume"
    <3>1. \/ /\ slot = "own" /\ call.step = "own" /\ call'.step = "worker"
             /\ RunOf(slot) = "resume"
          \/ /\ slot = "worker" /\ call.step = "worker" /\ call'.step = "correction"
             /\ RunOf(slot) = "dispatch"
          \/ /\ slot = "correction" /\ call.step = "correction" /\ call'.step = "review"
             /\ RunOf(slot) = "resume"
          \/ /\ slot = "review" /\ call.step = "review" /\ call'.step = "lifecycle"
             /\ RunOf(slot) = "review"
      BY <1>4, <1>8, <2>4 DEF RunOf
    <3>2. /\ call'.contexts[slot] = ContextFor(call.request, RunOf(slot))'
          /\ call'.request = call.request
      BY <1>1, <1>8, <1>12 DEF RunOf
    <3>3. /\ call.request.max_resume > 0
          /\ call.step \in PastOwn => call.contexts["own"] = ContextFor(call.request, "resume")
          /\ call.step \in PastWorker =>
               call.contexts["worker"] = ContextFor(call.request, "dispatch")
          /\ call.step \in PastCorrection =>
               call.contexts["correction"] = ContextFor(call.request, "resume")
      BY <2>4, <3>1 DEF HorizonFits, LaterSteady, Over
    <3>4. /\ slot = "own" => call'.contexts["own"] = ContextFor(call.request, "resume")'
          /\ slot = "worker" => call'.contexts["worker"] = ContextFor(call.request, "dispatch")'
          /\ slot = "correction" => call'.contexts["correction"] = ContextFor(call.request, "resume")'
          /\ slot = "review" => call'.contexts["review"] = ContextFor(call.request, "review")'
      BY <3>1, <3>2
    <3>5. /\ call'.step \in PastOwn => call'.contexts["own"] = ContextFor(call.request, "resume")'
          /\ call'.step \in PastWorker =>
               call'.contexts["worker"] = ContextFor(call.request, "dispatch")'
          /\ call'.step \in PastCorrection =>
               call'.contexts["correction"] = ContextFor(call.request, "resume")'
          /\ call'.step \in PastReview =>
               call'.contexts["review"] = ContextFor(call.request, "review")'
      BY <2>1, <3>1, <3>3, <3>4 DEF PastOwn, PastTerms, PastWorker, PastCorrection, PastReview
    <3>6. call'.step \notin PastTerms
      BY <3>1 DEF PastTerms
    <3> QED
      BY <1>1, <2>2, <2>4, <3>3, <3>5, <3>6 DEF LaterSteady
  <2> QED
    BY <2>3, <2>4
<1> QED
  BY <1>6, <1>7, <1>16, <1>17 DEF HorizonFits

LEMMA HorizonLifecycle ==
  ASSUME Types, Placed, EnginesFit, ContextsTyped, Owned, HorizonFits,
         NEW prompt, LifecycleShown(prompt)
  PROVE  HorizonFits'
<1>1. /\ call'.kind = call.kind /\ call'.step = "invoke" /\ call.step = "lifecycle"
      /\ call.kind \in { "dispatch", "resume" }
      /\ call'.request = call.request /\ call'.facts = call.facts
      /\ call'.contexts = call.contexts /\ call'.prompt = prompt /\ call'.report = Report
      /\ UNCHANGED << disk, config, told, engines, record, spent >>
  BY DEF LifecycleShown, Goes, CallFields, Rest
<1>2. Steady
  BY <1>1, UnaskedSteady
<1>3. Unedited' <=> Unedited
  BY <1>1 DEF Unedited
<1> SUFFICES ASSUME Unedited PROVE HorizonFits'
  BY <1>3 DEF HorizonFits
<1>4. ContextsOfCall
  BY <1>1 DEF HorizonFits, DispatchSteady, LaterSteady, Has, RunOf, ContextsOfCall, Over, AfterWorker,
       AfterCorrection, AfterReview, PastWorker, PastCorrection, PastReview
<1>5. /\ ProfilesProject(call.request) /\ PhasesFit(call.request)
      /\ Report = ReportFor(call.request)
  BY <1>4, LifecycleOfTheCall DEF LifecycleShown
<1>6. PICK r : r = call.request
  OBVIOUS
<1>7. /\ Admitted(call.request) => Admitted(call.request)'
      /\ ProfilesProject(call.request)' /\ PhasesFit(call.request)'
      /\ call'.report = ReportFor(call.request)'
  <2>1. /\ Admitted(r) => Admitted(r)'
        /\ ProfilesProject(r)' /\ PhasesFit(r)'
        /\ ReportFor(r)' = ReportFor(r)
    BY <1>2, <1>5, <1>6, SteadyTerms
  <2> QED
    BY <1>1, <1>5, <1>6, <2>1
<1>8. RecordSteady'
  BY <1>1, <1>2, RecordKept DEF HorizonFits
<1>9. RefusedSteady'
  BY <1>1 DEF RefusedSteady
<1>10. DispatchSteady'
  <2> SUFFICES ASSUME call.kind = "dispatch" PROVE DispatchSteady'
    BY <1>1 DEF DispatchSteady
  <2>1. GuidanceSettled'
    BY <1>1, <1>2 DEF HorizonFits, DispatchSteady, Steady, Over, AfterFacts, AfterScan, AfterWorker,
         AfterCorrection, AfterReview
  <2>2. Has("worker")' /\ Has("correction")' /\ Has("review")'
    BY <1>1, <1>2, ContextsKept DEF HorizonFits, DispatchSteady, Over, AfterWorker,
         AfterCorrection, AfterReview
  <2> QED
    BY <1>1, <1>7, <2>1, <2>2
       DEF HorizonFits, DispatchSteady, Over, AfterFacts, AfterScan, AfterWorker, AfterCorrection,
           AfterReview, AfterLifecycle, AfterInvoke, AfterCreate, AfterAnchor, AfterReport
<1>11. LaterSteady'
  <2> SUFFICES ASSUME call.kind = "resume" PROVE LaterSteady'
    BY <1>1 DEF LaterSteady
  <2>1. \A slot \in { "own", "worker", "correction", "review" } : \A run :
          (call.contexts[slot] = ContextFor(call.request, run))
            => (call.contexts[slot] = ContextFor(call.request, run))'
    BY <1>1, <1>2, ContextsKept
  <2>2. /\ call.contexts["own"] = ContextFor(call.request, "resume")
        /\ call.request.max_resume > 0
    BY <1>1 DEF HorizonFits, LaterSteady, Over, PastOwn
  <2>3. prompt.size <= Ceiling
    <3>1. "correction" \in ReachablePhases(call.request) /\ RunIn("correction") = "resume"
      BY <2>2 DEF ReachablePhases, Phase, RunIn
    <3>2. Grown(call.request, call.contexts["own"].size, "correction") <= Ceiling
      BY <1>5, <2>2, <3>1 DEF PhasesFit
    <3>3. prompt.size = Extended(call.contexts["own"].size, "correction")
      BY DEF LifecycleShown, WithProfile, ContextsTyped, ContextFields, Types
    <3> QED
      BY <1>4, <3>2, <3>3, LifecycleOfTheCall
  <2> QED
    BY <1>1, <2>1, <2>3
       DEF HorizonFits, LaterSteady, Over, PastTerms, PastOwn, PastReview, PastCorrection, PastWorker
<1> QED
  BY <1>8, <1>9, <1>10, <1>11 DEF HorizonFits

LEMMA HorizonUnshown ==
  ASSUME Types, Placed, EnginesFit, Owned, HorizonFits, NEW why, LifecycleRefused(why)
  PROVE  HorizonFits'
<1>1. Refused(why) /\ UNCHANGED << disk, config, engines >> /\ call.step = "lifecycle"
  BY DEF LifecycleRefused, Refused, Rest
<1>2. Steady
  BY <1>1, UnaskedSteady
<1>3. ~(Unedited /\ call.kind \in { "resume", "review" })
  <2> SUFFICES ASSUME Unedited, call.kind = "resume" PROVE FALSE
    BY DEF LifecycleRefused
  <2>1. ContextsOfCall
    BY <1>1 DEF HorizonFits, LaterSteady, ContextsOfCall, Over, PastWorker, PastCorrection, PastReview
  <2>2. /\ Promise(call.request, call.facts)
        /\ call.request = record.request
    BY <1>1, LaterFits DEF HorizonFits, Over
  <2>3. record.report = ReportFor(call.request)
    BY <1>1, <2>2 DEF HorizonFits, RecordSteady, Owned, Over
  <2> QED
    BY <2>1, <2>2, <2>3, LifecycleOfTheCall DEF LifecycleRefused, Promise
<1> QED
  BY <1>1, <1>2, <1>3, HorizonRefused

LEMMA HorizonKeeps ==
  ASSUME Types, Placed, EnginesFit, Owned, HorizonFits, Create \/ Anchor \/ KeepReport
  PROVE  HorizonFits'
<1>1. /\ call'.kind = call.kind /\ call'.request = call.request /\ call'.facts = call.facts
      /\ call'.contexts = call.contexts /\ call'.report = call.report
      /\ UNCHANGED << disk, config, told, engines, spent >>
      /\ call.kind = "dispatch" /\ record'.spawned = record.spawned
      /\ record'.since = record.since
      /\ \/ /\ call.step = "create" /\ call'.step = "anchor"
            /\ record'.request = call.request /\ record'.facts = call.facts
         \/ /\ call.step = "anchor" /\ call'.step = "report"
            /\ record'.request = record.request /\ record'.facts = record.facts
         \/ /\ call.step = "report" /\ call'.step = "launch"
            /\ record'.request = record.request /\ record'.facts = record.facts
            /\ record'.report = call.report
  BY KeptFields DEF CallFields
<1>2. Steady
  BY <1>1, UnaskedSteady
<1>3. Unedited' <=> Unedited
  BY <1>1 DEF Unedited
<1> SUFFICES ASSUME Unedited PROVE HorizonFits'
  BY <1>3 DEF HorizonFits
<1>4. ~record'.spawned
  BY <1>1 DEF Owned, Over
<1>5. RecordSteady' /\ LaterSteady' /\ RefusedSteady'
  BY <1>1, <1>4 DEF RecordSteady, LaterSteady, RefusedSteady
<1>6. PICK r : r = call.request
  OBVIOUS
<1>7. /\ Admitted(call.request) => Admitted(call.request)'
      /\ ProfilesProject(call.request) => ProfilesProject(call.request)'
      /\ PhasesFit(call.request) => PhasesFit(call.request)'
      /\ call.report = ReportFor(call.request) => (call.report = ReportFor(call.request))'
      /\ Unusable("worker_schema")' <=> Unusable("worker_schema")
  <2>1. /\ Admitted(r) => Admitted(r)'
        /\ ProfilesProject(r) => ProfilesProject(r)'
        /\ PhasesFit(r) => PhasesFit(r)'
        /\ ReportFor(r)' = ReportFor(r)
        /\ Unusable("worker_schema")' <=> Unusable("worker_schema")
    BY <1>2, SteadyTerms
  <2> QED
    BY <1>1, <1>6, <2>1
<1>8. /\ Has("worker") => Has("worker")'
      /\ Has("correction") => Has("correction")'
      /\ Has("review") => Has("review")'
  BY <1>1, <1>2, ContextsKept
<1>9. GuidanceSettled => GuidanceSettled'
  BY <1>2 DEF Steady
<1>10. DispatchSteady'
  BY <1>1, <1>7, <1>8, <1>9
     DEF HorizonFits, DispatchSteady, Over, AfterFacts, AfterScan, AfterWorker, AfterCorrection,
         AfterReview, AfterLifecycle, AfterInvoke, AfterCreate, AfterAnchor, AfterReport
<1> QED
  BY <1>5, <1>10 DEF HorizonFits

LEMMA HorizonLaunch ==
  ASSUME Types, Placed, EnginesFit, StandFits, HorizonFits, TellsPrompt
  PROVE  HorizonFits'
<1>1. /\ call.step = "launch" /\ call'.step = "done" /\ call'.kind = call.kind
      /\ record'.spawned = TRUE /\ record'.since = record.since
      /\ record'.request = record.request /\ record'.facts = record.facts
      /\ record'.report = record.report /\ record'.skill_policy = record.skill_policy
      /\ record'.project_guidance = record.project_guidance
      /\ UNCHANGED << disk, config, engines, spent >>
  BY DEF TellsPrompt, TaskFields
<1>2. Steady
  BY <1>1, UnaskedSteady
<1>3. Unedited' <=> Unedited
  BY <1>1 DEF Unedited
<1> SUFFICES ASSUME Unedited PROVE HorizonFits'
  BY <1>3 DEF HorizonFits
<1>4. DispatchSteady' /\ LaterSteady' /\ RefusedSteady'
  BY <1>1 DEF DispatchSteady, LaterSteady, RefusedSteady, Over
<1>5. /\ Promise(record.request, record.facts)
      /\ record.report = ReportFor(record.request)
      /\ record.skill_policy = ContextFor(record.request, "dispatch").skills
      /\ record.project_guidance = ContextFor(record.request, "dispatch").guidance
  <2>1. CASE call.kind = "dispatch"
    <3>1. /\ call.request \in Requests /\ Admitted(call.request) /\ GuidanceSettled
          /\ Has("worker") /\ Has("correction") /\ Has("review")
          /\ ProfilesProject(call.request) /\ PhasesFit(call.request)
          /\ call.report = ReportFor(call.request) /\ ~Unusable("worker_schema")
          /\ record.request = call.request /\ record.facts = call.facts
          /\ record.report = call.report
      BY <1>1, <2>1
         DEF HorizonFits, DispatchSteady, Over, AfterFacts, AfterScan, AfterWorker,
             AfterCorrection, AfterReview, AfterLifecycle, AfterInvoke, AfterCreate, AfterAnchor,
             AfterReport
    <3>2. /\ record.skill_policy = call.contexts["worker"].skills
          /\ record.project_guidance = call.contexts["worker"].guidance
      BY <1>1, <2>1 DEF StandFits, DispatchCovered, AfterAnchor, AfterReport
    <3>3. \A run \in { "dispatch", "resume", "review" } :
            Composable(call.request, call.facts, run)
      BY <3>1 DEF Has, RunOf
    <3>4. call.contexts["worker"] = ContextFor(call.request, "dispatch")
      BY <3>1 DEF Has, RunOf
    <3> QED
      BY <3>1, <3>2, <3>3, <3>4 DEF Promise
  <2>2. CASE call.kind # "dispatch"
    BY <1>1, <2>2 DEF HorizonFits, RecordSteady, StandFits, Owned, Over
  <2> QED
    BY <2>1, <2>2
<1>6. PICK r, facts : r = record.request /\ facts = record.facts
  OBVIOUS
<1>7. /\ Promise(r, facts)'
      /\ record.report = ReportFor(r)'
      /\ record.skill_policy = ContextFor(r, "dispatch")'.skills
      /\ record.project_guidance = ContextFor(r, "dispatch")'.guidance
  <2>1. ReportFor(r)' = ReportFor(r) /\ ContextFor(r, "dispatch")' = ContextFor(r, "dispatch")
    BY <1>2, SteadyTerms, SteadyContext
  <2>2. Promise(r, facts)'
    BY <1>2, <1>5, <1>6, PromiseSteady
  <2> QED
    BY <1>5, <1>6, <2>1, <2>2
<1>8. RecordSteady'
  BY <1>1, <1>6, <1>7 DEF RecordSteady
<1> QED
  BY <1>4, <1>8 DEF HorizonFits

LEMMA HorizonElsewhere ==
  ASSUME Types, Placed, EnginesFit, Owned, HorizonFits, Overlaps
  PROVE  HorizonFits'
<1>1. /\ call'.kind = call.kind /\ call'.step = call.step /\ call'.request = call.request
      /\ call'.contexts = call.contexts /\ call'.prompt = call.prompt /\ call'.why = call.why
      /\ call'.facts = call.facts /\ call'.report = call.report
      /\ UNCHANGED << disk, config, record, told >>
  BY DEF Overlaps, CallFields
<1>2. spent'.edits = spent.edits
  BY DEF Overlaps, Types
<1>3. Unedited' <=> Unedited
  BY <1>1, <1>2 DEF Unedited
<1> SUFFICES ASSUME Unedited PROVE HorizonFits'
  BY <1>3 DEF HorizonFits
<1>4. RefusedSteady'
  BY <1>1 DEF HorizonFits, RefusedSteady
<1>5. CASE GuidanceSettled
  <2>1. Steady
    BY <1>5, ElsewhereSteady
  <2>2. RecordSteady'
    BY <1>1, <2>1, RecordKept DEF HorizonFits
  <2>3. PICK r : r = call.request
    OBVIOUS
  <2>4. /\ Admitted(call.request) => Admitted(call.request)'
        /\ ProfilesProject(call.request) => ProfilesProject(call.request)'
        /\ PhasesFit(call.request) => PhasesFit(call.request)'
        /\ call.report = ReportFor(call.request) => (call.report = ReportFor(call.request))'
        /\ Unusable("worker_schema")' <=> Unusable("worker_schema")
    <3>1. /\ Admitted(r) => Admitted(r)'
          /\ ProfilesProject(r) => ProfilesProject(r)'
          /\ PhasesFit(r) => PhasesFit(r)'
          /\ ReportFor(r)' = ReportFor(r)
          /\ Unusable("worker_schema")' <=> Unusable("worker_schema")
      BY <2>1, SteadyTerms
    <3> QED
      BY <1>1, <2>3, <3>1
  <2>5. /\ Has("worker") => Has("worker")'
        /\ Has("correction") => Has("correction")'
        /\ Has("review") => Has("review")'
    BY <1>1, <2>1, ContextsKept
  <2>6. GuidanceSettled'
    BY <1>5, <2>1 DEF Steady
  <2>7. DispatchSteady'
    BY <1>1, <2>4, <2>5, <2>6 DEF HorizonFits, DispatchSteady
  <2>8. \A slot \in { "own", "worker", "correction", "review" } : \A run :
          (call.contexts[slot] = ContextFor(call.request, run))
            => (call.contexts[slot] = ContextFor(call.request, run))'
    BY <1>1, <2>1, ContextsKept
  <2>9. LaterSteady'
    BY <1>1, <2>8 DEF HorizonFits, LaterSteady
  <2> QED
    BY <1>4, <2>2, <2>7, <2>9 DEF HorizonFits
<1>6. CASE ~GuidanceSettled
  <2>1. ~record.spawned
    BY <1>6 DEF HorizonFits, RecordSteady, Promise
  <2>2. call.step \in Over \/ (call.kind = "dispatch" /\ call.step = "facts")
    BY <1>6, <2>1 DEF HorizonFits, DispatchSteady, Owned, Placed
  <2>3. Admitted(call.request) => Admitted(call.request)'
    BY <1>1 DEF Admitted, Fits, Clamp, RootAllowed
  <2>4. DispatchSteady'
    BY <1>1, <2>2, <2>3
       DEF HorizonFits, DispatchSteady, Over, AfterFacts, AfterScan, AfterWorker, AfterCorrection,
           AfterReview, AfterLifecycle, AfterInvoke, AfterCreate, AfterAnchor, AfterReport
  <2>5. RecordSteady' /\ LaterSteady'
    BY <1>1, <2>1, <2>2 DEF RecordSteady, LaterSteady
  <2> QED
    BY <1>4, <2>4, <2>5 DEF HorizonFits
<1> QED
  BY <1>5, <1>6

LEMMA HorizonNext ==
  ASSUME Types, Placed, EnginesFit, ContextsTyped, StandFits, HorizonFits, [Next]_vars
  PROVE  HorizonFits'
<1>0. Owned
  BY DEF StandFits
<1>1. CASE BeginDispatch \/ BeginResume \/ BeginReview
  BY <1>1, HorizonBegins
<1>2. CASE Facts
  <2>1. ASSUME Refused("guidance"), UNCHANGED engines, Facts PROVE HorizonFits'
    <3>1. Steady /\ call.kind = "dispatch"
      BY <2>1, UnaskedSteady DEF Refused, Rest, Facts, At
    <3> QED
      BY <2>1, <3>1, HorizonRefused
  <2> QED
    BY <1>0, <1>2, <2>1, ReadingFacts, HorizonFacts
<1>3. CASE \/ Scan \/ VerifySkills \/ VerifyGuidance
           \/ InvokeWorker \/ InvokeReviewer \/ ContextTooLarge \/ TransportTooLarge
  BY <1>0, <1>3, PassingOrStopping, HorizonPasses, HorizonStops
<1>4. CASE ComposeContext
  BY <1>0, <1>4, Composing, HorizonMisfits, HorizonComposes
<1>5. CASE Lifecycle
  BY <1>0, <1>5, ShowingLifecycle, HorizonLifecycle, HorizonUnshown
<1>6. CASE Create \/ Anchor \/ KeepReport
  BY <1>0, <1>6, HorizonKeeps
<1>7. CASE Launch
  BY <1>7, Launching, HorizonLaunch
<1>8. CASE OtherCall
  BY <1>0, <1>8, Overlapping, HorizonElsewhere
<1>9. CASE Approve \/ EditText \/ Restart
  <2>1. spent'.edits = spent.edits + 1 /\ record' = record
    BY <1>9, Editing DEF Edits, Types
  <2>2. ~Unedited'
    BY <2>1 DEF Unedited, Types
  <2> QED
    BY <2>2 DEF HorizonFits
<1>10. CASE UNCHANGED vars
  <2>1. Steady /\ UNCHANGED << record, call, spent >>
    BY <1>10, UnaskedSteady DEF vars
  <2>2. RecordSteady => RecordSteady'
    BY <2>1, RecordKept
  <2>3. PICK r : r = call.request
    OBVIOUS
  <2>4. /\ Admitted(call.request) => Admitted(call.request)'
        /\ ProfilesProject(call.request) => ProfilesProject(call.request)'
        /\ PhasesFit(call.request) => PhasesFit(call.request)'
        /\ call.report = ReportFor(call.request) => (call.report = ReportFor(call.request))'
        /\ Unusable("worker_schema")' <=> Unusable("worker_schema")
    <3>1. /\ Admitted(r) => Admitted(r)'
          /\ ProfilesProject(r) => ProfilesProject(r)'
          /\ PhasesFit(r) => PhasesFit(r)'
          /\ ReportFor(r)' = ReportFor(r)
          /\ Unusable("worker_schema")' <=> Unusable("worker_schema")
      BY <2>1, SteadyTerms
    <3> QED
      BY <2>1, <2>3, <3>1
  <2>5. /\ Has("worker") => Has("worker")'
        /\ Has("correction") => Has("correction")'
        /\ Has("review") => Has("review")'
        /\ GuidanceSettled => GuidanceSettled'
    BY <2>1, ContextsKept DEF Steady
  <2>6. \A slot \in { "own", "worker", "correction", "review" } : \A run :
          (call.contexts[slot] = ContextFor(call.request, run))
            => (call.contexts[slot] = ContextFor(call.request, run))'
    BY <2>1, ContextsKept
  <2>7. /\ DispatchSteady => DispatchSteady'
        /\ LaterSteady => LaterSteady'
        /\ RefusedSteady => RefusedSteady'
        /\ Unedited' => Unedited
    BY <2>1, <2>4, <2>5, <2>6 DEF DispatchSteady, LaterSteady, RefusedSteady, Unedited
  <2> QED
    BY <2>2, <2>7 DEF HorizonFits
<1> QED
  BY <1>1, <1>2, <1>3, <1>4, <1>5, <1>6, <1>7, <1>8, <1>9, <1>10
     DEF Next, Calls, Contexts, Terms, Launches

----------------------------------------------------------------------------
(* The theorems.                                                           *)

IInv ==
  /\ Types /\ Placed /\ EnginesFit
  /\ SealFits /\ StandFits /\ HorizonFits

LEMMA Starts == ASSUME Init PROVE IInv
<1>1. Types /\ Placed
  BY DEF Init, Types, Placed, NoCall, NoTask, CallFields, TaskFields, Over
<1>2. EnginesFit
  BY DEF Init, EnginesFit
<1>3. SealFits
  BY DEF Init, SealFits, ContextsTyped, Sealed, SealMatchesContext, NoCall, NoContext,
     ContextFields, AfterFacts, AfterScan, AfterWorker, AfterCorrection, AfterReview,
     AfterLifecycle, AfterInvoke, AfterCreate, AfterAnchor, AfterReport
<1>4. call.kind = "dispatch" /\ call.step = "idle" /\ told = {} /\ ~record.spawned
  BY DEF Init, NoCall, NoTask
<1>5. StandFits
  BY <1>4 DEF StandFits, Owned, DispatchCovered, ResumeFollows, ToldStands, Over, AfterWorker,
     AfterCorrection, AfterReview, AfterLifecycle, AfterInvoke, AfterCreate, AfterAnchor,
     AfterReport
<1>6. HorizonFits
  BY <1>4 DEF HorizonFits, DispatchSteady, RecordSteady, LaterSteady, RefusedSteady, Over
<1> QED
  BY <1>1, <1>2, <1>3, <1>5, <1>6 DEF IInv

LEMMA Steps == ASSUME IInv, [Next]_vars PROVE IInv'
BY TypesNext, EnginesNext, SealNext, StandNext, HorizonNext DEF IInv, SealFits

\* Every step of every behaviour keeps what the proofs below rest on: where a
\* call can be, what the engines hold, and what was sealed, kept and shown.
THEOREM TermsInvariant == Spec => []IInv
<1>1. Init => IInv
  BY Starts
<1>2. IInv /\ [Next]_vars => IInv'
  BY Steps
<1> QED
  BY <1>1, <1>2, PTL DEF Spec

\* The seal of a dispatch that no dispatch elsewhere overlapped names the very
\* manifest its worker's guidance was taken from, whatever was approved, edited
\* or restarted before, between or after (approved_identity_facts and the
\* engine are fed by one reading).
THEOREM SealsMatch == Spec => []SealMatchesContext
<1>1. IInv => SealMatchesContext
  BY DEF IInv, SealFits
<1> QED
  BY <1>1, TermsInvariant, PTL

\* A resumed worker is told of every skill and scope the dispatched one was
\* told exactly what that one was: verify_dispatch_anchor measures the engines
\* against the record before the context is composed from them.
THEOREM InstructionsHold == Spec => []InstructionsStand
<1>1. IInv => InstructionsStand
  BY TextsStand DEF IInv
<1> QED
  BY <1>1, TermsInvariant, PTL

\* What a dispatch was admitted with suffices to its last resume and review:
\* while nobody edits and the dispatcher lives, none of them is refused, save for
\* its limit of resumes, a timeout raised since, what execve will not carry, and
\* a reviewer's schema that no dispatch reads.
THEOREM HorizonReached == Spec => []HorizonHolds
<1>1. IInv => HorizonHolds
  BY HorizonShown DEF IInv
<1> QED
  BY <1>1, TermsInvariant, PTL
=============================================================================
