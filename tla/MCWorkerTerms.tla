--------------------------- MODULE MCWorkerTerms ---------------------------
(* A small instance of WorkerTerms: a skill every worker is told and one     *)
(* only a resumed worker is, guidance of the root and of one scope, for      *)
(* workers and for reviews; texts of two sizes, of which two have the same.  *)
EXTENDS WorkerTerms

Sizes == [t \in Text |-> IF t = "long" THEN 7 ELSE 1]

InstalledPolicies == [p \in Policy |-> "v1"]

Names == [link |-> "home", inside |-> None]

Approved(t, denied) == [text |-> t, requires |-> denied, projectable |-> TRUE]

Skills(v, core, correcting) ==
  [version |-> v, entries |-> [core |-> core, correcting |-> correcting],
   core |-> { "core" }, cap |-> 5,
   by_run |-> [dispatch |-> {}, resume |-> { "correcting" }],
   by_task |-> [k \in Kinds |-> {}]]

SkillChoices ==
  { Skills(1, Approved("v1", {}), Approved("v1", { "push" })),
    Skills(2, Approved("v2", { "gh" }), Approved("v1", {})) }

Guidance(root, name, approved, excluded, denied) ==
  [approved |-> approved, excluded |-> excluded, toplevel |-> name, origin |-> name,
   denied |-> denied, limit |-> 1,
   pins |-> [rules |-> root, review |-> "v1", server |-> "v1"],
   root |-> [worker |-> "rules", review |-> "review"],
   worker |-> [server |-> "server"], review |-> [server |-> "review"]]

GuidanceChoices ==
  { Guidance("v1", "home", TRUE, {}, { "worktrees" }),
    Guidance("v2", "home", TRUE, {}, { "worktrees", "server" }),
    Guidance("v1", "home", FALSE, { "md" }, { "worktrees" }),
    Guidance("v1", "away", TRUE, { "md" }, { "worktrees" }) }

Lifecycle_(v, t) ==
  [version |-> v,
   entries |-> [implement |-> [text |-> "v1", requires |-> { "push" }],
                correct |-> [text |-> t, requires |-> {}]],
   fixed |-> [p \in Phase |-> IF p = "dispatch" THEN { "implement" }
                               ELSE IF p = "review" THEN {} ELSE { "correct" }],
   by_risk |-> [p \in Phase |-> IF p = "correction" THEN { "implement" } ELSE {}]]

ProfileChoices == { Lifecycle_(1, "v1"), Lifecycle_(2, "long") }

Models == [sonnet |-> "s", opus |-> "o", fable |-> "f"]

Config(skills, guidance, clamp, denied) ==
  [skills |-> skills, guidance |-> guidance, clamp |-> clamp, budget |-> 3,
   denied |-> denied, roots |-> { "home" }, depth |-> 1, inherited |-> 0,
   models |-> Models]

ConfigChoices ==
  { Config(TRUE, TRUE, 2, { "gh" }),
    [Config(FALSE, TRUE, 3, {}) EXCEPT !.models.fable = "o"],
    [Config(TRUE, FALSE, 2, {}) EXCEPT !.budget = 2] }

Task(root, paths, timeout, resumes, escalates) ==
  [root |-> root, paths |-> paths, timeout |-> timeout, validation |-> 1,
   max_resume |-> resumes, model |-> None, escalates |-> escalates]

RequestChoices ==
  { Task("link", { "server" }, 1, 0, FALSE), Task("link", {}, 2, 2, TRUE),
    Task("inside", {}, 1, 1, FALSE) }

LitterChoices == { << "home", "md" >> }

BrokenChoices == { {}, { "guidance_manifest", "fable_schema" } }
=============================================================================
