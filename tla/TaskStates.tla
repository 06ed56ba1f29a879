----------------------------- MODULE TaskStates -----------------------------
(***************************************************************************)
(* The task states and the transition table of models.py, as constants     *)
(* shared by every module that speaks of a task.                           *)
(***************************************************************************)

TaskState ==
  { "CREATED", "ROUTED", "RUNNING", "IMPLEMENTED", "AWAITING_SOL_REVIEW",
    "FABLE_REVIEWED", "RESUME_REQUESTED", "REVIEW_COMPLETE",
    "TIMED_OUT", "BLOCKED", "FAILED", "POLICY_VIOLATION" }

\* The four ways a run ends other than a clean implementation.
OffRamps == { "TIMED_OUT", "BLOCKED", "FAILED", "POLICY_VIOLATION" }

\* waiting.WORKER_ACTIONABLE_STATES: what a blocking call may return on.
WorkerActionable == OffRamps \cup { "AWAITING_SOL_REVIEW" }

\* The states from which _record_failure moves a task to FAILED.
InFlight == { "CREATED", "ROUTED", "RUNNING", "RESUME_REQUESTED" }

AllowedTransitions ==
  [ CREATED             |-> { "ROUTED", "FAILED" },
    ROUTED              |-> { "RUNNING", "FAILED" },
    RUNNING             |-> { "IMPLEMENTED" } \cup OffRamps,
    IMPLEMENTED         |-> { "AWAITING_SOL_REVIEW" },
    AWAITING_SOL_REVIEW |->
      { "FABLE_REVIEWED", "RESUME_REQUESTED", "REVIEW_COMPLETE" },
    FABLE_REVIEWED      |->
      { "RESUME_REQUESTED", "REVIEW_COMPLETE", "AWAITING_SOL_REVIEW" },
    RESUME_REQUESTED    |-> { "RUNNING", "FAILED" },
    TIMED_OUT           |->
      { "AWAITING_SOL_REVIEW", "RESUME_REQUESTED", "FAILED" },
    BLOCKED             |->
      { "AWAITING_SOL_REVIEW", "RESUME_REQUESTED", "FAILED" },
    POLICY_VIOLATION    |->
      { "AWAITING_SOL_REVIEW", "RESUME_REQUESTED", "FAILED" },
    FAILED              |-> { "AWAITING_SOL_REVIEW", "RESUME_REQUESTED" },
    REVIEW_COMPLETE     |-> {} ]

IsTransitionAllowed(src, dst) == dst \in AllowedTransitions[src]
=============================================================================
