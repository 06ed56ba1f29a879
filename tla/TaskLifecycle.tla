--------------------------- MODULE TaskLifecycle ---------------------------
(***************************************************************************)
(* What the dispatcher promises about one task's record, whatever the      *)
(* machinery underneath does: a state moves only along the table of        *)
(* models.py, and the one edge back into a running worker,                 *)
(* RESUME_REQUESTED -> RUNNING, is taken at most MaxResumeCount times and  *)
(* counted every time.  The module knows nothing of calls, locks, runs or  *)
(* processes; Dispatcher implements it.                                    *)
(***************************************************************************)
EXTENDS Naturals, TaskStates

CONSTANTS Task,            \* task ids
          MaxResumeCount   \* envelope.execution.max_resume_count

VARIABLES state,           \* "absent" until state.json exists
          resume_count     \* resumed workers counted so far

lifecycle_vars == << state, resume_count >>

Init == /\ state = [t \in Task |-> "absent"]
        /\ resume_count = [t \in Task |-> 0]

Create(t) == /\ state[t] = "absent"
             /\ state' = [state EXCEPT ![t] = "CREATED"]
             /\ UNCHANGED resume_count

\* Every edge of the table but the one that starts a resumed worker.
Move(t, target) ==
  /\ state[t] # "absent"
  /\ IsTransitionAllowed(state[t], target)
  /\ ~ (state[t] = "RESUME_REQUESTED" /\ target = "RUNNING")
  /\ state' = [state EXCEPT ![t] = target]
  /\ UNCHANGED resume_count

StartResumedWorker(t) ==
  /\ state[t] = "RESUME_REQUESTED"
  /\ resume_count[t] < MaxResumeCount
  /\ state' = [state EXCEPT ![t] = "RUNNING"]
  /\ resume_count' = [resume_count EXCEPT ![t] = @ + 1]

Next == \E t \in Task : \/ Create(t)
                        \/ \E target \in TaskState : Move(t, target)
                        \/ StartResumedWorker(t)

Spec == Init /\ [][Next]_lifecycle_vars
=============================================================================
