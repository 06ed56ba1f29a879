\* Requests that attach, give up and come back; drains with and without a timeout.
CONSTANTS
  Key = {k1, k2}
  Run = {a1, a2, a3}
  Waiter = {w1, w2}
  DrainLimits <- AnyTimeout
  None = None
SPECIFICATION FairSpec
INVARIANTS
  LiveRunsAreHeld
PROPERTIES
  AnswersAreFresh
  RunsOutliveRequests
  WaitsEnd
\* Once every run of the bound has ended the system stays as it is.
CHECK_DEADLOCK FALSE
