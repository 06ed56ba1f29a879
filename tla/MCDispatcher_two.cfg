\* Two dispatcher processes over one state directory.
CONSTANTS
  p1 = p1
  p2 = p2
  c1 = c1
  c2 = c2
  r1 = r1
  None = None
  Process = {p1, p2}
  Call = {c1, c2}
  Task = {t1}
  Repository = {r1}
  ProcessOf <- TwoProcesses
  RepositoryOf <- OneRepository
  MaxResumeCount = 1
  MaxRuns = 3
  Faults = {}
SPECIFICATION FairSpec
INVARIANTS
  OneWorkerPerRepository
PROPERTIES
  CallsReturn
\* Once every further call is refused, the system stays as it is.
CHECK_DEADLOCK FALSE
