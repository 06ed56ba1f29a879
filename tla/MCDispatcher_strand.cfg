\* One process, no faults: a resume refused after its Git row.
CONSTANTS
  p1 = p1
  p2 = p2
  c1 = c1
  c2 = c2
  r1 = r1
  None = None
  Process = {p1}
  Call = {c1, c2}
  Task = {t1}
  Repository = {r1}
  ProcessOf <- OneProcess
  RepositoryOf <- OneRepository
  MaxResumeCount = 2
  MaxRuns = 4
  Faults = {}
SPECIFICATION Spec
INVARIANTS
  FailedIsRecoverable
\* Once every further call is refused, the system stays as it is.
CHECK_DEADLOCK FALSE
