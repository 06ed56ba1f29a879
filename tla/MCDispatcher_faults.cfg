\* One process that may die and whose writes may fail, resumed twice.
CONSTANTS
  p1 = p1
  p2 = p2
  c1 = c1
  c2 = c2
  r1 = r1
  None = None
  Process = {p1}
  Call = {c1, c2}
  Task = {t1}
  Repository = {r1}
  ProcessOf <- OneProcess
  RepositoryOf <- OneRepository
  MaxResumeCount = 2
  MaxRuns = 5
  Faults = {"crash", "io_error"}
SPECIFICATION Spec
INVARIANTS
  LockDiscipline
  AwaitingIsReviewable
PROPERTIES
  ImplementsLifecycle
  CountersNeverDecrease
\* Once every further call is refused, the system stays as it is.
CHECK_DEADLOCK FALSE
