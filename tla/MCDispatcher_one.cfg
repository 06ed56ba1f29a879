\* One dispatcher process, two concurrent calls on two tasks, no faults.
CONSTANTS
  p1 = p1
  p2 = p2
  c1 = c1
  c2 = c2
  r1 = r1
  None = None
  Process = {p1}
  Call = {c1, c2}
  Task = {t1, t2}
  Repository = {r1}
  ProcessOf <- OneProcess
  RepositoryOf <- OneRepository
  MaxResumeCount = 1
  MaxRuns = 3
  Faults = {}
SPECIFICATION Spec
INVARIANTS
  TypeOK
  RunLogIsContiguous
  RunningIsOwned
PROPERTIES
  RunRecordsAreWriteOnce
  ReturnsActionable
  RefusalLeavesRecord
\* Once every further call is refused, the system stays as it is.
CHECK_DEADLOCK FALSE
