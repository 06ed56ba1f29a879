SPECIFICATION Spec
CONSTANTS
  Path <- FewPaths
  Allowed <- OnlyAllowed
  Forbidden <- OnlyForbidden
  Object = {"absent", "text", "binary"}
  Absent = "absent"
  Directory = "directory"
  Opaque = {"binary"}
  FirstTree <- NothingThere
  MaxRuns = 3
  MaxEdits = 2
  Validates = TRUE
CHECK_DEADLOCK FALSE
INVARIANTS
  ReviewShowsItsRun
  ViolationsPersist
PROPERTIES
  EscapesAreViolations
  ChargesAreEarned
  FrozenEvidenceHolds
  ImplementedIsEarned
