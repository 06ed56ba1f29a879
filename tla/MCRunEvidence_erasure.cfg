SPECIFICATION Spec
CONSTANTS
  Path <- FewPaths
  Allowed <- OnlyAllowed
  Forbidden <- OnlyForbidden
  Object = {"absent", "text", "directory"}
  Absent = "absent"
  Directory = "directory"
  Opaque = {}
  FirstTree <- FilesThere
  MaxRuns = 3
  MaxEdits = 2
  Validates = TRUE
CHECK_DEADLOCK FALSE
INVARIANT ViolationsPersist
