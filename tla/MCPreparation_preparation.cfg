CONSTANTS
  Path <- TwoPaths
  Blob = {"same", "other"}
  Gitlink = "gitlink"
  BaseTree <- FewTrees
  Loose = {"old", "new", "bad"}
  Malformed = {"bad"}
  Baselined = {"old"}
  None = None
  MaxChanges = 2
  MaxFaults = 1
  MaxCalls = 3
SPECIFICATION Spec
INVARIANTS
  AuthorityWasReal
  RunsAgree
  GitIsAccounted
  SetupIsNotCharged
CHECK_DEADLOCK FALSE
