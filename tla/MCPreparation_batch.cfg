CONSTANTS
  Path <- TwoPaths
  Blob = {"same", "other"}
  Gitlink = "gitlink"
  BaseTree <- FewTrees
  Loose = {"old", "new", "bad"}
  Malformed = {"bad"}
  Baselined = {"old"}
  None = None
  MaxChanges = 0
  MaxFaults = 1
  MaxCalls = 1
SPECIFICATION Spec
PROPERTY
  AnsweredBatchIsAccepted
CHECK_DEADLOCK FALSE
