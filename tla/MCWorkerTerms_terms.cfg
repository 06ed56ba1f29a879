CONSTANTS
  Skill = {"core", "correcting"}
  Scope = {"rules", "server", "review"}
  Artifact = {"implement", "correct"}
  Place = {"server", "worktrees"}
  Fenced = {"worktrees"}
  Text = {"v1", "v2", "long"}
  Size <- Sizes
  Inert = {"v1", "v2", "long"}
  Clean = {"v1", "v2"}
  Deny = {"push", "gh"}
  AlwaysDenied = {"push"}
  Root = {"home", "away"}
  Spelling = {"link", "inside"}
  Canonical <- Names
  Stray = {"md"}
  Policies <- InstalledPolicies
  Broken <- BrokenChoices
  SkillManifests <- SkillChoices
  GuidanceManifests <- GuidanceChoices
  Profiles <- ProfileChoices
  Configs <- ConfigChoices
  Requests <- RequestChoices
  Timeouts = {3}
  Reserve = 1
  SkillCap = 4
  GuidanceCap = 2
  Ceiling = 7
  ToolCeiling = 3
  None = None
  Touched = {"core", "rules", "fable_policy"}
  Littered <- LitterChoices
  MaxEdits = 2
  MaxCalls = 3
SPECIFICATION Spec
INVARIANTS
  SealMatchesContext
  HorizonHolds
  InstructionsStand
CHECK_DEADLOCK FALSE
