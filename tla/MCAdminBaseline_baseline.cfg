SPECIFICATION Spec
CHECK_DEADLOCK FALSE
CONSTANTS
  None = None
  w1 = w1
  w2 = w2
  Writer <- TwoWriters
  Reader = { r1 }
  Starts = { "nothing", "link", "baseline" }
  MaxMeddling = 1
SYMMETRY Interchangeable
INVARIANTS
  OneSuccessorEach
  BaselineStands
PROPERTIES
  PlantedIsNeverReplaced
  LoadedAsItStands
