\* One worker, or two validation commands, with a process left in the group.
CONSTANTS
  Member = {m1}
  MaxBytes <- FewBytes
  Cap = 1
  BufferLimit = 1
  Commands = 2
  Cancellable = TRUE
SPECIFICATION FairSpec
INVARIANTS
  ExcerptsAreHonest
  SpoolsKeepLines
  ResultSurvivesVolume
  JournalCoversRuns
  EndedCallsLeaveNoChild
PROPERTIES
  PassesAreEarned
  CallEnds
\* Calls end.
CHECK_DEADLOCK FALSE
