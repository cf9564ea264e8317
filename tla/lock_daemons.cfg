SPECIFICATION FairSpec
CONSTANTS
  Daemon = {d1, d2, d3}
  NoFile = NoFile
  NoPid = NoPid
  MaxCrashes = 2
CHECK_DEADLOCK FALSE
INVARIANTS
  TwoRuntimesOnlyByTheft
  SerialisedIsSafe
PROPERTIES
  StaleLockIsReplaced
