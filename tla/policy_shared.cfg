SPECIFICATION PolicySpec
CONSTANTS
  r1 = r1
  r2 = r2
  v0 = v0
  v1 = v1
  Rules <- MCRules
  Settings <- MCSettings
  Initial = v0
  Writers = {w1, w2}
  MaxCrashes = 2
  MaxFailures = 1
CHECK_DEADLOCK FALSE
  
CONSTANTS
  w1 = w1
  w2 = w2
INVARIANTS
  ReadableKeepsAll
  UnreadableHasACause
