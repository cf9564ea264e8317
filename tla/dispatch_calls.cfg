SPECIFICATION FairSpec
CONSTANTS
  read = read
  delete = delete
  bogus = bogus
  install = install
  home = home
  NoScope = NoScope
  Action <- MCAction
  Scope <- MCScope
  Provided <- MCProvided
  PolicyRules <- MCRules
  Sensitive <- MCSensitive
  ElevationAllow = {install}
  MaxCalls = 2
  MaxFaults = 1
  MaxUnwinds = 1
  JobsMayOutlast = TRUE
CHECK_DEADLOCK FALSE
INVARIANTS
  DenyHonoured
  
  NoUseAfterClose

  
