SPECIFICATION FairChannel
CONSTANTS
  r1 = r1
  stop = stop
  NoReq = NoReq
  Req = {r1, stop}
  ShutdownReq = {stop}
  Daemon = {d1, d2, d3}
  MaxCrashes = 1
  TimeoutsOn = TRUE
CHECK_DEADLOCK FALSE
INVARIANTS
  RepeatedOnlyAfterCut
PROPERTIES
  RemoteCallSpec
  
