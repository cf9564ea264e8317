SPECIFICATION SessionSpec
CONSTANTS
  a = a
  b = b
  NoFile = NoFile
  NoPid = NoPid
  NoReq = NoReq
  Daemon = {d1, d2}
  Req = {r1, r2}
  ShutdownReq = {r1, r2}
  Operator = {a, b}
  Script <- StopAndLaunch
  MaxCrashes = 1
  TimeoutsOn = TRUE
CHECK_DEADLOCK FALSE
CONSTANTS
  d1 = d1
  d2 = d2
  d3 = d3
  r1 = r1
  r2 = r2
INVARIANTS
  StopsAreHonest
