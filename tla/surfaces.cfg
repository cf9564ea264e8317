SPECIFICATION Spec
CONSTANTS
  Exec = {1, 2, 3, 4, 5, 6}
  Launcher = {4, 5, 6}
  InstallOf <- MCInstallOf
  Home = "home"
  NoGui = 0
  Call = {1, 2}
  Kernel = {"scheduler"}
  Periodic = {"pulse"}
  OneShot = {"report"}
  Stranger = {"ghost"}
  View = {"goals"}
  NoArg = "none"
  BadArg = "malformed"
  MaxDeaths = 1
  Requested = {"deployment", "present", "service-start"}
  Granted <- Baseline
  MaxStarts = 2
  Status = {12}
  Asked <- MCAsked
CHECK_DEADLOCK FALSE
INVARIANTS
  DocumentsAreHonest
  AnswerIsOwn
  LaunchIsHonest

  
