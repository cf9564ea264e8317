SPECIFICATION Spec
CONSTANTS
  BaseDirs <- MCBaseDirs
  Alias <- MCAlias
  OddNames = {"a::b"}
  DpkgDirs <- MCDpkgDirs
  BaseFiles <- MCBase
  LayerFiles <- MCLayer
  Seeds <- MCSeeds
  Requests <- MCRequests
  Mirror <- MCMirror
  Payload <- MCPayload
  Required <- MCRequired
  Probes <- MCProbes
  DataProbes <- MCDataProbes
  DirProbes <- MCDirProbes
  Wanted = {"base"}
  Launcher <- launch
  Headers <- MCHeaders
  Versioned = {"ld-2.36.so"}
  MaxRuns = 2
CHECK_DEADLOCK FALSE
INVARIANTS
  PlainVersionsMeetDebian
  ClosureIsClosed
  
  PassedMeansUsable
  SumsAreTrue
