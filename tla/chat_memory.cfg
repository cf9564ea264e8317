SPECIFICATION Spec
CONSTANTS
  t1 = t1
  Goal = {1, 2}
  Target = {t1}
  Text <- SameText
  Capacity = 2
  Episodes = 1
  MaxWork = 2
  MaxTimeouts = 1
CHECK_DEADLOCK FALSE
INVARIANTS
  
  
  SharedFilesHold
PROPERTIES
  EveryMessageEnds
