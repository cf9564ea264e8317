SPECIFICATION Spec
CONSTANTS
  g = g
  Goal = {g}
  About <- AboutStorage
  Observation <- Observations
  Starts <- Beginnings
  Capacity = 1
  Window = 1
  Keep = 3
  MaxChanges = 1
CHECK_DEADLOCK FALSE
INVARIANTS
  ListsHold

  
  
