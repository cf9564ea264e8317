SPECIFICATION FairSpec
CONSTANTS
  Event = {e1, e2}
  Handler = {h1, h2}
  Worker = {w1, w2}
  STOP = STOP
  NoEvent = NoEvent
  NoWorker = NoWorker
  MaxStarts = 2
  LongHandlers = TRUE
CHECK_DEADLOCK FALSE
INVARIANTS
  Delivery

  
