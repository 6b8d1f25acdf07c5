SPECIFICATION FairSpec
CONSTANTS
  Producers = {p, q}
  Dispatcher = d
  Capacity = 2
  MaxSent = 4
  MaxFlushes = 1
INVARIANTS TypeOK InOrder QuietAfterPause NewestHeard
PROPERTIES PauseEnds PolicyApplied
CHECK_DEADLOCK FALSE
