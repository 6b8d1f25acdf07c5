SPECIFICATION FairSpec
CONSTANTS
  QueueCap = 2
  MaxSaid = 3
  MaxProlong = 3
INVARIANTS TypeOK ExactlyOnce
PROPERTIES TurnEnds Released
CHECK_DEADLOCK FALSE
