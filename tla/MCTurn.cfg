SPECIFICATION FairSpec
CONSTANTS
  PromptControl = TRUE
  Backoff = 1
  MaxEvents = 1
INVARIANTS TypeOK AtMostOneLate RestIsWatched
PROPERTIES TurnAnswered BlockLifted
CHECK_DEADLOCK FALSE
