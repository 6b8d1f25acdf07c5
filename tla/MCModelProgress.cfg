SPECIFICATION FairSpec
CONSTANTS
  MaxInputs = 2
  MaxCalls = 1
PROPERTIES TurnConcluded ResolvedFlushed
CHECK_DEADLOCK FALSE
