SPECIFICATION Spec
CONSTANTS
  PromptControl = TRUE
  Backoff = 1
  MaxEvents = 1
PROPERTY IdleSparesAnswer
CHECK_DEADLOCK FALSE
