SPECIFICATION Spec
CONSTANTS
  MaxInputs = 2
  MaxCalls = 2
INVARIANTS TypeOK HistoryIntegrity BlockOnce
CHECK_DEADLOCK FALSE
