SPECIFICATION WatchdogSpec
CONSTANTS
  Comps <- MCComps
  MaxRequests = 1
  BootstrapCap = 12
  Expire = TRUE
INVARIANTS TypeOK AuthGate OrderlyTeardown MediaMatchesMode
PROPERTIES KeepsContract DisconnectEnds ConnectEnds
CHECK_DEADLOCK FALSE
