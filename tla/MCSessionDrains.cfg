SPECIFICATION HandlerSpec
CONSTANTS
  Comps <- MCDrainComps
  MaxRequests = 2
  BootstrapCap = 12
  Expire = FALSE
PROPERTIES DisconnectDrains SwitchSettles FailureEnds
CHECK_DEADLOCK FALSE
