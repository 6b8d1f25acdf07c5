SPECIFICATION Spec
CONSTANTS
  Instances = {a, b}
  LeaseTTL = 2
  MaxRetries = 1
  MaxDeployments = 1
  MaxFaults = 0
  MaxStops = 1
PROPERTY DeletesOwnLease
CHECK_DEADLOCK FALSE
