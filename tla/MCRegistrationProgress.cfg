SPECIFICATION FairSpec
CONSTANTS
  Instances = {a, b}
  LeaseTTL = 2
  MaxRetries = 1
  MaxDeployments = 1
  MaxFaults = 0
  MaxStops = 1
PROPERTIES TakeOver Removed
CHECK_DEADLOCK FALSE
