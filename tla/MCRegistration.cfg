SPECIFICATION Spec
CONSTANTS
  Instances = {a, b}
  LeaseTTL = 2
  MaxRetries = 1
  MaxDeployments = 1
  MaxFaults = 2
  MaxStops = 2
SYMMETRY Swaps
INVARIANTS TypeOK SoleHolder HolderOwns
CHECK_DEADLOCK FALSE
