SPECIFICATION FairSpec
CONSTANTS
  Blocks = 5
  Wrap = 4
  EotNumber = 3
  CanNumber = 2
  Tries = 3
  MaxErrors = 2
  HostRetries = 1
  MaxFaults = 3
  LineMax = 3
INVARIANTS
  InOrder
PROPERTIES
  Completes
CHECK_DEADLOCK FALSE
