CONSTANTS
    Length = 2
    Modulus = 4
    PrintsDuringTick = FALSE
    MaxCaptures <- MCCaptures
    MaxRestarts = 2
SPECIFICATION PQSpec
INVARIANTS FedInOrder FedIsMeasured
PROPERTIES PeriodsAreQueues
CHECK_DEADLOCK FALSE
