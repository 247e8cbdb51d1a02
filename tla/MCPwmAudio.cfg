SPECIFICATION Spec
CONSTANTS
    FifoBlocks = 3
    PrimeBlocks = 2
    Half = 2
    Blocks = {b1}
    NoBlock = NoBlock
    MaxCommands = 2
    MaxBreaks = 1
INVARIANTS NeverDrivenFaulted RunningIsLive TornIsCaught
PROPERTIES ImplementsQueue TroubleStops
CHECK_DEADLOCK FALSE
