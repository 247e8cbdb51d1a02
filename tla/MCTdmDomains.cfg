CONSTANTS
    LegCount = 3
    Domains = {0, 1}
    Frames = {"pulse", "fifty"}
    Fifty = {"fifty"}
    SeedDomain = 0
    Tables <- MCTables
    Longer = {3}
SPECIFICATION Spec
INVARIANTS AtRest InStep HalvesAgree ClcOwned PrioritiesInForce
PROPERTIES CallsAreAtomic Undisturbed
