SPECIFICATION Spec
CONSTANTS
    Rows = 1
    RingLines = 1
    Values = {v, nan}
    NonFinite = {nan}
    MaxLines = 5
    MaxLines2 = 1
    MaxHurts = 1
INVARIANTS LoadUnheard BypassIsOwned HurtIsCaught
PROPERTIES StagingIsHeld UploadEnds
