SPECIFICATION Spec
CONSTANTS
    Rows = 1
    RingLines = 1
    Values = {v, nan}
    NonFinite = {nan}
    MaxLines = 3
    MaxLines2 = 0
    MaxHurts = 1
INVARIANT DrainIsFed
