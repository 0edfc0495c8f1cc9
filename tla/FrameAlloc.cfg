SPECIFICATION Spec
CONSTANTS
    W = 4
    PageSize = 8
    Frames = 48
    Counts = {0, 1}
    CPU = {c1, c2}
    MaxClashes = 1
    c1 = c1
    c2 = c2
CONSTANT Regions <- MCRegions
SYMMETRY Symmetric
INVARIANTS
    Exclusive
    NoFrameLost
    FindRangeCorrect
    SetRangeExact
