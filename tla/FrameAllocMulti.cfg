SPECIFICATION Spec
CONSTANTS
    W = 4
    PageSize = 8
    Frames = 48
    Counts = {2}
    CPU = {c1}
    MaxClashes = 0
    c1 = c1
CONSTANT Regions <- MCRegions
INVARIANT
    Exclusive
