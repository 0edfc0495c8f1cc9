SPECIFICATION Spec
CONSTANTS
    CPU = {c1, c2}
    MaxNest = 2
    c1 = c1
    c2 = c2
INVARIANT RflagsRestored
