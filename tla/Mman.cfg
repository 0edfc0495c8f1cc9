SPECIFICATION Spec
CONSTANTS
    Page = 16
    Big = 48
    Pages = {1, 2, 3, 4, 5}
    MainSize = 16
    LargeSize = 20
    Buckets = 2
    Client = {c1, c2}
    Sizes = {16, 96, 192, 224, 400}
    Aligns = {24, 128}
    MaxResizes = 1
    c1 = c1
    c2 = c2
CONSTANT Limits <- MCLimits
SYMMETRY Symmetric
INVARIANTS
    NoStrayPointer
    AreasTiled
    ListsExact
    ClientsBacked
    CountsExact
    NothingKept
CHECK_DEADLOCK FALSE
