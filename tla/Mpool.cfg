SPECIFICATION Spec
CONSTANTS
    Base = 1024
    Size = 352
    Owner = {o1, o2, o3}
    Sizes = {40, 104}
    Aligns = {24, 64}
    SizeT = 512
    MaxResizes = 1
    o1 = o1
    o2 = o2
    o3 = o3
CONSTANT Limits <- MCLimits
SYMMETRY Symmetric
VIEW View
INVARIANTS
    TagsAgree
    FreeListsExact
    ClientsServed
    SearchComplete
    AllocedExact
    Coalesced
PROPERTY ImplementsBlockHeap
CHECK_DEADLOCK FALSE
