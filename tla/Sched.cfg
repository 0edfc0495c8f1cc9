SPECIFICATION Spec
CONSTANTS
    CpuCount = 2
    MaxThreadCount = 5
INVARIANTS
    TypeOK
    PlacesExclusive
    Balanced
    CpuReady
    OwnCpu
PROPERTY EveryThreadStarts
CHECK_DEADLOCK FALSE
