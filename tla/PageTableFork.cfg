SPECIFICATION Spec
CONSTANTS
    Radix = 4
    Frames = 10
    Devices = {20}
    KernelPages = {129}
    SizeT = 3
    MaxClones = 1
PROPERTY ForkIsolated
CHECK_DEADLOCK FALSE
