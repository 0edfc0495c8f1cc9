SPECIFICATION Spec
CONSTANTS
    N = 18
    Requests = {1, 2, 5}
INVARIANTS
    TypeOK
    Tiling
PROPERTY OneLiveBlockAffected
