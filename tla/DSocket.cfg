SPECIFICATION Spec
CONSTANTS
    CPU = {c1, c2}
    MaxSockets = 4
    MaxConn = 2
    BufSize = 3
    MaxFds = 2
    Limits = {1, 2}
    MaxBytes = 3
    c1 = c1
    c2 = c2
SYMMETRY Symmetric
VIEW View
INVARIANTS
    ConnectionsReady
    StreamsOrdered
    SocketsListed
CHECK_DEADLOCK FALSE
