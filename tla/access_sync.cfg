SPECIFICATION Spec
CONSTANTS
    Keys = {k1}
    Handlers = {h1, h2}
    Conns = {c1, c2}
    NoConn = NoConn
    SendCap = 1
    MaxOps = 2
    MaxAccepts = 2
    MaxFaults = 1
SYMMETRY Symmetry
CHECK_DEADLOCK FALSE
INVARIANTS
    TypeOK
    ConvergesToNewest
    ReconnectHeals
    AppliedAsSigned
    DiskBehindMemory
PROPERTIES
    ImplementsRegister
