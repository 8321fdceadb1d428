SPECIFICATION Spec
CONSTANTS
    Keys = {k1}
    Handlers = {h1}
    Conns = {c1}
    NoConn = NoConn
    SendCap = 2
    MaxOps = 1
    MaxAccepts = 1
    MaxFaults = 0
CHECK_DEADLOCK FALSE
INVARIANT RevokedStaysOut
