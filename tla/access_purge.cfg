SPECIFICATION FairSpec
CONSTANTS
    Keys = {k1}
    Handlers = {h1}
    Conns = {c1, c2}
    NoConn = NoConn
    SendCap = 1
    MaxOps = 2
    MaxAccepts = 1
    MaxFaults = 1
CHECK_DEADLOCK FALSE
PROPERTY RevokedHostPurged
