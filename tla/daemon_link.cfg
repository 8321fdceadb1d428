SPECIFICATION Spec
CONSTANTS
    Logins = {l1, l2}
    Reads = {r1}
    Pong = Pong
    LogCap = 1
    SendCap = 1
    MaxPings = 1
    MaxBreaks = 1
CHECK_DEADLOCK FALSE
INVARIANTS
    Accounted
PROPERTIES
    Reported
    Reconnects
