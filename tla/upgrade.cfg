SPECIFICATION UpgradeSpec
CONSTANTS
    Versions = {v1, v2, v3}
    First = v1
    Sane = {v1, v2}
    Requests = {p1, p2}
    None = None
    Torn = Torn
    ChanCap = 2
    MaxOps = 3
    MaxDrops = 1
    MaxCrashes = 1
    MaxFails = 1
CHECK_DEADLOCK FALSE
INVARIANTS
    UpgradeTypeOK
    InstalledWorks
    StagedIsDescribed
    ReconnectDelivers
    PrevKept
PROPERTIES
    Converges
