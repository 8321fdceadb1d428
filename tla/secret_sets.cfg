SPECIFICATION Spec
CONSTANTS
    Sets = {s1,s2}
    Names = {n1,n2}
    Keys = {k1}
    Vals = {v1}
    Hosts = {h1}
    NoVal = NoVal
    Unborn = Unborn
    Deleted = Deleted
    Requests = {p1}
    ExecHosts = {h1}
    ChanCap = 1
    MaxOps = 2
    MaxEvents = 2
SYMMETRY Symmetry
CHECK_DEADLOCK FALSE
INVARIANTS
    SetsAreWhole
    NamesApart
    Reconciled
