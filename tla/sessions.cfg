SPECIFICATION Spec
CONSTANTS
    Requests = {p1, p2}
    Resets = {r1}
    MaxFailures = 3
    MaxSessions = 1
    MaxTokens = 3
    MaxWrites = 1
    MaxErrors = 1
SYMMETRY Symmetry
CHECK_DEADLOCK FALSE
INVARIANTS
    EndedStayEnded
    LocksOut
    SpentIsDead
