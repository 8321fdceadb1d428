SPECIFICATION InviteSpec
CONSTANTS
    Invites = {i1, i2}
    Emails = {e1, e2}
    Accepts = {p1, p2, p3}
    None = None
    MaxLinks = 2
SYMMETRY Symmetry
CHECK_DEADLOCK FALSE
INVARIANTS
    AcceptedMadeOne
