SPECIFICATION Spec
CONSTANTS
    Users = {u1}
    Hosts = {h1, h2}
    Groups = {g1}
    Keys = {k1}
    NoUser = NoUser
    GrantIds = {i1, i2}
    NoGrant = NoGrant
    Handlers = {p1, p2}
    MaxOps = 3
    MaxFaults = 1
SYMMETRY Symmetry
CHECK_DEADLOCK FALSE
INVARIANTS
    TypeOK
    StaleIsAwaited
    PushedEverywhere
