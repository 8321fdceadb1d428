SPECIFICATION Spec
CONSTANTS
    Machines = {m1}
    Tokens = {t1, t2}
    Attempts = {a1, a2}
    None = None
    MaxSeq = 3
    MaxStops = 1
SYMMETRY Symmetry
CHECK_DEADLOCK FALSE
INVARIANTS
    TypeOK
    OneActivePerMachine
    ActiveConfigWorks
    Recovers
PROPERTIES
    IdentityKept
