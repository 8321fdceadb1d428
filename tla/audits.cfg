SPECIFICATION AuditSpec
CONSTANTS
    u1 = u1
    u2 = u2
    u3 = u3
    s1 = s1
    h1 = h1
    g1 = g1
    Users = {u1, u2, u3}
    Admins = {u1, u3}
    Secrets = {s1}
    Sets = {}
    Hosts = {h1}
    Groups = {g1}
    Global = Global
    Host = h1
    Secret = s1
    Email <- Order
    Wanted <- RequestsOf
    MaxGrants = 3
    Limit = 1
    Times = {1, 2}
    MaxLogs = 4
CHECK_DEADLOCK FALSE
INVARIANTS
    WalkedOnce
    PathsTogether
    KeptPathListed
    ScrolledOnce
