SPECIFICATION Spec
CONSTANTS
    u1 = u1
    a1 = a1
    s1 = s1
    g1 = g1
    h1 = h1
    t1 = t1
    Users = {u1, a1}
    Admins = {a1}
    Secrets = {s1}
    Sets = {t1}
    Hosts = {h1}
    Groups = {g1}
    Global = Global
    Asked <- MemberGrants
    SecretOps = {"reveal", "update", "delete"}
    Handlers = {p1, p2}
    NoRequest = NoRequest
    NoSecret = NoSecret
    MaxOps = 2
    MaxFaults = 1
SYMMETRY Symmetry
CHECK_DEADLOCK FALSE
INVARIANTS
    CreatorOwns
    ReadsLogged
    ListsAgree
    AuditSeesAll
