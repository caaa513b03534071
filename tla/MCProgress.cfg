CONSTANTS
    c1 = c1
    c2 = c2
    k1 = k1
    k2 = k2
    o1 = o1
    o2 = o2
    TableCount = 2
    Columns = {c1, c2}
    BondColumns = FALSE
    ConfigKeys = {k1, k2}
    LegacyKeys = {o1, o2}
    MaxId = 3
    Admins = {adm}
    Values = {"true", "false"}
    Tables = {"rows", "other rows"}
    NoTable = "none"
    Default <- MCDefault
    Requests <- MCRequests
    MaxVersion = 5
    WritesFail = TRUE
    SavesInTurn = TRUE
    r1 = r1
    r2 = r2
    a1 = a1
    p1 = p1
    HostRequests = {r1, r2}
    Addresses = {a1}
    NoAddress = NoAddress
    Passwords = {p1}
    Keep = Keep
    Silent = {a1}
    MaxHosts = 2
    MaxFile = 1
SPECIFICATION MCSpec
INVARIANTS
    TypeOK
    OldRangeKept
    ReadyComplete
    ReloadTypeOK
    CacheCurrent
    VersionTells
PROPERTIES
    SavedKept
    StartEnds
    Converges
    HostRequestsEnd
