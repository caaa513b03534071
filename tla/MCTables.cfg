CONSTANTS
    r1 = r1
    r2 = r2
    a1 = a1
    p1 = p1
    p2 = p2
    q1 = q1
    q2 = q2
    n1 = n1
    n2 = n2
    v1 = v1
    v2 = v2
    m1 = m1
    m2 = m2
    m3 = m3
    HostRequests = {r1, r2}
    Addresses = {a1}
    NoAddress = NoAddress
    Passwords = {p1, p2}
    Keep = Keep
    Silent = {a1}
    MaxHosts = 2
    MaxFile = 2
    NodeRequests = {q1, q2}
    NodeAddresses = {n1, n2}
    Values = {v1, v2}
    Mixed = Mixed
    NoRow = NoRow
    MaxResources = 2
    MaxRows = 2
    Macs = {m1, m2, m3}
    Handlers = {1}
    MaxAddr = 15
    LocalIPs <- MCLocalIPs
    Configs <- MCConfigs
    Packets <- MCPackets
    OneAtATime = TRUE
    builtin = builtin
    t1 = t1
    t2 = t2
    ip1 = ip1
    ip2 = ip2
    w1 = w1
    w2 = w2
    Kinds = {"ks", "ipxe", "deploy"}
    Admins = {w1, w2}
    Contents = {t1, t2}
    BuiltIn = builtin
    IPs = {ip1, ip2}
    MaxId = 3
    Faults = TRUE
SYMMETRY MCSymmetry
SPECIFICATION MCSpec
INVARIANTS
    HostTypeOK
    UniqueIPMI
    PasswordEntered
    NodeTypeOK
    UniqueResource
    FileCurrent
    ClientTypeOK
    LeaseUnique
    HeldRecorded
    StoreTypeOK
    AtMostOneActive
    SomeActive
    FileFollowsActive
    DefaultIntact
PROPERTIES
    ImportReaches
    HostsKeepIds
    ResourcesKeepIds
    ImplementsLedger
