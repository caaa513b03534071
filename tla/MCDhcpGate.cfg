CONSTANTS
    m1 = m1
    m2 = m2
    h1 = h1
    h2 = h2
    Macs = {m1, m2}
    Handlers = {h1, h2}
    MaxAddr = 15
    LocalIPs <- MCLocalIPs
    Configs <- MCConfigs
    Packets <- MCPackets
    g1 = g1
    g2 = g2
    c1 = c1
    c2 = c2
    pxe = pxe
    api = api
    GateRequests = {g1, g2}
    Clients = {c1, c2}
    Routes = {pxe, api}
    Rate <- MCRate
    Window = 2
    Delay = 1
    MaxTime = 6
    MaxVisits = 4
SYMMETRY MCSymmetry
SPECIFICATION MCSpec
INVARIANTS
    TypeOK
    LeaseInEnabledPool
    ReplyFromOwnPool
    GateTypeOK
    RateKept
    RefusedBusy
