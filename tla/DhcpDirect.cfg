CONSTANTS
    m1 = m1
    m2 = m2
    h1 = h1
    h2 = h2
    Macs = {m1, m2}
    Handlers = {h1}
    MaxAddr = 15
    LocalIPs <- MCLocalIPs
    Configs <- MCConfigs
    Packets <- DirectPackets
SPECIFICATION Spec
PROPERTY DirectBroadcastMatched
