CONSTANTS
    Macs = {m1, m2}
    Handlers = {1}
    MaxAddr = 15
    LocalIPs <- MCLocalIPs
    Configs <- MCConfigs
    Packets <- MCPackets
    OneAtATime = FALSE
SPECIFICATION ClientSpec
INVARIANT
    LeaseUnique
