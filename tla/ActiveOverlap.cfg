CONSTANTS
    builtin = builtin
    t1 = t1
    t2 = t2
    ip1 = ip1
    ip2 = ip2
    w1 = w1
    w2 = w2
    Kinds = {"ks", "ipxe", "deploy"}
    Admins = {w1, w2}
    Contents = {t1, t2}
    BuiltIn = builtin
    IPs = {ip1, ip2}
    MaxId = 2
    Faults = FALSE
SPECIFICATION StoreSpec
INVARIANTS
    OneInForce
