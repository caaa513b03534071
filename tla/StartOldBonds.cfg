CONSTANTS
    c1 = c1
    c2 = c2
    k1 = k1
    k2 = k2
    o1 = o1
    o2 = o2
    TableCount = 2
    Columns = {c1, c2}
    BondColumns = TRUE
    ConfigKeys = {k1, k2}
    LegacyKeys = {o1, o2}
    MaxId = 3
SPECIFICATION Spec
PROPERTY
    StartEnds
