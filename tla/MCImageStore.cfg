CONSTANTS
    n1 = n1
    n2 = n2
    x86 = x86
    arm = arm
    u1 = u1
    u2 = u2
    Names = {n1, n2}
    Archs = {x86, arm}
    Admins = {u1, u2}
    MaxId = 2
    Faults = TRUE
SYMMETRY AnyOrder
CONSTRAINT OneOfThem
SPECIFICATION Spec
INVARIANTS
    TypeOK
    OneRowPerName
    ListedIsUnpacked
    SomeDefault
PROPERTIES
    PathsKept
    IdsKeepNames
