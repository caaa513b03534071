CONSTANTS
    Admins = {a1}
    Values = {"true", "false"}
    Tables = {"rows", "other rows"}
    NoTable = "none"
    Default <- MCDefault
    Requests <- AddressRequests
    MaxVersion = 5
    WritesFail = FALSE
    SavesInTurn = TRUE
SPECIFICATION ReloadSpec
INVARIANT ListensWhereConfigured
