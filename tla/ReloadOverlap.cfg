CONSTANTS
    Admins = {a1, a2}
    Values = {"true", "false"}
    Tables = {"rows", "other rows"}
    NoTable = "none"
    Default <- MCDefault
    Requests <- MCRequests
    MaxVersion = 5
    WritesFail = FALSE
    SavesInTurn = FALSE
SPECIFICATION ReloadSpec
INVARIANT VersionTells
