\* The upstream rejects the connect of the forced attempt.
SPECIFICATION ToolScenesSpec
CONSTANTS
    p1 = p1
    p2 = p2
    c1 = c1
    c2 = c2
    c3 = c3
    ProcOf <- MCProcOf
    Procs = {p1, p2}
    Callers = {c1, c2, c3}
    NoCaller = NoCaller
    NoRow = NoRow
    InitKinds = {"refreshable"}
    InitLives = {"near"}
    ConnectKinds = {"refreshable"}
    MintLives = {"fresh"}
    Rotations = {TRUE}
    MaxMint = 2
    MaxGrants = 1
    MaxRows = 1
    MaxFaults = 0
    Routes = {"mcp", "http"}
PROPERTIES RejectionReported
