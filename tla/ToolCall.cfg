\* Two calls, in two processes with one fault or in one with two kinds of server,
\* of a credential that expired or is about to and can be refreshed once.
SPECIFICATION ToolScenesSpec
CONSTANTS
    p1 = p1
    p2 = p2
    c1 = c1
    c2 = c2
    c3 = c3
    ProcOf <- MCProcOf
    Procs = {p1, p2}
    Callers = {c1, c2, c3}
    NoCaller = NoCaller
    NoRow = NoRow
    InitKinds = {"refreshable", "bare"}
    InitLives = {"expired", "near"}
    ConnectKinds = {"refreshable"}
    MintLives = {"near"}
    Rotations = {TRUE}
    MaxMint = 2
    MaxGrants = 1
    MaxRows = 1
    MaxFaults = 1
    Routes = {"mcp", "http"}
INVARIANTS ToolTypeOK
PROPERTIES ReconnectIsDeserved BearersMoveForward CallAnswered
