\* A request that joins a forced refresh which then fails transiently.
SPECIFICATION ScenesSpec
CONSTANTS
    p1 = p1
    p2 = p2
    c1 = c1
    c2 = c2
    c3 = c3
    ProcOf <- MCProcOf
    Procs = {p1, p2}
    Callers = {c1, c2}
    NoCaller = NoCaller
    NoRow = NoRow
    InitKinds = {"refreshable"}
    InitLives = {"fresh", "near", "expired"}
    ConnectKinds = {"refreshable"}
    MintLives = {"fresh"}
    Rotations = {TRUE}
    MaxMint = 1
    MaxGrants = 1
    MaxRows = 1
    MaxFaults = 0
PROPERTIES TransientKeepsValidToken
