\* Two processes refresh one credential: the user replaces it, or the
\* infrastructure fails.
SPECIFICATION ScenesSpec
CONSTANTS
    p1 = p1
    p2 = p2
    c1 = c1
    c2 = c2
    c3 = c3
    ProcOf <- MCProcOf
    Procs = {p1, p2}
    Callers = {c1, c3}
    NoCaller = NoCaller
    NoRow = NoRow
    InitKinds = {"refreshable", "client_credentials", "access_token"}
    InitLives = {"fresh", "near", "expired"}
    ConnectKinds = {"refreshable", "access_token"}
    MintLives = {"fresh"}
    Rotations = {TRUE}
    MaxMint = 3
    MaxGrants = 2
    MaxRows = 2
    MaxFaults = 1
SYMMETRY Symmetric
INVARIANTS
    ExclusiveSpend
PROPERTIES
    NoLostWrite ReauthMeansDeadGrant StoredBeforeReturned NeverSpendsRetired
    ImplementsStoredCredential
