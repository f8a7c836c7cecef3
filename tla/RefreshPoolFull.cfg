\* As many refreshes in one process as its pool has connections.
SPECIFICATION FairSpec
CONSTANTS
    p1 = p1
    p2 = p2
    r1 = r1
    r2 = r2
    r3 = r3
    q1 = q1
    s1 = s1
    s2 = s2
    NoRefresh = NoRefresh
    Procs = {p1, p2}
    Refreshes = {r1, r2, r3}
    Queries = {q1}
    ProcOf <- MCProcOf
    Secrets = {s1, s2}
    SecretOf <- MCSecretOf
    PoolSize = 2
PROPERTIES RefreshCompletes
\* The process really does stop.
CHECK_DEADLOCK FALSE
