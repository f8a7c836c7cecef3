\* Two handlers, processes or sessions at once, which share their model values
\* to keep the symmetry group small, with one change or fault anywhere.
SPECIFICATION UpstreamSpec
CONSTANTS
    Handlers = {h1, h2}
    MaxConnects = 2
    MaxEdits = 1
    Members = {m1, m2}
    Callers = {m1}
    MaxCredChanges = 1
    Procs = {h1, h2}
    MaxIds = 2
    MaxTokens = 2
    MaxUpheavals = 1
    Sessions = {h1, h2}
    MaxHubEvents = 2
    MaxLost = 1
SYMMETRY Symmetric
INVARIANTS
    HubRules DiscoveryRules
PROPERTIES
    ConnectRules CredentialRules 
