\* One tool, since tools are judged independently, and two roles that grant or
\* deny it; two changes to the tables while the request reads them.  Two
\* requests to the authorization server at a time, two connections rows, four
\* codes and token rows in all, and one fault, beside which there is one code:
\* every pair of consent, code exchange and refresh overlaps, also across a
\* deletion of the connection.  Two clients rows, in two tenants or in one, one
\* edit, and three answers, enough for a page, its code and the token.
SPECIFICATION GatewaySpec
CONSTANTS
    Tools = {t1}
    Roles = {r1, r2}
    NotActive = {"disabled"}
    MaxChanges = 2
    Handlers = {h1, h2}
    MaxConns = 2
    MaxCodes = 2
    MaxTokens = 3
    MaxFaults = 1
    Tenants = {r1, r2}
    RedirectUris = {u}
    ClientNames = {r1, r2}
    MaxRows = 2
    MaxEdits = 1
    MaxServed = 3
SYMMETRY Symmetric
INVARIANTS
    StandingCauseBlocks RefusedForACause ApiAgrees
PROPERTIES
    SessionRules RegistrationRules
