\* Two handlers at once, and one failed statement in each component: two users
\* who sign up, are invited and join; two rotations of a client; two updates of
\* the SSO settings across a rollout; three hits on a counter of limit one; three
\* releases of which the second's image never gets healthy.
SPECIFICATION DirectorySpec
CONSTANTS
    Handlers = {h1, h2}
    ApiRoles = {ra, rb}
    MaxRotations = 2
    MaxClientFaults = 1
    Users = {u1, u2}
    MaxOrgFaults = 1
    MaxRolls = 1
    MaxSsoUpdates = 2
    MaxSsoFaults = 1
    Hits = {h1, h2, h3}
    QuotaLimit = 1
    Window = 2
    MaxClock = 4
    Deploys = {d1, d2, d3}
    Works = {d1, d3}
    FirstImage = first
    MaxKills = 1
SYMMETRY Symmetric
INVARIANTS
    OrganizationRules SsoRules  
PROPERTIES
    ClientRules DeployRules
