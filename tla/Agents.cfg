\* Two handlers at once: two knocks of one peer and the decisions on them; two
\* agents of one owner that share a tool; three updates of the chat settings, two
\* of which may overlap; two polls.  Two rows, or two subjects, of which a page
\* shows one while the user goes to the other; two servers saved from the form.
SPECIFICATION AgentsSpec
CONSTANTS
    Handlers = {h1, h2}
    Peers = {p1}
    MaxKnocks = 2
    MaxGrants = 2
    MaxTrustFaults = 1
    Agents = {a1, a2}
    AgentTools = {t1}
    MaxRemovals = 1
    MaxHostedFaults = 1
    MaxListingFaults = 1
    MaxChatUpdates = 3
    MaxChatFaults = 1
    Polls = {q1, q2}
    Tenants = {a1, a2}
    Rows = {a1, a2}
    Clicks = {h1, h2}
    MaxSwitches = 1
    MaxPresses = 2
    MaxUpsets = 1
    Subjects = {a1, a2}
    Presses = {h1, h2}
    MaxMoves = 1
    MaxTyped = 2
    MaxEditFaults = 1
    MaxServers = 2
    MaxApps = 2
    MaxSubmits = 2
    MaxFormEvents = 1
    MaxFormFaults = 1
SYMMETRY Symmetric
INVARIANTS
    ListingRules ChatRules StreamRules 

       
