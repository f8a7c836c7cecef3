\* Two handlers at once.  Two access requests for one tool, or one and a
\* direct edit or a fault anywhere; three rows in a list of pages of one; every
\* shape of operation; two versions of an upstream.
SPECIFICATION CatalogSpec
CONSTANTS
    Handlers = {h1, h2}
    Tools = {t1}
    Requests = {r1, r2}
    NoRequest = NoRequest
    MaxUpsets = 1
    RowIds = {0, 1, 2}
    MaxTime = 2
    PerMilli = 2
    Limit = 1
    MaxDeletes = 1
    Keys = {k1, k2, body}
    WholeBody = body
    Documents <- MCDocuments
    MaxChanges = 1
    MaxReviews = 1
    MaxSyncFaults = 1
SYMMETRY Symmetric
INVARIANTS
    KeysetRules HttpRules
PROPERTIES
    AccessRules 
