-------------------------- MODULE ClientRegistration --------------------------
(***************************************************************************)
(* How the gateway's authorization server knows its clients                *)
(* (apps/api/src/features/mcpOauth): a client registers itself (DCR), or   *)
(* its client_id is the URL of a metadata document (CIMD) that is fetched  *)
(* and stored again by every request that names it.  What follows once the *)
(* client is known, codes and tokens, is in McpSession.                    *)
(*                                                                         *)
(* A DCR client_id is random, hence names one row: the id of that row      *)
(* stands for it here.  A client an administrator makes registers no       *)
(* redirect URI: its requests are refused, and all it does here is take a  *)
(* name, as a DCR client does.                                             *)
(***************************************************************************)
EXTENDS ApiHandlers

CONSTANTS
    Tenants,
    RedirectUris,   \* those clients ask for; what else is registered is left out
    ClientNames,
    MaxRows,        \* bound: clients rows ever inserted
    MaxEdits,       \* bound: changes of the document, clients deleted
    MaxServed       \* bound: pages, codes and tokens ever given

ASSUME RegistrationAssumption ==
    /\ Tenants # {}
    /\ {MaxRows, MaxEdits, MaxServed} \subseteq Nat

CimdUrl == 0            \* the one CIMD client_id; other client_ids are row ids
NoSlug  == "no slug"
Multi   == "multi"
NoDoc   == [name |-> "none", uris |-> {}]   \* unreachable or invalid
NoId    == 0

Documents == {NoDoc} \cup [name : ClientNames, uris : SUBSET RedirectUris]

VARIABLES
    tenancy,        \* Multi, or the one tenant there is
    published,      \* the document at the URL
    clientRows,     \* clients
    rowsEver,       \* rows inserted so far
    edits,
    page,           \* the consent page last shown
    granted,        \* the code last granted
    served,         \* pages, codes and tokens given so far
    lookup          \* what each handler is doing

regTables == <<published, clientRows, rowsEver, edits>>
regOutcome == <<page, granted, served>>
regVars == <<tenancy, regTables, regOutcome, lookup>>

Ids == 1..MaxRows
ClientId == {CimdUrl} \cup Ids
Slugs == Tenants \cup {NoSlug}

RegRow == [id : Ids, tenant : Tenants, oauth : ClientId, name : ClientNames,
           uris : SUBSET RedirectUris]

\* Edits and rows inserted: what may spoil a request that was fine before.
Changes == edits + rowsEver

\* A page or a code: what was asked, for which row, and what had changed by then.
Standing == [client : ClientId, slug : Slugs, uri : RedirectUris, row : Ids,
             since : 0..MaxEdits + MaxRows]
NoAnswer == [row |-> NoId]

\* asked: the page or code that is presented; row: the row it selected.
NoLookup == [op |-> "idle", at |-> "idle", asked |-> NoAnswer, doc |-> NoDoc,
             row |-> NoId]

RegTypeOK ==
    /\ tenancy \in Tenants \cup {Multi}
    /\ published \in Documents
    /\ clientRows \subseteq RegRow
    /\ rowsEver \in 0..MaxRows
    /\ edits \in 0..MaxEdits
    /\ page \in Standing \cup {NoAnswer}
    /\ served \in 0..MaxServed
    /\ granted \in Standing \cup {NoAnswer}
    /\ \A h \in Handlers :
          /\ lookup[h].op \in {"idle", "authorize", "consent", "token"}
          /\ lookup[h].at \in {"idle", "fetch", "select", "update", "insert",
                               "find", "grant"}
          /\ lookup[h].at # "idle" => lookup[h].asked # NoAnswer
          /\ lookup[h].at = "update" => lookup[h].row # NoId
    /\ \A r, s \in clientRows :      \* the unique indices
          r.tenant = s.tenant /\ (r.oauth = s.oauth \/ r.name = s.name) => r = s

RegInit ==
    /\ tenancy \in Tenants \cup {Multi}
    /\ published \in Documents
    /\ clientRows = {}
    /\ rowsEver = 0
    /\ edits = 0
    /\ page = NoAnswer
    /\ served = 0
    /\ granted = NoAnswer
    /\ lookup = [h \in Handlers |-> NoLookup]

-----------------------------------------------------------------------------
\* resolveTenantId: with a single tenant the slug is not looked at.
TenantOf(slug) ==
    IF tenancy = Multi THEN {slug} \cap Tenants ELSE {tenancy}

At(h, place) == lookup[h].at = place

Goes(h, place) == lookup' = [lookup EXCEPT ![h].at = place]

Ends(h) == lookup' = [lookup EXCEPT ![h] = NoLookup]

Serves(h) == Ends(h) /\ served' = served + 1

Refuse(h) == Ends(h) /\ UNCHANGED <<tenancy, regTables, regOutcome>>

Busy == {h \in Handlers : lookup[h] # NoLookup}

\* A request that names a client: a URL is fetched, another id is looked up.
\* Without a tenant a URL goes nowhere.
Begin(h, op, asked) ==
    /\ lookup[h] = NoLookup
    /\ served + Cardinality(Busy) < MaxServed
    /\ lookup' = [lookup EXCEPT ![h] =
          [NoLookup EXCEPT !.op = op, !.asked = asked,
              !.at = IF asked.client = CimdUrl THEN "fetch" ELSE "find"]]
    /\ UNCHANGED <<tenancy, regTables, served>>

\* The slug is looked at only where the client_id is a URL.
StartAuthorize(h, c, slug, uri) ==
    /\ c # CimdUrl => slug = NoSlug
    /\ UNCHANGED <<page, granted>>
    /\ Begin(h, "authorize", [client |-> c, slug |-> slug, uri |-> uri,
                              row |-> NoId, since |-> Changes])

\* Mutant: the form leaves out the tenant.
PageWithoutTenant == [page EXCEPT !.slug = NoSlug]

\* The form carries all that was asked for.
PageForm == page

SubmitConsent(h) ==
    /\ page # NoAnswer
    /\ page' = NoAnswer
    /\ Begin(h, "consent", PageForm)
    /\ UNCHANGED granted

\* An exchange of the code, or later of a refresh token of its session, by a
\* client that names itself and the tenant as it did before.
StartToken(h) ==
    /\ granted # NoAnswer
    /\ granted' = NoAnswer
    /\ Begin(h, "token", granted)
    /\ UNCHANGED page

-----------------------------------------------------------------------------
(* resolveCimdClient.                                                       *)

FetchDocument(h) ==
    /\ At(h, "fetch")
    /\ IF published = NoDoc \/ TenantOf(lookup[h].asked.slug) = {} THEN Refuse(h)
       ELSE /\ lookup' = [lookup EXCEPT ![h].at = "select", ![h].doc = published]
            /\ UNCHANGED <<tenancy, regTables, regOutcome>>

RowsOf(h) ==
    {r \in clientRows : /\ r.oauth = CimdUrl
                        /\ r.tenant \in TenantOf(lookup[h].asked.slug)}

SelectFrom(h, found) ==
    /\ At(h, "select")
    /\ IF found = {} THEN Goes(h, "insert")
       ELSE \E r \in found :
               lookup' = [lookup EXCEPT ![h].at = "update", ![h].row = r.id]
    /\ UNCHANGED <<tenancy, regTables, regOutcome>>

SelectClient(h) == SelectFrom(h, RowsOf(h))

\* validateAuthorizeRequest, of the row that was resolved, and what the three
\* endpoints then do with it.
Accepts(h, r) == lookup[h].asked.uri \in r.uris

\* Whoever just inserted its row has not disturbed itself.
Given(h, id) ==
    [lookup[h].asked EXCEPT !.row = id, !.since = @ + IF At(h, "insert") THEN 1 ELSE 0]

Resolved(h, r) ==
    \/ /\ lookup[h].op # "token" /\ ~Accepts(h, r)
       /\ Ends(h) /\ UNCHANGED regOutcome
    \/ /\ lookup[h].op = "authorize" /\ Accepts(h, r)
       /\ page' = Given(h, r.id)
       /\ Serves(h) /\ UNCHANGED granted
    \/ /\ lookup[h].op = "consent" /\ Accepts(h, r)
       /\ lookup' = [lookup EXCEPT ![h].at = "grant", ![h].row = r.id,
                                  ![h].asked.since = Given(h, r.id).since,
                                  ![h].doc = NoDoc]
       /\ UNCHANGED regOutcome
    \/ /\ lookup[h].op = "token" /\ r.id # lookup[h].asked.row
       /\ Ends(h) /\ UNCHANGED regOutcome
    \/ /\ lookup[h].op = "token" /\ r.id = lookup[h].asked.row
       /\ Serves(h) /\ UNCHANGED <<page, granted>>

NameTaken(tenant, name, id) ==
    \E r \in clientRows : r.tenant = tenant /\ r.name = name /\ r.id # id

\* The row takes what the document said when it was fetched.  A name another
\* client of the tenant has makes the statement throw.
UpdateClient(h) ==
    /\ At(h, "update")
    /\ \/ /\ \A r \in clientRows : r.id = lookup[h].row
                => NameTaken(r.tenant, lookup[h].doc.name, r.id)
          /\ Refuse(h)
       \/ \E r \in clientRows :
             /\ r.id = lookup[h].row
             /\ ~NameTaken(r.tenant, lookup[h].doc.name, r.id)
             /\ UNCHANGED <<tenancy, published, rowsEver, edits>>
             /\ LET new == [r EXCEPT !.name = lookup[h].doc.name,
                                     !.uris = lookup[h].doc.uris]
                IN  clientRows' = (clientRows \ {r}) \cup {new} /\ Resolved(h, new)

NewRow(tenant, oauth, reg) ==
    [id |-> rowsEver + 1, tenant |-> tenant, oauth |-> oauth,
     name |-> reg.name, uris |-> reg.uris]

InsertRegistration(r) ==
    /\ rowsEver < MaxRows
    /\ clientRows' = clientRows \cup {r}
    /\ rowsEver' = rowsEver + 1

\* Of two first requests for the URL one loses, and is refused.
InsertClient(h) ==
    /\ At(h, "insert")
    /\ \E t \in TenantOf(lookup[h].asked.slug) :
          LET new == NewRow(t, CimdUrl, lookup[h].doc)
          IN  \/ /\ RowsOf(h) # {} \/ NameTaken(t, new.name, NoId)
                 /\ Refuse(h)
              \/ /\ RowsOf(h) = {}
                 /\ ~NameTaken(t, new.name, NoId)
                 /\ InsertRegistration(new)
                 /\ UNCHANGED <<tenancy, published, edits>>
                 /\ Resolved(h, new)

\* An id that is no URL is found in whatever tenant has it.
FindClient(h) ==
    /\ At(h, "find")
    /\ \/ /\ \A r \in clientRows : r.oauth # lookup[h].asked.client
          /\ Refuse(h)
       \/ /\ UNCHANGED <<tenancy, regTables>>
          /\ \E r \in clientRows :
                r.oauth = lookup[h].asked.client /\ Resolved(h, r)

\* createAuthorizationCode refers to the row: one that is gone refuses.
GrantCode(h) ==
    /\ At(h, "grant")
    /\ IF \E r \in clientRows : r.id = lookup[h].row
       THEN /\ granted' = Given(h, lookup[h].row)
            /\ Serves(h)
            /\ UNCHANGED <<tenancy, regTables, page>>
       ELSE Refuse(h)

-----------------------------------------------------------------------------
\* registerDcrClient: the name must be free, or the registration fails.
RegisterDcr(reg, slug) ==
    /\ \E t \in TenantOf(slug) :
          /\ ~NameTaken(t, reg.name, NoId)
          /\ InsertRegistration(NewRow(t, rowsEver + 1, reg))
    /\ UNCHANGED <<tenancy, published, edits, regOutcome, lookup>>

\* Codes and tokens go with their client.
DeleteRegistration(r) ==
    /\ edits < MaxEdits
    /\ edits' = edits + 1
    /\ clientRows' = clientRows \ {r}
    /\ granted' = IF granted.row = r.id THEN NoAnswer ELSE granted
    /\ UNCHANGED <<tenancy, published, rowsEver, page, served, lookup>>

\* The owner of the site changes the document, or the site does not answer.
Publish(d) ==
    /\ edits < MaxEdits
    /\ d # published
    /\ edits' = edits + 1
    /\ published' = d
    /\ UNCHANGED <<tenancy, clientRows, rowsEver, regOutcome, lookup>>

\* No request is being served, or the bound leaves no row for the ones that are.
Rests ==
    /\ \A h \in Busy : At(h, "insert") /\ rowsEver = MaxRows
    /\ UNCHANGED regVars

RegNext ==
    \/ \E h \in Handlers :
          \/ \E c \in {CimdUrl} \cup 1..rowsEver, s \in Slugs, u \in RedirectUris :
                StartAuthorize(h, c, s, u)
          \/ SubmitConsent(h) \/ StartToken(h)
          \/ FetchDocument(h) \/ SelectClient(h) \/ UpdateClient(h)
          \/ InsertClient(h) \/ FindClient(h) \/ GrantCode(h)
    \/ \E reg \in Documents \ {NoDoc}, s \in Slugs : RegisterDcr(reg, s)
    \/ \E r \in clientRows : DeleteRegistration(r)
    \/ \E d \in Documents : Publish(d)
    \/ Rests

RegSpec == RegInit /\ [][RegNext]_regVars

-----------------------------------------------------------------------------
\* The code goes to the client whose page the user saw, though the consent
\* resolves the client anew, unless that client is gone.
ConsentForShown ==
    [][\A h \in Handlers :
          At(h, "grant") /\ served' > served /\ ~At(h, "grant")'
          => \/ granted'.row = lookup[h].asked.row
             \/ \A r \in clientRows : r.id # lookup[h].asked.row]_regVars

\* What was possible a moment ago still is: the consent of a page that was
\* shown, and the exchange of a code that was granted, are refused only if the
\* document changed, a client was deleted, or another one was registered, since.
GrantedStaysGranted ==
    [][\A h \in Handlers :
          /\ lookup[h].op \in {"consent", "token"}
          /\ lookup'[h] = NoLookup
          /\ served' = served
          => lookup[h].asked.since < Changes]_regVars

-----------------------------------------------------------------------------
\* Of clients that are resolved anew by every request: ids and names stay
\* unique, a consent goes to the client that was shown, and what was granted
\* once is granted again while nothing changes.
RegistrationRules ==
    /\ []RegTypeOK
    /\ ConsentForShown
    /\ GrantedStaysGranted
=============================================================================
