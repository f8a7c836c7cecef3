------------------------------ MODULE ServerForm ----------------------------
(***************************************************************************)
(* The dialog in which an administrator adds or edits a server             *)
(* (apps/web/src/pages/ServersPage.tsx).  One press of its button makes up *)
(* to four requests one after the other: a shared OAuth app, the server,   *)
(* its credential, the secret of its own OAuth client.  Any of them may    *)
(* fail, and the button is there to be pressed again.  In an edit, the     *)
(* secrets the server has are listed in the background, to know which to   *)
(* replace.                                                                *)
(***************************************************************************)
EXTENDS Integers, FiniteSets

CONSTANTS
    MaxServers,     \* bound on servers
    MaxApps,        \* bound on shared OAuth apps
    MaxSubmits,     \* bound on presses of the button
    MaxFormEvents,  \* bound on changes of the method in the form
    MaxFormFaults   \* bound on failed or lost requests and others' writes

ASSUME ServerFormAssumption ==
    /\ {MaxServers, MaxApps, MaxSubmits, MaxFormEvents, MaxFormFaults} \subseteq Nat
    /\ MaxServers # 0

Methods == {"api_key", "oauth"}
Kinds == Methods \cup {"client"}    \* "client": the secret of an OAuth client
Nothing == "nothing"
Ids == 1..MaxServers

VARIABLES
    mode,           \* "create" or "edit"; an edit is of server 1
    method,         \* authMethod, in the form
    choice,         \* oauthAppChoice: "own", "new" or "shared"
    selectable,     \* the shared app is among those the page has listed
    known,          \* the kind of the secret in existingSecretId, or Nothing
    knownClient,    \* existingOauthAppSecretId is set
    listed,         \* the secrets listed for the current method
    save,           \* onSubmit under way, with the fields of its render
    servers,        \* server -> its method in the database, or Nothing
    vault,          \* server and kind -> what the secret of that kind holds
    apps,           \* shared OAuth apps made so far
    linked,         \* servers that are linked to a shared app
    submits,        \* presses of the button so far
    events,         \* changes of the method so far
    failed,         \* requests that failed or whose answer was lost
    lost,           \* those of them that were carried out
    blind,          \* history: a save knew nothing of the secrets there are
    unlisted,       \* history: the shared apps could not be listed
    meddled         \* history: another administrator wrote a secret

formVars == <<mode, method, choice, selectable, known, knownClient, listed, save,
              servers, vault, apps, linked, submits, events, failed, lost, blind,
              unlisted, meddled>>

NoSave == [step |-> "idle", server |-> 0, method |-> Nothing, link |-> FALSE,
           chosen |-> "own", entered |-> {}, known |-> Nothing, knownClient |-> FALSE]

\* What the listing tells of the secrets of server 1.
Listed(m) == IF vault[<<1, m>>] # Nothing THEN m ELSE Nothing

-----------------------------------------------------------------------------
FormInit ==
    /\ mode \in {"create", "edit"}
    /\ method \in Methods
    /\ choice \in {"own", "new", "shared"}
    /\ choice = "new" => method = "oauth"
    /\ choice = "shared" => mode = "edit" /\ method = "oauth"
    /\ selectable \in BOOLEAN
    /\ ~selectable => choice = "shared"
    /\ known = Nothing
    /\ knownClient = FALSE
    /\ listed = IF mode = "edit" THEN "asked" ELSE "none"
    /\ save = NoSave
    /\ servers \in [Ids -> Methods \cup {Nothing}]
    /\ \A i \in Ids : servers[i] # Nothing <=> mode = "edit" /\ i = 1
    /\ vault \in [Ids \X Kinds -> Kinds \cup {Nothing}]
    /\ \A i \in Ids, k \in Kinds :
          vault[<<i, k>>] = Nothing \/ (vault[<<i, k>>] = k /\ servers[i] # Nothing)
    /\ apps = 0
    /\ linked = IF choice = "shared" THEN {1} ELSE {}
    /\ submits = 0
    /\ events = 0
    /\ failed = 0
    /\ lost = 0
    /\ blind = FALSE
    /\ unlisted = ~selectable
    /\ meddled = FALSE

\* setAuthMethod: the effect is cleaned up and lists again; what the former run
\* found stays until the new one has answered.
ChangeMethod ==
    /\ events < MaxFormEvents
    /\ events' = events + 1
    /\ method' \in Methods \ {method}
    /\ listed' = IF mode = "edit" THEN "asked" ELSE "none"
    /\ UNCHANGED <<mode, choice, selectable, known, knownClient, save, servers, vault,
                   apps, linked, submits, failed, lost, blind, unlisted, meddled>>

AnswerListing ==
    /\ listed = "asked"
    /\ listed' = "none"
    /\ known' = Listed(method)
    /\ knownClient' = (vault[<<1, "client">>] # Nothing)
    /\ UNCHANGED <<mode, method, choice, selectable, save, servers, vault, apps,
                   linked, submits, events, failed, lost, blind, unlisted, meddled>>

\* "edit still works without secret metadata"
FailListing ==
    /\ listed = "asked"
    /\ listed' = "failed"
    /\ UNCHANGED <<mode, method, choice, selectable, known, knownClient, save,
                   servers, vault, apps, linked, submits, events, failed, lost, blind,
                   unlisted, meddled>>

-----------------------------------------------------------------------------
\* The choice counts for oauth only.
Chosen == IF method = "oauth" THEN choice ELSE "own"

\* onSubmit: entered are the credentials the fields hold. A new api_key server
\* needs one, and so does a new shared app. A shared app that was not listed is
\* not found by its id, and the server is saved without it.
Submit(entered) ==
    /\ save.step = "idle"
    /\ submits < MaxSubmits
    /\ submits' = submits + 1
    /\ mode = "create" /\ method = "api_key" => "api_key" \in entered
    /\ Chosen = "new" => "client" \in entered
    /\ save' = [step |-> IF Chosen = "new" THEN "app" ELSE "server",
                server |-> IF mode = "edit" THEN 1 ELSE 0, method |-> method,
                link |-> Chosen = "new" \/ (Chosen = "shared" /\ selectable),
                chosen |-> Chosen, entered |-> entered,
                known |-> known, knownClient |-> knownClient]
    /\ blind' = (blind \/ listed # "none")
    /\ UNCHANGED <<mode, method, choice, selectable, known, knownClient, listed,
                   servers, vault, apps, linked, events, failed, lost, unlisted,
                   meddled>>

\* Mutant: one secret is stored, not both.
AfterServerEither(s) ==
    IF s.method = "oauth" /\ ~s.link /\ "client" \in s.entered THEN "client"
    ELSE IF s.method \in s.entered THEN "secret"
    ELSE "done"

\* The requests that are left after one of them.
AfterServer(s) ==
    IF s.method \in s.entered THEN "secret"
    ELSE IF s.method = "oauth" /\ ~s.link /\ "client" \in s.entered THEN "client"
    ELSE "done"

AfterSecret(s) ==
    IF s.method = "oauth" /\ ~s.link /\ "client" \in s.entered
    THEN "client" ELSE "done"

\* The app comes first, for the server to link to; the form selects it, so that
\* another press does not make another.
CreateApp ==
    /\ save.step = "app" /\ apps < MaxApps
    /\ apps' = apps + 1
    /\ choice' = "shared"
    /\ selectable' = FALSE
    /\ save' = [save EXCEPT !.step = "list"]
    /\ UNCHANGED <<mode, method, known, knownClient, listed, servers, vault, linked,
                   submits, events, failed, lost, blind, unlisted, meddled>>

ListApps ==
    /\ save.step = "list"
    /\ selectable' = TRUE
    /\ save' = [save EXCEPT !.step = "server"]
    /\ UNCHANGED <<mode, method, choice, known, knownClient, listed, servers, vault,
                   apps, linked, submits, events, failed, lost, blind, unlisted,
                   meddled>>

\* "the selector is simply empty" when the apps cannot be listed; where the
\* servers cannot, the press ends.
FailListApps ==
    /\ save.step = "list"
    /\ failed < MaxFormFaults
    /\ failed' = failed + 1
    /\ unlisted' = TRUE
    /\ save' \in {NoSave, [save EXCEPT !.step = "server"]}
    /\ UNCHANGED <<mode, method, choice, selectable, known, knownClient, listed,
                   servers, vault, apps, linked, submits, events, lost, blind, meddled>>

WriteServer(i) ==
    /\ IF save.server = 0 THEN servers[i] = Nothing ELSE i = save.server
    /\ servers' = [servers EXCEPT ![i] = save.method]
    /\ linked' = IF save.link THEN linked \cup {i} ELSE linked \ {i}

\* createServer or updateServer
SaveServer ==
    /\ save.step = "server"
    /\ \E i \in Ids :
          /\ WriteServer(i)
          /\ save' = [save EXCEPT !.server = i, !.step = AfterServer(save)]
    /\ UNCHANGED <<mode, method, choice, selectable, known, knownClient, listed,
                   vault, apps, submits, events, failed, lost, blind, unlisted,
                   meddled>>

\* updateSecret of the id, or createSecret without one: there is one secret of a
\* kind at a server.
CanStore(id, kind) ==
    IF id = Nothing THEN vault[<<save.server, kind>>] = Nothing
                    ELSE vault[<<save.server, id>>] # Nothing

\* An update replaces the value and leaves the kind.
Stored(id, kind) ==
    [vault EXCEPT ![<<save.server, IF id = Nothing THEN kind ELSE id>>] = kind]

\* The first credential, its id from the listing.
UpsertServerSecret ==
    /\ save.step = "secret"
    /\ CanStore(save.known, save.method)
    /\ vault' = Stored(save.known, save.method)
    /\ save' = [save EXCEPT !.step = AfterSecret(save)]
    /\ UNCHANGED <<mode, method, choice, selectable, known, knownClient, listed,
                   servers, apps, linked, submits, events, failed, lost, blind,
                   unlisted, meddled>>

\* The secret of the server's own OAuth client.
UpsertOauthAppSecret ==
    /\ save.step = "client"
    /\ LET id == IF save.knownClient THEN "client" ELSE Nothing IN
          /\ CanStore(id, "client")
          /\ vault' = Stored(id, "client")
    /\ save' = [save EXCEPT !.step = "done"]
    /\ UNCHANGED <<mode, method, choice, selectable, known, knownClient, listed,
                   servers, apps, linked, submits, events, failed, lost, blind,
                   unlisted, meddled>>

\* A secret is refused as a duplicate, or has been deleted meanwhile.
RefuseSecret ==
    /\ \/ save.step = "secret" /\ ~CanStore(save.known, save.method)
       \/ /\ save.step = "client"
          /\ ~CanStore(IF save.knownClient THEN "client" ELSE Nothing, "client")
    /\ save' = NoSave
    /\ failed' = failed + 1
    /\ UNCHANGED <<mode, method, choice, selectable, known, knownClient, listed,
                   servers, vault, apps, linked, submits, events, lost, blind,
                   unlisted, meddled>>

\* A request fails, or the app or the server is written and the answer lost.
LoseRequest ==
    /\ save.step \in {"app", "server", "secret", "client"}
    /\ failed < MaxFormFaults
    /\ failed' = failed + 1
    /\ save' = NoSave
    /\ \/ UNCHANGED <<apps, servers, linked, lost>>
       \/ /\ save.step = "app" /\ apps < MaxApps
          /\ apps' = apps + 1 /\ lost' = lost + 1
          /\ UNCHANGED <<servers, linked>>
       \/ /\ save.step = "server"
          /\ \E i \in Ids : WriteServer(i)
          /\ UNCHANGED <<apps, lost>>
    /\ UNCHANGED <<mode, method, choice, selectable, known, knownClient, listed,
                   vault, submits, events, blind, unlisted, meddled>>

\* Another administrator deletes or adds a secret.
Meddle(k) ==
    /\ ~meddled
    /\ meddled' = TRUE
    /\ servers[1] # Nothing
    /\ vault' = [vault EXCEPT ![<<1, k>>] = IF @ = Nothing THEN k ELSE Nothing]
    /\ UNCHANGED <<mode, method, choice, selectable, known, knownClient, listed, save,
                   servers, apps, linked, submits, events, failed, lost, blind,
                   unlisted>>

\* onDone closes the dialog; nobody need press the button again.
FormRests == save.step \in {"idle", "done"} /\ UNCHANGED formVars

FormNext ==
    \/ ChangeMethod
    \/ AnswerListing
    \/ FailListing
    \/ \E entered \in SUBSET {method, "client"} : Submit(entered)
    \/ CreateApp
    \/ ListApps
    \/ FailListApps
    \/ SaveServer
    \/ UpsertServerSecret
    \/ UpsertOauthAppSecret
    \/ RefuseSecret
    \/ LoseRequest
    \/ \E k \in Kinds : Meddle(k)
    \/ FormRests

FormSpec == FormInit /\ [][FormNext]_formVars

-----------------------------------------------------------------------------
\* Types; a secret belongs to a server there is.
FormTypeOK ==
    /\ mode \in {"create", "edit"}
    /\ method \in Methods
    /\ choice \in {"own", "new", "shared"}
    /\ known \in Methods \cup {Nothing}
    /\ listed \in {"asked", "failed", "none"}
    /\ save.step \in {"idle", "app", "list", "server", "secret", "client", "done"}
    /\ save.step \in {"secret", "client", "done"} => save.server \in Ids
    /\ servers \in [Ids -> Methods \cup {Nothing}]
    /\ vault \in [Ids \X Kinds -> Kinds \cup {Nothing}]
    /\ \A i \in Ids, k \in Kinds : vault[<<i, k>>] # Nothing => servers[i] # Nothing
    /\ apps \in 0..MaxApps
    /\ linked \subseteq {i \in Ids : servers[i] # Nothing}

\* A secret holds a value of its kind: an access token is never written into the
\* row of the API key. It can be when the form was saved before the secrets were
\* listed for the method it shows, or after that listing had failed.
HoldsItsKind ==
    \A i \in Ids, k \in Kinds : vault[<<i, k>>] \in {k, Nothing} \/ blind

\* When the dialog closes by itself, the server has the method of the form and
\* every credential that was entered for it is stored, unless it was taken for
\* another one's or another administrator wrote secrets at the same time.
DoneIsStored ==
    save.step = "done" =>
        /\ servers[save.server] = save.method
        /\ save.method \in save.entered =>
              vault[<<save.server, save.method>>] = save.method \/ blind \/ meddled
        /\ save.method = "oauth" /\ "client" \in save.entered /\ ~save.link =>
              vault[<<save.server, "client">>] = "client" \/ meddled

\* When the dialog closes by itself, a server for which a shared app was chosen is
\* linked to one, also when the first press failed after the app was made, unless
\* the apps could not be listed: then the server is saved without it, and a server
\* that was linked is not any more.
DoneIsLinked ==
    save.step = "done" /\ save.chosen # "own" =>
        save.server \in linked \/ unlisted

\* Pressing the button again makes a second server, but only after a request of
\* the first press failed; and a second app, only after its answer was lost.
OneForEachFailure ==
    /\ Cardinality({i \in Ids : servers[i] # Nothing}) <= 1 + failed
    /\ apps <= 1 + lost

-----------------------------------------------------------------------------
\* Of the server dialog, which saves with up to four requests: secrets hold
\* their kind; when it closes, all that was entered is stored and linked; and a
\* retry duplicates only what failed.
FormRules ==
    /\ FormTypeOK
    /\ HoldsItsKind
    /\ DoneIsStored
    /\ DoneIsLinked
    /\ OneForEachFailure
=============================================================================
