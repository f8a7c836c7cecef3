---------------------------- MODULE OAuthConnect ----------------------------
(***************************************************************************)
(* Connecting a personal account to one upstream server                    *)
(* (apps/api/src/features/oauth, oauthApps): startConnect sends the user   *)
(* to the provider under some OAuth client, handleCallback exchanges the   *)
(* code under the client it finds then, and refreshes later present the    *)
(* client stored with the token, or the linked app's current secret.       *)
(*                                                                         *)
(* A server has a client of its own, configured or registered at the first *)
(* Connect, and may be linked to a shared OAuth app, whose client wins.    *)
(* Secrets are numbered by the rotations at the provider; 0 is none, what  *)
(* a public client has.  Storing the credential is one step here; its      *)
(* statements and the refresh are in OAuthRefresh.                         *)
(***************************************************************************)
EXTENDS ApiHandlers

CONSTANTS
    MaxConnects,    \* bound: Connects that reach the provider
    MaxEdits        \* bound: what administrators and the provider change, and
                    \* statements and requests that fail

ASSUME ConnectAssumption ==
    MaxConnects \in Nat \ {0} /\ MaxEdits \in Nat

Connects == 1..MaxConnects
AppIds   == 1..2
NoClient == "none"

\* Clients an administrator registered by hand, and those registered here.
Confidential == {"own", "shared"}
Dynamic      == {"dynamic1", "dynamic2"}
ClientIds    == Confidential \cup Dynamic

VARIABLES
    srv,            \* the server: own client and its secret, app link, modes
    apps,           \* oauth_apps: client and secret, or NoApp
    provider,       \* clients registered dynamically, and current secrets
    states,         \* oauth_states, and what the provider knows of each
    stored,         \* the user's credential: kind, client, secret
    flow,           \* the handlers
    version,        \* history: changes of the configuration so far
    used            \* edits and faults so far

connectVars == <<srv, apps, provider, states, stored, flow, version, used>>

NoServer == [present |-> FALSE, own |-> NoClient, secret |-> 0, link |-> 0,
             public |-> FALSE, personal |-> FALSE]

NoApp == [client |-> NoClient, secret |-> 0]

NoCredential == [kind |-> "none", client |-> NoClient, secret |-> 0]

\* client: the one of the authorize URL; code: at the provider.  since is the
\* version the Connect began with, twice that two callbacks overlapped.
NoState == [row |-> "none", client |-> NoClient, code |-> "none",
            exchanges |-> 0, since |-> 0, twice |-> FALSE]

IdleFlow == [op |-> "idle", pc |-> "idle", srv |-> NoServer, client |-> NoClient,
             secret |-> 0, state |-> 0, app |-> 0, since |-> 0, raced |-> FALSE]

SecretAt(c) == IF c \in Confidential THEN provider.secret[c] ELSE 0

ConnectInit ==
    /\ srv \in [present : {TRUE}, own : {NoClient, "own"}, secret : {0, 1},
                link : {0, 1}, public : BOOLEAN, personal : {TRUE}]
    /\ srv.secret = 1 <=> srv.own = "own" /\ ~srv.public
    /\ apps = [a \in AppIds |-> IF a = 1 THEN [client |-> "shared", secret |-> 1]
                                ELSE NoApp]
    /\ provider = [registered |-> 0, secret |-> [c \in Confidential |-> 1]]
    /\ states = [s \in Connects |-> NoState]
    /\ stored = NoCredential
    /\ flow = [h \in Handlers |-> IdleFlow]
    /\ version = 0
    /\ used = [edits |-> 0, faults |-> 0]

BudgetLeft == used.edits + used.faults < MaxEdits

FlowAt(h, op, pc) == flow[h].op = op /\ flow[h].pc = pc

FlowTo(h, record) == flow' = [flow EXCEPT ![h] = record]

EndFlow(h) == FlowTo(h, IdleFlow)

TableVars == <<srv, apps, provider, states, stored>>

ConfigVars == <<srv, apps, provider, version>>

-----------------------------------------------------------------------------
(* startConnect                                                             *)

\* Bound: no more Connects at once than rows left for them.
StatesLeft ==
    Cardinality({s \in Connects : states[s] = NoState})
        > Cardinality({h \in Handlers : flow[h].op = "start"})

\* A server that is gone or shares one credential has nothing to connect.
StartConnect(h) ==
    /\ flow[h] = IdleFlow
    /\ IF srv.present /\ srv.personal
       THEN /\ StatesLeft
            /\ FlowTo(h, [IdleFlow EXCEPT !.op = "start", !.pc = "resolve",
                                          !.srv = srv, !.since = version])
       ELSE UNCHANGED flow
    /\ UNCHANGED <<TableVars, version, used>>

\* resolveServerOAuthClientForRow: the app the row read before points at, if
\* it is still there, else the server's own client.
LinkedApp(s) == IF s.link = 0 THEN NoApp ELSE apps[s.link]

ResolvedClient(s) == IF LinkedApp(s) # NoApp THEN LinkedApp(s).client ELSE s.own

\* Mutant: the server's own client wins over the linked app when there is one.
OwnClientFirst(s) ==
    IF s.own # NoClient THEN s.own
    ELSE IF LinkedApp(s) # NoApp THEN LinkedApp(s).client ELSE NoClient

\* ensureOauthClientId: the client of the authorize URL, if there is one yet.
EnsuredClient(s) == IF LinkedApp(s) # NoApp THEN LinkedApp(s).client ELSE s.own

\* Without an app, a client that is not public needs its secret stored.
Configured(s) ==
    LinkedApp(s) # NoApp \/ s.public \/ (s.own # NoClient /\ srv.secret # 0)

ResolveForStart(h) ==
    /\ FlowAt(h, "start", "resolve")
    /\ LET s == flow[h].srv
       IN  IF ~Configured(s) THEN EndFlow(h)
           ELSE FlowTo(h, [flow[h] EXCEPT
                             !.client = EnsuredClient(s),
                             !.pc = IF EnsuredClient(s) = NoClient THEN "register"
                                    ELSE "insert"])
    /\ UNCHANGED <<TableVars, version, used>>

\* registerDynamicOAuthClient: the provider knows one more public client, or
\* refuses.
RegisterClient(h) ==
    /\ FlowAt(h, "start", "register")
    /\ \/ /\ provider.registered < Cardinality(Dynamic)
          /\ provider' = [provider EXCEPT !.registered = @ + 1]
          /\ FlowTo(h, [flow[h] EXCEPT
                !.pc = "persist",
                !.client = IF provider.registered = 0 THEN "dynamic1" ELSE "dynamic2"])
       \/ EndFlow(h) /\ UNCHANGED provider
    /\ UNCHANGED <<srv, apps, states, stored, version, used>>

\* UPDATE servers, whatever its client has become.
PersistClient(h) ==
    /\ FlowAt(h, "start", "persist")
    /\ IF srv.present
       THEN /\ srv' = [srv EXCEPT !.own = flow[h].client]
            /\ version' = version + 1
            /\ FlowTo(h, [flow[h] EXCEPT !.pc = "insert",
                             !.since = IF @ = version THEN version + 1 ELSE @])
       ELSE EndFlow(h) /\ UNCHANGED <<srv, version>>
    /\ UNCHANGED <<apps, provider, states, stored, used>>

\* The state is stored and the user sent off with it.
InsertState(h) ==
    /\ FlowAt(h, "start", "insert")
    /\ IF srv.present
       THEN \E s \in Connects :
               /\ states[s] = NoState
               /\ \A r \in Connects : r < s => states[r] # NoState
               /\ states' = [states EXCEPT ![s] =
                     [NoState EXCEPT !.row = "pending", !.client = flow[h].client,
                                     !.since = flow[h].since]]
       ELSE UNCHANGED states
    /\ EndFlow(h)
    /\ UNCHANGED <<ConfigVars, stored, used>>

\* The user consents at the provider, which binds its code to the client.
Consent(s) ==
    /\ states[s].client # NoClient
    /\ states[s].code = "none"
    /\ states' = [states EXCEPT ![s].code = "issued"]
    /\ UNCHANGED <<ConfigVars, stored, flow, used>>

-----------------------------------------------------------------------------
(* handleCallback                                                           *)

\* The browser may come back more than once, or for a state that is gone.
SelectState(h, s) ==
    /\ flow[h] = IdleFlow
    /\ states[s].code # "none"
    /\ IF states[s].row = "pending"
       THEN /\ FlowTo(h, [IdleFlow EXCEPT !.op = "callback", !.pc = "delete", !.state = s])
            /\ states' = [states EXCEPT ![s].twice =
                            @ \/ \E g \in Handlers : FlowAt(g, "callback", "delete")
                                                        /\ flow[g].state = s]
       ELSE UNCHANGED <<flow, states>>
    /\ UNCHANGED <<ConfigVars, stored, used>>

\* DELETE by id, however many rows it matches; an expired one goes no further.
DeleteState(h) ==
    /\ FlowAt(h, "callback", "delete")
    /\ states' = [states EXCEPT ![flow[h].state].row = "deleted"]
    /\ FlowTo(h, [flow[h] EXCEPT !.pc = "server"]) \/ EndFlow(h)
    /\ UNCHANGED <<ConfigVars, stored, used>>

ReadServer(h) ==
    /\ FlowAt(h, "callback", "server")
    /\ IF srv.present THEN FlowTo(h, [flow[h] EXCEPT !.pc = "resolve", !.srv = srv])
       ELSE EndFlow(h)
    /\ UNCHANGED <<TableVars, version, used>>

\* The client and the secret the code will be exchanged with.
ResolveForCallback(h) ==
    /\ FlowAt(h, "callback", "resolve")
    /\ LET s == flow[h].srv
           linked == LinkedApp(s) # NoApp
       IN  IF ResolvedClient(s) = NoClient \/ (~linked /\ ~s.public /\ srv.secret = 0)
           THEN EndFlow(h)
           ELSE FlowTo(h, [flow[h] EXCEPT
                   !.pc = "exchange", !.client = ResolvedClient(s),
                   !.secret = IF linked THEN LinkedApp(s).secret
                              ELSE IF s.public THEN 0 ELSE srv.secret])
    /\ UNCHANGED <<TableVars, version, used>>

\* What the provider demands of an exchange.
ExchangeAccepted(h) ==
    LET s == states[flow[h].state]
    IN  /\ s.code = "issued"
        /\ s.client = flow[h].client
        /\ SecretAt(s.client) = flow[h].secret

Exchange(h) ==
    /\ FlowAt(h, "callback", "exchange")
    /\ IF ExchangeAccepted(h)
       THEN /\ states' = [states EXCEPT ![flow[h].state].code = "spent",
                                        ![flow[h].state].exchanges = @ + 1]
            /\ FlowTo(h, [flow[h] EXCEPT !.pc = "store"])
       ELSE /\ states' = [states EXCEPT ![flow[h].state].exchanges = @ + 1]
            /\ EndFlow(h)
    /\ UNCHANGED <<ConfigVars, stored, used>>

\* With a refresh token the client goes into the credential.
StoreCredential(h) ==
    /\ FlowAt(h, "callback", "store")
    /\ IF srv.present
       THEN stored' \in {[kind |-> "refreshable", client |-> flow[h].client,
                          secret |-> flow[h].secret],
                         [NoCredential EXCEPT !.kind = "access_token"]}
       ELSE UNCHANGED stored
    /\ EndFlow(h)
    /\ UNCHANGED <<ConfigVars, states, used>>

\* A statement or a request fails, and with it the handler.
FailFlow(h) ==
    /\ flow[h] # IdleFlow
    /\ BudgetLeft
    /\ used' = [used EXCEPT !.faults = @ + 1]
    /\ EndFlow(h)
    /\ UNCHANGED <<TableVars, version>>

-----------------------------------------------------------------------------
(* oauthApps, and the server's own OAuth fields.                            *)

Edit == BudgetLeft /\ used' = [used EXCEPT !.edits = @ + 1]

\* remove: refused while servers are linked, unless they are to be detached.
CountLinked(h, a, detach) ==
    /\ Edit
    /\ flow[h] = IdleFlow
    /\ apps[a] # NoApp
    /\ srv.link = a => detach
    /\ FlowTo(h, [IdleFlow EXCEPT !.op = "remove", !.pc = "delete", !.app = a,
                                  !.raced = detach])
    /\ UNCHANGED <<TableVars, version>>

\* The links go first, or the foreign key sets them to null.
DeleteApp(h) ==
    /\ FlowAt(h, "remove", "delete")
    /\ apps' = [apps EXCEPT ![flow[h].app] = NoApp]
    /\ srv' = [srv EXCEPT !.link = IF @ = flow[h].app THEN 0 ELSE @]
    /\ version' = version + 1
    /\ EndFlow(h)
    /\ UNCHANGED <<provider, states, stored, used>>

\* update of the server with oauthAppId: the app is looked for first.
AssertApp(h, a) ==
    /\ Edit
    /\ flow[h] = IdleFlow
    /\ apps[a] # NoApp
    /\ srv.link # a
    /\ FlowTo(h, [IdleFlow EXCEPT !.op = "link", !.pc = "link", !.app = a])
    /\ UNCHANGED <<TableVars, version>>

\* createFromServer: the server and its secret are read, ...
ReadOwnClient(h) ==
    /\ Edit
    /\ flow[h] = IdleFlow
    /\ srv.present
    /\ srv.own # NoClient
    /\ FlowTo(h, [IdleFlow EXCEPT !.op = "save", !.pc = "secret", !.client = srv.own])
    /\ UNCHANGED <<TableVars, version>>

ReadOwnSecret(h) ==
    /\ FlowAt(h, "save", "secret")
    /\ FlowTo(h, [flow[h] EXCEPT !.pc = "insert", !.secret = srv.secret])
    /\ UNCHANGED <<TableVars, version, used>>

\* ... an app is made of them ...
InsertApp(h, a) ==
    /\ FlowAt(h, "save", "insert")
    /\ apps[a] = NoApp
    /\ apps' = [apps EXCEPT ![a] = [client |-> flow[h].client, secret |-> flow[h].secret]]
    /\ FlowTo(h, [flow[h] EXCEPT !.op = "link", !.pc = "link", !.app = a])
    /\ UNCHANGED <<srv, provider, states, stored, version, used>>

\* ... and linked.  The foreign key refuses an app that is gone; whoever is
\* deleting the app has already counted.
LinkApp(h) ==
    /\ FlowAt(h, "link", "link")
    /\ LET links == srv.present /\ apps[flow[h].app] # NoApp
       IN  /\ srv' = IF links THEN [srv EXCEPT !.link = flow[h].app] ELSE srv
           /\ version' = IF links THEN version + 1 ELSE version
           /\ flow' = [g \in Handlers |->
                         IF g = h THEN IdleFlow
                         ELSE IF FlowAt(g, "remove", "delete") /\ flow[g].app = flow[h].app
                         THEN [flow[g] EXCEPT !.raced = TRUE] ELSE flow[g]]
    /\ UNCHANGED <<apps, provider, states, stored, used>>

\* Fields of the server change: its own client, its secret, modes, the link.
UpdateServerFields ==
    /\ Edit
    /\ srv.present
    /\ \E s \in {[srv EXCEPT !.own = "own"], [srv EXCEPT !.secret = SecretAt("own")],
                 [srv EXCEPT !.public = ~@], [srv EXCEPT !.personal = ~@],
                 [srv EXCEPT !.link = 0]} :
          s # srv /\ srv' = s
    /\ version' = version + 1
    /\ UNCHANGED <<apps, provider, states, stored, flow>>

\* update of an app: a new client, a rotated secret, or none.
UpdateApp(a) ==
    /\ Edit
    /\ apps[a] # NoApp
    /\ \E row \in {[client |-> "shared", secret |-> SecretAt("shared")],
                   [apps[a] EXCEPT !.secret = SecretAt(apps[a].client)],
                   [apps[a] EXCEPT !.secret = 0]} :
          row # apps[a] /\ apps' = [apps EXCEPT ![a] = row]
    /\ version' = version + 1
    /\ UNCHANGED <<srv, provider, states, stored, flow>>

RotateSecret(c) ==
    /\ Edit
    /\ provider' = [provider EXCEPT !.secret[c] = @ + 1]
    /\ version' = version + 1
    /\ UNCHANGED <<srv, apps, states, stored, flow>>

\* States and secrets go with the server.
DeleteConnectServer ==
    /\ Edit
    /\ srv.present
    /\ srv' = NoServer
    /\ states' = [s \in Connects |->
                    IF states[s].row = "pending" THEN [states[s] EXCEPT !.row = "deleted"]
                    ELSE states[s]]
    /\ stored' = NoCredential
    /\ version' = version + 1
    /\ UNCHANGED <<apps, provider, flow>>

ConnectNext ==
    \/ \E h \in Handlers :
          \/ StartConnect(h) \/ ResolveForStart(h) \/ RegisterClient(h)
          \/ PersistClient(h) \/ InsertState(h)
          \/ DeleteState(h) \/ ReadServer(h) \/ ResolveForCallback(h)
          \/ Exchange(h) \/ StoreCredential(h) \/ FailFlow(h)
          \/ DeleteApp(h) \/ ReadOwnClient(h) \/ ReadOwnSecret(h) \/ LinkApp(h)
          \/ \E s \in Connects : SelectState(h, s)
          \/ \E a \in AppIds : AssertApp(h, a) \/ InsertApp(h, a)
          \/ \E a \in AppIds, detach \in BOOLEAN : CountLinked(h, a, detach)
    \/ \E s \in Connects : Consent(s)
    \/ \E a \in AppIds : UpdateApp(a)
    \/ \E c \in Confidential : RotateSecret(c)
    \/ UpdateServerFields
    \/ DeleteConnectServer

ConnectSpec == ConnectInit /\ [][ConnectNext]_connectVars

-----------------------------------------------------------------------------
(* The refresh                                                              *)

\* applyOAuthClientOverride: the linked app's current secret, for a token of
\* the app's own client only.
Overridden(cred, app) ==
    [client |-> cred.client,
     secret |-> IF app.secret # 0 /\ cred.client = app.client THEN app.secret
                ELSE cred.secret]

Presented == Overridden(stored, LinkedApp(srv))

-----------------------------------------------------------------------------
\* Types; a credential goes with its server, and a link with its app.
ConnectTypeOK ==
    /\ srv \in [present : BOOLEAN, own : ClientIds \cup {NoClient},
                secret : 0..(MaxEdits + 1), link : AppIds \cup {0},
                public : BOOLEAN, personal : BOOLEAN]
    /\ apps \in [AppIds -> [client : ClientIds \cup {NoClient}, secret : 0..(MaxEdits + 1)]]
    /\ srv.link # 0 => apps[srv.link] # NoApp
    /\ provider \in [registered : 0..2, secret : [Confidential -> 1..(MaxEdits + 1)]]
    /\ stored \in [kind : {"none", "access_token", "refreshable"},
                   client : ClientIds \cup {NoClient}, secret : 0..(MaxEdits + 1)]
    /\ stored.kind = "refreshable" <=> stored.client # NoClient
    /\ ~srv.present => stored = NoCredential
    /\ \A s \in Connects :
          /\ states[s].row \in {"none", "pending", "deleted"}
          /\ states[s].code \in {"none", "issued", "spent"}
          /\ states[s].client \in ClientIds \cup {NoClient}
    /\ \A h \in Handlers :
          /\ flow[h].client \in ClientIds \cup {NoClient}
          /\ flow[h].state \in Connects \cup {0}
    /\ version \in Nat

\* The code comes back to the client it was issued to: the exchange is refused
\* only if the configuration changed under way -- a second registration that
\* crossed this one included --, the callback came twice at once, or the
\* secret stored here is not the provider's.
ConnectCompletes ==
    [][\A h \in Handlers :
          FlowAt(h, "callback", "exchange") /\ flow'[h] = IdleFlow
              /\ used'.faults = used.faults
          => LET s == states[flow[h].state]
             IN  \/ s.since # version
                 \/ s.twice
                 \/ SecretAt(flow[h].client) # flow[h].secret]_connectVars

\* One callback exchanges for each Connect, unless two arrived at once: the
\* row is found and deleted by two statements.
StateSpentOnce ==
    \A s \in Connects : states[s].exchanges > 1 => states[s].twice

\* "Rotating the app secret takes effect for every linked server without users
\* reconnecting", and "a token minted under a different client keeps the
\* credentials it was issued with": a refresh presents the app's secret for
\* tokens of its client, and for no other.
RefreshKeepsClient ==
    stored.kind = "refreshable" =>
        LET app == LinkedApp(srv)
        IN  IF app.client = stored.client /\ app.secret # 0
            THEN Presented.secret = app.secret
            ELSE Presented = [client |-> stored.client, secret |-> stored.secret]

\* "Delete refuses while servers reference the app unless detach is set": a
\* server loses its app only by a detach, or linked after the delete counted.
UnlinkedKnowingly ==
    [][\A h \in Handlers :
          FlowAt(h, "remove", "delete") /\ flow'[h] = IdleFlow
              /\ srv.link = flow[h].app /\ srv'.link = 0 /\ used' = used
          => flow[h].raced]_connectVars

-----------------------------------------------------------------------------
\* Of connecting an account: a state is spent once, a credential is refreshed
\* with the client it was issued to, an app is deleted only unlinked, and the
\* code comes back to the client it was issued to.
ConnectRules ==
    /\ [](/\ ConnectTypeOK
         /\ StateSpentOnce
         /\ RefreshKeepsClient)
    /\ ConnectCompletes
    /\ UnlinkedKnowingly
=============================================================================
