------------------------------- MODULE Clients -------------------------------
(***************************************************************************)
(* A service client of the admin API: its secret, the service user it acts *)
(* as, and the access tokens issued for it (clients/service.ts,            *)
(* requireTenantContext.ts).  No handler uses a transaction.               *)
(***************************************************************************)
EXTENDS ApiHandlers

CONSTANTS
    ApiRoles,       \* roles a membership can have
    MaxRotations,   \* bound: rotations
    MaxClientFaults \* bound: failed statements and crashes

ASSUME ClientsAssumption ==
    /\ "none" \notin ApiRoles
    /\ MaxRotations \in Nat
    /\ MaxClientFaults \in Nat

VARIABLES
    client,         \* the row, with secret 0 and actor 0 for null
    serviceUsers,   \* service users that exist
    membership,     \* role of each service user's membership, or "none"
    tokens,         \* access tokens in the table
    shown,          \* secrets that were returned to an administrator
    rotations,      \* rotations started so far
    clientCall,     \* what each handler is doing
    clientRaced,    \* history: handlers that disturb each other overlapped
    clientFaults

clientTables == <<client, serviceUsers, membership, tokens>>
clientHistory == <<shown, rotations, clientRaced, clientFaults>>
clientVars == <<clientTables, clientHistory, clientCall>>

\* A rotation makes at most one secret and one service user, numbered alike.
Secrets == 1..MaxRotations
Actors == 1..MaxRotations

ClientRow == [exists : BOOLEAN, kind : {"service", "interactive"},
              secret : Secrets \cup {0}, apiRole : ApiRoles,
              actor : Actors \cup {0}]

\* overlap: a rotation or revocation ran while the token was being issued.
TokenRow == [actor : Actors, secret : Secrets, revoked : BOOLEAN,
             overlap : BOOLEAN]

NoCall == [op |-> "idle", pc |-> "idle", actor |-> 0, role |-> "none",
           secret |-> 0, overlap |-> FALSE]

ClientOps == {"idle", "rotate", "revoke", "update", "remove", "issue", "request"}
ClientPCs == {"idle", "member", "setRole", "newUser", "newMember", "link",
              "dropUser", "secret", "revoke", "clear", "write", "mirror",
              "delete", "insert"}

ClientsTypeOK ==
    /\ client \in ClientRow
    /\ serviceUsers \subseteq Actors
    /\ membership \in [Actors -> ApiRoles \cup {"none"}]
    /\ tokens \subseteq TokenRow
    /\ shown \subseteq Secrets
    /\ rotations \in 0..MaxRotations
    /\ clientCall \in [Handlers ->
          [op : ClientOps, pc : ClientPCs, actor : Actors \cup {0},
           role : ApiRoles \cup {"none"}, secret : Secrets \cup {0},
           overlap : BOOLEAN]]
    /\ clientRaced \in [role : BOOLEAN, actor : BOOLEAN, secret : BOOLEAN]
    /\ clientFaults \in 0..MaxClientFaults
    /\ tokens # {} => client.exists
    /\ \A t \in tokens : t.actor \in serviceUsers

\* A service client that was just created.
ClientsInit ==
    /\ \E role \in ApiRoles :
          client = [exists |-> TRUE, kind |-> "service", secret |-> 0,
                    apiRole |-> role, actor |-> 0]
    /\ serviceUsers = {}
    /\ membership = [a \in Actors |-> "none"]
    /\ tokens = {}
    /\ shown = {}
    /\ rotations = 0
    /\ clientCall = [h \in Handlers |-> NoCall]
    /\ clientRaced = [role |-> FALSE, actor |-> FALSE, secret |-> FALSE]
    /\ clientFaults = 0

-----------------------------------------------------------------------------
ClientAt(h, ops, pc) == clientCall[h].op \in ops /\ clientCall[h].pc = pc

ClientStep(h, pc) == clientCall' = [clientCall EXCEPT ![h].pc = pc]

ClientDone(h) == clientCall' = [clientCall EXCEPT ![h] = NoCall]

Active(ops) == \E h \in Handlers : clientCall[h].op \in ops

Withdraws == {"rotate", "revoke"}

\* A handler starts: history records whom it overlaps.
ClientStart(h, frame) ==
    /\ clientCall[h] = NoCall
    /\ clientCall' =
          [k \in Handlers |->
              IF k = h THEN [frame EXCEPT !.overlap = frame.op = "issue"
                                                      /\ Active(Withdraws)]
              ELSE [clientCall[k] EXCEPT !.overlap =
                       @ \/ (clientCall[k].op = "issue" /\ frame.op \in Withdraws)]]
    /\ clientRaced' =
          [role   |-> clientRaced.role \/ (frame.op \in {"rotate", "update"}
                                           /\ Active({"rotate", "update"})),
           actor  |-> clientRaced.actor \/ (frame.op \in {"rotate", "remove"}
                                            /\ Active({"rotate", "remove"})),
           secret |-> clientRaced.secret \/ (frame.op \in Withdraws
                                             /\ Active(Withdraws))]
    /\ rotations' = rotations + IF frame.op = "rotate" THEN 1 ELSE 0
    /\ UNCHANGED <<clientTables, shown, clientFaults>>

-----------------------------------------------------------------------------
(* rotateCredentials, with ensureServiceActor.                              *)

StartRotate(h, role) ==
    /\ client.exists
    /\ client.kind = "service"
    /\ rotations < MaxRotations
    /\ ClientStart(h, [NoCall EXCEPT !.op = "rotate", !.actor = client.actor,
                          !.pc = IF client.actor = 0 THEN "newUser" ELSE "member",
                          !.role = role, !.secret = rotations + 1])

\* The actor's membership: missing ends the handler, another role is updated.
FindMembership(h) ==
    /\ ClientAt(h, {"rotate"}, "member")
    /\ LET role == membership[clientCall[h].actor]
       IN  \/ role = "none" /\ ClientDone(h)
           \/ role = clientCall[h].role /\ ClientStep(h, "secret")
           \/ role \notin {"none", clientCall[h].role} /\ ClientStep(h, "setRole")
    /\ UNCHANGED <<clientTables, clientHistory>>

SetMembershipRole(h) ==
    /\ ClientAt(h, {"rotate"}, "setRole")
    /\ membership' = [membership EXCEPT ![clientCall[h].actor] = clientCall[h].role]
    /\ ClientStep(h, "secret")
    /\ UNCHANGED <<client, serviceUsers, tokens, clientHistory>>

InsertServiceUser(h) ==
    /\ ClientAt(h, {"rotate"}, "newUser")
    /\ serviceUsers' = serviceUsers \cup {clientCall[h].secret}
    /\ clientCall' = [clientCall EXCEPT ![h] =
                         [@ EXCEPT !.actor = clientCall[h].secret, !.pc = "newMember"]]
    /\ UNCHANGED <<client, membership, tokens, clientHistory>>

InsertServiceMembership(h) ==
    /\ ClientAt(h, {"rotate"}, "newMember")
    /\ membership' = [membership EXCEPT ![clientCall[h].actor] = clientCall[h].role]
    /\ ClientStep(h, "link")
    /\ UNCHANGED <<client, serviceUsers, tokens, clientHistory>>

LinkServiceUser(h) ==
    /\ ClientAt(h, {"rotate"}, "link")
    /\ IF client.exists
       THEN client' = [client EXCEPT !.actor = clientCall[h].actor]
            /\ ClientStep(h, "secret")
       ELSE UNCHANGED client /\ ClientStep(h, "dropUser")
    /\ UNCHANGED <<serviceUsers, membership, tokens, clientHistory>>

\* Deleting a user deletes its tokens; the row of its membership stays.
DropUser(a) ==
    /\ serviceUsers' = serviceUsers \ {a}
    /\ tokens' = {t \in tokens : t.actor # a}
    /\ client' = IF client.actor = a THEN [client EXCEPT !.actor = 0] ELSE client

DropServiceUser(h) ==
    /\ ClientAt(h, {"rotate", "remove"}, "dropUser")
    /\ DropUser(clientCall[h].actor)
    /\ ClientDone(h)
    /\ UNCHANGED <<membership, clientHistory>>

StoreSecret(h) ==
    /\ ClientAt(h, {"rotate"}, "secret")
    /\ IF client.exists
       THEN /\ client' = [client EXCEPT !.secret = clientCall[h].secret,
                             !.apiRole = clientCall[h].role,
                             !.actor = clientCall[h].actor]
            /\ ClientStep(h, "revoke")
       ELSE UNCHANGED client /\ ClientDone(h)
    /\ UNCHANGED <<serviceUsers, membership, tokens, clientHistory>>

RevokeAll == tokens' = {[t EXCEPT !.revoked = TRUE] : t \in tokens}

\* The last statement of a rotation: its secret is returned.
RevokeRotated(h) ==
    /\ ClientAt(h, {"rotate"}, "revoke")
    /\ RevokeAll
    /\ shown' = shown \cup {clientCall[h].secret}
    /\ ClientDone(h)
    /\ UNCHANGED <<client, serviceUsers, membership, rotations, clientRaced,
                   clientFaults>>

-----------------------------------------------------------------------------
(* revokeCredentials: tokens first, then the secret.                        *)

StartRevoke(h) ==
    /\ client.exists
    /\ client.secret # 0
    /\ ClientStart(h, [NoCall EXCEPT !.op = "revoke", !.pc = "revoke"])

RevokeTokens(h) ==
    /\ ClientAt(h, {"revoke"}, "revoke")
    /\ RevokeAll
    /\ ClientStep(h, "clear")
    /\ UNCHANGED <<client, serviceUsers, membership, clientHistory>>

ClearSecret(h) ==
    /\ ClientAt(h, {"revoke"}, "clear")
    /\ client' = IF client.exists THEN [client EXCEPT !.secret = 0] ELSE client
    /\ ClientDone(h)
    /\ UNCHANGED <<serviceUsers, membership, tokens, clientHistory>>

-----------------------------------------------------------------------------
(* update and remove.                                                       *)

StartUpdate(h) ==
    /\ client.exists
    /\ ClientStart(h, [NoCall EXCEPT !.op = "update", !.pc = "write"])

\* Mutant: the membership keeps the role it had.
WriteClientOnly(h, kind, role) ==
    /\ ClientAt(h, {"update"}, "write")
    /\ client' = IF client.exists
                 THEN [client EXCEPT !.kind = kind,
                          !.apiRole = IF role = "none" THEN @ ELSE role]
                 ELSE client
    /\ ClientDone(h)
    /\ UNCHANGED <<serviceUsers, membership, tokens, clientHistory>>

\* The row that UPDATE returns says whose membership is to follow; role
\* "none" is an update that names no role.
WriteClient(h, kind, role) ==
    /\ ClientAt(h, {"update"}, "write")
    /\ IF client.exists
       THEN /\ client' = [client EXCEPT !.kind = kind,
                             !.apiRole = IF role = "none" THEN @ ELSE role]
            /\ IF client.actor # 0 /\ role # "none"
               THEN clientCall' = [clientCall EXCEPT ![h] =
                          [@ EXCEPT !.pc = "mirror", !.actor = client.actor, !.role = role]]
               ELSE ClientDone(h)
       ELSE UNCHANGED client /\ ClientDone(h)
    /\ UNCHANGED <<serviceUsers, membership, tokens, clientHistory>>

MirrorRole(h) ==
    /\ ClientAt(h, {"update"}, "mirror")
    /\ membership' = [membership EXCEPT ![clientCall[h].actor] = clientCall[h].role]
    /\ ClientDone(h)
    /\ UNCHANGED <<client, serviceUsers, tokens, clientHistory>>

StartRemove(h) ==
    /\ client.exists
    /\ ClientStart(h, [NoCall EXCEPT !.op = "remove", !.pc = "delete"])

\* The client's tokens are deleted with it (ON DELETE CASCADE).
DeleteClient(h) ==
    /\ ClientAt(h, {"remove"}, "delete")
    /\ client' = [client EXCEPT !.exists = FALSE, !.secret = 0, !.actor = 0]
    /\ tokens' = {}
    /\ IF client.actor # 0
       THEN clientCall' = [clientCall EXCEPT ![h] =
                              [@ EXCEPT !.pc = "dropUser", !.actor = client.actor]]
       ELSE ClientDone(h)
    /\ UNCHANGED <<serviceUsers, membership, clientHistory>>

-----------------------------------------------------------------------------
(* issueClientCredentialsToken, and an API request with such a token.       *)

StartIssue(h, s) ==
    /\ s \in shown
    /\ client.exists
    /\ client.secret = s
    /\ client.kind = "service"
    /\ client.actor # 0
    /\ ClientStart(h, [NoCall EXCEPT !.op = "issue", !.pc = "member",
                          !.actor = client.actor, !.secret = s])

FindSubject(h) ==
    /\ ClientAt(h, {"issue"}, "member")
    /\ IF membership[clientCall[h].actor] = "none"
       THEN ClientDone(h) ELSE ClientStep(h, "insert")
    /\ UNCHANGED <<clientTables, clientHistory>>

\* Foreign keys refuse the token of a client or user that is gone.
InsertAccessToken(h) ==
    /\ ClientAt(h, {"issue"}, "insert")
    /\ tokens' = IF client.exists /\ clientCall[h].actor \in serviceUsers
                 THEN tokens \cup {[actor |-> clientCall[h].actor,
                                    secret |-> clientCall[h].secret,
                                    revoked |-> FALSE,
                                    overlap |-> clientCall[h].overlap]}
                 ELSE tokens
    /\ ClientDone(h)
    /\ UNCHANGED <<client, serviceUsers, membership, clientHistory>>

ReadBearer(h, t) ==
    /\ t \in tokens
    /\ ~t.revoked
    /\ ClientStart(h, [NoCall EXCEPT !.op = "request", !.pc = "member",
                          !.actor = t.actor])

\* The request is served with the role the membership has now, or refused.
ServeRequest(h) ==
    /\ ClientAt(h, {"request"}, "member")
    /\ ClientDone(h)
    /\ UNCHANGED <<clientTables, clientHistory>>

\* A statement fails, and what was inserted for the service user is deleted;
\* or the process dies.
FailClientCall(h) ==
    /\ clientCall[h] # NoCall
    /\ clientFaults < MaxClientFaults
    /\ clientFaults' = clientFaults + 1
    /\ clientRaced' = [role |-> TRUE, actor |-> TRUE, secret |-> TRUE]
    /\ \/ ClientDone(h)
       \/ clientCall[h].pc \in {"newMember", "link"} /\ ClientStep(h, "dropUser")
    /\ UNCHANGED <<clientTables, shown, rotations>>

-----------------------------------------------------------------------------
HandleClient(h) ==
    \/ \E role \in ApiRoles : StartRotate(h, role)
    \/ FindMembership(h) \/ SetMembershipRole(h)
    \/ InsertServiceUser(h) \/ InsertServiceMembership(h) \/ LinkServiceUser(h)
    \/ DropServiceUser(h) \/ StoreSecret(h) \/ RevokeRotated(h)
    \/ StartRevoke(h) \/ RevokeTokens(h) \/ ClearSecret(h)
    \/ StartUpdate(h) \/ MirrorRole(h)
    \/ \E kind \in {"service", "interactive"}, role \in ApiRoles \cup {"none"} :
          WriteClient(h, kind, role)
    \/ StartRemove(h) \/ DeleteClient(h)
    \/ \E s \in Secrets : StartIssue(h, s)
    \/ FindSubject(h) \/ InsertAccessToken(h)
    \/ \E t \in tokens : ReadBearer(h, t)
    \/ ServeRequest(h)
    \/ FailClientCall(h)

\* Nothing is left to do for a client that was deleted.
ClientGone == ~client.exists /\ ~Active(ClientOps \ {"idle"}) /\ UNCHANGED clientVars

ClientsNext == (\E h \in Handlers : HandleClient(h)) \/ ClientGone

ClientsSpec == ClientsInit /\ [][ClientsNext]_clientVars

-----------------------------------------------------------------------------
\* "Existing access tokens for this client are revoked": once no rotation or
\* revocation is under way, a token that still works was issued with the
\* present secret, or one of them ran while it was being issued or broke off.
SurvivorsOverlapped ==
    ~Active(Withdraws) /\ ~clientRaced.secret
    => \A t \in tokens : ~t.revoked => t.overlap \/ t.secret = client.secret

\* A request is served with the role the client is configured with, unless
\* two handlers that set it overlap, or one is under way or broke off: the
\* role is kept in the client and in the membership, by separate statements.
ServedWithClientRole ==
    [][\A h \in Handlers :
          ServeRequest(h) /\ client.exists /\ ~clientRaced.role
              /\ ~Active({"rotate", "update"})
          => membership[clientCall[h].actor] = client.apiRole]_clientVars

\* A client has one service user, which goes when the client goes, unless
\* rotations overlapped one another or a deletion, or one broke off.
OneServiceUser ==
    ~clientRaced.actor /\ ~Active({"rotate", "remove"})
    => serviceUsers = {client.actor} \ {0}

-----------------------------------------------------------------------------
\* Of service clients: no token outlives the secret it was issued with, a
\* client has one service user, and is served with its own role.
ClientRules ==
    /\ [](/\ ClientsTypeOK
         /\ SurvivorsOverlapped
         /\ OneServiceUser)
    /\ ServedWithClientRole
=============================================================================
