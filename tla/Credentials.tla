---------------------------- MODULE Credentials ----------------------------
(***************************************************************************)
(* The upstream credentials of one server (table secrets), and everybody   *)
(* who writes or chooses among them: the admin's Secrets API, a member's   *)
(* My Access, the OAuth callback, the gateway at a tool call, the tool     *)
(* sync, and the readiness that My Access and the connection page show.    *)
(*                                                                         *)
(* A secret has a binding -- which of server, user and connection it names *)
(* -- and a kind, and is encrypted under both.  The gateway's own tokens,  *)
(* which name a connection, are in Clients and McpSession.                 *)
(***************************************************************************)
EXTENDS ApiHandlers, Sequences

CONSTANTS
    Members,        \* members of the tenant
    Callers,        \* those who connect and call here
    MaxCredChanges  \* bound: values written, secrets deleted, the server changed

\* The last: ids of users are no words of this model.
ASSUME CredentialsAssumption ==
    /\ Callers \subseteq Members
    /\ MaxCredChanges \in Nat
    /\ Members \cap {"shared", "missing"} = {}

VARIABLES
    host,           \* the server's row
    vault,          \* the secrets for it: slot -> row
    cred,           \* the handlers
    changes         \* so far

credVars == <<host, vault, cred, changes>>

AuthMethods == {"api_key", "oauth", "mtls"}
Modes       == {"shared", "subject_required", "either"}

\* upstreamSecretKind: a secret's kind is the method's name.  mTLS is supported
\* by no reader, hence the kinds that somebody looks for are two.
Kinds  == {"api_key", "oauth"}
Shared == "shared"

\* What a binding names; Shared as the owner means no user.
Bindings == [server : BOOLEAN, owner : Members \cup {Shared}, connection : BOOLEAN]

\* normalizeBinding: the server, the server and a user, or a connection alone.
NormalizeBinding(b) ==
    \/ b.server /\ ~b.connection
    \/ b.connection /\ ~b.server /\ b.owner = Shared

\* The secrets that name the server.
Slots == {s \in [binding : Bindings, kind : Kinds] :
             s.binding.server /\ NormalizeBinding(s.binding)}

SlotOf(owner, kind) ==
    [binding |-> [server |-> TRUE, owner |-> owner, connection |-> FALSE], kind |-> kind]

\* id: of the row; sealed: the slot whose tenant, kind and binding it was
\* encrypted under.
NoRow == [id |-> 0, sealed |-> SlotOf(Shared, "api_key")]

NoHost == [present |-> FALSE, auth |-> "api_key", mode |-> "either"]

IdleCred == [op |-> "idle", pc |-> "idle", host |-> NoHost, owner |-> Shared,
             slot |-> SlotOf(Shared, "api_key"), id |-> 0, steady |-> {},
             crossed |-> FALSE, outcome |-> "none"]

\* The secrets are of the server's method, or of the one it had before.
CredInit ==
    /\ host \in [present : {TRUE}, auth : Kinds, mode : Modes]
    /\ \E owners \in SUBSET (Callers \cup {Shared}), kind \in Kinds :
          vault = [s \in Slots |-> IF /\ s.kind = kind
                                      /\ s.binding.owner \in owners \cup (Members \ Callers)
                                   THEN [id |-> 1, sealed |-> s] ELSE NoRow]
    /\ cred = [h \in Handlers |-> IdleCred]
    /\ changes = 0

CredAt(h, op, pc) == cred[h].op = op /\ cred[h].pc = pc

Present == {s \in Slots : vault[s] # NoRow}

Ready(h) == cred[h].pc = "idle"

\* Outcomes are history, kept until anything else happens.
Quiet == [g \in Handlers |-> [cred[g] EXCEPT !.outcome = "none"]]

Begin(h, record) ==
    /\ Ready(h)
    /\ cred' = [Quiet EXCEPT ![h] =
                 [record EXCEPT !.pc = "server",
                                !.steady = IF record.op \notin {"call", "sync"} THEN {}
                                           ELSE {s \in Present : s.binding.owner \in
                                                    {record.owner, Shared}}]]

Goto(h, record) == cred' = [Quiet EXCEPT ![h] = record]

Outcome(o) == [IdleCred EXCEPT !.outcome = o]

Finish(h, o) == Goto(h, Outcome(o))

\* Writing slot s crosses every handler that is at work on it; a row that goes
\* is not there all along any more.
Cross(s, goes) ==
    [h \in Handlers |->
       [Quiet[h] EXCEPT !.crossed = @ \/ (~Ready(h) /\ cred[h].slot = s),
                    !.steady = IF goes THEN @ \ {s} ELSE @]]

\* Ids tell a slot's row from one that took its place.
FreshId == changes + 2

CountChange == changes < MaxCredChanges /\ changes' = changes + 1

WriteRow(h, s, id, o) ==
    /\ vault' = [vault EXCEPT ![s] = [id |-> id, sealed |-> s]]
    /\ cred' = [Cross(s, FALSE) EXCEPT ![h] = Outcome(o)]

-----------------------------------------------------------------------------
(* Writers.                                                                 *)

\* upsertMyCredential and the OAuth callback find the server; a server with a
\* shared credential takes none from a member, mTLS is not supported.
StartUpsert(h, m) ==
    /\ Begin(h, [IdleCred EXCEPT !.op = "upsert", !.owner = m])
    /\ UNCHANGED <<host, vault, changes>>

FindServer(h) ==
    /\ CredAt(h, "upsert", "server")
    /\ IF host.present /\ host.mode # "shared" /\ host.auth # "mtls"
       THEN Goto(h, [cred[h] EXCEPT !.pc = "find", !.host = host,
                                    !.slot = SlotOf(cred[h].owner, host.auth)])
       ELSE Finish(h, "failed")
    /\ UNCHANGED <<host, vault, changes>>

\* The callback stores what it was sent off for, whatever the server has become.
StartCallback(h, m) ==
    /\ Begin(h, [IdleCred EXCEPT !.op = "callback", !.owner = m])
    /\ UNCHANGED <<host, vault, changes>>

FindCallbackServer(h) ==
    /\ CredAt(h, "callback", "server")
    /\ IF host.present
       THEN Goto(h, [cred[h] EXCEPT !.pc = "find", !.slot = SlotOf(cred[h].owner, "oauth")])
       ELSE Finish(h, "failed")
    /\ UNCHANGED <<host, vault, changes>>

FindExisting(h) ==
    /\ \E op \in {"upsert", "callback"} : CredAt(h, op, "find")
    /\ Goto(h, [cred[h] EXCEPT !.pc = "write", !.id = vault[cred[h].slot].id])
    /\ UNCHANGED <<host, vault, changes>>

\* The row found is updated by id: My Access notices when it is gone, the
\* callback does not and sends the user back connected.
UpdateFound(h) ==
    LET s == cred[h].slot
    IN  /\ \E op \in {"upsert", "callback"} : CredAt(h, op, "write")
        /\ cred[h].id # 0
        /\ IF vault[s].id = cred[h].id
           THEN CountChange /\ WriteRow(h, s, cred[h].id, "ok")
           ELSE /\ Finish(h, IF cred[h].op = "upsert" THEN "failed" ELSE "ok")
                /\ UNCHANGED <<vault, changes>>
        /\ UNCHANGED host

\* Without one a row is inserted: the unique index refuses a second one, the
\* foreign key one whose server is gone.
InsertNew(h) ==
    LET s == cred[h].slot
    IN  /\ \E op \in {"upsert", "callback", "create"} : CredAt(h, op, "write")
        /\ cred[h].id = 0
        /\ IF host.present /\ vault[s] = NoRow
           THEN CountChange /\ WriteRow(h, s, FreshId, "ok")
           ELSE Finish(h, "failed") /\ UNCHANGED <<vault, changes>>
        /\ UNCHANGED host

\* The Secrets API: the binding is checked, then what it refers to.
StartCreate(h, b, k) ==
    /\ Ready(h)
    /\ b.server
    /\ IF NormalizeBinding(b) /\ host.present
       THEN Goto(h, [IdleCred EXCEPT !.op = "create", !.pc = "write", !.owner = b.owner,
                                     !.slot = [binding |-> b, kind |-> k]])
       ELSE Finish(h, "failed")
    /\ UNCHANGED <<host, vault, changes>>

StartUpdate(h, s) ==
    /\ Ready(h)
    /\ vault[s] # NoRow
    /\ Goto(h, [IdleCred EXCEPT !.op = "update", !.pc = "write", !.slot = s,
                                !.owner = s.binding.owner, !.id = vault[s].id])
    /\ UNCHANGED <<host, vault, changes>>

\* Encrypted under the kind and the binding the row was read with.
UpdateSecret(h) ==
    LET s == cred[h].slot
    IN  /\ CredAt(h, "update", "write")
        /\ IF vault[s].id = cred[h].id
           THEN CountChange /\ WriteRow(h, s, cred[h].id, "ok")
           ELSE Finish(h, "failed") /\ UNCHANGED <<vault, changes>>
        /\ UNCHANGED host

\* The Secrets API deletes by id, in one statement.
RemoveSecret(s) ==
    /\ vault[s] # NoRow
    /\ CountChange
    /\ vault' = [vault EXCEPT ![s] = NoRow]
    /\ cred' = Cross(s, TRUE)
    /\ UNCHANGED host

\* A member disconnects: the server is read for its method; of mTLS there is
\* nothing to delete.
StartDisconnect(h, m) ==
    /\ Begin(h, [IdleCred EXCEPT !.op = "disconnect", !.owner = m])
    /\ UNCHANGED <<host, vault, changes>>

FindDisconnected(h) ==
    /\ CredAt(h, "disconnect", "server")
    /\ IF host.present /\ host.auth # "mtls"
       THEN Goto(h, [cred[h] EXCEPT !.pc = "delete", !.slot = SlotOf(cred[h].owner, host.auth)])
       ELSE Finish(h, "failed")
    /\ UNCHANGED <<host, vault, changes>>

DeleteMyCredential(h) ==
    LET s == cred[h].slot
    IN  /\ CredAt(h, "disconnect", "delete")
        /\ IF vault[s] = NoRow
           THEN Finish(h, "failed") /\ UNCHANGED <<vault, changes>>
           ELSE /\ CountChange
                /\ vault' = [vault EXCEPT ![s] = NoRow]
                /\ cred' = [Cross(s, TRUE) EXCEPT ![h] = Outcome("ok")]
        /\ UNCHANGED host

-----------------------------------------------------------------------------
(* Readers: the gateway at a tool call, and the tool sync.                  *)

\* Which owners are asked for, in turn.
GatewayOrder(mode, m) ==
    CASE mode = "shared"           -> <<Shared>>
      [] mode = "subject_required" -> <<m>>
      [] mode = "either"           -> <<m, Shared>>

SyncOrder(m) == <<m, Shared>>

StartCall(h, m, op) ==
    /\ Begin(h, [IdleCred EXCEPT !.op = op, !.owner = m])
    /\ UNCHANGED <<host, vault, changes>>

ReadCallServer(h) ==
    /\ \E op \in {"call", "sync"} : CredAt(h, op, "server")
    /\ IF host.present /\ host.auth # "mtls"
       THEN Goto(h, [cred[h] EXCEPT !.pc = "first", !.host = host])
       ELSE Finish(h, "failed")
    /\ UNCHANGED <<host, vault, changes>>

OrderOf(h) ==
    IF cred[h].op = "call" THEN GatewayOrder(cred[h].host.mode, cred[h].owner)
    ELSE SyncOrder(cred[h].owner)

\* Mutant: the first owner without one ends the search.
AskOnce(h, pc, n) ==
    /\ \E op \in {"call", "sync"} : CredAt(h, op, pc)
    /\ LET o == OrderOf(h)[n]
       IN  Finish(h, IF vault[SlotOf(o, cred[h].host.auth)] # NoRow THEN o ELSE "missing")
    /\ UNCHANGED <<host, vault, changes>>

\* One statement for each owner: there, or on to the next one.
AskOwner(h, pc, n) ==
    /\ \E op \in {"call", "sync"} : CredAt(h, op, pc)
    /\ LET o == OrderOf(h)[n]
       IN  IF vault[SlotOf(o, cred[h].host.auth)] # NoRow THEN Finish(h, o)
           ELSE IF Len(OrderOf(h)) > n THEN Goto(h, [cred[h] EXCEPT !.pc = "second"])
           ELSE Finish(h, "missing")
    /\ UNCHANGED <<host, vault, changes>>

\* An administrator changes the server's method or mode, ...
EditHost(auth, mode) ==
    /\ host.present
    /\ CountChange
    /\ <<auth, mode>> # <<host.auth, host.mode>>
    /\ host' = [host EXCEPT !.auth = auth, !.mode = mode]
    /\ cred' = Quiet
    /\ UNCHANGED vault

\* ... or deletes it, and its secrets with it.
DeleteHost ==
    /\ host.present
    /\ CountChange
    /\ host' = NoHost
    /\ vault' = [s \in Slots |-> NoRow]
    /\ cred' = [h \in Handlers |->
                  [Quiet[h] EXCEPT !.crossed = @ \/ ~Ready(h), !.steady = {}]]

\* A statement fails, and the handler with it.
FailCred(h) ==
    /\ ~Ready(h)
    /\ Finish(h, "fault")
    /\ UNCHANGED <<host, vault, changes>>

CredNext ==
    \/ \E h \in Handlers :
          \/ \E m \in Callers :
                \/ StartUpsert(h, m) \/ StartCallback(h, m) \/ StartDisconnect(h, m)
                \/ \E op \in {"call", "sync"} : StartCall(h, m, op)
          \/ FindServer(h) \/ FindCallbackServer(h) \/ FindExisting(h)
          \/ UpdateFound(h) \/ InsertNew(h) \/ UpdateSecret(h)
          \/ FindDisconnected(h) \/ DeleteMyCredential(h)
          \/ FailCred(h) \/ ReadCallServer(h) \/ AskOwner(h, "first", 1) \/ AskOwner(h, "second", 2)
          \/ \E b \in Bindings, k \in Kinds : StartCreate(h, b, k)
          \/ \E s \in Slots : StartUpdate(h, s)
    \/ \E s \in Slots : RemoveSecret(s)
    \/ \E auth \in AuthMethods, mode \in Modes : EditHost(auth, mode)
    \/ DeleteHost

CredSpec == CredInit /\ [][CredNext]_credVars

-----------------------------------------------------------------------------
(* What the pages say.                                                      *)

\* readinessFor: whose credential the connection page says will be used.
Readiness(m) ==
    LET personal == SlotOf(m, host.auth) \in Present
        shared == SlotOf(Shared, host.auth) \in Present
    IN  IF host.mode = "shared" THEN IF shared THEN Shared ELSE "missing"
        ELSE IF host.mode = "subject_required" THEN IF personal THEN m ELSE "missing"
        ELSE IF personal THEN m ELSE IF shared THEN Shared ELSE "missing"

\* What a call that nothing crosses finds now.
GatewayFinds(m) ==
    LET order == GatewayOrder(host.mode, m)
        hits == {n \in 1..Len(order) : SlotOf(order[n], host.auth) \in Present}
    IN  IF hits = {} THEN "missing"
        ELSE order[CHOOSE n \in hits : \A k \in hits : n <= k]

-----------------------------------------------------------------------------
Asking(h) == cred[h].op \in {"call", "sync"} /\ cred[h].pc \in {"first", "second"}

\* Types; a server's secrets are gone with it.
CredTypeOK ==
    /\ host \in [present : BOOLEAN, auth : AuthMethods, mode : Modes]
    /\ vault \in [Slots -> [id : 0..(MaxCredChanges + 1), sealed : [binding : Bindings, kind : Kinds]]]
    /\ ~host.present => Present = {}
    /\ \A h \in Handlers :
          /\ cred[h].owner \in Members \cup {Shared}
          /\ cred[h].outcome \in Members \cup
                {Shared, "none", "ok", "failed", "fault", "missing"}

\* Whoever reads a row can decrypt it: however it was written and rewritten, it
\* was encrypted under the kind and the binding it is found by; and every row
\* that names the server is one that the readers of some owner look for.
SealedForReaders ==
    \A s \in Present :
        /\ vault[s].sealed = s
        /\ \E o \in Members \cup {Shared} : s = SlotOf(o, s.kind)

\* The readiness that My Access and the connection page show is what a call
\* finds: three pieces of code choose by mode, owner and kind, and agree.
ReadinessAgrees ==
    host.present /\ host.auth # "mtls" =>
        \A m \in Members : Readiness(m) = GatewayFinds(m)

\* A call is told that a credential is missing only if no credential it may use
\* was there from its beginning to its end: the two reads of "either" do not
\* lose one that stays.
MissingWasMissing ==
    [][\A h \in Handlers :
          Asking(h) /\ cred'[h] = Outcome("missing") =>
             \A n \in 1..Len(OrderOf(h)) :
                SlotOf(OrderOf(h)[n], cred[h].host.auth) \notin cred[h].steady]_credVars

\* A call uses the caller's own credential or the organisation's.
NeverAnothers ==
    [][\A h \in Handlers :
          Asking(h) /\ cred'[h].pc = "idle" =>
             cred'[h].outcome \in {cred[h].owner, Shared, "missing", "fault"}]_credVars

\* A Connect, in My Access or by OAuth, that no other write or deletion of that
\* credential crosses, stores it; a callback that reports success and stored
\* nothing was crossed by a deletion.
ConnectAloneStores ==
    [][\A h \in Handlers :
          /\ cred[h].op \in {"upsert", "callback"} /\ cred[h].pc = "write"
          /\ cred'[h].pc = "idle"
          /\ ~cred[h].crossed /\ cred'[h].outcome # "fault"
          => cred'[h].outcome = "ok" /\ vault'[cred[h].slot] # NoRow]_credVars

\* "This server uses a shared org credential. Members cannot connect a personal
\* account": a member's own write gives no new credential to a server in shared
\* mode, unless the mode changed while it ran.
SharedMeansShared ==
    [][\A h \in Handlers :
          CredAt(h, "upsert", "write") /\ cred'[h] = Outcome("ok") =>
             cred[h].host.mode # "shared"]_credVars

-----------------------------------------------------------------------------
\* Of stored credentials: every row can be opened by those who look for it, the
\* readers agree on who has one, a call uses nobody else's and misses none that
\* stays, a Connect alone stores, and shared means shared.
CredentialRules ==
    /\ [](/\ CredTypeOK
         /\ SealedForReaders
         /\ ReadinessAgrees)
    /\ NeverAnothers
    /\ MissingWasMissing
    /\ ConnectAloneStores
    /\ SharedMeansShared
=============================================================================
