----------------------------- MODULE SsoSettings -----------------------------
(***************************************************************************)
(* The SSO settings of an organisation and the Better Auth instance that   *)
(* every API process builds from them (identity/service.ts,                *)
(* packages/auth/createAuth.ts, apps/api/src/index.ts).  A process builds  *)
(* its instance when it starts and again for each change it serves itself; *)
(* during a rolling deployment two processes serve at once.                *)
(***************************************************************************)
EXTENDS ApiHandlers

CONSTANTS
    MaxRolls,       \* bound: rolling deployments
    MaxSsoUpdates,  \* bound: updates of the settings
    MaxSsoFaults    \* bound: rebuilds that fail

ASSUME SsoAssumption ==
    MaxRolls \in Nat /\ MaxSsoUpdates \in Nat /\ MaxSsoFaults \in Nat

VARIABLES
    tenantExists,   \* the organisation was created
    sso,            \* its row of sso_configs
    serving,        \* API processes that run, numbered by deployment
    auth,           \* the Better Auth instance of each process
    ssoCall,        \* what each handler is doing
    ssoHistory      \* updates, faults, and what excuses a state

ssoTables == <<tenantExists, sso>>
ssoVars == <<ssoTables, serving, auth, ssoCall, ssoHistory>>

Processes == 1..(MaxRolls + 1)

\* secret stands for issuer, clientId and the client secret together.
Settings == {"enabled", "secret", "required"}

SsoRow == [exists : BOOLEAN, on : SUBSET Settings, scim : BOOLEAN]

\* closed: public sign-up with a password; provider: the tenant's SSO.
AuthInstance == [closed : BOOLEAN, provider : BOOLEAN]

NoAuth == [closed |-> FALSE, provider |-> FALSE]

\* A handler: what it has read of the row (seen), and the instance it builds.
NoSsoCall == [op |-> "idle", pc |-> "idle", proc |-> 1, seen |-> {}, built |-> NoAuth]

SsoOps == {"idle", "boot", "found", "update", "rotate"}
SsoPCs == {"idle", "row", "insertRow", "write", "load", "count", "assign"}

SsoTypeOK ==
    /\ tenantExists \in BOOLEAN
    /\ sso \in SsoRow
    /\ serving \subseteq Processes /\ serving # {}
    /\ auth \in [Processes -> AuthInstance]
    /\ ssoCall \in [Handlers -> [op : SsoOps, pc : SsoPCs, proc : Processes,
                                 seen : SUBSET Settings, built : AuthInstance]]
    /\ ssoHistory \in [raced : BOOLEAN, failed : SUBSET Processes,
                       missed : SUBSET Processes, updates : 0..MaxSsoUpdates,
                       faults : 0..MaxSsoFaults]
    /\ ~sso.exists => sso.on = {} /\ ~sso.scim
    /\ sso.exists => tenantExists
    /\ \A h \in Handlers : ssoCall[h].op # "idle" => ssoCall[h].proc \in serving

SsoInit ==
    /\ tenantExists = FALSE
    /\ sso = [exists |-> FALSE, on |-> {}, scim |-> FALSE]
    /\ serving = {1}
    /\ auth = [p \in Processes |-> NoAuth]
    /\ ssoCall = [h \in Handlers |-> NoSsoCall]
    /\ ssoHistory = [raced |-> FALSE, failed |-> {}, missed |-> {}, updates |-> 0,
                     faults |-> 0]

-----------------------------------------------------------------------------
SsoAt(h, pc) == ssoCall[h].pc = pc

SsoStep(h, pc) == ssoCall' = [ssoCall EXCEPT ![h].pc = pc]

SsoDone(h) == ssoCall' = [ssoCall EXCEPT ![h] = NoSsoCall]

Rebuilds == {"boot", "found", "update"}

\* History: rebuilds that overlap, and processes that did not serve a change.
SsoStart(h, p, op, pc) ==
    /\ ssoCall[h] = NoSsoCall
    /\ ssoCall' = [ssoCall EXCEPT ![h].op = op, ![h].pc = pc, ![h].proc = p]
    /\ ssoHistory' = [ssoHistory EXCEPT
          !.raced = @ \/ (op \in Rebuilds
                          /\ \E k \in Handlers : ssoCall[k].op \in Rebuilds),
          !.missed = IF op \in {"found", "update"} THEN @ \cup (serving \ {p}) ELSE @,
          !.updates = IF op = "update" THEN @ + 1 ELSE @]

-----------------------------------------------------------------------------
\* The organisation is created (see Organizations).
CreateTenant(h, p) ==
    /\ p \in serving
    /\ ~tenantExists
    /\ tenantExists' = TRUE
    /\ SsoStart(h, p, "found", "load")
    /\ UNCHANGED <<sso, serving, auth>>

StartUpdateSso(h, p) ==
    /\ p \in serving
    /\ tenantExists
    /\ ssoHistory.updates < MaxSsoUpdates
    /\ SsoStart(h, p, "update", "row")
    /\ UNCHANGED <<ssoTables, serving, auth>>

StartRotateScimToken(h, p) ==
    /\ p \in serving
    /\ tenantExists
    /\ ~sso.scim
    /\ SsoStart(h, p, "rotate", "row")
    /\ UNCHANGED <<ssoTables, serving, auth>>

\* ensureSsoRow: a row that is missing is inserted with the defaults.
FindRow(h) ==
    /\ SsoAt(h, "row")
    /\ IF sso.exists
       THEN ssoCall' = [ssoCall EXCEPT ![h].pc = "write", ![h].seen = sso.on]
       ELSE SsoStep(h, "insertRow")
    /\ UNCHANGED <<ssoTables, serving, auth, ssoHistory>>

\* The row is unique: the handler that lost the race to insert it fails.
InsertRow(h) ==
    /\ SsoAt(h, "insertRow")
    /\ sso' = [sso EXCEPT !.exists = TRUE]
    /\ IF sso.exists THEN SsoDone(h) ELSE SsoStep(h, "write")
    /\ UNCHANGED <<tenantExists, serving, auth, ssoHistory>>

\* What a request changes: one setting, or all at once.
Patches == {[on |-> {f}, off |-> {}] : f \in Settings}
           \cup {[on |-> {}, off |-> {f}] : f \in Settings}
           \cup {[on |-> Settings, off |-> {}]}

After(patch, before) == (before \ patch.off) \cup patch.on

\* SSO that is enabled has a client secret; and to require it takes both.
Acceptable(patch, seen) ==
    LET after == After(patch, seen)
    IN  /\ "enabled" \in after => "secret" \in after
        /\ "required" \in patch.on => {"enabled", "secret"} \subseteq after

\* Mutant: settings are stored, and the instance is not rebuilt.
WriteWithoutReload(h, patch) ==
    /\ SsoAt(h, "write")
    /\ ssoCall[h].op = "update"
    /\ sso' = IF Acceptable(patch, ssoCall[h].seen)
              THEN [sso EXCEPT !.on = After(patch, @)] ELSE sso
    /\ SsoDone(h)
    /\ UNCHANGED <<tenantExists, serving, auth, ssoHistory>>

\* A patch is judged by the row that was read and sets its own columns only.
WriteSso(h, patch) ==
    /\ SsoAt(h, "write")
    /\ ssoCall[h].op = "update"
    /\ IF Acceptable(patch, ssoCall[h].seen)
       THEN sso' = [sso EXCEPT !.on = After(patch, @)] /\ SsoStep(h, "load")
       ELSE UNCHANGED sso /\ SsoDone(h)
    /\ UNCHANGED <<tenantExists, serving, auth, ssoHistory>>

WriteScimToken(h) ==
    /\ SsoAt(h, "write")
    /\ ssoCall[h].op = "rotate"
    /\ sso' = [sso EXCEPT !.scim = TRUE]
    /\ SsoDone(h)
    /\ UNCHANGED <<tenantExists, serving, auth, ssoHistory>>

-----------------------------------------------------------------------------
(* initAuth and reloadAuth.                                                 *)

LoadOAuthConfigs(h) ==
    /\ SsoAt(h, "load")
    /\ ssoCall' = [ssoCall EXCEPT ![h].pc = "count",
                      ![h].built.provider = {"enabled", "secret"} \subseteq sso.on]
    /\ UNCHANGED <<ssoTables, serving, auth, ssoHistory>>

HasBootstrappedTenant(h) ==
    /\ SsoAt(h, "count")
    /\ ssoCall' = [ssoCall EXCEPT ![h].pc = "assign", ![h].built.closed = tenantExists]
    /\ UNCHANGED <<ssoTables, serving, auth, ssoHistory>>

AssignAuth(h) ==
    /\ SsoAt(h, "assign")
    /\ auth' = [auth EXCEPT ![ssoCall[h].proc] = ssoCall[h].built]
    /\ SsoDone(h)
    /\ UNCHANGED <<ssoTables, serving, ssoHistory>>

\* The database cannot be read: the process keeps the instance it had.
ReloadFails(h) ==
    /\ ssoCall[h].pc \in {"load", "count"}
    /\ ssoCall[h].op # "boot"
    /\ ssoHistory.faults < MaxSsoFaults
    /\ ssoHistory' = [ssoHistory EXCEPT !.faults = @ + 1,
                                        !.failed = @ \cup {ssoCall[h].proc}]
    /\ SsoDone(h)
    /\ UNCHANGED <<ssoTables, serving, auth>>

-----------------------------------------------------------------------------
\* A deployment starts a process; it is served to once it has booted, and the
\* one before is stopped then, with whatever it was doing.
Roll(h) ==
    LET p == CHOOSE q \in serving : \A r \in serving : r <= q
    IN  /\ Cardinality(serving) = 1
        /\ p + 1 \in Processes
        /\ SsoStart(h, p + 1, "boot", "load")
        /\ serving' = serving \cup {p + 1}
        /\ UNCHANGED <<ssoTables, auth>>

Booting(p) == \E h \in Handlers : ssoCall[h].op = "boot" /\ ssoCall[h].proc = p

StopOld(p) ==
    /\ {p, p + 1} \subseteq serving
    /\ ~Booting(p + 1)
    /\ serving' = serving \ {p}
    /\ ssoCall' = [h \in Handlers |-> IF ssoCall[h].proc = p THEN NoSsoCall ELSE ssoCall[h]]
    /\ auth' = [auth EXCEPT ![p] = NoAuth]
    /\ ssoHistory' = [ssoHistory EXCEPT !.failed = @ \ {p}, !.missed = @ \ {p}]
    /\ UNCHANGED ssoTables

SsoNext ==
    \/ \E h \in Handlers, p \in serving :
          /\ ~Booting(p)
          /\ CreateTenant(h, p) \/ StartUpdateSso(h, p) \/ StartRotateScimToken(h, p)
    \/ \E h \in Handlers :
          \/ FindRow(h) \/ InsertRow(h) \/ WriteScimToken(h)
          \/ \E patch \in Patches : WriteSso(h, patch)
          \/ LoadOAuthConfigs(h) \/ HasBootstrappedTenant(h) \/ AssignAuth(h)
          \/ ReloadFails(h) \/ Roll(h)
    \/ \E p \in Processes : StopOld(p)
    \/ UNCHANGED ssoVars    \* nobody has anything to change

SsoSpec == SsoInit /\ [][SsoNext]_ssoVars

-----------------------------------------------------------------------------
\* "Enabled SSO requires issuer, clientId, and clientSecret", unless two
\* updates overlap: each is judged by the row it read.
EnabledHasSecret == ~ssoHistory.raced => ("enabled" \in sso.on => "secret" \in sso.on)

\* The process offers what the tables say, once nothing is being rebuilt.  Not
\* so when rebuilds overlap (the one that read first may be installed last),
\* when one failed, or when another process served the change.
Settled(p) ==
    /\ p \in serving
    /\ \A h \in Handlers : ssoCall[h].op \notin Rebuilds
    /\ ~ssoHistory.raced
    /\ p \notin ssoHistory.failed \cup ssoHistory.missed

\* Public sign-up with a password is closed as soon as an organisation exists.
SignUpClosed == \A p \in Processes : Settled(p) => (tenantExists => auth[p].closed)

\* Members who are required to come through SSO find it offered, and nobody
\* finds a provider that was switched off.
ProviderIsCurrent ==
    \A p \in Processes : Settled(p) =>
        /\ {"enabled", "required"} \subseteq sso.on => auth[p].provider
        /\ auth[p].provider => "enabled" \in sso.on

-----------------------------------------------------------------------------
\* Of single sign-on: it is enabled only with its secret, and the auth instance
\* that serves is the one the settings call for.
SsoRules ==
    /\ SsoTypeOK
    /\ EnabledHasSecret
    /\ SignUpClosed
    /\ ProviderIsCurrent
=============================================================================
