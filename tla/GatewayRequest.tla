---------------------------- MODULE GatewayRequest ----------------------------
(***************************************************************************)
(* One request to the gateway, from its bearer to the upstream, while      *)
(* administrators change the tables it reads.                              *)
(*                                                                         *)
(* app.all("/mcp") builds a server for each request: the bearer's row, the *)
(* connection, the tools its roles name, the overrides and, when a tool is *)
(* called, the tool and its server are five reads with awaits between.     *)
(* Requests only read these tables and share nothing else, so one request  *)
(* at a time shows what any number of them can see.                        *)
(***************************************************************************)
EXTENDS Integers, FiniteSets

CONSTANTS
    Tools,              \* tools of one upstream server
    Roles,              \* roles of the tenant
    NotActive,          \* the statuses, other than active, to tell apart
    MaxChanges          \* bound: changes to the tables during one request

ASSUME PolicyAssumption ==
    /\ "active" \notin NotActive
    /\ Roles \cap {"credential", "connection", "server", "tool", "override",
                  "ungranted"} = {}
    /\ MaxChanges \in Nat

Status == {"active"} \cup NotActive

VARIABLES
    credential,     \* the bearer's row is there, unrevoked and unexpired
    connection,     \* status of its connection
    assigned,       \* connection_roles
    roleTools,      \* role_tools
    denyRoles,      \* the roles of type "deny"; the others are "grant"
    override,       \* connection_tool_overrides
    toolStatus,
    serverStatus,
    pc,             \* where the request is
    roleRows,       \* what the query for role tools returned
    allowed,        \* the tools registered for this request
    target,         \* the tool tools/call names, if it has come that far
    standing,       \* causes and grants that held from its arrival on (history)
    ever,           \* tools something blocked at some moment since (history)
    changes

tables  == <<credential, connection, assigned, roleTools, denyRoles, override,
             toolStatus, serverStatus>>
request == <<pc, roleRows, allowed, target>>
vars    == <<tables, request, standing, ever, changes>>

PC == {"idle", "bearer", "connection", "roles", "overrides", "listed",
       "called", "refused"}

Row == [id : Tools, permission : {"allow", "deny"}, status : Status,
        server : Status]

-----------------------------------------------------------------------------
(* Policy: loadToolPermissions.ts and getAllowedTools.ts.                   *)

PermissionRow(t, permission) ==
    [id |-> t, permission |-> permission, status |-> toolStatus[t],
     server |-> serverStatus]

RoleRows ==
    UNION {{PermissionRow(t, IF r \in denyRoles THEN "deny" ELSE "allow") :
               t \in roleTools[r]} : r \in assigned}

OverrideRows ==
    {PermissionRow(t, override[t]) : t \in {u \in Tools : override[u] # "none"}}

\* Mutant: an allow anywhere wins over a deny.
DeniedUnlessAllowed(rows, t) ==
    ~ \E row \in rows : row.id = t /\ row.permission = "allow"

Denied(rows, t) == \E row \in rows : row.id = t /\ row.permission = "deny"

\* mergeByToolId: deny wins; the statuses are those of the first row, and the
\* rows of roles come before those of overrides.
FirstRows(rows, later, t) ==
    LET Of(set) == {row \in set : row.id = t}
    IN  IF Of(rows) # {} THEN Of(rows) ELSE Of(later)

ToolIsAllowed(rows, later, t) ==
    /\ ~Denied(rows \cup later, t)
    /\ \E row \in FirstRows(rows, later, t) :
          row.status = "active" /\ row.server = "active"

\* Mutant: only a role can grant a tool.
GrantedByRole(rows, later) ==
    {t \in Tools : \E row \in rows : row.id = t /\ ToolIsAllowed(rows, later, t)}

GetAllowedTools(rows, later) == {t \in Tools : ToolIsAllowed(rows, later, t)}

-----------------------------------------------------------------------------
(* The API's answer to the same question: effectiveTools.ts.                *)

Sources == RoleRows \cup OverrideRows

\* Mutant: the API merges like a set of grants.
EffectiveGrants ==
    {t \in Tools : \E row \in Sources :
        row.id = t /\ row.permission = "allow" /\ row.status = "active"
            /\ row.server = "active"}

\* Rows are accumulated per tool, then judged by the same policy.
EffectiveTools ==
    LET Permission(t) == IF \E s \in Sources : s.id = t /\ s.permission = "deny"
                         THEN "deny" ELSE "allow"
        Accumulated == {PermissionRow(t, Permission(t)) :
                           t \in {s.id : s \in Sources}}
    IN  GetAllowedTools(Accumulated, {})

-----------------------------------------------------------------------------
(* Why a call of tool t ought to be refused at this moment.                 *)

Grants(t) ==
    {g \in {"override"} : override[t] = "allow"}
        \cup {r \in assigned \ denyRoles : t \in roleTools[r]}

Blocks(t) ==
    {c \in {"credential"} : ~credential}
        \cup {c \in {"connection"} : connection # "active"}
        \cup {c \in {"server"} : serverStatus # "active"}
        \cup {c \in {"tool"} : toolStatus[t] # "active"}
        \cup {c \in {"override"} : override[t] = "deny"}
        \cup {r \in assigned \cap denyRoles : t \in roleTools[r]}

Causes(t) == Blocks(t) \cup {c \in {"ungranted"} : Grants(t) = {}}

Grant == {"override"} \cup Roles
Cause == {"credential", "connection", "server", "tool", "override",
          "ungranted"} \cup Roles

Nothing == [t \in Tools |-> {}]
Current == [causes |-> [t \in Tools |-> Causes(t)],
            grants |-> [t \in Tools |-> Grants(t)]]

TypeOK ==
    /\ credential \in BOOLEAN
    /\ connection \in Status
    /\ assigned \subseteq Roles
    /\ roleTools \in [Roles -> SUBSET Tools]
    /\ denyRoles \subseteq Roles
    /\ override \in [Tools -> {"none", "allow", "deny"}]
    /\ toolStatus \in [Tools -> Status]
    /\ serverStatus \in Status
    /\ pc \in PC
    /\ roleRows \subseteq Row
    /\ allowed \subseteq Tools
    /\ target \subseteq Tools
    /\ standing.causes \in [Tools -> SUBSET Cause]
    /\ standing.grants \in [Tools -> SUBSET Grant]
    /\ ever \subseteq Tools
    /\ changes \in 0..MaxChanges

\* A new tenant: no grants, and nothing reviewed yet.
Init ==
    /\ credential = FALSE
    /\ connection \in NotActive
    /\ assigned = {}
    /\ roleTools = [r \in Roles |-> {}]
    /\ denyRoles = {}
    /\ override = [t \in Tools |-> "none"]
    /\ toolStatus \in [Tools -> NotActive]
    /\ serverStatus \in NotActive
    /\ pc = "idle"
    /\ roleRows = {}
    /\ allowed = {}
    /\ target = {}
    /\ standing = [causes |-> Nothing, grants |-> Nothing]
    /\ ever = {}
    /\ changes = 0

-----------------------------------------------------------------------------
(* The request.                                                             *)

GoTo(from, to) == pc = from /\ pc' = to

Reading == UNCHANGED <<tables, standing, ever, changes>>

Arrive ==
    /\ GoTo("idle", "bearer")
    /\ standing' = Current
    /\ ever' = {t \in Tools : Blocks(t) # {}}
    /\ UNCHANGED <<tables, roleRows, allowed, target, changes>>

\* resolveMcpOauthToken or the gateway token: the row, then the connection.
ReadCredential ==
    /\ GoTo("bearer", IF credential THEN "connection" ELSE "refused")
    /\ Reading /\ UNCHANGED <<roleRows, allowed, target>>

ReadConnection ==
    /\ GoTo("connection", IF connection = "active" THEN "roles" ELSE "refused")
    /\ Reading /\ UNCHANGED <<roleRows, allowed, target>>

ReadRoles ==
    /\ GoTo("roles", "overrides")
    /\ roleRows' = RoleRows
    /\ Reading /\ UNCHANGED <<allowed, target>>

ReadOverrides ==
    /\ GoTo("overrides", "listed")
    /\ allowed' = GetAllowedTools(roleRows, OverrideRows)
    /\ Reading /\ UNCHANGED <<roleRows, target>>

\* tools/call: a tool that was not registered is unknown; the tool and its
\* server are read again before the upstream is reached.
CallTool(t) ==
    /\ LET runs == t \in allowed /\ toolStatus[t] = "active"
                       /\ serverStatus = "active"
       IN  GoTo("listed", IF runs THEN "called" ELSE "refused")
    /\ target' = {t}
    /\ Reading /\ UNCHANGED <<roleRows, allowed>>

\* The answer is sent; the server built for the request is closed.
Close ==
    /\ pc \in {"listed", "called", "refused"}
    /\ pc' = "idle"
    /\ roleRows' = {}
    /\ allowed' = {}
    /\ target' = {}
    /\ standing' = [causes |-> Nothing, grants |-> Nothing]
    /\ ever' = {}
    /\ changes' = 0
    /\ UNCHANGED tables

-----------------------------------------------------------------------------
(* The tables meanwhile.  Each change is one statement or one transaction.  *)

\* History: what the change does to the causes.
Observe ==
    /\ UNCHANGED request
    /\ IF pc = "idle"
       THEN UNCHANGED <<standing, ever, changes>>
       ELSE /\ changes < MaxChanges
            /\ changes' = changes + 1
            /\ standing' =
                  [causes |-> [t \in Tools |-> standing.causes[t]
                                                  \cap Causes(t)'],
                   grants |-> [t \in Tools |-> standing.grants[t]
                                                  \cap Grants(t)']]
            /\ ever' = ever \cup {t \in Tools : Blocks(t)' # {}}

\* A credential is revoked or runs out, and another is minted for the client;
\* a request under way keeps presenting the one it has.
SetCredential(c) ==
    /\ credential' = c
    /\ c => pc = "idle"
    /\ UNCHANGED <<connection, assigned, roleTools, denyRoles, override,
                   toolStatus, serverStatus>>

SetConnection(s) ==
    /\ connection' = s
    /\ UNCHANGED <<credential, assigned, roleTools, denyRoles, override,
                   toolStatus, serverStatus>>

SetRoles(roles) ==
    /\ assigned' = roles
    /\ UNCHANGED <<credential, connection, roleTools, denyRoles, override,
                   toolStatus, serverStatus>>

SetRoleTools(r, set) ==
    /\ roleTools' = [roleTools EXCEPT ![r] = set]
    /\ UNCHANGED <<credential, connection, assigned, denyRoles, override,
                   toolStatus, serverStatus>>

SetRoleType(r) ==
    /\ denyRoles' = IF r \in denyRoles THEN denyRoles \ {r}
                    ELSE denyRoles \cup {r}
    /\ UNCHANGED <<credential, connection, assigned, roleTools, override,
                   toolStatus, serverStatus>>

SetToolOverrides(overrides) ==
    /\ override' = overrides
    /\ UNCHANGED <<credential, connection, assigned, roleTools, denyRoles,
                   toolStatus, serverStatus>>

SetTool(t, s) ==
    /\ toolStatus' = [toolStatus EXCEPT ![t] = s]
    /\ UNCHANGED <<credential, connection, assigned, roleTools, denyRoles,
                   override, serverStatus>>

\* Rows that refer to the tool go with it; the row itself no longer exists,
\* which to every reader is a status other than active.
RemoveTool(t) ==
    /\ toolStatus' \in [Tools -> Status]
    /\ toolStatus'[t] \in NotActive
    /\ \A u \in Tools \ {t} : toolStatus'[u] = toolStatus[u]
    /\ roleTools' = [r \in Roles |-> roleTools[r] \ {t}]
    /\ override' = [override EXCEPT ![t] = "none"]
    /\ UNCHANGED <<credential, connection, assigned, denyRoles, serverStatus>>

SetServer(s) ==
    /\ serverStatus' = s
    /\ UNCHANGED <<credential, connection, assigned, roleTools, denyRoles,
                   override, toolStatus>>

Change ==
    /\ \/ \E c \in BOOLEAN : SetCredential(c)
       \/ \E s \in Status : SetConnection(s) \/ SetServer(s)
       \/ \E roles \in SUBSET Roles : SetRoles(roles)
       \/ \E r \in Roles : SetRoleType(r)
       \/ \E r \in Roles, set \in SUBSET Tools : SetRoleTools(r, set)
       \/ \E o \in [Tools -> {"none", "allow", "deny"}] : SetToolOverrides(o)
       \/ \E t \in Tools, s \in Status : SetTool(t, s)
       \/ \E t \in Tools : RemoveTool(t)
    /\ Observe

Next ==
    \/ Arrive \/ ReadCredential \/ ReadConnection
    \/ ReadRoles \/ ReadOverrides
    \/ \E t \in Tools : CallTool(t)
    \/ Close
    \/ Change

Spec == Init /\ [][Next]_vars

-----------------------------------------------------------------------------
\* Whatever the interleaving, a call does not reach the upstream, and its tool
\* is not listed, while one cause to refuse it stands from the moment the
\* request arrived: a quarantine, a deny role, an inactive server...
\* ("Denied or quarantined connections return errors at the gateway").
StandingCauseBlocks ==
    /\ pc = "called" => \A t \in target : standing.causes[t] = {}
    /\ pc = "listed" => \A t \in allowed : standing.causes[t] = {}

\* And a request is refused, or a tool missing from its list, only if
\* something blocked it at some moment since the request arrived or no single
\* grant of it stood all along.  (A grant moved from an override to a role
\* between the two reads is missed, although the tool was always granted.)
RefusedForACause ==
    LET Excused(t) == t \in ever \/ standing.grants[t] = {}
    IN  /\ pc = "listed" => \A t \in Tools \ allowed : Excused(t)
        /\ pc = "refused" =>
              \A t \in IF target = {} THEN Tools ELSE target : Excused(t)

\* What the API shows as effective is what the gateway would serve on an
\* active connection.
ApiAgrees ==
    EffectiveTools = {t \in Tools : Causes(t) \ {"credential", "connection"} = {}}

-----------------------------------------------------------------------------
(* The inductive invariant behind the proofs (GatewayRequestProofs).        *)

\* The history is true of the tables as they stand.
HistoryInv ==
    pc # "idle" =>
        \A t \in Tools :
            /\ standing.causes[t] \subseteq Causes(t)
            /\ standing.grants[t] \subseteq Grants(t)
            /\ t \notin ever => Blocks(t) = {}

\* What the request has checked does not stand against it.
PassedInv ==
    \A t \in Tools :
        /\ pc \in {"connection", "roles", "overrides", "listed", "called"}
              => "credential" \notin standing.causes[t]
        /\ pc \in {"roles", "overrides", "listed", "called"}
              => "connection" \notin standing.causes[t]

\* What stood when the roles were read is in the rows that were returned.
RowsInv ==
    pc = "overrides" =>
        \A t \in Tools :
            LET rows == {row \in roleRows : row.id = t}
            IN  /\ "tool" \in standing.causes[t]
                      => \A row \in rows : row.status # "active"
                /\ "server" \in standing.causes[t]
                      => \A row \in rows : row.server # "active"
                /\ Roles \cap standing.causes[t] # {}
                      => \E row \in rows : row.permission = "deny"
                /\ "ungranted" \in standing.causes[t]
                      => \A row \in rows : row.permission = "deny"
                /\ Roles \cap standing.grants[t] # {} => rows # {}
                /\ t \notin ever
                      => \A row \in rows : row.permission = "allow"
                            /\ row.status = "active" /\ row.server = "active"

IInv == TypeOK /\ HistoryInv /\ PassedInv /\ RowsInv
            /\ StandingCauseBlocks /\ RefusedForACause
=============================================================================
