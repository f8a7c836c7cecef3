------------------------ MODULE GatewayRequestProofs ------------------------
(***************************************************************************)
(* Proofs about GatewayRequest, for every set of tools, roles and statuses *)
(* and any number of changes during a request, and about                   *)
(* ClientRegistration, how the gateway knows the clients that call.        *)
(***************************************************************************)
EXTENDS GatewayRequest, ClientRegistration, FiniteSetTheorems, TLAPS

(***************************************************************************)
(* The policy: what it means for a tool to be allowed, or not.             *)
(***************************************************************************)

LEMMA RoleRowsAre ==
  ASSUME TypeOK, NEW row
  PROVE  row \in RoleRows <=>
           \E r \in assigned : \E t \in roleTools[r] :
              row = PermissionRow(t, IF r \in denyRoles THEN "deny" ELSE "allow")
BY DEF RoleRows

LEMMA RowFields ==
  ASSUME NEW t, NEW permission
  PROVE  /\ PermissionRow(t, permission).id = t
         /\ PermissionRow(t, permission).permission = permission
         /\ PermissionRow(t, permission).status = toolStatus[t]
         /\ PermissionRow(t, permission).server = serverStatus
BY DEF PermissionRow

LEMMA RowsType ==
  ASSUME TypeOK
  PROVE  RoleRows \subseteq Row /\ OverrideRows \subseteq Row
<1>1. ASSUME NEW t \in Tools, NEW permission \in {"allow", "deny"}
      PROVE  PermissionRow(t, permission) \in Row
  BY DEF PermissionRow, Row, TypeOK
<1>2. RoleRows \subseteq Row
  BY <1>1 DEF RoleRows, TypeOK
<1>3. OverrideRows \subseteq Row
  BY <1>1 DEF OverrideRows, TypeOK
<1> QED
  BY <1>2, <1>3

\* An override is the only row of its tool among the overrides.
LEMMA OverrideRowsAre ==
  ASSUME TypeOK, NEW t \in Tools
  PROVE  /\ \A row \in OverrideRows :
               row.id = t => /\ row.permission = override[t]
                             /\ override[t] # "none"
                             /\ row.status = toolStatus[t]
                             /\ row.server = serverStatus
         /\ override[t] # "none" => \E row \in OverrideRows : row.id = t
<1>1. ASSUME NEW row
      PROVE  row \in OverrideRows <=>
               \E u \in Tools : override[u] # "none"
                                 /\ row = PermissionRow(u, override[u])
  BY DEF OverrideRows
<1> QED
  BY <1>1, RowFields

\* A role of the connection that names the tool has a row, and no other role.
LEMMA RoleRowsOf ==
  ASSUME TypeOK, NEW t \in Tools
  PROVE  /\ \A row \in RoleRows :
               row.id = t =>
                 /\ row.status = toolStatus[t]
                 /\ row.server = serverStatus
                 /\ \E r \in assigned :
                       /\ t \in roleTools[r]
                       /\ row.permission =
                            (IF r \in denyRoles THEN "deny" ELSE "allow")
         /\ \A r \in assigned :
               t \in roleTools[r] =>
                 \E row \in RoleRows :
                    /\ row.id = t
                    /\ row.permission =
                         (IF r \in denyRoles THEN "deny" ELSE "allow")
<1>1. ASSUME NEW row \in RoleRows, row.id = t
      PROVE  /\ row.status = toolStatus[t]
             /\ row.server = serverStatus
             /\ \E r \in assigned :
                   /\ t \in roleTools[r]
                   /\ row.permission =
                        (IF r \in denyRoles THEN "deny" ELSE "allow")
  BY <1>1, RoleRowsAre, RowFields
<1>2. ASSUME NEW r \in assigned, t \in roleTools[r]
      PROVE  \E row \in RoleRows :
                /\ row.id = t
                /\ row.permission =
                     (IF r \in denyRoles THEN "deny" ELSE "allow")
  BY <1>2, RoleRowsAre, RowFields
<1> QED
  BY <1>1, <1>2

LEMMA AllowedIff ==
  ASSUME NEW rows, NEW later, NEW t \in Tools
  PROVE  t \in GetAllowedTools(rows, later) <=>
           /\ ~ \E row \in rows \cup later :
                   row.id = t /\ row.permission = "deny"
           /\ \/ \E row \in rows :
                    row.id = t /\ row.status = "active" /\ row.server = "active"
              \/ /\ ~ \E row \in rows : row.id = t
                 /\ \E row \in later :
                       row.id = t /\ row.status = "active"
                           /\ row.server = "active"
BY DEF GetAllowedTools, ToolIsAllowed, Denied, FirstRows

LEMMA BlocksAre ==
  ASSUME TypeOK, NEW t \in Tools
  PROVE  /\ "credential" \in Blocks(t) <=> ~credential
         /\ "connection" \in Blocks(t) <=> connection # "active"
         /\ "server" \in Blocks(t) <=> serverStatus # "active"
         /\ "tool" \in Blocks(t) <=> toolStatus[t] # "active"
         /\ "override" \in Blocks(t) <=> override[t] = "deny"
         /\ "ungranted" \notin Blocks(t)
         /\ \A r \in Roles : r \in Blocks(t) <=>
               r \in assigned /\ r \in denyRoles /\ t \in roleTools[r]
BY PolicyAssumption DEF Blocks, TypeOK

LEMMA GrantsAre ==
  ASSUME TypeOK, NEW t \in Tools
  PROVE  /\ "override" \in Grants(t) <=> override[t] = "allow"
         /\ \A r \in Roles : r \in Grants(t) <=>
               r \in assigned /\ r \notin denyRoles /\ t \in roleTools[r]
         /\ Grants(t) \subseteq Grant
BY PolicyAssumption DEF Grants, Grant, TypeOK

LEMMA CausesAre ==
  ASSUME TypeOK, NEW t \in Tools
  PROVE  /\ \A c : c # "ungranted" => (c \in Causes(t) <=> c \in Blocks(t))
         /\ "ungranted" \in Causes(t) <=> Grants(t) = {}
         /\ Causes(t) \subseteq Cause
<1>1. "ungranted" \notin Blocks(t) /\ Blocks(t) \subseteq Cause
  BY PolicyAssumption DEF Blocks, Cause, TypeOK
<1> QED
  BY <1>1 DEF Causes, Cause

(***************************************************************************)
(* Type correctness.                                                       *)
(***************************************************************************)

LEMMA TypeInit == Init => TypeOK
<1> SUFFICES ASSUME Init PROVE TypeOK
  OBVIOUS
<1>1. toolStatus \in [Tools -> Status] /\ serverStatus \in Status
      /\ connection \in Status
  BY DEF Init, Status
<1>2. /\ standing.causes \in [Tools -> SUBSET Cause]
      /\ standing.grants \in [Tools -> SUBSET Grant]
  BY DEF Init, Nothing
<1>3. roleTools \in [Roles -> SUBSET Tools]
      /\ override \in [Tools -> {"none", "allow", "deny"}]
      /\ changes \in 0..MaxChanges
  BY PolicyAssumption DEF Init
<1> QED
  BY <1>1, <1>2, <1>3 DEF Init, TypeOK, PC

LEMMA TypeRequest ==
  ASSUME TypeOK,
         \/ Arrive \/ ReadCredential \/ ReadConnection \/ ReadRoles
         \/ ReadOverrides \/ (\E t \in Tools : CallTool(t)) \/ Close
  PROVE  TypeOK'
<1> USE DEF GoTo, Reading, tables, PC
<1>1. CASE Arrive
  <2>1. /\ \A t \in Tools : Causes(t) \subseteq Cause
        /\ \A t \in Tools : Grants(t) \subseteq Grant
    BY CausesAre, GrantsAre
  <2>2. /\ Current.causes \in [Tools -> SUBSET Cause]
        /\ Current.grants \in [Tools -> SUBSET Grant]
    BY <2>1 DEF Current
  <2> QED
    BY <1>1, <2>2 DEF Arrive, TypeOK
<1>2. CASE ReadCredential \/ ReadConnection
  BY <1>2 DEF ReadCredential, ReadConnection, TypeOK
<1>3. CASE ReadRoles
  BY <1>3, RowsType DEF ReadRoles, TypeOK
<1>4. CASE ReadOverrides
  BY <1>4 DEF ReadOverrides, TypeOK, GetAllowedTools
<1>5. ASSUME NEW t \in Tools, CallTool(t) PROVE TypeOK'
  BY <1>5 DEF CallTool, TypeOK
<1>6. CASE Close
  BY <1>6, PolicyAssumption DEF Close, TypeOK, Nothing
<1> QED
  BY <1>1, <1>2, <1>3, <1>4, <1>5, <1>6

\* A change to the tables keeps their types.
LEMMA TablesType ==
  ASSUME TypeOK,
         \/ \E c \in BOOLEAN : SetCredential(c)
         \/ \E s \in Status : SetConnection(s) \/ SetServer(s)
         \/ \E roles \in SUBSET Roles : SetRoles(roles)
         \/ \E r \in Roles : SetRoleType(r)
         \/ \E r \in Roles, set \in SUBSET Tools : SetRoleTools(r, set)
         \/ \E o \in [Tools -> {"none", "allow", "deny"}] : SetToolOverrides(o)
         \/ \E t \in Tools, s \in Status : SetTool(t, s)
         \/ \E t \in Tools : RemoveTool(t)
  PROVE  /\ credential' \in BOOLEAN
         /\ connection' \in Status
         /\ assigned' \subseteq Roles
         /\ roleTools' \in [Roles -> SUBSET Tools]
         /\ denyRoles' \subseteq Roles
         /\ override' \in [Tools -> {"none", "allow", "deny"}]
         /\ toolStatus' \in [Tools -> Status]
         /\ serverStatus' \in Status
<1>1. ASSUME NEW c \in BOOLEAN, SetCredential(c)
      PROVE  /\ credential' \in BOOLEAN
             /\ UNCHANGED <<connection, assigned, roleTools, denyRoles,
                            override, toolStatus, serverStatus>>
  BY <1>1 DEF SetCredential
<1> USE DEF TypeOK
<1>2. CASE \E s \in Status : SetConnection(s) \/ SetServer(s)
  BY <1>2 DEF SetConnection, SetServer
<1>3. CASE \E roles \in SUBSET Roles : SetRoles(roles)
  BY <1>3 DEF SetRoles
<1>4. CASE \E r \in Roles : SetRoleType(r)
  BY <1>4 DEF SetRoleType
<1>5. CASE \E r \in Roles, set \in SUBSET Tools : SetRoleTools(r, set)
  BY <1>5 DEF SetRoleTools
<1>6. CASE \E o \in [Tools -> {"none", "allow", "deny"}] : SetToolOverrides(o)
  BY <1>6 DEF SetToolOverrides
<1>7. CASE \E t \in Tools, s \in Status : SetTool(t, s)
  BY <1>7 DEF SetTool
<1>8. CASE \E t \in Tools : RemoveTool(t)
  BY <1>8 DEF RemoveTool
<1> QED
  BY <1>1, <1>2, <1>3, <1>4, <1>5, <1>6, <1>7, <1>8

LEMMA TypeChange ==
  ASSUME TypeOK, Change
  PROVE  TypeOK'
<1>1. /\ credential' \in BOOLEAN
      /\ connection' \in Status
      /\ assigned' \subseteq Roles
      /\ roleTools' \in [Roles -> SUBSET Tools]
      /\ denyRoles' \subseteq Roles
      /\ override' \in [Tools -> {"none", "allow", "deny"}]
      /\ toolStatus' \in [Tools -> Status]
      /\ serverStatus' \in Status
  BY TablesType DEF Change
<1>2. Observe
  BY DEF Change
<1>3. changes' \in 0..MaxChanges
  BY <1>2, PolicyAssumption DEF Observe, TypeOK
<1>4. /\ standing'.causes \in [Tools -> SUBSET Cause]
      /\ standing'.grants \in [Tools -> SUBSET Grant]
      /\ ever' \subseteq Tools
  BY <1>2 DEF Observe, TypeOK
<1> QED
  BY <1>1, <1>2, <1>3, <1>4 DEF TypeOK, Observe, request

LEMMA TypeNext == TypeOK /\ [Next]_vars => TypeOK'
<1> SUFFICES ASSUME TypeOK, [Next]_vars PROVE TypeOK'
  OBVIOUS
<1>1. CASE UNCHANGED vars
  BY <1>1 DEF vars, tables, request, TypeOK
<1> QED
  BY <1>1, TypeRequest, TypeChange DEF Next

\* No step of a request, and no change to the tables, leaves a variable out of
\* its type.
THEOREM TypeCorrect == Spec => []TypeOK
<1> QED
  BY TypeInit, TypeNext, PTL DEF Spec

(***************************************************************************)
(* Changes: a request's history only loses causes and grants.              *)
(***************************************************************************)

LEMMA ChangeEffect ==
  ASSUME TypeOK, Change, NEW t \in Tools, pc # "idle"
  PROVE  /\ standing'.causes[t] = standing.causes[t] \cap Causes(t)'
         /\ standing'.grants[t] = standing.grants[t] \cap Grants(t)'
         /\ t \in ever' <=> t \in ever \/ Blocks(t)' # {}
BY DEF Change, Observe

LEMMA ChangeKeepsIInv ==
  ASSUME IInv, Change
  PROVE  HistoryInv' /\ PassedInv' /\ RowsInv' /\ StandingCauseBlocks'
             /\ RefusedForACause'
<1> USE DEF IInv
<1>1. UNCHANGED <<pc, roleRows, allowed, target>>
  BY DEF Change, Observe, request
<1>2. CASE pc = "idle"
  BY <1>1, <1>2 DEF Change, Observe, HistoryInv, PassedInv, RowsInv,
                    StandingCauseBlocks, RefusedForACause
<1>3. CASE pc # "idle"
  <2>1. HistoryInv'
    BY <1>1, <1>3, ChangeEffect DEF HistoryInv
  <2>2. PassedInv'
    BY <1>1, <1>3, ChangeEffect DEF PassedInv
  <2>3. RowsInv'
    BY <1>1, <1>3, ChangeEffect DEF RowsInv
  <2>4. StandingCauseBlocks'
    BY <1>1, <1>3, ChangeEffect DEF StandingCauseBlocks, TypeOK
  <2>5. RefusedForACause'
    BY <1>1, <1>3, ChangeEffect DEF RefusedForACause, TypeOK
  <2> QED
    BY <2>1, <2>2, <2>3, <2>4, <2>5
<1> QED
  BY <1>2, <1>3

(***************************************************************************)
(* The steps of the request.                                               *)
(***************************************************************************)

\* What is true of the tables as they stand, whatever is primed.
LEMMA TablesKeep ==
  ASSUME UNCHANGED tables, NEW t \in Tools
  PROVE  Causes(t)' = Causes(t) /\ Grants(t)' = Grants(t)
             /\ Blocks(t)' = Blocks(t)
BY DEF tables, Causes, Grants, Blocks

\* A tool with a cause to block it now has been blocked since the request came.
LEMMA BlockedNow ==
  ASSUME IInv, pc # "idle", NEW t \in Tools, NEW c \in Blocks(t)
  PROVE  t \in ever
BY DEF IInv, HistoryInv

LEMMA ArriveKeepsIInv ==
  ASSUME IInv, Arrive
  PROVE  HistoryInv' /\ PassedInv' /\ RowsInv' /\ StandingCauseBlocks'
             /\ RefusedForACause'
<1>1. pc' = "bearer"
  BY DEF Arrive, GoTo
<1>2. ASSUME NEW t \in Tools
      PROVE  /\ standing'.causes[t] = Causes(t)'
             /\ standing'.grants[t] = Grants(t)'
             /\ t \notin ever' => Blocks(t)' = {}
  BY TablesKeep DEF Arrive, Current
<1> QED
  BY <1>1, <1>2 DEF HistoryInv, PassedInv, RowsInv, StandingCauseBlocks,
                    RefusedForACause

LEMMA CheckKeepsIInv ==
  ASSUME IInv, ReadCredential \/ ReadConnection
  PROVE  HistoryInv' /\ PassedInv' /\ RowsInv' /\ StandingCauseBlocks'
             /\ RefusedForACause'
<1> USE DEF IInv, GoTo, Reading
<1>1. HistoryInv'
  BY TablesKeep DEF ReadCredential, ReadConnection, HistoryInv
<1>2. ASSUME NEW t \in Tools
      PROVE  /\ credential => "credential" \notin standing.causes[t]
             /\ connection = "active" => "connection" \notin standing.causes[t]
             /\ ~credential => t \in ever
             /\ connection # "active" => t \in ever
  BY BlocksAre, CausesAre, BlockedNow
  DEF ReadCredential, ReadConnection, HistoryInv
<1>3. PassedInv'
  BY <1>2 DEF ReadCredential, ReadConnection, PassedInv
<1>4. RowsInv' /\ StandingCauseBlocks'
  BY DEF ReadCredential, ReadConnection, RowsInv, StandingCauseBlocks
<1>5. RefusedForACause'
  BY <1>2 DEF ReadCredential, ReadConnection, RefusedForACause, TypeOK
<1> QED
  BY <1>1, <1>3, <1>4, <1>5

LEMMA ReadRolesKeepsIInv ==
  ASSUME IInv, ReadRoles
  PROVE  HistoryInv' /\ PassedInv' /\ RowsInv' /\ StandingCauseBlocks'
             /\ RefusedForACause'
<1> USE DEF IInv, GoTo, Reading, ReadRoles
<1>1. HistoryInv'
  BY TablesKeep DEF HistoryInv
<1>2. PassedInv' /\ StandingCauseBlocks' /\ RefusedForACause'
  BY DEF PassedInv, StandingCauseBlocks, RefusedForACause
<1>3. ASSUME NEW t \in Tools
      PROVE  LET rows == {row \in RoleRows : row.id = t}
             IN  /\ "tool" \in standing.causes[t]
                      => \A row \in rows : row.status # "active"
                 /\ "server" \in standing.causes[t]
                      => \A row \in rows : row.server # "active"
                 /\ Roles \cap standing.causes[t] # {}
                      => \E row \in rows : row.permission = "deny"
                 /\ "ungranted" \in standing.causes[t]
                      => \A row \in rows : row.permission = "deny"
                 /\ Roles \cap standing.grants[t] # {} => rows # {}
                 /\ t \notin ever
                      => \A row \in rows : row.permission = "allow"
                            /\ row.status = "active" /\ row.server = "active"
  <2> DEFINE rows == {row \in RoleRows : row.id = t}
  <2>1. /\ standing.causes[t] \subseteq Causes(t)
        /\ standing.grants[t] \subseteq Grants(t)
        /\ t \notin ever => Blocks(t) = {}
    BY DEF HistoryInv
  <2>2. \A row \in rows :
          /\ row.status = toolStatus[t]
          /\ row.server = serverStatus
          /\ \E r \in assigned :
                /\ t \in roleTools[r]
                /\ row.permission = (IF r \in denyRoles THEN "deny" ELSE "allow")
    BY RoleRowsOf
  <2>3. "tool" \in standing.causes[t] => toolStatus[t] # "active"
    BY <2>1, BlocksAre, CausesAre
  <2>4. "server" \in standing.causes[t] => serverStatus # "active"
    BY <2>1, BlocksAre, CausesAre
  <2>5. ASSUME Roles \cap standing.causes[t] # {}
        PROVE  \E row \in rows : row.permission = "deny"
    <3>1. PICK r \in Roles : r \in standing.causes[t]
      BY <2>5
    <3>2. r # "ungranted"
      BY PolicyAssumption
    <3>3. r \in assigned /\ r \in denyRoles /\ t \in roleTools[r]
      BY <2>1, <3>1, <3>2, BlocksAre, CausesAre
    <3> QED
      BY <3>3, RoleRowsOf
  <2>6. ASSUME "ungranted" \in standing.causes[t], NEW row \in rows
        PROVE  row.permission = "deny"
    <3>1. Grants(t) = {}
      BY <2>1, <2>6, CausesAre
    <3>2. \A r \in assigned : t \in roleTools[r] => r \in denyRoles
      BY <3>1, GrantsAre DEF TypeOK
    <3> QED
      BY <2>2, <3>2
  <2>7. ASSUME Roles \cap standing.grants[t] # {} PROVE rows # {}
    <3>1. PICK r \in Roles : r \in standing.grants[t]
      BY <2>7
    <3>2. r \in assigned /\ t \in roleTools[r]
      BY <2>1, <3>1, GrantsAre
    <3> QED
      BY <3>2, RoleRowsOf
  <2>8. ASSUME t \notin ever, NEW row \in rows
        PROVE  row.permission = "allow" /\ row.status = "active"
                   /\ row.server = "active"
    <3>1. Blocks(t) = {}
      BY <2>1, <2>8
    <3>2. /\ toolStatus[t] = "active" /\ serverStatus = "active"
          /\ \A r \in assigned : t \in roleTools[r] => r \notin denyRoles
      BY <3>1, BlocksAre DEF TypeOK
    <3> QED
      BY <2>2, <3>2
  <2> QED
    BY <2>2, <2>3, <2>4, <2>5, <2>6, <2>7, <2>8
<1>4. RowsInv'
  BY <1>3 DEF RowsInv
<1> QED
  BY <1>1, <1>2, <1>4

\* A tool the request will serve has nothing standing against it.
LEMMA AllowedHasNoCause ==
  ASSUME IInv, pc = "overrides", NEW t \in Tools,
         t \in GetAllowedTools(roleRows, OverrideRows)
  PROVE  standing.causes[t] = {}
<1> USE DEF IInv
<1> DEFINE rows == {row \in roleRows : row.id = t}
           causes == standing.causes[t]
<1>1. causes \subseteq Causes(t) /\ causes \subseteq Cause
  BY DEF HistoryInv, TypeOK
<1>2. /\ \A row \in roleRows \cup OverrideRows :
            row.id = t => row.permission # "deny"
      /\ \/ \E row \in rows : row.status = "active" /\ row.server = "active"
         \/ /\ rows = {}
            /\ \E row \in OverrideRows :
                  row.id = t /\ row.status = "active" /\ row.server = "active"
  BY AllowedIff
<1>3. "credential" \notin causes /\ "connection" \notin causes
  BY DEF PassedInv
<1>4. "tool" \notin causes
  BY <1>1, <1>2, OverrideRowsAre, BlocksAre, CausesAre DEF RowsInv
<1>5. "server" \notin causes
  BY <1>1, <1>2, OverrideRowsAre, BlocksAre, CausesAre DEF RowsInv
<1>6. "override" \notin causes
  <2>1. SUFFICES ASSUME "override" \in causes PROVE FALSE
    OBVIOUS
  <2>2. override[t] = "deny"
    BY <1>1, <2>1, BlocksAre, CausesAre
  <2> QED
    BY <1>2, <2>2, OverrideRowsAre
<1>7. Roles \cap causes = {}
  BY <1>2 DEF RowsInv
<1>8. "ungranted" \notin causes
  <2>1. SUFFICES ASSUME "ungranted" \in causes PROVE FALSE
    OBVIOUS
  <2>2. rows = {}
    BY <1>2, <2>1 DEF RowsInv
  <2>3. override[t] # "allow"
    BY <1>1, <2>1, CausesAre, GrantsAre
  <2>4. override[t] = "deny"
    BY <1>2, <2>2, <2>3, OverrideRowsAre DEF TypeOK
  <2> QED
    BY <1>2, <2>4, OverrideRowsAre
<1> QED
  BY <1>1, <1>3, <1>4, <1>5, <1>6, <1>7, <1>8 DEF Cause

\* A tool the request will not serve was blocked at some moment, or has no
\* grant that stood all along.
LEMMA NotAllowedIsExcused ==
  ASSUME IInv, pc = "overrides", NEW t \in Tools,
         t \notin GetAllowedTools(roleRows, OverrideRows)
  PROVE  t \in ever \/ standing.grants[t] = {}
<1> USE DEF IInv
<1> DEFINE rows == {row \in roleRows : row.id = t}
<1> SUFFICES ASSUME t \notin ever, standing.grants[t] # {} PROVE FALSE
  OBVIOUS
<1>1. /\ standing.grants[t] \subseteq Grants(t)
      /\ Blocks(t) = {}
  BY DEF HistoryInv
<1>2. toolStatus[t] = "active" /\ serverStatus = "active"
        /\ override[t] # "deny"
  BY <1>1, BlocksAre
<1>3. \A row \in rows : row.permission = "allow" /\ row.status = "active"
                          /\ row.server = "active"
  BY DEF RowsInv
<1>4. ~ \E row \in roleRows \cup OverrideRows :
          row.id = t /\ row.permission = "deny"
  BY <1>2, <1>3, OverrideRowsAre
<1>5. rows # {} \/ override[t] = "allow"
  <2>1. PICK g \in standing.grants[t] : TRUE
    OBVIOUS
  <2>2. g \in Roles \/ g = "override"
    BY <1>1, <2>1, GrantsAre DEF Grant
  <2> QED
    BY <1>1, <2>1, <2>2, GrantsAre DEF RowsInv
<1>6. CASE rows # {}
  BY <1>3, <1>4, <1>6, AllowedIff
<1>7. CASE rows = {} /\ override[t] = "allow"
  <2>1. \E row \in OverrideRows :
          row.id = t /\ row.status = "active" /\ row.server = "active"
    BY <1>2, <1>7, OverrideRowsAre
  <2> QED
    BY <1>4, <1>7, <2>1, AllowedIff
<1> QED
  BY <1>5, <1>6, <1>7

LEMMA ReadOverridesKeepsIInv ==
  ASSUME IInv, ReadOverrides
  PROVE  HistoryInv' /\ PassedInv' /\ RowsInv' /\ StandingCauseBlocks'
             /\ RefusedForACause'
<1> USE DEF IInv, GoTo, Reading, ReadOverrides
<1>1. HistoryInv'
  BY TablesKeep DEF HistoryInv
<1>2. PassedInv' /\ RowsInv'
  BY DEF PassedInv, RowsInv
<1>3. allowed' \subseteq Tools
  BY DEF GetAllowedTools
<1>4. StandingCauseBlocks'
  BY <1>3, AllowedHasNoCause DEF StandingCauseBlocks
<1>5. RefusedForACause'
  BY NotAllowedIsExcused DEF RefusedForACause
<1> QED
  BY <1>1, <1>2, <1>4, <1>5

LEMMA CallToolKeepsIInv ==
  ASSUME IInv, NEW t \in Tools, CallTool(t)
  PROVE  HistoryInv' /\ PassedInv' /\ RowsInv' /\ StandingCauseBlocks'
             /\ RefusedForACause'
<1> USE DEF IInv, GoTo, Reading, CallTool
<1>1. HistoryInv'
  BY TablesKeep DEF HistoryInv
<1>2. PassedInv' /\ RowsInv'
  BY DEF PassedInv, RowsInv
<1>3. StandingCauseBlocks'
  BY DEF StandingCauseBlocks
<1>4. RefusedForACause'
  <2>1. CASE t \notin allowed
    BY <2>1 DEF RefusedForACause
  <2>2. CASE toolStatus[t] # "active" \/ serverStatus # "active"
    <3>1. t \in ever
      BY <2>2, BlocksAre, BlockedNow
    <3> QED
      BY <3>1 DEF RefusedForACause
  <2>3. CASE t \in allowed /\ toolStatus[t] = "active" /\ serverStatus = "active"
    BY <2>3 DEF RefusedForACause
  <2> QED
    BY <2>1, <2>2, <2>3
<1> QED
  BY <1>1, <1>2, <1>3, <1>4

LEMMA CloseKeepsIInv ==
  ASSUME IInv, Close
  PROVE  HistoryInv' /\ PassedInv' /\ RowsInv' /\ StandingCauseBlocks'
             /\ RefusedForACause'
BY DEF Close, HistoryInv, PassedInv, RowsInv, StandingCauseBlocks,
       RefusedForACause

(***************************************************************************)
(* The theorems.                                                           *)
(***************************************************************************)

LEMMA IInvInit == Init => IInv
BY TypeInit DEF Init, IInv, HistoryInv, PassedInv, RowsInv,
                StandingCauseBlocks, RefusedForACause

LEMMA IInvNext == IInv /\ [Next]_vars => IInv'
<1> SUFFICES ASSUME IInv, [Next]_vars PROVE IInv'
  OBVIOUS
<1>1. TypeOK'
  BY TypeNext DEF IInv
<1>2. CASE UNCHANGED vars
  <2> UNCHANGED tables /\ UNCHANGED <<pc, standing, ever>>
    BY <1>2 DEF vars, request
  <2>1. HistoryInv'
    BY TablesKeep DEF IInv, HistoryInv
  <2>2. PassedInv' /\ RowsInv' /\ StandingCauseBlocks' /\ RefusedForACause'
    BY <1>2 DEF IInv, PassedInv, RowsInv, StandingCauseBlocks,
                RefusedForACause, vars, request
  <2> QED
    BY <1>1, <2>1, <2>2 DEF IInv
<1>3. CASE Change
  BY <1>1, <1>3, ChangeKeepsIInv DEF IInv
<1>4. CASE Arrive \/ ReadCredential \/ ReadConnection \/ ReadRoles
  BY <1>1, <1>4, ArriveKeepsIInv, CheckKeepsIInv, ReadRolesKeepsIInv DEF IInv
<1>5. CASE ReadOverrides \/ (\E t \in Tools : CallTool(t)) \/ Close
  BY <1>1, <1>5, ReadOverridesKeepsIInv, CallToolKeepsIInv, CloseKeepsIInv
  DEF IInv
<1> QED
  BY <1>2, <1>3, <1>4, <1>5 DEF Next

\* The inductive invariant: the history is true of the tables, and what the
\* request read reflects whatever stood while it read.
THEOREM Inductive == Spec => []IInv
<1> QED
  BY IInvInit, IInvNext, PTL DEF Spec

\* No call reaches the upstream, and no tool is listed, while one cause to
\* refuse it stands from the arrival of the request on, whatever else changes.
THEOREM StandingCausesBlock == Spec => []StandingCauseBlocks
<1>1. IInv => StandingCauseBlocks
  BY DEF IInv
<1> QED
  BY <1>1, Inductive, PTL

\* A refusal, or a tool missing from the list, has a cause: something blocked
\* the tool since the request arrived, or no one grant of it stood throughout.
THEOREM RefusalsHaveCauses == Spec => []RefusedForACause
<1>1. IInv => RefusedForACause
  BY DEF IInv
<1> QED
  BY <1>1, Inductive, PTL

(***************************************************************************)
(* The twin of the policy in the API.                                      *)
(***************************************************************************)

\* What the sources say of a tool, as causes and grants.
LEMMA SourcesAre ==
  ASSUME TypeOK, NEW t \in Tools
  PROVE  /\ (\E s \in Sources : s.id = t /\ s.permission = "deny")
              <=> "override" \in Blocks(t) \/ Roles \cap Blocks(t) # {}
         /\ (\E s \in Sources : s.id = t /\ s.permission = "allow")
              <=> Grants(t) # {}
         /\ \A s \in Sources : s.permission \in {"allow", "deny"}
<1> USE DEF Sources
<1>1. \A s \in Sources : s.permission \in {"allow", "deny"}
  BY RowsType DEF Row
<1>2. (\E s \in OverrideRows : s.id = t /\ s.permission = "deny")
        <=> "override" \in Blocks(t)
  BY OverrideRowsAre, BlocksAre
<1>3. (\E s \in OverrideRows : s.id = t /\ s.permission = "allow")
        <=> "override" \in Grants(t)
  BY OverrideRowsAre, GrantsAre
<1>4. (\E s \in RoleRows : s.id = t /\ s.permission = "deny")
        <=> \E r \in assigned : t \in roleTools[r] /\ r \in denyRoles
  BY RoleRowsOf
<1>5. (\E s \in RoleRows : s.id = t /\ s.permission = "allow")
        <=> \E r \in assigned : t \in roleTools[r] /\ r \notin denyRoles
  BY RoleRowsOf
<1>6. (\E r \in assigned : t \in roleTools[r] /\ r \in denyRoles)
        <=> Roles \cap Blocks(t) # {}
  BY BlocksAre DEF TypeOK
<1>7. (\E r \in assigned : t \in roleTools[r] /\ r \notin denyRoles)
        <=> Roles \cap Grants(t) # {}
  BY GrantsAre DEF TypeOK
<1>8. Grants(t) # {} <=> "override" \in Grants(t) \/ Roles \cap Grants(t) # {}
  BY GrantsAre DEF Grant
<1> QED
  BY <1>1, <1>2, <1>3, <1>4, <1>5, <1>6, <1>7, <1>8

LEMMA TypeImpliesApiAgrees == TypeOK => ApiAgrees
<1> SUFFICES ASSUME TypeOK PROVE ApiAgrees
  OBVIOUS
<1> DEFINE Permission(t) ==
             IF \E s \in Sources : s.id = t /\ s.permission = "deny"
             THEN "deny" ELSE "allow"
           Named == {s.id : s \in Sources}
           Accumulated == {PermissionRow(t, Permission(t)) : t \in Named}
<1>1. EffectiveTools = GetAllowedTools(Accumulated, {})
  BY DEF EffectiveTools
<1>2. ASSUME NEW t \in Tools
      PROVE  t \in EffectiveTools
               <=> Causes(t) \ {"credential", "connection"} = {}
  <2>1. t \in Named <=> \E s \in Sources : s.id = t
    OBVIOUS
  <2>2. \A row : row \in Accumulated /\ row.id = t
                  <=> t \in Named /\ row = PermissionRow(t, Permission(t))
    <3> HIDE DEF Permission, Named
    <3>1. \A row : row \in Accumulated
                   <=> \E u \in Named : row = PermissionRow(u, Permission(u))
      OBVIOUS
    <3> QED
      BY <3>1, RowFields
  <2>3. t \in EffectiveTools <=>
          /\ t \in Named /\ Permission(t) # "deny"
          /\ toolStatus[t] = "active" /\ serverStatus = "active"
    <3> HIDE DEF Permission, Named, Accumulated
    <3> QED
      BY <1>1, <2>2, AllowedIff, RowFields
  <2>4. t \in Named /\ Permission(t) # "deny" <=>
          /\ Grants(t) # {}
          /\ "override" \notin Blocks(t)
          /\ Roles \cap Blocks(t) = {}
    BY <2>1, SourcesAre
  <2>5. Causes(t) \ {"credential", "connection"} = {} <=>
          /\ Grants(t) # {}
          /\ "override" \notin Blocks(t)
          /\ Roles \cap Blocks(t) = {}
          /\ toolStatus[t] = "active" /\ serverStatus = "active"
    <3>1. \A c \in Causes(t) \ {"credential", "connection"} :
            c \in {"server", "tool", "override", "ungranted"} \cup Roles
      BY CausesAre DEF Cause
    <3>2. \A r \in Roles : r \notin {"credential", "connection", "ungranted"}
      BY PolicyAssumption
    <3> QED
      BY <3>1, <3>2, CausesAre, BlocksAre
  <2> QED
    BY <2>3, <2>4, <2>5
<1>3. EffectiveTools \subseteq Tools
  BY DEF EffectiveTools, GetAllowedTools
<1> QED
  BY <1>2, <1>3 DEF ApiAgrees

\* The tools the API shows as effective are those the gateway would serve.
THEOREM ApiAlwaysAgrees == Spec => []ApiAgrees
<1> QED
  BY TypeCorrect, TypeImpliesApiAgrees, PTL

-----------------------------------------------------------------------------
(* ClientRegistration: a page or a code names a row and what was asked of   *)
(* it.  The row goes on fitting what was asked, and as long as nothing      *)
(* changes what was asked still stands.                                     *)

AskedType ==
    [client : ClientId, slug : Slugs, uri : RedirectUris, row : Ids \cup {NoId},
     since : 0..(MaxEdits + MaxRows)]

LookupType ==
    [op : {"idle", "authorize", "consent", "token"},
     at : {"idle", "fetch", "select", "update", "insert", "find", "grant"},
     asked : AskedType \cup {NoAnswer}, doc : Documents, row : Ids \cup {NoId}]

\* The row called id, as long as it is there, is one that s names.
RowFits(id, s) ==
    \A r \in clientRows :
       r.id = id => /\ r.oauth = s.client
                    /\ s.client = CimdUrl => r.tenant \in TenantOf(s.slug)

\* What s asks for is granted as things are.
Stands(s) ==
    \E r \in clientRows :
       /\ r.id = s.row
       /\ s.client = CimdUrl =>
             /\ published # NoDoc
             /\ s.uri \in published.uris
             /\ ~NameTaken(r.tenant, published.name, r.id)
       /\ s.client # CimdUrl => s.uri \in r.uris

\* A page or code, and what a consent or an exchange presents.
AnswerOK(s) ==
    /\ s.row \in Ids /\ s.row <= rowsEver
    /\ s.since <= Changes
    /\ RowFits(s.row, s)
    /\ s.since = Changes => Stands(s)

\* A request under way.
LookupOK(l) ==
    /\ l.op # "idle" /\ l.at # "idle" /\ l.asked \in AskedType
    /\ l.asked.since <= Changes
    /\ l.op \in {"consent", "token"} => AnswerOK(l.asked)
    /\ l.at \in {"fetch", "select", "update", "insert"} => l.asked.client = CimdUrl
    /\ l.at = "find" => l.asked.client # CimdUrl
    /\ l.at \in {"select", "update", "insert"} =>
          /\ l.doc # NoDoc
          /\ l.asked.since = Changes => l.doc = published
    /\ l.at = "insert" /\ l.op # "authorize" => l.asked.since < Changes
    /\ l.at \in {"update", "grant"} =>
          l.row \in Ids /\ l.row <= rowsEver /\ RowFits(l.row, l.asked)
    /\ l.at = "grant" => l.op = "consent"
    /\ l.at \in {"update", "grant"} /\ l.op # "authorize" =>
          l.row = l.asked.row \/ \A r \in clientRows : r.id # l.asked.row

\* Rows are numbered, the id is the client_id of all but the URL's, and the
\* indices are unique.
RowsNumbered ==
    /\ \A r \in clientRows : r.id <= rowsEver /\ (r.oauth = CimdUrl \/ r.oauth = r.id)
    /\ \A r, s \in clientRows : r.id = s.id => r = s
    /\ \A r, s \in clientRows :
          r.tenant = s.tenant /\ (r.oauth = s.oauth \/ r.name = s.name) => r = s

RegIInv ==
    /\ tenancy \in Tenants \cup {Multi} /\ published \in Documents
    /\ clientRows \subseteq RegRow
    /\ rowsEver \in 0..MaxRows /\ edits \in 0..MaxEdits /\ served \in Nat
    /\ RowsNumbered
    /\ page \in Standing \cup {NoAnswer} /\ (page # NoAnswer => AnswerOK(page))
    /\ granted \in Standing \cup {NoAnswer} /\ (granted # NoAnswer => AnswerOK(granted))
    /\ lookup \in [Handlers -> LookupType]
    /\ \A h \in Handlers : lookup[h] = NoLookup \/ LookupOK(lookup[h])
    /\ served + Cardinality(Busy) <= MaxServed

\* A row that is there afterwards was there before, or is new.
RowsFollow ==
    \A q \in clientRows' :
       q.id <= rowsEver =>
          \E r \in clientRows : r.id = q.id /\ r.oauth = q.oauth /\ r.tenant = q.tenant

\* What is granted as things are stays so.
StandsKept == \A s \in AskedType : AnswerOK(s) /\ Stands(s) => Stands(s)'

\* What the tables may do under a request: change, or change nothing for it.
TablesMove ==
    /\ tenancy' = tenancy /\ RowsFollow
    /\ rowsEver <= rowsEver' /\ rowsEver' \in Nat /\ edits' \in Nat
    /\ \/ Changes < Changes'
       \/ Changes = Changes' /\ published' = published /\ StandsKept

RegRowsOK ==
    /\ tenancy \in Tenants \cup {Multi} /\ published \in Documents
    /\ clientRows \subseteq RegRow
    /\ rowsEver \in 0..MaxRows /\ edits \in 0..MaxEdits
    /\ RowsNumbered

LEMMA StandingIsAsked == Standing \subseteq AskedType
BY DEF Standing, AskedType

LEMMA ChangesIsNat == RegIInv => Changes \in Nat
BY RegistrationAssumption DEF RegIInv, Changes

LEMMA NatSum == \A m, n \in Nat : m + n \in Nat
OBVIOUS

LEMMA NextChangesIsNat == TablesMove => Changes' \in Nat
<1> SUFFICES ASSUME TablesMove PROVE Changes' \in Nat
  OBVIOUS
<1>1. rowsEver' \in Nat /\ edits' \in Nat
  BY DEF TablesMove
<1> QED
  BY <1>1, NatSum, Zenon DEF Changes

LEMMA AnswerMoves ==
  ASSUME RegIInv, TablesMove, NEW s \in AskedType, AnswerOK(s)
  PROVE  AnswerOK(s)'
<1>1. s.since \in Nat /\ s.row <= rowsEver /\ s.row \in Nat
  BY RegistrationAssumption DEF AskedType, AnswerOK, Ids
<1>2. s.since <= Changes /\ Changes \in Nat /\ rowsEver \in Nat
  BY ChangesIsNat DEF AnswerOK, RegIInv
<1>3. Changes' \in Nat
  BY NextChangesIsNat
<1>4. s.row <= rowsEver' /\ s.since <= Changes'
  BY <1>1, <1>2, <1>3 DEF TablesMove
<1>5. RowFits(s.row, s)'
  BY <1>1 DEF TablesMove, RowsFollow, AnswerOK, RowFits, TenantOf
<1>6. s.since = Changes' => Stands(s)'
  <2> SUFFICES ASSUME s.since = Changes' PROVE Stands(s)'
    OBVIOUS
  <2>1. Changes = Changes' /\ StandsKept
    BY <1>1, <1>2, <1>3 DEF TablesMove
  <2> QED
    BY <2>1 DEF StandsKept, AnswerOK
<1> QED
  BY <1>4, <1>5, <1>6 DEF AnswerOK

LEMMA LookupMoves ==
  ASSUME RegIInv, TablesMove, NEW l \in LookupType, LookupOK(l)
  PROVE  LookupOK(l)'
<1>1. /\ l.asked \in AskedType /\ l.asked.since \in Nat /\ l.asked.since <= Changes
      /\ Changes \in Nat /\ Changes' \in Nat /\ rowsEver \in Nat /\ rowsEver' \in Nat
  <2>1. l.asked \in AskedType /\ l.asked.since <= Changes
    BY DEF LookupOK
  <2>2. l.asked.since \in Nat
    BY <2>1, RegistrationAssumption DEF AskedType
  <2>3. rowsEver \in Nat /\ rowsEver' \in Nat
    BY RegistrationAssumption DEF RegIInv, TablesMove
  <2> QED
    BY <2>1, <2>2, <2>3, ChangesIsNat, NextChangesIsNat
<1>2. l.asked.since <= Changes' /\ (l.asked.since = Changes' => Changes = Changes')
  BY <1>1 DEF TablesMove
<1>3. l.op \in {"consent", "token"} => AnswerOK(l.asked)'
  BY <1>1, AnswerMoves DEF LookupOK
<1>4. l.at \in {"select", "update", "insert"} =>
         /\ l.doc # NoDoc
         /\ l.asked.since = Changes' => l.doc = published'
  BY <1>1, <1>2 DEF LookupOK, TablesMove
<1>5. l.at = "insert" /\ l.op # "authorize" => l.asked.since < Changes'
  BY <1>1 DEF LookupOK, TablesMove
<1>6. l.at \in {"update", "grant"} =>
         l.row \in Ids /\ l.row <= rowsEver' /\ RowFits(l.row, l.asked)'
  <2> SUFFICES ASSUME l.at \in {"update", "grant"}
               PROVE  l.row \in Ids /\ l.row <= rowsEver' /\ RowFits(l.row, l.asked)'
    OBVIOUS
  <2>1. /\ l.row \in Ids /\ l.row \in Nat /\ l.row <= rowsEver
        /\ RowFits(l.row, l.asked)
    BY RegistrationAssumption DEF LookupOK, Ids
  <2>2. l.row <= rowsEver'
    BY <1>1, <2>1 DEF TablesMove
  <2> QED
    BY <2>1, <2>2 DEF TablesMove, RowsFollow, RowFits, TenantOf
<1>7. l.at \in {"update", "grant"} /\ l.op # "authorize" =>
         l.row = l.asked.row \/ \A r \in clientRows' : r.id # l.asked.row
  <2> SUFFICES ASSUME l.at \in {"update", "grant"}, l.op # "authorize",
                      l.row # l.asked.row
               PROVE  \A r \in clientRows' : r.id # l.asked.row
    OBVIOUS
  <2>0. l.op \in {"consent", "token"}
    BY DEF LookupOK, LookupType
  <2>1. l.asked.row <= rowsEver /\ \A r \in clientRows : r.id # l.asked.row
    BY <2>0 DEF LookupOK, AnswerOK
  <2> QED
    BY <2>1 DEF TablesMove, RowsFollow
<1> QED
  BY <1>1, <1>2, <1>3, <1>4, <1>5, <1>6, <1>7 DEF LookupOK

LEMMA SameTablesMove ==
  ASSUME RegIInv, UNCHANGED <<tenancy, regTables>>
  PROVE  TablesMove
<1>1. UNCHANGED <<tenancy, published, clientRows, rowsEver, edits>>
  BY DEF regTables
<1>2. Changes' = Changes
  BY <1>1 DEF Changes
<1>3. StandsKept
  BY <1>1 DEF StandsKept, Stands, NameTaken
<1>4. RowsFollow
  BY <1>1 DEF RowsFollow
<1> QED
  BY <1>1, <1>2, <1>3, <1>4, RegistrationAssumption DEF TablesMove, RegIInv

LEMMA SameTablesOK ==
  ASSUME RegIInv, UNCHANGED <<tenancy, regTables>>
  PROVE  RegRowsOK'
BY DEF RegIInv, RegRowsOK, RowsNumbered, regTables

\* What a handler that moves then holds is shown of each step.
LEMMA RegStepKeeps ==
  ASSUME RegIInv, TablesMove, RegRowsOK',
         lookup' \in [Handlers -> LookupType],
         \A g \in Handlers :
            lookup'[g] = NoLookup \/ lookup'[g] = lookup[g] \/ LookupOK(lookup[g])',
         page' = page \/ page' = NoAnswer \/ (page' \in Standing /\ AnswerOK(page)'),
         granted' = granted \/ granted' = NoAnswer
            \/ (granted' \in Standing /\ AnswerOK(granted)'),
         served' \in Nat, served' + Cardinality(Busy') <= MaxServed
  PROVE  RegIInv'
<1>1. page' \in Standing \cup {NoAnswer} /\ (page' # NoAnswer => AnswerOK(page)')
  <2>1. CASE page' = page
    <3>1. page # NoAnswer => page \in AskedType /\ AnswerOK(page)
      BY StandingIsAsked DEF RegIInv
    <3>2. ASSUME page # NoAnswer PROVE \A s \in AskedType : s = page => AnswerOK(s)'
      BY <3>1, <3>2, AnswerMoves
    <3>3. page # NoAnswer => AnswerOK(page)'
      BY <2>1, <3>1, <3>2 DEF AnswerOK, RowFits, Stands
    <3> QED
      BY <2>1, <3>3 DEF RegIInv
  <2> QED
    BY <2>1
<1>2. granted' \in Standing \cup {NoAnswer} /\ (granted' # NoAnswer => AnswerOK(granted)')
  <2>1. CASE granted' = granted
    <3>1. granted # NoAnswer => granted \in AskedType /\ AnswerOK(granted)
      BY StandingIsAsked DEF RegIInv
    <3>2. ASSUME granted # NoAnswer PROVE \A s \in AskedType : s = granted => AnswerOK(s)'
      BY <3>1, <3>2, AnswerMoves
    <3>3. granted # NoAnswer => AnswerOK(granted)'
      BY <2>1, <3>1, <3>2 DEF AnswerOK, RowFits, Stands
    <3> QED
      BY <2>1, <3>3 DEF RegIInv
  <2> QED
    BY <2>1
<1>3. ASSUME NEW g \in Handlers PROVE lookup'[g] = NoLookup \/ LookupOK(lookup[g])'
  <2>1. CASE lookup'[g] = lookup[g] /\ lookup[g] # NoLookup
    <3>1. lookup[g] \in LookupType /\ LookupOK(lookup[g])
      BY <2>1 DEF RegIInv
    <3>2. \A l \in LookupType : l = lookup[g] => LookupOK(l)'
      BY <3>1, LookupMoves
    <3> QED
      BY <2>1, <3>1, <3>2 DEF LookupOK
  <2>2. CASE lookup'[g] = lookup[g] /\ lookup[g] = NoLookup
    BY <2>2
  <2> QED
    BY <2>1, <2>2
<1> QED
  BY <1>1, <1>2, <1>3 DEF RegIInv, RegRowsOK

-----------------------------------------------------------------------------
(* Requests under way, as far as the bound counts them.                     *)

LEMMA BusyIsFinite == IsFiniteSet(Busy) /\ Cardinality(Busy) \in Nat
<1>1. Busy \subseteq Handlers /\ IsFiniteSet(Handlers)
  BY HandlersAssumption DEF Busy
<1>2. IsFiniteSet(Busy)
  BY <1>1, FS_Subset
<1> QED
  BY <1>2, FS_CardinalityType

LEMMA IdleLookup == NoLookup.op = "idle" /\ NoLookup.at = "idle" /\ NoLookup \in LookupType
BY DEF NoLookup, LookupType, NoAnswer, NoDoc, Documents, NoId

LEMMA BusyEnds ==
  ASSUME RegIInv, NEW h \in Handlers, lookup[h] # NoLookup, Ends(h)
  PROVE  Cardinality(Busy') = Cardinality(Busy) - 1
<1>1. Busy' = Busy \ {h} /\ h \in Busy
  BY DEF RegIInv, Busy, Ends
<1> QED
  BY <1>1, BusyIsFinite, FS_RemoveElement

LEMMA BusyBegins ==
  ASSUME RegIInv, NEW h \in Handlers, lookup[h] = NoLookup, NEW l,
         lookup' = [lookup EXCEPT ![h] = l]
  PROVE  Cardinality(Busy') <= Cardinality(Busy) + 1 /\ Cardinality(Busy') \in Nat
<1>1. h \notin Busy /\ (Busy' = Busy \cup {h} \/ Busy' = Busy)
  BY DEF RegIInv, Busy
<1>2. Cardinality(Busy \cup {h}) = Cardinality(Busy) + 1
  BY <1>1, BusyIsFinite, FS_AddElement
<1>3. Cardinality(Busy') = Cardinality(Busy) + 1 \/ Cardinality(Busy') = Cardinality(Busy)
  BY <1>1, <1>2
<1> QED
  BY <1>3, BusyIsFinite

LEMMA BusyStays ==
  ASSUME RegIInv, NEW h \in Handlers, lookup[h] # NoLookup,
         \A g \in Handlers : g # h => lookup'[g] = lookup[g],
         lookup'[h] # NoLookup
  PROVE  Busy' = Busy
BY DEF Busy

\* A request leaves off, with its answer or without.
LEMMA EndKeeps ==
  ASSUME RegIInv, TablesMove, RegRowsOK', NEW h \in Handlers, lookup[h] # NoLookup,
         Ends(h), served' = served \/ served' = served + 1,
         page' = page \/ page' = NoAnswer \/ (page' \in Standing /\ AnswerOK(page)'),
         granted' = granted \/ granted' = NoAnswer
            \/ (granted' \in Standing /\ AnswerOK(granted)')
  PROVE  RegIInv'
<1>1. /\ lookup' \in [Handlers -> LookupType] /\ lookup'[h] = NoLookup
      /\ \A g \in Handlers : g # h => lookup'[g] = lookup[g]
  BY IdleLookup DEF RegIInv, Ends
<1>2. Cardinality(Busy') = Cardinality(Busy) - 1
  BY BusyEnds
<1>3. served + Cardinality(Busy) <= MaxServed /\ served \in Nat /\ Cardinality(Busy) \in Nat
  BY BusyIsFinite DEF RegIInv
<1>4. served' + Cardinality(Busy') <= MaxServed /\ served' \in Nat
  BY <1>2, <1>3, RegistrationAssumption
<1>5. \A g \in Handlers : lookup'[g] = NoLookup \/ lookup'[g] = lookup[g]
  BY <1>1
<1> QED
  BY <1>1, <1>4, <1>5, RegStepKeeps

LEMMA RefuseKeeps ==
  ASSUME RegIInv, NEW h \in Handlers, lookup[h] # NoLookup, Refuse(h)
  PROVE  RegIInv'
<1>1. Ends(h) /\ UNCHANGED <<tenancy, regTables>> /\ UNCHANGED <<page, granted, served>>
  BY DEF Refuse, regOutcome
<1>2. TablesMove
  BY <1>1, SameTablesMove
<1>4. RegRowsOK'
  BY <1>1, SameTablesOK
<1> QED
  BY <1>1, <1>2, <1>4, EndKeeps

\* A request goes on.
LEMMA GoOnKeeps ==
  ASSUME RegIInv, TablesMove, RegRowsOK', NEW h \in Handlers, lookup[h] # NoLookup,
         NEW l \in LookupType, lookup' = [lookup EXCEPT ![h] = l],
         LookupOK(lookup[h])', UNCHANGED <<page, granted, served>>
  PROVE  RegIInv'
<1>1. /\ lookup' \in [Handlers -> LookupType] /\ lookup'[h] = l
      /\ \A g \in Handlers : g # h => lookup'[g] = lookup[g]
  BY DEF RegIInv
<1>2. lookup'[h] # NoLookup
  BY IdleLookup DEF LookupOK
<1>3. Busy' = Busy
  BY <1>1, <1>2, BusyStays
<1>4. served' + Cardinality(Busy') <= MaxServed /\ served' \in Nat
  BY <1>3 DEF RegIInv
<1>5. \A g \in Handlers : lookup'[g] = lookup[g] \/ LookupOK(lookup[g])'
  BY <1>1
<1> QED
  BY <1>1, <1>4, <1>5, RegStepKeeps

-----------------------------------------------------------------------------
(* A request begins.                                                        *)

\* What is asked may stand already (a consent, an exchange) or not.
LEMMA BeginOK ==
  ASSUME RegIInv, NEW h \in Handlers, NEW op \in {"authorize", "consent", "token"},
         NEW a \in AskedType, Begin(h, op, a),
         a.since <= Changes, op # "authorize" => AnswerOK(a),
         page' = page \/ page' = NoAnswer, granted' = granted \/ granted' = NoAnswer
  PROVE  RegIInv'
<1> DEFINE l == [NoLookup EXCEPT !.op = op, !.asked = a,
                                 !.at = IF a.client = CimdUrl THEN "fetch" ELSE "find"]
<1>1. /\ lookup[h] = NoLookup /\ served + Cardinality(Busy) < MaxServed
      /\ lookup' = [lookup EXCEPT ![h] = l]
      /\ UNCHANGED <<tenancy, regTables, served>>
  BY DEF Begin
<1>2. l \in LookupType
  BY IdleLookup DEF LookupType
<1>3. /\ l.op = op /\ l.asked = a
      /\ l.at = IF a.client = CimdUrl THEN "fetch" ELSE "find"
  BY DEF NoLookup
<1> HIDE DEF l
<1>4. LookupOK(l)
  BY <1>3 DEF LookupOK
<1>5. /\ lookup' \in [Handlers -> LookupType] /\ lookup'[h] = l
      /\ \A g \in Handlers : g # h => lookup'[g] = lookup[g]
  BY <1>1, <1>2 DEF RegIInv
<1>6. TablesMove
  BY <1>1, SameTablesMove
<1>7. LookupOK(lookup[h])'
  <2>1. \A k \in LookupType : k = l => LookupOK(k)'
    BY <1>4, <1>6, LookupMoves
  <2> QED
    BY <1>2, <1>5, <2>1 DEF LookupOK
<1>8. served' \in Nat
  BY <1>1 DEF RegIInv
<1>9. RegRowsOK'
  BY <1>1, SameTablesOK
<1>10. served' + Cardinality(Busy') <= MaxServed
  <2>1. Cardinality(Busy') <= Cardinality(Busy) + 1 /\ Cardinality(Busy') \in Nat
    BY <1>1, BusyBegins
  <2>2. served \in Nat /\ Cardinality(Busy) \in Nat
    BY BusyIsFinite DEF RegIInv
  <2> QED
    BY <1>1, <2>1, <2>2, RegistrationAssumption
<1>11. \A g \in Handlers : lookup'[g] = lookup[g] \/ LookupOK(lookup[g])'
  BY <1>5, <1>7
<1> QED
  BY <1>5, <1>6, <1>8, <1>9, <1>10, <1>11, RegStepKeeps

LEMMA StartAuthorizeKeeps ==
  ASSUME RegIInv, NEW h \in Handlers, NEW c \in {CimdUrl} \cup 1..rowsEver,
         NEW slug \in Slugs, NEW uri \in RedirectUris, StartAuthorize(h, c, slug, uri)
  PROVE  RegIInv'
<1> DEFINE a == [client |-> c, slug |-> slug, uri |-> uri, row |-> NoId,
                 since |-> Changes]
<1>1. Begin(h, "authorize", a) /\ UNCHANGED <<page, granted>>
  BY DEF StartAuthorize
<1>2. c \in ClientId
  BY RegistrationAssumption DEF RegIInv, ClientId, Ids
<1>3. Changes \in 0..(MaxEdits + MaxRows)
  BY RegistrationAssumption DEF RegIInv, Changes
<1>4. a \in AskedType /\ a.since = Changes
  BY <1>2, <1>3 DEF AskedType
<1> HIDE DEF a
<1>5. a.since <= Changes
  BY <1>4, ChangesIsNat
<1> QED
  BY <1>1, <1>4, <1>5, BeginOK

LEMMA SubmitConsentKeeps ==
  ASSUME RegIInv, NEW h \in Handlers, SubmitConsent(h)
  PROVE  RegIInv'
<1>1. /\ Begin(h, "consent", page) /\ page' = NoAnswer /\ granted' = granted
      /\ page # NoAnswer
  BY DEF SubmitConsent, PageForm
<1>2. page \in AskedType /\ AnswerOK(page)
  BY <1>1, StandingIsAsked DEF RegIInv
<1>3. page.since <= Changes
  BY <1>2 DEF AnswerOK
<1> QED
  BY <1>1, <1>2, <1>3, BeginOK

LEMMA StartTokenKeeps ==
  ASSUME RegIInv, NEW h \in Handlers, StartToken(h)
  PROVE  RegIInv'
<1>1. /\ Begin(h, "token", granted) /\ granted' = NoAnswer /\ page' = page
      /\ granted # NoAnswer
  BY DEF StartToken
<1>2. granted \in AskedType /\ AnswerOK(granted)
  BY <1>1, StandingIsAsked DEF RegIInv
<1>3. granted.since <= Changes
  BY <1>2 DEF AnswerOK
<1> QED
  BY <1>1, <1>2, <1>3, BeginOK

-----------------------------------------------------------------------------
(* The document is fetched and the row looked for.                          *)

LEMMA FetchDocumentKeeps ==
  ASSUME RegIInv, NEW h \in Handlers, FetchDocument(h)
  PROVE  RegIInv'
<1>1. lookup[h].at = "fetch" /\ lookup[h] # NoLookup
  BY IdleLookup DEF FetchDocument, At
<1>2. CASE Refuse(h)
  BY <1>1, <1>2, RefuseKeeps
<1>3. CASE ~Refuse(h)
  <2> DEFINE l == [lookup[h] EXCEPT !.at = "select", !.doc = published]
  <2>1. lookup[h] \in LookupType /\ LookupOK(lookup[h]) /\ published \in Documents
    BY <1>1 DEF RegIInv
  <2>2. /\ published # NoDoc /\ lookup' = [lookup EXCEPT ![h] = l]
        /\ UNCHANGED <<tenancy, regTables>> /\ UNCHANGED <<page, granted, served>>
    BY <1>3 DEF FetchDocument, RegIInv, regOutcome
  <2>3. l \in LookupType
    BY <2>1 DEF LookupType
  <2>4. /\ l.op = lookup[h].op /\ l.asked = lookup[h].asked /\ l.at = "select"
        /\ l.doc = published
    BY <2>1 DEF LookupType
  <2> HIDE DEF l
  <2>5. LookupOK(l)
    BY <1>1, <2>1, <2>2, <2>4 DEF LookupOK
  <2>6. TablesMove
    BY <2>2, SameTablesMove
  <2>8. RegRowsOK'
    BY <2>2, SameTablesOK
  <2>9. LookupOK(lookup[h])'
    <3>1. \A k \in LookupType : k = l => LookupOK(k)'
      BY <2>5, <2>6, LookupMoves
    <3>2. lookup'[h] = l
      BY <2>2 DEF RegIInv
    <3> QED
      BY <2>3, <3>1, <3>2 DEF LookupOK
  <2> QED
    BY <1>1, <2>2, <2>3, <2>6, <2>8, <2>9, GoOnKeeps
<1> QED
  BY <1>2, <1>3

\* A client that stands has its row: the request of one never inserts another.
LEMMA StandingRowFound ==
  ASSUME RegIInv, NEW h \in Handlers, AnswerOK(lookup[h].asked),
         lookup[h].asked.client = CimdUrl, lookup[h].asked.since = Changes
  PROVE  RowsOf(h) # {}
<1> DEFINE s == lookup[h].asked
<1>1. Stands(s) /\ RowFits(s.row, s)
  BY DEF AnswerOK
<1>2. PICK r \in clientRows : r.id = s.row
  BY <1>1 DEF Stands
<1>3. r.oauth = CimdUrl /\ r.tenant \in TenantOf(s.slug)
  BY <1>1, <1>2 DEF RowFits
<1> QED
  BY <1>3 DEF RowsOf

LEMMA SelectClientKeeps ==
  ASSUME RegIInv, NEW h \in Handlers, SelectClient(h)
  PROVE  RegIInv'
<1>1. lookup[h].at = "select" /\ lookup[h] # NoLookup
  BY IdleLookup DEF SelectClient, SelectFrom, At
<1>2. lookup[h] \in LookupType /\ LookupOK(lookup[h])
  BY <1>1 DEF RegIInv
<1>3. UNCHANGED <<tenancy, regTables>> /\ UNCHANGED <<page, granted, served>>
  BY DEF SelectClient, SelectFrom, regOutcome
<1>4. TablesMove
  BY <1>3, SameTablesMove
<1>6. RegRowsOK'
  BY <1>3, SameTablesOK
<1>7. ASSUME NEW l \in LookupType, LookupOK(l), lookup' = [lookup EXCEPT ![h] = l]
      PROVE  RegIInv'
  <2>1. LookupOK(l)'
    BY <1>4, <1>7, LookupMoves
  <2>2. lookup'[h] = l
    BY <1>7 DEF RegIInv
  <2>3. LookupOK(lookup[h])'
    BY <2>1, <2>2 DEF LookupOK
  <2> QED
    BY <1>1, <1>3, <1>4, <1>6, <1>7, <2>3, GoOnKeeps
<1>8. CASE RowsOf(h) = {}
  <2> DEFINE l == [lookup[h] EXCEPT !.at = "insert"]
  <2>1. lookup' = [lookup EXCEPT ![h] = l]
    BY <1>8 DEF SelectClient, SelectFrom, Goes
  <2>2. l \in LookupType
    BY <1>2 DEF LookupType
  <2>3. /\ l.op = lookup[h].op /\ l.asked = lookup[h].asked /\ l.at = "insert"
        /\ l.doc = lookup[h].doc
    BY <1>2 DEF LookupType
  <2> HIDE DEF l
  <2>4. l.op # "authorize" => l.asked.since < Changes
    <3> SUFFICES ASSUME l.op # "authorize" PROVE l.asked.since < Changes
      OBVIOUS
    <3>1. l.op \in {"consent", "token"}
      BY <1>2, <2>2 DEF LookupType, LookupOK, l
    <3>2. AnswerOK(lookup[h].asked) /\ lookup[h].asked.client = CimdUrl
      BY <1>1, <1>2, <2>3, <3>1 DEF LookupOK
    <3>3. l.asked.since # Changes
      BY <1>8, <2>3, <3>2, StandingRowFound
    <3>4. l.asked.since \in Nat /\ l.asked.since <= Changes
      BY <1>2, <2>3, RegistrationAssumption DEF LookupOK, AskedType
    <3> QED
      BY <3>3, <3>4, ChangesIsNat
  <2>5. LookupOK(l)
    BY <1>1, <1>2, <2>3, <2>4 DEF LookupOK
  <2> QED
    BY <1>7, <2>1, <2>2, <2>5
<1>9. CASE RowsOf(h) # {}
  <2>1. PICK r \in RowsOf(h) :
           lookup' = [lookup EXCEPT ![h].at = "update", ![h].row = r.id]
    BY <1>9 DEF SelectClient, SelectFrom
  <2>2. r \in RegRow /\ r.id <= rowsEver /\ r \in clientRows
    BY DEF RegIInv, RowsNumbered, RowsOf
  <2> DEFINE l == [lookup[h] EXCEPT !.at = "update", !.row = r.id]
  <2>3. lookup' = [lookup EXCEPT ![h] = l]
    BY <2>1 DEF RegIInv
  <2>4. l \in LookupType
    BY <1>2, <2>2 DEF LookupType, RegRow
  <2>5. /\ l.op = lookup[h].op /\ l.asked = lookup[h].asked /\ l.at = "update"
        /\ l.doc = lookup[h].doc /\ l.row = r.id
    BY <1>2 DEF LookupType
  <2> HIDE DEF l
  <2>6. RowFits(l.row, l.asked)
    <3>1. r.oauth = CimdUrl /\ r.tenant \in TenantOf(l.asked.slug)
      BY <2>5 DEF RowsOf
    <3>2. l.asked.client = CimdUrl
      BY <1>1, <1>2, <2>5 DEF LookupOK
    <3> QED
      BY <2>2, <2>5, <3>1, <3>2 DEF RowFits, RegIInv, RowsNumbered
  <2>7. l.row \in Ids /\ l.row <= rowsEver
    BY <2>2, <2>5 DEF RegRow
  <2>8. l.op # "authorize" =>
           l.row = l.asked.row \/ \A q \in clientRows : q.id # l.asked.row
    <3> SUFFICES ASSUME l.op # "authorize", NEW q \in clientRows, q.id = l.asked.row
                 PROVE  l.row = q.id
      OBVIOUS
    <3>1. AnswerOK(l.asked) /\ l.asked.client = CimdUrl
      BY <1>1, <1>2, <2>4, <2>5 DEF LookupOK, LookupType
    <3>2. q.oauth = CimdUrl /\ q.tenant \in TenantOf(l.asked.slug)
      BY <3>1 DEF AnswerOK, RowFits
    <3>3. r.oauth = CimdUrl /\ r.tenant \in TenantOf(l.asked.slug)
      BY <2>5 DEF RowsOf
    <3>4. q.tenant = r.tenant
      BY <3>2, <3>3 DEF TenantOf
    <3> QED
      BY <2>2, <2>5, <3>2, <3>3, <3>4 DEF RegIInv, RowsNumbered
  <2>9. LookupOK(l)
    BY <1>1, <1>2, <2>5, <2>6, <2>7, <2>8 DEF LookupOK
  <2> QED
    BY <1>7, <2>3, <2>4, <2>9
<1> QED
  BY <1>8, <1>9

-----------------------------------------------------------------------------
(* The client is resolved to the row r.                                     *)

\* r is the row asked for; with nothing changed since, what was asked for is
\* what the document says now, and the name is the row's.
RowResolved(h, r) ==
    /\ r \in RegRow /\ r \in clientRows'
    /\ lookup[h] # NoLookup /\ lookup[h].at \in {"update", "insert", "find"}
    /\ r.oauth = lookup[h].asked.client
    /\ r.oauth = CimdUrl => r.tenant \in TenantOf(lookup[h].asked.slug)
    /\ Changes' = Changes + (IF At(h, "insert") THEN 1 ELSE 0)
    /\ lookup[h].asked.since = Changes /\ r.oauth = CimdUrl =>
          /\ published' # NoDoc
          /\ r.uris = published'.uris
          /\ \A q \in clientRows' :
                q.tenant = r.tenant /\ q.name = published'.name => q.id = r.id

LEMMA GivenOK ==
  ASSUME RegIInv, TablesMove, RegRowsOK', NEW h \in Handlers, NEW r, RowResolved(h, r),
         Accepts(h, r), NEW a, a = Given(h, r.id)
  PROVE  a \in Standing /\ AnswerOK(a)'
<1> DEFINE s == lookup[h].asked
           one == IF At(h, "insert") THEN 1 ELSE 0
<1>1. s \in AskedType /\ s.since <= Changes /\ s.since \in Nat /\ one \in {0, 1}
  <2>1. s \in AskedType /\ s.since <= Changes
    BY DEF RegIInv, RowResolved, LookupOK
  <2> QED
    BY <2>1, RegistrationAssumption DEF AskedType
<1>2. a = [s EXCEPT !.row = r.id, !.since = s.since + one]
  BY <1>1 DEF Given, AskedType
<1>3. /\ r.id \in Ids /\ r.id <= rowsEver' /\ r \in clientRows' /\ r.oauth = s.client
      /\ s.client = CimdUrl => r.tenant \in TenantOf(s.slug)
      /\ Changes' = Changes + one
  BY DEF RowResolved, RegRow, RegRowsOK, RowsNumbered
<1> HIDE DEF one
<1>4. s.since + one <= Changes' /\ (s.since + one = Changes' => s.since = Changes)
  BY <1>1, <1>3, ChangesIsNat
<1>5. Changes' <= MaxEdits + MaxRows
  <2>1. rowsEver' \in Nat /\ edits' \in Nat /\ rowsEver' <= MaxRows /\ edits' <= MaxEdits
    BY RegistrationAssumption DEF RegRowsOK
  <2>2. edits' + rowsEver' <= MaxEdits + MaxRows
    BY <2>1, RegistrationAssumption
  <2> QED
    BY <2>2 DEF Changes
<1>6. s.since + one \in 0..(MaxEdits + MaxRows)
  BY <1>1, <1>4, <1>5, NextChangesIsNat, RegistrationAssumption
<1>7. a \in Standing /\ a \in AskedType
  BY <1>1, <1>2, <1>3, <1>6 DEF Standing, AskedType
<1>8. /\ a.client = s.client /\ a.slug = s.slug /\ a.uri = s.uri
      /\ a.row = r.id /\ a.since = s.since + one
  BY <1>1, <1>2 DEF AskedType
<1>9. s.uri \in r.uris
  BY DEF Accepts
<1>10. ASSUME s.since = Changes, r.oauth = CimdUrl
       PROVE  /\ published' # NoDoc /\ r.uris = published'.uris
              /\ \A q \in clientRows' :
                    q.tenant = r.tenant /\ q.name = published'.name => q.id = r.id
  BY <1>10 DEF RowResolved
<1> HIDE DEF s
<1>11. RowFits(a.row, a)'
  <2>1. tenancy' = tenancy /\ \A q \in clientRows' : q.id = r.id => q = r
    BY <1>3 DEF TablesMove, RegRowsOK, RowsNumbered
  <2> QED
    BY <1>3, <1>8, <2>1 DEF RowFits, TenantOf
<1>12. a.since = Changes' => Stands(a)'
  <2> SUFFICES ASSUME a.since = Changes' PROVE Stands(a)'
    OBVIOUS
  <2>1. s.since = Changes
    BY <1>4, <1>8
  <2> QED
    BY <1>3, <1>8, <1>9, <1>10, <2>1 DEF Stands, NameTaken
<1>13. a.row \in Ids /\ a.row <= rowsEver' /\ a.since <= Changes'
  BY <1>3, <1>4, <1>8
<1> QED
  BY <1>7, <1>11, <1>12, <1>13 DEF AnswerOK

\* A consent whose page was of another row than r comes too late for that one.
LEMMA ResolvedAsShown ==
  ASSUME RegIInv, TablesMove, RegRowsOK', NEW h \in Handlers, NEW r, RowResolved(h, r),
         AnswerOK(lookup[h].asked)
  PROVE  \/ r.id = lookup[h].asked.row
         \/ \A q \in clientRows' : q.id # lookup[h].asked.row
<1> DEFINE s == lookup[h].asked
<1>1. s \in AskedType
  BY DEF RegIInv, RowResolved, LookupOK
<1>2. /\ r \in clientRows' /\ r.oauth = s.client
      /\ s.client = CimdUrl => r.tenant \in TenantOf(s.slug)
  BY DEF RowResolved
<1>3. s.row <= rowsEver /\ RowFits(s.row, s)
  BY DEF AnswerOK
<1> HIDE DEF s
<1> SUFFICES ASSUME NEW q \in clientRows', q.id = s.row PROVE r.id = s.row
  BY DEF s
<1>4. q.oauth = s.client /\ (s.client = CimdUrl => q.tenant \in TenantOf(s.slug))
  BY <1>3 DEF RowFits, TablesMove, RowsFollow
<1>5. CASE s.client = CimdUrl
  <2>1. q.tenant = r.tenant
    BY <1>2, <1>4, <1>5 DEF TenantOf
  <2> QED
    BY <1>2, <1>4, <2>1 DEF RegRowsOK, RowsNumbered
<1>6. CASE s.client # CimdUrl
  BY <1>2, <1>4, <1>6 DEF RegRowsOK, RowsNumbered
<1> QED
  BY <1>5, <1>6

LEMMA ConsentGoesOn ==
  ASSUME RegIInv, TablesMove, RegRowsOK', NEW h \in Handlers, NEW r, RowResolved(h, r),
         lookup[h].op = "consent",
         lookup' = [lookup EXCEPT ![h].at = "grant", ![h].row = r.id,
                                  ![h].asked.since = Given(h, r.id).since,
                                  ![h].doc = NoDoc],
         UNCHANGED <<page, granted, served>>
  PROVE  RegIInv'
<1>1. lookup[h] \in LookupType /\ LookupOK(lookup[h]) /\ lookup[h] # NoLookup
  BY DEF RegIInv, RowResolved
<1>2. PICK s \in AskedType : s = lookup[h].asked
  BY <1>1 DEF LookupOK
<1>3. AnswerOK(s) /\ s.since \in Nat /\ s.since <= Changes
  BY <1>1, <1>2, RegistrationAssumption DEF LookupOK, AskedType
<1>4. PICK since : since = IF At(h, "insert") THEN s.since + 1 ELSE s.since
  OBVIOUS
<1>5. Given(h, r.id).since = since
  <2>1. Given(h, r.id) = [s EXCEPT !.row = r.id,
                                   !.since = s.since + IF At(h, "insert") THEN 1 ELSE 0]
    BY <1>2 DEF Given, AskedType
  <2> QED
    BY <1>3, <1>4, <2>1 DEF AskedType
<1>6. At(h, "insert") => s.since < Changes
  BY <1>1, <1>2 DEF At, LookupOK
<1>7. /\ r.id \in Ids /\ r.id <= rowsEver' /\ r \in clientRows' /\ r.oauth = s.client
      /\ s.client = CimdUrl => r.tenant \in TenantOf(s.slug)
      /\ Changes' = Changes + (IF At(h, "insert") THEN 1 ELSE 0)
  BY <1>2 DEF RowResolved, RegRow, RegRowsOK, RowsNumbered
<1>8. PICK a : a = [s EXCEPT !.since = since]
  OBVIOUS
<1>9. since \in Nat /\ since <= Changes' /\ (At(h, "insert") => since < Changes')
  BY <1>3, <1>4, <1>6, <1>7, ChangesIsNat
<1>10. Changes' <= MaxEdits + MaxRows
  <2>1. rowsEver' \in Nat /\ edits' \in Nat /\ rowsEver' <= MaxRows /\ edits' <= MaxEdits
    BY RegistrationAssumption DEF RegRowsOK
  <2>2. edits' + rowsEver' <= MaxEdits + MaxRows
    BY <2>1, RegistrationAssumption
  <2> QED
    BY <2>2 DEF Changes
<1>11. since \in 0..(MaxEdits + MaxRows)
  BY <1>9, <1>10, NextChangesIsNat, RegistrationAssumption
<1>12. a \in AskedType
  BY <1>8, <1>11 DEF AskedType
<1>13. /\ a.client = s.client /\ a.slug = s.slug /\ a.uri = s.uri /\ a.row = s.row
       /\ a.since = since
  BY <1>8 DEF AskedType
<1>14. AnswerOK(s)'
  BY <1>3, AnswerMoves
<1>15. AnswerOK(a)'
  <2>1. /\ a.row \in Ids /\ a.row <= rowsEver' /\ RowFits(a.row, a)'
    BY <1>13, <1>14 DEF AnswerOK, RowFits
  <2>2. a.since = Changes' => Stands(a)'
    <3> SUFFICES ASSUME a.since = Changes' PROVE Stands(a)'
      OBVIOUS
    <3>1. ~At(h, "insert")
      BY <1>9, <1>13, NextChangesIsNat
    <3>2. s.since = Changes'
      BY <1>4, <1>13, <3>1
    <3>3. Stands(s)'
      BY <1>14, <3>2 DEF AnswerOK
    <3> QED
      BY <1>13, <3>3 DEF Stands
  <2>3. a.since <= Changes'
    BY <1>9, <1>13
  <2> QED
    BY <2>1, <2>2, <2>3 DEF AnswerOK
<1>16. RowFits(r.id, a)'
  <2>1. tenancy' = tenancy /\ \A q \in clientRows' : q.id = r.id => q = r
    BY <1>7 DEF TablesMove, RegRowsOK, RowsNumbered
  <2> QED
    BY <1>7, <1>13, <2>1 DEF RowFits, TenantOf
<1>17. r.id = a.row \/ \A q \in clientRows' : q.id # a.row
  BY <1>2, <1>3, <1>13, ResolvedAsShown
<1>18. PICK l : l = [lookup[h] EXCEPT !.at = "grant", !.row = r.id, !.asked = a,
                                      !.doc = NoDoc]
  OBVIOUS
<1>19. lookup' = [lookup EXCEPT ![h] = l]
  BY <1>1, <1>2, <1>5, <1>8, <1>18 DEF RegIInv, LookupType
<1>20. l \in LookupType
  BY <1>1, <1>7, <1>12, <1>18 DEF LookupType, Documents
<1>21. l.op = "consent" /\ l.at = "grant" /\ l.row = r.id /\ l.asked = a
  BY <1>1, <1>18 DEF LookupType
<1>22. LookupOK(l)'
  BY <1>7, <1>9, <1>12, <1>13, <1>15, <1>16, <1>17, <1>21 DEF LookupOK
<1>23. lookup'[h] = l
  BY <1>19 DEF RegIInv
<1>24. LookupOK(lookup[h])'
  BY <1>22, <1>23 DEF LookupOK
<1> QED
  BY <1>1, <1>19, <1>20, <1>24, GoOnKeeps

LEMMA ResolvedKeeps ==
  ASSUME RegIInv, TablesMove, RegRowsOK', NEW h \in Handlers, NEW r, RowResolved(h, r),
         Resolved(h, r)
  PROVE  RegIInv'
<1>1. lookup[h] # NoLookup
  BY DEF RowResolved
<1>2. CASE Ends(h) /\ UNCHANGED regOutcome
  BY <1>1, <1>2, EndKeeps DEF regOutcome
<1>3. CASE /\ lookup[h].op = "authorize" /\ Accepts(h, r)
           /\ page' = Given(h, r.id)
           /\ Serves(h) /\ UNCHANGED granted
  <2>1. PICK a : a = Given(h, r.id)
    OBVIOUS
  <2>2. a \in Standing /\ AnswerOK(a)'
    BY <1>3, <2>1, GivenOK
  <2>3. page' \in Standing /\ AnswerOK(page)'
    BY <1>3, <2>1, <2>2 DEF AnswerOK, RowFits, Stands
  <2> QED
    BY <1>1, <1>3, <2>3, EndKeeps DEF Serves
<1>4. CASE /\ lookup[h].op = "consent" /\ Accepts(h, r)
           /\ lookup' = [lookup EXCEPT ![h].at = "grant", ![h].row = r.id,
                                       ![h].asked.since = Given(h, r.id).since,
                                       ![h].doc = NoDoc]
           /\ UNCHANGED regOutcome
  BY <1>4, ConsentGoesOn DEF regOutcome
<1>5. CASE Serves(h) /\ UNCHANGED <<page, granted>>
  BY <1>1, <1>5, EndKeeps DEF Serves
<1> QED
  BY <1>2, <1>3, <1>4, <1>5 DEF Resolved

-----------------------------------------------------------------------------
(* The tables change.                                                       *)

\* The row of the URL takes another name and other URIs: a code that stands
\* goes on standing, for that row or for one the URL does not name.
LEMMA RowUpdated ==
  ASSUME RegIInv, NEW r \in clientRows, r.oauth = CimdUrl, NEW n \in RegRow,
         n.id = r.id, n.oauth = r.oauth, n.tenant = r.tenant,
         ~NameTaken(r.tenant, n.name, r.id),
         clientRows' = (clientRows \ {r}) \cup {n},
         UNCHANGED <<tenancy, published, rowsEver, edits>>
  PROVE  TablesMove /\ RegRowsOK' /\ Changes' = Changes
<1>1. Changes' = Changes
  BY DEF Changes
<1>2. RowsFollow
  BY DEF RowsFollow
<1>3. StandsKept
  <2> SUFFICES ASSUME NEW s \in AskedType, AnswerOK(s), Stands(s) PROVE Stands(s)'
    BY DEF StandsKept
  <2>1. PICK q \in clientRows :
           /\ q.id = s.row
           /\ s.client = CimdUrl =>
                 /\ published # NoDoc
                 /\ s.uri \in published.uris
                 /\ ~NameTaken(q.tenant, published.name, q.id)
           /\ s.client # CimdUrl => s.uri \in q.uris
    BY DEF Stands
  <2>2. q.oauth = s.client
    BY <2>1 DEF AnswerOK, RowFits
  <2>3. CASE s.client # CimdUrl
    <3>1. q \in clientRows'
      BY <2>2, <2>3
    <3> QED
      BY <2>1, <2>3, <3>1 DEF Stands
  <2>4. CASE s.client = CimdUrl
    <3>1. PICK p \in clientRows' : p.id = q.id /\ p.tenant = q.tenant
      BY <2>1
    <3>2. ASSUME NEW o \in clientRows', o.tenant = p.tenant, o.name = published.name,
                 o.id # p.id
          PROVE  FALSE
      <4>1. CASE o \in clientRows
        BY <2>1, <2>4, <3>1, <3>2, <4>1 DEF NameTaken
      <4>2. CASE o = n
        <5>1. r.tenant = q.tenant /\ r.oauth = q.oauth
          BY <2>2, <2>4, <3>1, <3>2, <4>2
        <5>2. r = q
          BY <5>1 DEF RegIInv, RowsNumbered
        <5> QED
          BY <3>1, <3>2, <4>2, <5>2
      <4> QED
        BY <4>1, <4>2
    <3>3. ~NameTaken(p.tenant, published.name, p.id)'
      BY <3>2 DEF NameTaken
    <3> QED
      BY <2>1, <2>4, <3>1, <3>3 DEF Stands
  <2> QED
    BY <2>3, <2>4
<1>4. TablesMove
  <2>1. rowsEver <= rowsEver' /\ rowsEver' \in Nat /\ edits' \in Nat
    BY RegistrationAssumption DEF RegIInv
  <2> QED
    BY <1>1, <1>2, <1>3, <2>1 DEF TablesMove
<1>5. RowsNumbered'
  <2>1. \A q \in clientRows' : q.id <= rowsEver' /\ (q.oauth = CimdUrl \/ q.oauth = q.id)
    BY DEF RegIInv, RowsNumbered
  <2>2. \A q, p \in clientRows' : q.id = p.id => q = p
    BY DEF RegIInv, RowsNumbered
  <2>3. \A q \in clientRows' :
           q.tenant = n.tenant /\ (q.oauth = n.oauth \/ q.name = n.name) => q = n
    BY DEF RegIInv, RowsNumbered, NameTaken
  <2>4. \A q, p \in clientRows' :
           q.tenant = p.tenant /\ (q.oauth = p.oauth \/ q.name = p.name) => q = p
    BY <2>3 DEF RegIInv, RowsNumbered
  <2> QED
    BY <2>1, <2>2, <2>4 DEF RowsNumbered
<1>6. RegRowsOK'
  BY <1>5 DEF RegIInv, RegRowsOK
<1> QED
  BY <1>1, <1>4, <1>6

LEMMA UpdateClientKeeps ==
  ASSUME RegIInv, NEW h \in Handlers, UpdateClient(h)
  PROVE  RegIInv'
<1>1. lookup[h].at = "update" /\ lookup[h] # NoLookup
  BY IdleLookup DEF UpdateClient, At
<1>2. lookup[h] \in LookupType /\ LookupOK(lookup[h])
  BY <1>1 DEF RegIInv
<1>3. CASE Refuse(h)
  BY <1>1, <1>3, RefuseKeeps
<1>4. CASE ~Refuse(h)
  <2>1. PICK r \in clientRows :
           /\ r.id = lookup[h].row
           /\ ~NameTaken(r.tenant, lookup[h].doc.name, r.id)
           /\ UNCHANGED <<tenancy, published, rowsEver, edits>>
           /\ LET new == [r EXCEPT !.name = lookup[h].doc.name,
                                   !.uris = lookup[h].doc.uris]
              IN  clientRows' = (clientRows \ {r}) \cup {new} /\ Resolved(h, new)
    BY <1>4 DEF UpdateClient
  <2>2. PICK n : n = [r EXCEPT !.name = lookup[h].doc.name, !.uris = lookup[h].doc.uris]
    OBVIOUS
  <2>3. r \in RegRow /\ lookup[h].doc \in Documents /\ lookup[h].doc # NoDoc
    BY <1>1, <1>2 DEF RegIInv, LookupType, LookupOK
  <2>4. n \in RegRow
    BY <2>2, <2>3 DEF RegRow, Documents
  <2>5. /\ n.id = r.id /\ n.oauth = r.oauth /\ n.tenant = r.tenant
        /\ n.name = lookup[h].doc.name /\ n.uris = lookup[h].doc.uris
    BY <2>2, <2>3 DEF RegRow
  <2>6. /\ r.oauth = lookup[h].asked.client /\ r.oauth = CimdUrl
        /\ r.tenant \in TenantOf(lookup[h].asked.slug)
    BY <1>1, <1>2, <2>1 DEF LookupOK, RowFits
  <2>7. TablesMove /\ RegRowsOK' /\ Changes' = Changes
    BY <2>1, <2>2, <2>4, <2>5, <2>6, RowUpdated
  <2>8. ASSUME lookup[h].asked.since = Changes
        PROVE  /\ published' # NoDoc /\ n.uris = published'.uris
               /\ \A q \in clientRows' :
                     q.tenant = n.tenant /\ q.name = published'.name => q.id = n.id
    <3>1. lookup[h].doc = published /\ published' = published
      BY <1>1, <1>2, <2>1, <2>8 DEF LookupOK
    <3>2. \A q \in clientRows' : q.tenant = n.tenant /\ q.name = n.name => q.id = n.id
      BY <2>1, <2>2, <2>5 DEF NameTaken
    <3> QED
      BY <2>3, <2>5, <3>1, <3>2
  <2>9. Changes' = Changes + (IF At(h, "insert") THEN 1 ELSE 0)
    BY <1>1, <2>7, ChangesIsNat DEF At
  <2>10. RowResolved(h, n)
    BY <1>1, <2>1, <2>2, <2>4, <2>5, <2>6, <2>8, <2>9 DEF RowResolved
  <2>11. Resolved(h, n)
    BY <2>1, <2>2
  <2> QED
    BY <2>7, <2>10, <2>11, ResolvedKeeps
<1> QED
  BY <1>3, <1>4

\* A new row, of the URL or of an id of its own, where its name is free.
LEMMA RowInserted ==
  ASSUME RegIInv, NEW t \in Tenants, NEW oauth \in {CimdUrl, rowsEver + 1},
         NEW reg \in Documents \ {NoDoc}, NEW n, n = NewRow(t, oauth, reg),
         ~NameTaken(t, reg.name, NoId),
         oauth = CimdUrl => \A r \in clientRows : r.oauth = CimdUrl => r.tenant # t,
         InsertRegistration(n), UNCHANGED <<tenancy, published, edits>>
  PROVE  TablesMove /\ RegRowsOK' /\ Changes' = Changes + 1 /\ n \in RegRow
<1>1. /\ rowsEver < MaxRows /\ clientRows' = clientRows \cup {n}
      /\ rowsEver' = rowsEver + 1
  BY DEF InsertRegistration
<1>2. rowsEver \in Nat /\ edits \in Nat /\ MaxRows \in Nat
  BY RegistrationAssumption DEF RegIInv
<1>3. rowsEver + 1 \in 1..MaxRows /\ rowsEver' \in 0..MaxRows
  BY <1>1, <1>2
<1>4. /\ n.id = rowsEver + 1 /\ n.tenant = t /\ n.oauth = oauth /\ n.name = reg.name
      /\ n \in RegRow
  BY <1>3 DEF NewRow, RegRow, Documents, ClientId, Ids
<1>5. Changes' = Changes + 1
  BY <1>1, <1>2 DEF Changes
<1>6. \A r \in clientRows : /\ r.id \in Nat \ {0} /\ r.id <= rowsEver /\ r.id # n.id
                            /\ r.oauth # rowsEver + 1
  BY <1>2, <1>4, RegistrationAssumption DEF RegIInv, RegRow, RowsNumbered, Ids, CimdUrl
<1>7. RowsFollow
  BY <1>1, <1>2, <1>4 DEF RowsFollow
<1>8. TablesMove
  <2>1. Changes < Changes'
    BY <1>5, ChangesIsNat
  <2>2. rowsEver <= rowsEver' /\ rowsEver' \in Nat /\ edits' \in Nat
    BY <1>1, <1>2
  <2> QED
    BY <1>7, <2>1, <2>2 DEF TablesMove
<1>9. RowsNumbered'
  <2>1. \A q \in clientRows' : q.id <= rowsEver' /\ (q.oauth = CimdUrl \/ q.oauth = q.id)
    <3>1. \A q \in clientRows : q.id <= rowsEver /\ q.id \in Nat
      BY <1>6
    <3>2. \A q \in clientRows : q.id <= rowsEver'
      BY <1>1, <1>2, <3>1
    <3>3. n.id <= rowsEver'
      BY <1>1, <1>2, <1>4
    <3> QED
      BY <1>1, <1>4, <3>2, <3>3 DEF RegIInv, RowsNumbered
  <2>2. \A q, p \in clientRows' : q.id = p.id => q = p
    BY <1>1, <1>6 DEF RegIInv, RowsNumbered
  <2>3. \A q \in clientRows : q.tenant = t => q.oauth # n.oauth /\ q.name # n.name
    BY <1>4, <1>6 DEF NameTaken, NoId
  <2>4. \A q, p \in clientRows' :
           q.tenant = p.tenant /\ (q.oauth = p.oauth \/ q.name = p.name) => q = p
    BY <1>1, <1>4, <2>3 DEF RegIInv, RowsNumbered
  <2> QED
    BY <2>1, <2>2, <2>4 DEF RowsNumbered
<1>10. RegRowsOK'
  BY <1>1, <1>3, <1>4, <1>9 DEF RegIInv, RegRowsOK
<1> QED
  BY <1>4, <1>5, <1>8, <1>10

LEMMA InsertClientKeeps ==
  ASSUME RegIInv, NEW h \in Handlers, InsertClient(h)
  PROVE  RegIInv'
<1>1. lookup[h].at = "insert" /\ lookup[h] # NoLookup
  BY IdleLookup DEF InsertClient, At
<1>2. lookup[h] \in LookupType /\ LookupOK(lookup[h])
  BY <1>1 DEF RegIInv
<1>3. CASE Refuse(h)
  BY <1>1, <1>3, RefuseKeeps
<1>4. CASE ~Refuse(h)
  <2> DEFINE doc == lookup[h].doc
             slug == lookup[h].asked.slug
  <2>1. PICK t \in TenantOf(slug) :
           LET new == NewRow(t, CimdUrl, doc)
           IN  /\ RowsOf(h) = {}
               /\ ~NameTaken(t, new.name, NoId)
               /\ InsertRegistration(new)
               /\ UNCHANGED <<tenancy, published, edits>>
               /\ Resolved(h, new)
    BY <1>4 DEF InsertClient
  <2>2. PICK n : n = NewRow(t, CimdUrl, doc)
    OBVIOUS
  <2>3. t \in Tenants
    BY DEF TenantOf, RegIInv
  <2>4. doc \in Documents \ {NoDoc}
    BY <1>1, <1>2 DEF LookupType, LookupOK
  <2>5. n.name = doc.name /\ n.tenant = t /\ n.oauth = CimdUrl /\ n.uris = doc.uris
    BY <2>2 DEF NewRow
  <2>6. ~NameTaken(t, doc.name, NoId)
    BY <2>1, <2>2, <2>5
  <2>7. \A r \in clientRows : r.oauth = CimdUrl => r.tenant # t
    BY <2>1 DEF RowsOf
  <2>8. TablesMove /\ RegRowsOK' /\ Changes' = Changes + 1 /\ n \in RegRow
    BY <2>1, <2>2, <2>3, <2>4, <2>6, <2>7, RowInserted
  <2>9. n \in clientRows' /\ clientRows' = clientRows \cup {n} /\ published' = published
    BY <2>1, <2>2 DEF InsertRegistration
  <2>10. lookup[h].asked.client = CimdUrl
    BY <1>1, <1>2 DEF LookupOK
  <2>11. ASSUME lookup[h].asked.since = Changes
         PROVE  /\ published' # NoDoc /\ n.uris = published'.uris
                /\ \A q \in clientRows' :
                      q.tenant = n.tenant /\ q.name = published'.name => q.id = n.id
    <3>1. doc = published
      BY <1>1, <1>2, <2>11 DEF LookupOK
    <3>2. \A q \in clientRows : q.id # NoId
      BY RegistrationAssumption DEF RegIInv, RegRow, Ids, NoId
    <3>3. \A q \in clientRows' : q.tenant = n.tenant /\ q.name = n.name => q.id = n.id
      BY <2>5, <2>6, <2>9, <3>2 DEF NameTaken
    <3> QED
      BY <2>4, <2>5, <2>9, <3>1, <3>3
  <2>12. Changes' = Changes + (IF At(h, "insert") THEN 1 ELSE 0)
    BY <1>1, <2>8 DEF At
  <2>13. RowResolved(h, n)
    BY <1>1, <2>5, <2>8, <2>9, <2>10, <2>11, <2>12 DEF RowResolved
  <2>14. Resolved(h, n)
    BY <2>1, <2>2
  <2> QED
    BY <2>8, <2>13, <2>14, ResolvedKeeps
<1> QED
  BY <1>3, <1>4

LEMMA FindClientKeeps ==
  ASSUME RegIInv, NEW h \in Handlers, FindClient(h)
  PROVE  RegIInv'
<1>1. lookup[h].at = "find" /\ lookup[h] # NoLookup
  BY IdleLookup DEF FindClient, At
<1>2. lookup[h] \in LookupType /\ LookupOK(lookup[h])
  BY <1>1 DEF RegIInv
<1>3. CASE Refuse(h)
  BY <1>1, <1>3, RefuseKeeps
<1>4. CASE ~Refuse(h)
  <2>1. /\ UNCHANGED <<tenancy, regTables>>
        /\ \E r \in clientRows : r.oauth = lookup[h].asked.client /\ Resolved(h, r)
    BY <1>4 DEF FindClient
  <2>2. PICK r \in clientRows : r.oauth = lookup[h].asked.client /\ Resolved(h, r)
    BY <2>1
  <2>3. TablesMove /\ RegRowsOK'
    BY <2>1, SameTablesMove, SameTablesOK
  <2>4. clientRows' = clientRows /\ Changes' = Changes
    BY <2>1 DEF regTables, Changes
  <2>5. lookup[h].asked.client # CimdUrl
    BY <1>1, <1>2 DEF LookupOK
  <2>6. Changes' = Changes + (IF At(h, "insert") THEN 1 ELSE 0)
    BY <1>1, <2>4, ChangesIsNat DEF At
  <2>7. RowResolved(h, r)
    BY <1>1, <2>2, <2>4, <2>5, <2>6 DEF RowResolved, RegIInv
  <2> QED
    BY <2>2, <2>3, <2>7, ResolvedKeeps
<1> QED
  BY <1>3, <1>4

\* A code is given for the row that was resolved.  With nothing changed since
\* the page, that is the page's.
LEMMA GrantCodeKeeps ==
  ASSUME RegIInv, NEW h \in Handlers, GrantCode(h)
  PROVE  RegIInv'
<1>1. lookup[h].at = "grant" /\ lookup[h] # NoLookup
  BY IdleLookup DEF GrantCode, At
<1>2. lookup[h] \in LookupType /\ LookupOK(lookup[h])
  BY <1>1 DEF RegIInv
<1>3. CASE Refuse(h)
  BY <1>1, <1>3, RefuseKeeps
<1>4. CASE ~Refuse(h)
  <2>1. /\ granted' = Given(h, lookup[h].row) /\ Serves(h)
        /\ UNCHANGED <<tenancy, regTables, page>>
    BY <1>4 DEF GrantCode
  <2>2. PICK s \in AskedType : s = lookup[h].asked
    BY <1>2 DEF LookupOK
  <2>3. AnswerOK(s) /\ s.since \in Nat
    BY <1>1, <1>2, <2>2, RegistrationAssumption DEF LookupOK, AskedType
  <2>4. PICK a : a = [s EXCEPT !.row = lookup[h].row]
    OBVIOUS
  <2>5. /\ lookup[h].row \in Ids /\ lookup[h].row <= rowsEver /\ RowFits(lookup[h].row, s)
        /\ lookup[h].row = s.row \/ \A r \in clientRows : r.id # s.row
    BY <1>1, <1>2, <2>2 DEF LookupOK
  <2>6. a \in Standing /\ a \in AskedType
    BY <2>4, <2>5 DEF Standing, AskedType
  <2>7. /\ a.client = s.client /\ a.slug = s.slug /\ a.uri = s.uri
        /\ a.since = s.since /\ a.row = lookup[h].row
    BY <2>4 DEF AskedType
  <2>8. granted' = a
    <3>1. granted' = [s EXCEPT !.row = lookup[h].row, !.since = s.since + 0]
      BY <1>1, <2>1, <2>2 DEF Given, At, AskedType
    <3>2. s.since + 0 = s.since
      BY <2>3
    <3> QED
      BY <2>4, <3>1, <3>2 DEF AskedType
  <2>9. AnswerOK(a)
    <3>1. a.since = Changes => Stands(a)
      <4> SUFFICES ASSUME a.since = Changes PROVE Stands(a)
        OBVIOUS
      <4>1. Stands(s)
        BY <2>3, <2>7 DEF AnswerOK
      <4>2. lookup[h].row = s.row
        BY <2>5, <4>1 DEF Stands
      <4> QED
        BY <2>7, <4>1, <4>2 DEF Stands
    <3> QED
      BY <2>3, <2>5, <2>7, <3>1 DEF AnswerOK, RowFits
  <2>10. TablesMove /\ RegRowsOK'
    BY <2>1, SameTablesMove, SameTablesOK
  <2>11. AnswerOK(a)'
    BY <2>6, <2>9, <2>10, AnswerMoves
  <2>12. granted' \in Standing /\ AnswerOK(granted)'
    BY <2>6, <2>8, <2>11 DEF AnswerOK, RowFits, Stands
  <2> QED
    BY <1>1, <2>1, <2>10, <2>12, EndKeeps DEF Serves
<1> QED
  BY <1>3, <1>4

\* A change of the tables that no request makes.
LEMMA TablesStepKeeps ==
  ASSUME RegIInv, TablesMove, RegRowsOK', UNCHANGED <<page, served, lookup>>,
         granted' = granted \/ granted' = NoAnswer
  PROVE  RegIInv'
<1>1. lookup' \in [Handlers -> LookupType] /\ \A g \in Handlers : lookup'[g] = lookup[g]
  BY DEF RegIInv
<1>2. Busy' = Busy
  BY DEF Busy
<1>3. served' \in Nat /\ served' + Cardinality(Busy') <= MaxServed
  BY <1>2 DEF RegIInv
<1> QED
  BY <1>1, <1>3, RegStepKeeps

LEMMA RegisterDcrKeeps ==
  ASSUME RegIInv, NEW reg \in Documents \ {NoDoc}, NEW slug \in Slugs,
         RegisterDcr(reg, slug)
  PROVE  RegIInv'
<1>1. PICK t \in TenantOf(slug) : /\ ~NameTaken(t, reg.name, NoId)
                                  /\ InsertRegistration(NewRow(t, rowsEver + 1, reg))
  BY DEF RegisterDcr
<1>2. UNCHANGED <<tenancy, published, edits, page, granted, served, lookup>>
  BY DEF RegisterDcr, regOutcome
<1>3. t \in Tenants /\ rowsEver + 1 # CimdUrl
  BY RegistrationAssumption DEF TenantOf, RegIInv, CimdUrl
<1>4. PICK n : n = NewRow(t, rowsEver + 1, reg)
  OBVIOUS
<1>5. TablesMove /\ RegRowsOK'
  BY <1>1, <1>2, <1>3, <1>4, RowInserted
<1> QED
  BY <1>2, <1>5, TablesStepKeeps

LEMMA EditMoves ==
  ASSUME RegIInv, clientRows' \subseteq clientRows, edits < MaxEdits, edits' = edits + 1,
         published' \in Documents, UNCHANGED <<tenancy, rowsEver>>
  PROVE  TablesMove /\ RegRowsOK'
<1>1. rowsEver \in Nat /\ edits \in Nat /\ MaxEdits \in Nat
  BY RegistrationAssumption DEF RegIInv
<1>2. Changes < Changes'
  BY <1>1 DEF Changes
<1>3. RowsFollow
  BY DEF RowsFollow
<1>4. rowsEver <= rowsEver' /\ rowsEver' \in Nat /\ edits' \in Nat /\ edits' \in 0..MaxEdits
  BY <1>1
<1>5. TablesMove
  BY <1>2, <1>3, <1>4 DEF TablesMove
<1>6. RowsNumbered'
  BY DEF RegIInv, RowsNumbered
<1> QED
  BY <1>4, <1>5, <1>6 DEF RegIInv, RegRowsOK

LEMMA DeleteRegistrationKeeps ==
  ASSUME RegIInv, NEW r \in clientRows, DeleteRegistration(r)
  PROVE  RegIInv'
<1>1. /\ clientRows' \subseteq clientRows /\ edits < MaxEdits /\ edits' = edits + 1
      /\ UNCHANGED <<tenancy, published, rowsEver, page, served, lookup>>
      /\ granted' = granted \/ granted' = NoAnswer
  BY DEF DeleteRegistration
<1>2. published' \in Documents
  BY <1>1 DEF RegIInv
<1> QED
  BY <1>1, <1>2, EditMoves, TablesStepKeeps

LEMMA PublishKeeps ==
  ASSUME RegIInv, NEW d \in Documents, Publish(d)
  PROVE  RegIInv'
<1>1. /\ clientRows' \subseteq clientRows /\ edits < MaxEdits /\ edits' = edits + 1
      /\ published' \in Documents
      /\ UNCHANGED <<tenancy, rowsEver, page, granted, served, lookup>>
  BY DEF Publish, regOutcome
<1> QED
  BY <1>1, EditMoves, TablesStepKeeps

-----------------------------------------------------------------------------
(* The invariant, and what follows from it.                                 *)

LEMMA RegStutterKeeps ==
  ASSUME RegIInv, UNCHANGED regVars
  PROVE  RegIInv'
<1>1. UNCHANGED <<tenancy, regTables>> /\ UNCHANGED <<page, granted, served, lookup>>
  BY DEF regVars, regOutcome
<1>2. TablesMove /\ RegRowsOK'
  BY <1>1, SameTablesMove, SameTablesOK
<1> QED
  BY <1>1, <1>2, TablesStepKeeps

LEMMA RegInitKeeps == RegInit => RegIInv
<1> SUFFICES ASSUME RegInit PROVE RegIInv
  OBVIOUS
<1>1. lookup \in [Handlers -> LookupType] /\ \A h \in Handlers : lookup[h] = NoLookup
  BY IdleLookup DEF RegInit
<1>2. Busy = {}
  BY <1>1 DEF Busy
<1>3. served + Cardinality(Busy) <= MaxServed
  BY <1>2, FS_EmptySet, RegistrationAssumption DEF RegInit
<1>4. RowsNumbered
  BY DEF RegInit, RowsNumbered
<1> QED
  BY <1>1, <1>3, <1>4, RegistrationAssumption DEF RegInit, RegIInv

LEMMA RegNextKeeps == RegIInv /\ [RegNext]_regVars => RegIInv'
<1> SUFFICES ASSUME RegIInv, [RegNext]_regVars PROVE RegIInv'
  OBVIOUS
<1>1. CASE UNCHANGED regVars
  BY <1>1, RegStutterKeeps
<1>2. ASSUME NEW h \in Handlers, NEW c \in {CimdUrl} \cup 1..rowsEver, NEW s \in Slugs,
             NEW u \in RedirectUris, StartAuthorize(h, c, s, u)
      PROVE  RegIInv'
  BY <1>2, StartAuthorizeKeeps
<1>3. ASSUME NEW h \in Handlers, SubmitConsent(h) PROVE RegIInv'
  BY <1>3, SubmitConsentKeeps
<1>4. ASSUME NEW h \in Handlers, StartToken(h) PROVE RegIInv'
  BY <1>4, StartTokenKeeps
<1>5. ASSUME NEW h \in Handlers, FetchDocument(h) PROVE RegIInv'
  BY <1>5, FetchDocumentKeeps
<1>6. ASSUME NEW h \in Handlers, SelectClient(h) PROVE RegIInv'
  BY <1>6, SelectClientKeeps
<1>7. ASSUME NEW h \in Handlers, UpdateClient(h) PROVE RegIInv'
  BY <1>7, UpdateClientKeeps
<1>8. ASSUME NEW h \in Handlers, InsertClient(h) PROVE RegIInv'
  BY <1>8, InsertClientKeeps
<1>9. ASSUME NEW h \in Handlers, FindClient(h) PROVE RegIInv'
  BY <1>9, FindClientKeeps
<1>10. ASSUME NEW h \in Handlers, GrantCode(h) PROVE RegIInv'
  BY <1>10, GrantCodeKeeps
<1>11. ASSUME NEW reg \in Documents \ {NoDoc}, NEW s \in Slugs, RegisterDcr(reg, s)
       PROVE  RegIInv'
  BY <1>11, RegisterDcrKeeps
<1>12. ASSUME NEW r \in clientRows, DeleteRegistration(r) PROVE RegIInv'
  BY <1>12, DeleteRegistrationKeeps
<1>13. ASSUME NEW d \in Documents, Publish(d) PROVE RegIInv'
  BY <1>13, PublishKeeps
<1> QED
  BY <1>1, <1>2, <1>3, <1>4, <1>5, <1>6, <1>7, <1>8, <1>9, <1>10, <1>11, <1>12, <1>13
     DEF RegNext, Rests

LEMMA RegTypeFollows == RegIInv => RegTypeOK
<1> SUFFICES ASSUME RegIInv PROVE RegTypeOK
  OBVIOUS
<1>1. served \in 0..MaxServed
  <2>1. served \in Nat /\ served + Cardinality(Busy) <= MaxServed /\ MaxServed \in Nat
    BY RegistrationAssumption DEF RegIInv
  <2> QED
    BY <2>1, BusyIsFinite
<1>2. ASSUME NEW h \in Handlers
      PROVE  /\ lookup[h].op \in {"idle", "authorize", "consent", "token"}
             /\ lookup[h].at \in {"idle", "fetch", "select", "update", "insert",
                                  "find", "grant"}
             /\ lookup[h].at # "idle" => lookup[h].asked # NoAnswer
             /\ lookup[h].at = "update" => lookup[h].row # NoId
  <2>1. lookup[h] \in LookupType /\ (lookup[h] = NoLookup \/ LookupOK(lookup[h]))
    BY DEF RegIInv
  <2>2. NoAnswer \notin AskedType
    <3> SUFFICES ASSUME NoAnswer \in AskedType PROVE FALSE
      OBVIOUS
    <3>1. DOMAIN NoAnswer = {"row"} /\ "uri" \in DOMAIN NoAnswer
      BY DEF NoAnswer, AskedType
    <3> QED
      BY <3>1
  <2>3. NoId \notin Ids
    BY RegistrationAssumption DEF Ids, NoId
  <2>4. lookup[h].at # "idle" => LookupOK(lookup[h])
    BY <2>1, IdleLookup
  <2> QED
    BY <2>1, <2>2, <2>3, <2>4 DEF LookupType, LookupOK
<1> QED
  BY <1>1, <1>2 DEF RegIInv, RegTypeOK, RowsNumbered

-----------------------------------------------------------------------------
(* What a step may not do.                                                  *)

Moves(h) ==
    \/ FetchDocument(h) \/ SelectClient(h) \/ UpdateClient(h)
    \/ InsertClient(h) \/ FindClient(h) \/ GrantCode(h)

\* Only a step of its own moves a request on, or ends it.
LEMMA OwnMove ==
  ASSUME RegIInv, [RegNext]_regVars, NEW h \in Handlers,
         lookup[h] # NoLookup, lookup'[h] # lookup[h]
  PROVE  Moves(h)
<1>1. lookup' # lookup
  OBVIOUS
<1>2. ASSUME NEW g \in Handlers, g # h, NEW l, lookup' = [lookup EXCEPT ![g] = l]
      PROVE  FALSE
  BY <1>2 DEF RegIInv
<1>3. ASSUME NEW g \in Handlers, NEW op, NEW a, Begin(g, op, a) PROVE FALSE
  <2>1. lookup[g] = NoLookup /\ g # h
    BY <1>3 DEF Begin
  <2> QED
    BY <1>2, <1>3, <2>1 DEF Begin
<1>4. ASSUME NEW g \in Handlers, g # h, Moves(g) PROVE FALSE
  <2>1. lookup \in [Handlers -> LookupType]
    BY DEF RegIInv
  <2>2. lookup'[h] = lookup[h]
    <3>1. CASE FetchDocument(g)
      BY <1>4, <2>1, <3>1 DEF FetchDocument, Refuse, Ends
    <3>2. CASE SelectClient(g)
      BY <1>4, <2>1, <3>2 DEF SelectClient, SelectFrom, Goes
    <3>3. ASSUME NEW r, Resolved(g, r) PROVE lookup'[h] = lookup[h]
      BY <1>4, <2>1, <3>3 DEF Resolved, Serves, Ends
    <3>4. CASE Refuse(g)
      BY <1>4, <2>1, <3>4 DEF Refuse, Ends
    <3>5. CASE UpdateClient(g)
      BY <3>3, <3>4, <3>5 DEF UpdateClient
    <3>6. CASE InsertClient(g)
      BY <3>3, <3>4, <3>6 DEF InsertClient
    <3>7. CASE FindClient(g)
      BY <3>3, <3>4, <3>7 DEF FindClient
    <3>8. CASE GrantCode(g)
      BY <1>4, <2>1, <3>4, <3>8 DEF GrantCode, Serves, Ends
    <3> QED
      BY <1>4, <3>1, <3>2, <3>5, <3>6, <3>7, <3>8 DEF Moves
  <2> QED
    BY <2>2
<1>5. RegNext
  BY <1>1 DEF regVars
<1>6. CASE \E g \in Handlers :
              \/ \E c \in {CimdUrl} \cup 1..rowsEver, s \in Slugs, u \in RedirectUris :
                    StartAuthorize(g, c, s, u)
              \/ SubmitConsent(g) \/ StartToken(g)
  <2>1. PICK g \in Handlers : \E op, a : Begin(g, op, a)
    BY <1>6 DEF StartAuthorize, SubmitConsent, StartToken
  <2> QED
    BY <1>3, <2>1
<1>7. CASE \E g \in Handlers : Moves(g)
  BY <1>4, <1>7
<1>8. CASE \/ \E reg \in Documents \ {NoDoc}, s \in Slugs : RegisterDcr(reg, s)
           \/ \E r \in clientRows : DeleteRegistration(r)
           \/ \E d \in Documents : Publish(d)
           \/ Rests
  BY <1>1, <1>8 DEF RegisterDcr, DeleteRegistration, Publish, Rests, regVars
<1> QED
  BY <1>5, <1>6, <1>7, <1>8 DEF RegNext, Moves

LEMMA ConsentStep ==
  ASSUME RegIInv, [RegNext]_regVars, NEW h \in Handlers,
         At(h, "grant"), served' > served, ~At(h, "grant")'
  PROVE  \/ granted'.row = lookup[h].asked.row
         \/ \A r \in clientRows : r.id # lookup[h].asked.row
<1>1. lookup[h].at = "grant" /\ lookup[h] # NoLookup /\ lookup'[h] # lookup[h]
  BY IdleLookup DEF At
<1>2. Moves(h)
  BY <1>1, OwnMove
<1>3. GrantCode(h)
  BY <1>1, <1>2 DEF Moves, FetchDocument, SelectClient, SelectFrom, UpdateClient,
                    InsertClient, FindClient, At
<1>4. served' # served
  BY DEF RegIInv
<1>5. granted' = Given(h, lookup[h].row)
  BY <1>3, <1>4 DEF GrantCode, Refuse, regOutcome
<1>6. lookup[h] \in LookupType /\ LookupOK(lookup[h]) /\ lookup[h].asked \in AskedType
  BY <1>1 DEF RegIInv, LookupOK
<1>7. granted'.row = lookup[h].row
  BY <1>5, <1>6 DEF Given, AskedType
<1> QED
  BY <1>1, <1>6, <1>7 DEF LookupOK

\* A request that resolves its client to the row it was shown, and is refused.
LEMMA ResolvedServes ==
  ASSUME NEW h \in Handlers, NEW r, Resolved(h, r), lookup[h].op \in {"consent", "token"},
         RegIInv, lookup'[h] = NoLookup, served' = served
  PROVE  \/ lookup[h].op = "consent" /\ ~Accepts(h, r)
         \/ lookup[h].op = "token" /\ r.id # lookup[h].asked.row
<1>1. served + 1 # served
  BY DEF RegIInv
<1>2. CASE lookup[h].op = "token"
  BY <1>1, <1>2 DEF Resolved, Serves
<1>3. CASE lookup[h].op = "consent"
  <2>1. ASSUME lookup' = [lookup EXCEPT ![h].at = "grant", ![h].row = r.id,
                                  ![h].asked.since = Given(h, r.id).since,
                                  ![h].doc = NoDoc]
        PROVE  FALSE
    <3>1. lookup[h] \in LookupType /\ lookup \in [Handlers -> LookupType]
      BY DEF RegIInv
    <3>2. lookup'[h].at = "grant"
      BY <2>1, <3>1 DEF LookupType
    <3> QED
      BY <3>2, IdleLookup
  <2> QED
    BY <1>1, <1>3, <2>1 DEF Resolved, Serves
<1> QED
  BY <1>2, <1>3

LEMMA GrantedStep ==
  ASSUME RegIInv, [RegNext]_regVars, NEW h \in Handlers,
         lookup[h].op \in {"consent", "token"}, lookup'[h] = NoLookup, served' = served
  PROVE  lookup[h].asked.since < Changes
<1> DEFINE s == lookup[h].asked
<1>1. lookup[h] # NoLookup /\ lookup'[h] # lookup[h]
  BY IdleLookup
<1>2. lookup[h] \in LookupType /\ LookupOK(lookup[h]) /\ AnswerOK(s) /\ s \in AskedType
  BY <1>1 DEF RegIInv, LookupOK
<1>3. s.since \in Nat /\ s.since <= Changes /\ Changes \in Nat
  BY <1>2, ChangesIsNat, RegistrationAssumption DEF AnswerOK, AskedType
<1>4. Moves(h)
  BY <1>1, OwnMove
<1> HIDE DEF s
<1>5. SUFFICES ASSUME s.since = Changes PROVE FALSE
  BY <1>3 DEF s
<1>6. PICK q \in clientRows :
         /\ q.id = s.row
         /\ s.client = CimdUrl =>
               /\ published # NoDoc
               /\ s.uri \in published.uris
               /\ ~NameTaken(q.tenant, published.name, q.id)
         /\ s.client # CimdUrl => s.uri \in q.uris
  BY <1>2, <1>5 DEF AnswerOK, Stands
<1>7. q.oauth = s.client /\ (s.client = CimdUrl => q.tenant \in TenantOf(s.slug))
  BY <1>2, <1>6 DEF AnswerOK, RowFits
<1>8. \A r \in clientRows : r.id = q.id => r = q
  BY DEF RegIInv, RowsNumbered
<1>9. CASE FetchDocument(h)
  <2>1. lookup[h].at = "fetch"
    BY <1>9 DEF FetchDocument, At
  <2>2. s.client = CimdUrl
    BY <1>2, <2>1 DEF LookupOK, s
  <2>3. published # NoDoc /\ TenantOf(s.slug) # {}
    BY <1>6, <1>7, <2>2
  <2>4. lookup' = [lookup EXCEPT ![h].at = "select", ![h].doc = published]
    BY <1>9, <2>3 DEF FetchDocument, s
  <2>5. lookup'[h].at = "select"
    BY <1>2, <2>4 DEF RegIInv, LookupType
  <2> QED
    BY <2>5, IdleLookup
<1>10. CASE SelectClient(h)
  <2>1. \/ lookup' = [lookup EXCEPT ![h].at = "insert"]
        \/ \E r \in RowsOf(h) : lookup' = [lookup EXCEPT ![h].at = "update", ![h].row = r.id]
    BY <1>10 DEF SelectClient, SelectFrom, Goes
  <2>2. lookup'[h].at # "idle"
    BY <1>2, <2>1 DEF RegIInv, LookupType
  <2> QED
    BY <2>2, IdleLookup
<1>11. CASE UpdateClient(h)
  <2>1. lookup[h].at = "update"
    BY <1>11 DEF UpdateClient, At
  <2>2. s.client = CimdUrl /\ lookup[h].doc = published /\ lookup[h].row = s.row
    BY <1>2, <1>5, <1>6, <2>1 DEF LookupOK, s
  <2>3. PICK r \in clientRows :
           /\ r.id = lookup[h].row
           /\ Resolved(h, [r EXCEPT !.name = lookup[h].doc.name,
                                    !.uris = lookup[h].doc.uris])
    BY <1>6, <1>11, <2>2 DEF UpdateClient
  <2>4. PICK n : n = [r EXCEPT !.name = lookup[h].doc.name, !.uris = lookup[h].doc.uris]
    OBVIOUS
  <2>5. r \in RegRow
    BY DEF RegIInv
  <2>6. n.uris = published.uris /\ n.id = s.row
    BY <2>2, <2>3, <2>4, <2>5 DEF RegRow
  <2>7. Resolved(h, n)
    BY <2>3, <2>4
  <2> QED
    BY <1>6, <2>2, <2>6, <2>7, ResolvedServes DEF Accepts, s
<1>12. CASE InsertClient(h)
  <2>1. lookup[h].at = "insert"
    BY <1>12 DEF InsertClient, At
  <2>2. s.since < Changes
    BY <1>2, <2>1 DEF LookupOK, s
  <2> QED
    BY <1>3, <1>5, <2>2 DEF s
<1>13. CASE FindClient(h)
  <2>1. lookup[h].at = "find"
    BY <1>13 DEF FindClient, At
  <2>2. s.client # CimdUrl
    BY <1>2, <2>1 DEF LookupOK, s
  <2>3. PICK r \in clientRows : r.oauth = s.client /\ Resolved(h, r)
    BY <1>7, <1>13 DEF FindClient, s
  <2>4. r = q
    BY <1>7, <2>2, <2>3 DEF RegIInv, RowsNumbered
  <2> QED
    BY <1>6, <2>2, <2>3, <2>4, ResolvedServes DEF Accepts, s
<1>14. CASE GrantCode(h)
  <2>1. lookup[h].at = "grant"
    BY <1>14 DEF GrantCode, At
  <2>2. lookup[h].row = s.row
    BY <1>2, <1>6, <2>1 DEF LookupOK, s
  <2>3. served' = served + 1 /\ served \in Nat
    BY <1>6, <1>14, <2>2 DEF GrantCode, Serves, RegIInv
  <2> QED
    BY <2>3
<1> QED
  BY <1>4, <1>9, <1>10, <1>11, <1>12, <1>13, <1>14 DEF Moves

\* Of clients that every request resolves anew (ClientRegistration): ids and
\* names stay unique, the code of a consent goes to the client whose page was
\* shown unless that one is gone, and a consent or an exchange that was possible
\* when its page or its code was given is refused only after a change.
THEOREM RegistrationCorrect == RegSpec => RegistrationRules
<1>1. RegInit => RegIInv
  BY RegInitKeeps
<1>2. RegIInv /\ [RegNext]_regVars => RegIInv'
  BY RegNextKeeps
<1>3. RegIInv => RegTypeOK
  BY RegTypeFollows
<1>4. RegIInv /\ [RegNext]_regVars =>
     /\ [\A h \in Handlers :
            At(h, "grant") /\ served' > served /\ ~At(h, "grant")'
            => \/ granted'.row = lookup[h].asked.row
               \/ \A r \in clientRows : r.id # lookup[h].asked.row]_regVars
     /\ [\A h \in Handlers :
            /\ lookup[h].op \in {"consent", "token"}
            /\ lookup'[h] = NoLookup
            /\ served' = served
            => lookup[h].asked.since < Changes]_regVars
  BY ConsentStep, GrantedStep
<1> QED
  BY <1>1, <1>2, <1>3, <1>4, PTL
     DEF RegSpec, RegistrationRules, ConsentForShown, GrantedStaysGranted

=============================================================================
