---------------------------- MODULE AccessRequests ----------------------------
(***************************************************************************)
(* Access requests and the overrides they leave behind: a member asks for  *)
(* the tools of a server, administrators approve, deny or cancel, members  *)
(* turn their tools off and on, and administrators edit the overrides      *)
(* directly (accessRequests/service.ts, connections/service.ts).           *)
(*                                                                         *)
(* One connection, one server.  Each handler is a sequence of statements   *)
(* that commit one by one; only setToolOverrides and the roles' setTools   *)
(* are transactions.                                                       *)
(***************************************************************************)
EXTENDS ApiHandlers

CONSTANTS
    Tools,          \* tools of the server
    Requests,       \* access_requests rows that can be inserted
    NoRequest,
    MaxUpsets       \* bound: direct edits, failed statements and crashes

ASSUME AccessAssumption ==
    /\ NoRequest \notin Requests
    /\ MaxUpsets \in Nat

Decisions == {"approved", "denied", "cancelled"}

VARIABLES
    request,        \* status and approved_tool_ids of each row
    override,       \* type of each tool's override, or "none"
    roleGrant,      \* tools a grant role of the connection names
    gated,          \* active tools that require approval
    active,         \* tools with status active
    serverActive,
    serverGated,    \* servers.requires_approval
    doing,              \* what each handler is doing
    history,        \* of each request, what its handlers did
    upsets          \* direct edits, failed statements and crashes so far

gates == <<gated, active, serverActive, serverGated>>
accessVars == <<request, override, roleGrant, gates, doing, history, upsets>>

\* A handler: its operation and the statement it is at; the request it
\* decides; the tools it grants, those left, and the one it is at; what SELECT
\* found of that tool's override: the row by id (current while it is there,
\* replaced once it was deleted) and its type; for a toggle, whether a role
\* grants the tool and whether it is to be on.
IdleAccess == [op |-> "idle", pc |-> "idle", req |-> NoRequest, tools |-> {},
         todo |-> {}, at |-> {}, row |-> "none", was |-> "none",
         role |-> FALSE, on |-> FALSE]

Ops == {"idle", "create", "approve", "deny", "cancel", "attach", "toggle"}
PCs == {"idle", "pending", "insert", "tools", "select", "write", "finish",
        "role", "existing", "set"}
Types == {"none", "allow", "deny"}

\* History of a request until its decision has settled: tools allowed for it,
\* tools whose row was replaced between SELECT and UPDATE; whether another
\* creation, or another decision, had read what this one did; and whether an
\* approval broke off.
NoHistory == [granted |-> {}, missed |-> {}, raced |-> FALSE,
              overlapped |-> FALSE, broken |-> FALSE]

\* Types, and a row that was selected stays the tool's until it is deleted.
AccessTypeOK ==
    /\ request \in [Requests -> [status : {"none", "pending"} \cup Decisions,
                                 tools : SUBSET Tools]]
    /\ override \in [Tools -> Types]
    /\ roleGrant \subseteq Tools
    /\ gated \subseteq Tools
    /\ active \subseteq Tools
    /\ serverActive \in BOOLEAN
    /\ serverGated \in BOOLEAN
    /\ doing \in [Handlers -> [op : Ops, pc : PCs, req : Requests \cup {NoRequest},
                               tools : SUBSET Tools, todo : SUBSET Tools,
                               at : SUBSET Tools,
                               row : {"none", "current", "replaced"}, was : Types,
                               role : BOOLEAN, on : BOOLEAN]]
    /\ history \in [Requests -> [granted : SUBSET Tools, missed : SUBSET Tools,
                                 raced : BOOLEAN, overlapped : BOOLEAN,
                                 broken : BOOLEAN]]
    /\ upsets \in 0..MaxUpsets
    /\ \A k \in Handlers :
          doing[k].row = "current" => \A t \in doing[k].at : override[t] # "none"

AccessInit ==
    /\ request = [r \in Requests |-> [status |-> "none", tools |-> {}]]
    /\ override = [t \in Tools |-> "none"]
    /\ roleGrant \in SUBSET Tools
    /\ active = Tools
    /\ gated \in SUBSET Tools
    /\ serverActive = TRUE
    /\ serverGated \in BOOLEAN
    /\ doing = [k \in Handlers |-> IdleAccess]
    /\ history = [r \in Requests |-> NoHistory]
    /\ upsets = 0

-----------------------------------------------------------------------------
AccessAt(k, ops, pc) == doing[k].op \in ops /\ doing[k].pc = pc

StartAccess(k, record) == doing[k] = IdleAccess /\ doing' = [doing EXCEPT ![k] = record]

StepAccess(k, pc) == doing' = [doing EXCEPT ![k].pc = pc]

DoneAccess(k) == doing' = [doing EXCEPT ![k] = IdleAccess]

\* The rows of set are deleted: ids that were read refer to nothing.
Forget(g, set) ==
    [k \in Handlers |-> IF g[k].row = "current" /\ g[k].at \cap set # {}
                        THEN [g[k] EXCEPT !.row = "replaced"] ELSE g[k]]

\* What SELECT finds of the override of tool t.
Found(t) == IF override[t] = "none" THEN "none" ELSE "current"

Upset == upsets < MaxUpsets /\ upsets' = upsets + 1

ReadOnly == UNCHANGED <<request, override, roleGrant, gates, upsets>>

-----------------------------------------------------------------------------
(* createRequest.                                                           *)

NeedsRequest == serverGated \/ gated \cap active # {}

\* Bound: no more creations at once than rows left for them.
RowsLeft ==
    Cardinality({r \in Requests : request[r].status = "none"})
        > Cardinality({k \in Handlers : doing[k].op = "create"})

StartCreate(k) ==
    /\ RowsLeft
    /\ serverActive
    /\ NeedsRequest
    /\ StartAccess(k, [IdleAccess EXCEPT !.op = "create", !.pc = "pending"])
    /\ ReadOnly /\ UNCHANGED history

Pending == {r \in Requests : request[r].status = "pending"}

CheckPending(k) ==
    /\ AccessAt(k, {"create"}, "pending")
    /\ IF Pending = {} THEN StepAccess(k, "insert") ELSE DoneAccess(k)
    /\ ReadOnly /\ UNCHANGED history

\* INSERT, and the approvers are notified: nothing keeps pending unique.
InsertRequest(k, r) ==
    /\ AccessAt(k, {"create"}, "insert")
    /\ request[r].status = "none"
    /\ request' = [request EXCEPT ![r].status = "pending"]
    /\ history' = [history EXCEPT ![r].raced =
                      \E g \in Handlers \ {k} : AccessAt(g, {"create"}, "insert")]
    /\ DoneAccess(k)
    /\ UNCHANGED <<override, roleGrant, gates, upsets>>

-----------------------------------------------------------------------------
(* approveRequest, denyRequest and cancelRequest.                           *)

DecisionOf == [approve |-> "approved", deny |-> "denied", cancel |-> "cancelled"]

Deciding(r) == {k \in Handlers : doing[k].op \in DOMAIN DecisionOf /\ doing[k].req = r}

\* Mutant: a request is decided whatever its status.
ReadAny(k, op, r) ==
    /\ request[r].status # "none"
    /\ StartAccess(k, [IdleAccess EXCEPT !.op = op, !.req = r,
                    !.pc = IF op = "approve" THEN "tools" ELSE "finish"])
    /\ history' = [history EXCEPT ![r].overlapped = @ \/ Deciding(r) # {}]
    /\ ReadOnly

ReadPending(k, op, r) ==
    /\ request[r].status = "pending"
    /\ StartAccess(k, [IdleAccess EXCEPT !.op = op, !.req = r,
                    !.pc = IF op = "approve" THEN "tools" ELSE "finish"])
    /\ history' = [history EXCEPT ![r].overlapped = @ \/ Deciding(r) # {}]
    /\ ReadOnly

\* Handler k leaves request r.  Once the last that found it pending has left a
\* decided request, its history is over.
SettleRequest(k, broke) ==
    LET r == doing[k].req
        over == Deciding(r) = {k} /\ request'[r].status \in Decisions
    IN  history' = [history EXCEPT ![r] =
            IF over THEN NoHistory
            ELSE [history[r] EXCEPT !.broken = @ \/ broke]]

\* UPDATE ... WHERE id, whatever the status has become.
Finish(k) ==
    /\ AccessAt(k, {"approve", "deny", "cancel"}, "finish")
    /\ LET r == doing[k].req
       IN  request' = [request EXCEPT ![r] =
                [status |-> DecisionOf[doing[k].op],
                 tools |-> IF doing[k].op = "approve" THEN doing[k].tools ELSE @.tools]]
    /\ DoneAccess(k)
    /\ SettleRequest(k, FALSE)
    /\ UNCHANGED <<override, roleGrant, gates, upsets>>

-----------------------------------------------------------------------------
(* attachAutoAllowedTools, and the grant it shares with approveRequest.     *)

StartAttach(k) ==
    /\ serverActive
    /\ ~serverGated
    /\ StartAccess(k, [IdleAccess EXCEPT !.op = "attach", !.pc = "tools"])
    /\ ReadOnly /\ UNCHANGED history

\* The approver names tools of the server, maybe none and whatever their
\* status, or gets every active one; attach takes those without approval.
ChooseTools(k, set) ==
    /\ \/ AccessAt(k, {"approve"}, "tools")
       \/ AccessAt(k, {"attach"}, "tools") /\ set = active \ gated
    /\ doing' = [doing EXCEPT ![k].pc = IF set = {} THEN "finish" ELSE "select",
                              ![k].tools = set, ![k].todo = set]
    /\ ReadOnly /\ UNCHANGED history

SelectOverride(k, t) ==
    /\ AccessAt(k, {"approve", "attach"}, "select")
    /\ t \in doing[k].todo
    /\ doing' = [doing EXCEPT ![k].pc = "write", ![k].at = {t}, ![k].row = Found(t)]
    /\ ReadOnly /\ UNCHANGED history

\* The next tool, or the end of grantAllowOverrides.
NextTool(k, t) ==
    doing' = [doing EXCEPT ![k].pc = IF doing[k].todo = {t} THEN "finish" ELSE "select",
                           ![k].todo = @ \ {t}, ![k].at = {}, ![k].row = "none"]

Note(k, field, set) ==
    history' = IF doing[k].req = NoRequest THEN history
               ELSE IF field = "granted"
                    THEN [history EXCEPT ![doing[k].req].granted = @ \cup set]
                    ELSE [history EXCEPT ![doing[k].req].missed = @ \cup set]

\* UPDATE by the id that was selected, or INSERT.
AllowOverride(k, t) ==
    /\ AccessAt(k, {"approve", "attach"}, "write")
    /\ doing[k].at = {t}
    /\ \/ /\ doing[k].row = "current" \/ (doing[k].row = "none" /\ override[t] = "none")
          /\ override' = [override EXCEPT ![t] = "allow"]
          /\ NextTool(k, t)
          /\ Note(k, "granted", {t})
       \/ /\ doing[k].row = "replaced"
          /\ NextTool(k, t)
          /\ Note(k, "missed", {t})
          /\ UNCHANGED override
    /\ UNCHANGED <<request, roleGrant, gates, upsets>>

\* The handler's request is abandoned where it stands.
BreakOff(k) ==
    /\ DoneAccess(k)
    /\ UNCHANGED request
    /\ IF doing[k].req = NoRequest THEN UNCHANGED history
       ELSE SettleRequest(k, doing[k].op = "approve")

\* The unique index refuses a second row for the tool: the tools granted so
\* far stay granted.
InsertRefused(k, t) ==
    /\ AccessAt(k, {"approve", "attach"}, "write") \/ AccessAt(k, {"toggle"}, "set")
    /\ doing[k].at = {t}
    /\ doing[k].row = "none"
    /\ override[t] # "none"
    /\ doing[k].op = "toggle" => doing[k].role /\ ~doing[k].on
    /\ BreakOff(k)
    /\ UNCHANGED <<override, roleGrant, gates, upsets>>

FinishAttach(k) ==
    /\ AccessAt(k, {"attach"}, "finish")
    /\ DoneAccess(k)
    /\ ReadOnly /\ UNCHANGED history

-----------------------------------------------------------------------------
(* setMemberToolEnabled.                                                    *)

StartToggle(k, t, on) ==
    /\ StartAccess(k, [IdleAccess EXCEPT !.op = "toggle", !.pc = "existing", !.at = {t},
                             !.role = t \in roleGrant, !.on = on])
    /\ ReadOnly /\ UNCHANGED history

\* A tool neither granted by a role nor overridden is not the member's to turn.
SelectExisting(k, t) ==
    /\ AccessAt(k, {"toggle"}, "existing")
    /\ doing[k].at = {t}
    /\ IF doing[k].role \/ override[t] # "none"
       THEN doing' = [doing EXCEPT ![k].pc = "set", ![k].row = Found(t),
                                   ![k].was = override[t]]
       ELSE DoneAccess(k)
    /\ ReadOnly /\ UNCHANGED history

\* The type the selected row is given, "none" when it is deleted; a tool that
\* a role grants is turned on by deleting the deny, and not otherwise touched.
Toggled(k) ==
    CASE doing[k].role /\ doing[k].on -> IF doing[k].was = "deny" THEN "none" ELSE "kept"
      [] ~doing[k].role /\ doing[k].on -> "allow"
      [] OTHER -> "deny"

SetOverride(k, t) ==
    /\ AccessAt(k, {"toggle"}, "set")
    /\ doing[k].at = {t}
    /\ LET type == Toggled(k)
           lands == type # "kept" /\ doing[k].row # "replaced"
       IN  /\ doing[k].row = "none" => type = "kept" \/ override[t] = "none"
           /\ override' = [override EXCEPT ![t] = IF lands THEN type ELSE @]
           /\ doing' = IF lands /\ type = "none"
                   THEN Forget([doing EXCEPT ![k] = IdleAccess], {t})
                   ELSE [doing EXCEPT ![k] = IdleAccess]
    /\ UNCHANGED <<request, roleGrant, gates, history, upsets>>

-----------------------------------------------------------------------------
(* Administrators edit overrides, roles, tools and the server directly.     *)

AttachOverride(t, type) ==
    /\ Upset
    /\ override[t] = "none"
    /\ override' = [override EXCEPT ![t] = type]
    /\ UNCHANGED <<request, roleGrant, gates, doing, history>>

DetachOverride(t) ==
    /\ Upset
    /\ override[t] # "none"
    /\ override' = [override EXCEPT ![t] = "none"]
    /\ doing' = Forget(doing, {t})
    /\ UNCHANGED <<request, roleGrant, gates, history>>

\* One transaction deletes every row and inserts the new ones.
SetOverrides(types) ==
    /\ Upset
    /\ override' = types
    /\ doing' = Forget(doing, Tools)
    /\ UNCHANGED <<request, roleGrant, gates, history>>

SetRoleTools(set) ==
    /\ Upset
    /\ roleGrant' = set
    /\ UNCHANGED <<request, override, gates, doing, history>>

EditTool(t) ==
    /\ Upset
    /\ \/ active' = active \ {t} /\ UNCHANGED gated
       \/ gated' = gated \cup {t} /\ UNCHANGED active
    /\ UNCHANGED <<request, override, roleGrant, serverActive, serverGated, doing,
                   history>>

EditServer(on, gate) ==
    /\ Upset
    /\ serverActive' = on
    /\ serverGated' = gate
    /\ UNCHANGED <<request, override, roleGrant, active, gated, doing, history>>

\* A statement fails, or the API process dies.
FailAccess(k) ==
    /\ doing[k] # IdleAccess
    /\ Upset
    /\ BreakOff(k)
    /\ UNCHANGED <<override, roleGrant, gates>>

-----------------------------------------------------------------------------
Handle(k) ==
    \/ StartCreate(k) \/ CheckPending(k)
    \/ \E r \in Requests : InsertRequest(k, r)
    \/ \E r \in Requests, op \in DOMAIN DecisionOf : ReadPending(k, op, r)
    \/ StartAttach(k)
    \/ \E set \in SUBSET Tools : ChooseTools(k, set)
    \/ \E t \in Tools : SelectOverride(k, t) \/ AllowOverride(k, t)
                            \/ InsertRefused(k, t)
    \/ Finish(k) \/ FinishAttach(k)
    \/ \E t \in Tools, on \in BOOLEAN : StartToggle(k, t, on)
    \/ \E t \in Tools : SelectExisting(k, t) \/ SetOverride(k, t)
    \/ FailAccess(k)

Administer ==
    \/ \E t \in Tools, type \in {"allow", "deny"} : AttachOverride(t, type)
    \/ \E t \in Tools : DetachOverride(t) \/ EditTool(t)
    \/ \E types \in [Tools -> Types] : SetOverrides(types)
    \/ \E set \in SUBSET Tools : SetRoleTools(set)
    \/ \E on, gate \in BOOLEAN : EditServer(on, gate)

AccessNext == (\E k \in Handlers : Handle(k)) \/ Administer

AccessSpec == AccessInit /\ [][AccessNext]_accessVars

-----------------------------------------------------------------------------
\* A decision is final, unless another handler that found the request pending
\* is still to decide it: nothing but the first read keeps them apart.
FinalUnlessOverlapped ==
    [][\A r \in Requests :
          request[r].status \in Decisions /\ ~history[r].overlapped
          => request'[r] = request[r]]_accessVars

Decided(r) == request'[r] # request[r] /\ request'[r].status \in Decisions

\* A request that is denied or cancelled has granted nothing, unless its
\* deciders overlapped or an approval of it broke off half-way.
DeniedGrantsNothing ==
    [][\A r \in Requests :
          Decided(r) /\ request'[r].status # "approved"
              /\ ~history[r].overlapped /\ ~history[r].broken
          => history[r].granted = {}]_accessVars

\* "Tools granted on approve": each of them was allowed before the request
\* becomes approved, or an administrator replaced its override in between.
ApprovedWereGranted ==
    [][\A r \in Requests :
          Decided(r) /\ request'[r].status = "approved"
          => request'[r].tools \subseteq history[r].granted \cup history[r].missed
    ]_accessVars

\* Two requests are pending at once only if their creations raced.
OnePendingUnlessRaced ==
    \A r, s \in Pending : r # s => history[r].raced \/ history[s].raced

Enabled(t) == override[t] # "deny" /\ (override[t] = "allow" \/ t \in roleGrant)

\* A toggle that succeeds leaves the tool as the member asked, unless its
\* override or its role changed between the reads and the write.
ToggleHonoured ==
    [][\A k \in Handlers, t \in Tools :
          SetOverride(k, t) /\ doing[k].row # "replaced" /\ doing[k].was = override[t]
              /\ doing[k].role = (t \in roleGrant)
          => Enabled(t)' = doing[k].on]_accessVars

-----------------------------------------------------------------------------
\* Of access requests: one is pending at a time, a decision is final, what is
\* approved was granted and what is denied was not, and a member's toggle is
\* honoured -- each unless handlers overlapped where nothing keeps them apart.
AccessRules ==
    /\ [](/\ AccessTypeOK
         /\ OnePendingUnlessRaced)
    /\ FinalUnlessOverlapped
    /\ DeniedGrantsNothing
    /\ ApprovedWereGranted
    /\ ToggleHonoured
=============================================================================
