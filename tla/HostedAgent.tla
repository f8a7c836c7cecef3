----------------------------- MODULE HostedAgent -----------------------------
(***************************************************************************)
(* Messages of peers that hosted agents run (agents/hostedRuntime.ts), on  *)
(* the chat connection of the agents' owner, which is made when it is      *)
(* first needed (chat/ensure.ts).  All agents of the owner share the       *)
(* connection: before each message its tool overrides are replaced by the  *)
(* tools of the agent that has the message.                                *)
(***************************************************************************)
EXTENDS ApiHandlers

CONSTANTS
    Agents,         \* agents of one owner
    AgentTools,     \* tools of the tenant
    MaxRemovals,    \* bound: deletions of the connection or its token
    MaxHostedFaults \* bound: failed statements and crashes

ASSUME HostedAssumption ==
    /\ IsFiniteSet(Agents) /\ "none" \notin Agents
    /\ IsFiniteSet(AgentTools) /\ "none" \notin AgentTools
    /\ {MaxRemovals, MaxHostedFaults} \subseteq Nat

VARIABLES
    bindings,       \* agent_tool_bindings: tools of each agent
    chat,           \* chat client, connection and gateway token, with 0 for none
    overrides,      \* tools that the connection's overrides allow
    working,        \* handlers whose message's task is in state "working"
    hostedCall,     \* what each handler is doing
    synced,         \* history: whose tools the overrides are, if nothing interfered
    removals,
    hostedFaults

hostedTables == <<bindings, chat, overrides, working>>
hostedHistory == <<synced, removals, hostedFaults>>
hostedVars == <<hostedTables, hostedHistory, hostedCall>>

\* Connections and tokens are numbered in the order they are made.
Numbers == 1..MaxRemovals + 1

ChatRow == [client : {"none", "named", "keyed"}, conn : Numbers \cup {0},
            token : Numbers \cup {0}, conns : Numbers \cup {0},
            tokens : Numbers \cup {0}]

NoHostedCall == [op |-> "idle", pc |-> "idle", agent |-> "none", tool |-> "none",
                 tools |-> {}, conn |-> 0, token |-> 0, bound |-> FALSE,
                 alone |-> TRUE]

HostedOps == {"idle", "session", "message", "setTools"}
HostedPCs == {"idle", "list", "replace", "client", "adopt", "newClient", "conn",
              "newConn", "token", "mint", "sync", "task", "call", "complete"}

\* bound: the tools are in the overrides.  alone: nothing overlapped.
HostedTypeOK ==
    /\ bindings \in [Agents -> SUBSET AgentTools]
    /\ chat \in ChatRow
    /\ overrides \subseteq AgentTools
    /\ working \subseteq Handlers
    /\ hostedCall \in [Handlers ->
          [op : HostedOps, pc : HostedPCs, agent : Agents \cup {"none"},
           tool : AgentTools \cup {"none"}, tools : SUBSET AgentTools,
           conn : Numbers \cup {0}, token : Numbers \cup {0},
           bound : BOOLEAN, alone : BOOLEAN]]
    /\ synced \in [agent : Agents \cup {"none"}, clean : BOOLEAN]
    /\ removals \in 0..MaxRemovals
    /\ hostedFaults \in 0..MaxHostedFaults
    /\ chat.conn = 0 => overrides = {} /\ chat.token = 0
    /\ chat.client # "keyed" => chat.conn = 0

\* No chat client yet, or one that an administrator happened to name so.
HostedInit ==
    /\ bindings \in [Agents -> SUBSET AgentTools]
    /\ \E c \in {"none", "named"} :
          chat = [client |-> c, conn |-> 0, token |-> 0, conns |-> 0, tokens |-> 0]
    /\ overrides = {}
    /\ working = {}
    /\ hostedCall = [h \in Handlers |-> NoHostedCall]
    /\ synced = [agent |-> "none", clean |-> FALSE]
    /\ removals = 0
    /\ hostedFaults = 0

-----------------------------------------------------------------------------
HostedAt(h, pc) == hostedCall[h].pc = pc

HostedGoto(h, pc) == hostedCall' = [hostedCall EXCEPT ![h].pc = pc]

HostedDone(h) == hostedCall' = [hostedCall EXCEPT ![h] = NoHostedCall]

\* A handler starts, and it and those that are under way are not alone.
HostedStart(h, frame) ==
    /\ hostedCall[h] = NoHostedCall
    /\ LET others == {k \in Handlers : hostedCall[k] # NoHostedCall}
       IN  hostedCall' =
             [k \in Handlers |->
                 CASE k = h        -> [frame EXCEPT !.alone = others = {}]
                   [] k \in others -> [hostedCall[k] EXCEPT !.alone = FALSE]
                   [] OTHER        -> NoHostedCall]
    /\ UNCHANGED <<hostedTables, hostedHistory>>

\* getSession and resolveRun of a chat.
StartSession(h) ==
    HostedStart(h, [NoHostedCall EXCEPT !.op = "session", !.pc = "client"])

\* runHostedPeerMessage, for a message that asks for tool t.
StartMessage(h, a, t) ==
    HostedStart(h, [NoHostedCall EXCEPT !.op = "message", !.pc = "list",
                       !.agent = a, !.tool = t])

StartSetTools(h, a, tools) ==
    HostedStart(h, [NoHostedCall EXCEPT !.op = "setTools", !.pc = "replace",
                       !.agent = a, !.tools = tools])

\* listBoundAgentTools.
ListBoundTools(h) ==
    /\ HostedAt(h, "list")
    /\ hostedCall' = [hostedCall EXCEPT ![h] =
                         [@ EXCEPT !.pc = "client",
                                   !.tools = bindings[hostedCall[h].agent]]]
    /\ UNCHANGED <<hostedTables, hostedHistory>>

\* replaceAgentToolBindings: one transaction.
ReplaceBindings(h) ==
    /\ HostedAt(h, "replace")
    /\ bindings' = [bindings EXCEPT ![hostedCall[h].agent] = hostedCall[h].tools]
    /\ synced' = [synced EXCEPT !.clean = FALSE]
    /\ HostedGoto(h, "client")
    /\ UNCHANGED <<chat, overrides, working, removals, hostedFaults>>

-----------------------------------------------------------------------------
(* ensureJacklineChatConnection.                                            *)

FindChatClient(h) ==
    /\ HostedAt(h, "client")
    /\ HostedGoto(h, CASE chat.client = "keyed" -> "conn"
                       [] chat.client = "named" -> "adopt"
                       [] chat.client = "none"  -> "newClient")
    /\ UNCHANGED <<hostedTables, hostedHistory>>

\* The client is adopted by its name, or inserted; where the insert finds that
\* another handler was faster, the client is looked up again.
MakeChatClient(h) ==
    /\ HostedAt(h, "adopt") \/ HostedAt(h, "newClient")
    /\ chat' = [chat EXCEPT !.client = "keyed"]
    /\ HostedGoto(h, "conn")
    /\ UNCHANGED <<bindings, overrides, working, hostedHistory>>

FindConnection(h) ==
    /\ HostedAt(h, "conn")
    /\ hostedCall' = [hostedCall EXCEPT ![h] =
                         [@ EXCEPT !.conn = chat.conn,
                                   !.pc = IF chat.conn = 0 THEN "newConn" ELSE "token"]]
    /\ UNCHANGED <<hostedTables, hostedHistory>>

\* The unique index refuses a second connection, and the first is taken.
InsertConnection(h) ==
    /\ HostedAt(h, "newConn")
    /\ chat' = IF chat.conn # 0 THEN chat
               ELSE [chat EXCEPT !.conn = @ + chat.conns + 1, !.conns = @ + 1]
    /\ hostedCall' = [hostedCall EXCEPT ![h] =
                         [@ EXCEPT !.conn = chat'.conn, !.pc = "token"]]
    /\ UNCHANGED <<bindings, overrides, working, hostedHistory>>

\* Mutant: only a change of an agent's tools sets the overrides.
SyncTools(frame) ==
    CASE frame.op = "session" -> "idle"
      [] frame.op = "message" -> "task"
      [] OTHER -> "sync"

\* What a handler does with the binding.
AfterEnsure(frame) ==
    CASE frame.op = "session" -> "idle"
      [] frame.op = "message" /\ frame.bound -> "task"
      [] OTHER -> "sync"

Bind(h, token) ==
    LET next == AfterEnsure(hostedCall[h])
    IN  IF next = "idle" THEN HostedDone(h)
        ELSE hostedCall' = [hostedCall EXCEPT ![h] =
                              [@ EXCEPT !.token = token, !.pc = next]]

TokenOf(conn) == IF chat.conn = conn THEN chat.token ELSE 0

LoadGatewayToken(h) ==
    /\ HostedAt(h, "token")
    /\ LET token == TokenOf(hostedCall[h].conn)
       IN  IF token = 0 THEN HostedGoto(h, "mint") ELSE Bind(h, token)
    /\ UNCHANGED <<hostedTables, hostedHistory>>

\* mintCredential fails where the connection is gone, or has a token.
CanMint(h) == chat.conn = hostedCall[h].conn /\ chat.token = 0

MintToken(h) ==
    /\ HostedAt(h, "mint")
    /\ IF CanMint(h)
       THEN /\ chat' = [chat EXCEPT !.token = chat.tokens + 1, !.tokens = @ + 1]
            /\ Bind(h, chat'.token)
       ELSE UNCHANGED chat /\ HostedDone(h)
    /\ UNCHANGED <<bindings, overrides, working, hostedHistory>>

-----------------------------------------------------------------------------
(* syncAgentToolsToOwnerChatConnection, and the message's tool call.        *)

\* What follows: a message ensures the connection once more.
AfterSync(h) ==
    IF hostedCall[h].op = "message"
    THEN hostedCall' = [hostedCall EXCEPT ![h] =
                          [@ EXCEPT !.bound = TRUE, !.pc = "client"]]
    ELSE HostedDone(h)

\* One transaction.  A foreign key refuses the overrides of a connection that
\* is gone.
SyncOverrides(h) ==
    /\ HostedAt(h, "sync")
    /\ IF chat.conn = hostedCall[h].conn
       THEN /\ overrides' = hostedCall[h].tools
            /\ synced' = [agent |-> hostedCall[h].agent,
                          clean |-> hostedCall[h].alone]
            /\ AfterSync(h)
       ELSE /\ UNCHANGED <<overrides, synced>>
            /\ IF hostedCall[h].tools = {} THEN AfterSync(h) ELSE HostedDone(h)
    /\ UNCHANGED <<bindings, chat, working, removals, hostedFaults>>

InsertWorkingTask(h) ==
    /\ HostedAt(h, "task")
    /\ working' = working \cup {h}
    /\ HostedGoto(h, "call")
    /\ UNCHANGED <<bindings, chat, overrides, hostedHistory>>

\* A tool that was bound is called, with the token that was read, and the
\* gateway goes by the overrides it finds.
Permitted(h) ==
    /\ hostedCall[h].tool \in hostedCall[h].tools
    /\ chat.token = hostedCall[h].token
    /\ hostedCall[h].tool \in overrides

CallTool(h) ==
    /\ HostedAt(h, "call")
    /\ HostedGoto(h, "complete")
    /\ UNCHANGED <<hostedTables, hostedHistory>>

\* The task becomes completed, or failed.
CompleteTask(h) ==
    /\ HostedAt(h, "complete")
    /\ working' = working \ {h}
    /\ HostedDone(h)
    /\ UNCHANGED <<bindings, chat, overrides, hostedHistory>>

-----------------------------------------------------------------------------
\* The owner or an administrator revokes the token or deletes the connection.
Remove(rows) ==
    /\ removals < MaxRemovals
    /\ removals' = removals + 1
    /\ chat' = IF rows = "token" THEN [chat EXCEPT !.token = 0]
               ELSE [chat EXCEPT !.token = 0, !.conn = 0]
    /\ overrides' = IF rows = "token" THEN overrides ELSE {}
    /\ synced' = [synced EXCEPT !.clean = @ /\ rows = "token"]
    /\ hostedCall' = [h \in Handlers |->
                         IF hostedCall[h] = NoHostedCall THEN NoHostedCall
                         ELSE [hostedCall[h] EXCEPT !.alone = FALSE]]
    /\ UNCHANGED <<bindings, working, hostedFaults>>

RemoveToken == chat.token # 0 /\ Remove("token")
RemoveConnection == chat.conn # 0 /\ Remove("connection")

\* A statement outside the try block fails, or the process dies.
FailHostedCall(h) ==
    /\ hostedCall[h] # NoHostedCall
    /\ hostedFaults < MaxHostedFaults
    /\ hostedFaults' = hostedFaults + 1
    /\ synced' = [synced EXCEPT !.clean = FALSE]
    /\ HostedDone(h)
    /\ UNCHANGED <<hostedTables, removals>>

HandleHosted(h) ==
    \/ StartSession(h)
    \/ \E a \in Agents, t \in AgentTools : StartMessage(h, a, t)
    \/ \E a \in Agents, tools \in SUBSET AgentTools : StartSetTools(h, a, tools)
    \/ ListBoundTools(h) \/ ReplaceBindings(h)
    \/ FindChatClient(h) \/ MakeChatClient(h) \/ FindConnection(h)
    \/ InsertConnection(h) \/ LoadGatewayToken(h) \/ MintToken(h)
    \/ SyncOverrides(h) \/ InsertWorkingTask(h) \/ CallTool(h) \/ CompleteTask(h)
    \/ FailHostedCall(h)

HostedNext ==
    (\E h \in Handlers : HandleHosted(h)) \/ RemoveToken \/ RemoveConnection

HostedSpec == HostedInit /\ [][HostedNext]_hostedVars

-----------------------------------------------------------------------------
\* A message's tool is called if and only if it is bound to the agent, unless
\* something overlaps: a message of another agent of the owner takes the tool
\* out of the overrides they share, a change of the tools comes too late.
BoundToolsCallable ==
    [][\A h \in Handlers :
          CallTool(h) /\ hostedCall[h].alone
          => (Permitted(h) <=> hostedCall[h].tool \in bindings[hostedCall[h].agent])
      ]_hostedVars

\* "Agent bindings are the source of truth; chat connection overrides carry
\* gateway policy": while nothing runs, the overrides are the tools of the
\* agent they were set for, unless that overlapped or something broke off.
OverridesFollowBindings ==
    (\A h \in Handlers : hostedCall[h] = NoHostedCall) /\ synced.clean
    => overrides = bindings[synced.agent]

\* A handler that meets no other always gets its connection and token, in
\* whatever state an earlier one left them.
AloneIsServed ==
    [][\A h \in Handlers : MintToken(h) /\ hostedCall[h].alone => CanMint(h)]_hostedVars

\* A task in state "working" belongs to a message that is being run, or was
\* when the process died: nothing looks for such tasks later.
WorkingIsRunning ==
    hostedFaults = 0 =>
        working = {h \in Handlers : hostedCall[h].pc \in {"call", "complete"}}

-----------------------------------------------------------------------------
\* Of messages to hosted agents: the tools bound to an agent, and no others,
\* can be called; the shared connection's overrides follow the bindings; a
\* message alone is served whatever an earlier one left; and a working task is
\* being run.
HostedRules ==
    /\ [](/\ HostedTypeOK
         /\ OverridesFollowBindings
         /\ WorkingIsRunning)
    /\ BoundToolsCallable
    /\ AloneIsServed
=============================================================================
