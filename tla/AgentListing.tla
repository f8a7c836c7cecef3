---------------------------- MODULE AgentListing ----------------------------
(***************************************************************************)
(* An agent's life in the directory (agents/service.ts): it is created as  *)
(* a draft and bound to tools, published, paused and found by a search.    *)
(* Its status and its listing are columns of two tables.                   *)
(***************************************************************************)
EXTENDS ApiHandlers

CONSTANT
    MaxListingFaults    \* bound: failed statements and crashes

ASSUME ListingAssumption == MaxListingFaults \in Nat

VARIABLES
    agent,          \* the row of agents: its status, or "none"
    listing,        \* its row of agent_networks: listed, or "none"
    toolRows,       \* tools that exist and that agents can be bound to
    boundRows,      \* the agent's rows of agent_tool_bindings
    listingCall,    \* what each handler is doing
    listingRaced,   \* history: publications and pauses overlapped or broke off
    listingFaults

listingVars == <<agent, listing, toolRows, boundRows, listingCall, listingRaced,
                 listingFaults>>

ToolRows == {"kept", "deleted"}

NoListingCall == [op |-> "idle", pc |-> "idle", tools |-> {}]

ListingTypeOK ==
    /\ agent \in {"none", "draft", "published", "paused"}
    /\ listing \in {"none", "listed", "unlisted"}
    /\ toolRows \subseteq ToolRows
    /\ boundRows \subseteq toolRows
    /\ listingCall \in [Handlers -> [op : {"idle", "create", "bind", "publish", "pause"},
                                     pc : {"idle", "insert", "check", "bind", "status", "list"},
                                     tools : SUBSET ToolRows]]
    /\ listingRaced \in BOOLEAN
    /\ listingFaults \in 0..MaxListingFaults
    /\ agent = "none" => listing = "none" /\ boundRows = {}

ListingInit ==
    /\ agent = "none"
    /\ listing = "none"
    /\ toolRows = ToolRows
    /\ boundRows = {}
    /\ listingCall = [h \in Handlers |-> NoListingCall]
    /\ listingRaced = FALSE
    /\ listingFaults = 0

-----------------------------------------------------------------------------
ListingAt(h, pc) == listingCall[h].pc = pc

ListingDone(h) == listingCall' = [listingCall EXCEPT ![h] = NoListingCall]

ListingGoto(h, pc) == listingCall' = [listingCall EXCEPT ![h].pc = pc]

Lists == {"publish", "pause"}

Listers == {h \in Handlers : listingCall[h].op \in Lists}

\* Any other operation than a creation asserts who owns the agent.
StartListing(h, op, pc, tools) ==
    /\ listingCall[h] = NoListingCall
    /\ op # "create" => agent # "none"
    /\ listingCall' = [listingCall EXCEPT ![h] = [op |-> op, pc |-> pc, tools |-> tools]]
    /\ listingRaced' = (listingRaced \/ (op \in Lists /\ Listers # {}))
    /\ UNCHANGED <<agent, listing, toolRows, boundRows, listingFaults>>

\* The handle is unique in the tenant: a second creation is refused.
InsertAgent(h) ==
    /\ ListingAt(h, "insert")
    /\ IF agent = "none"
       THEN agent' = "draft" /\ ListingGoto(h, "check")
       ELSE UNCHANGED agent /\ ListingDone(h)
    /\ UNCHANGED <<listing, toolRows, boundRows, listingRaced, listingFaults>>

\* replaceAgentToolBindings.  A creation whose tools are refused leaves the
\* agent it made.
CheckTools(h) ==
    /\ ListingAt(h, "check")
    /\ IF listingCall[h].tools \subseteq toolRows
       THEN ListingGoto(h, "bind") ELSE ListingDone(h)
    /\ UNCHANGED <<agent, listing, toolRows, boundRows, listingRaced, listingFaults>>

\* A tool that was deleted since makes the transaction fail.
BindTools(h) ==
    /\ ListingAt(h, "bind")
    /\ boundRows' = IF listingCall[h].tools \subseteq toolRows
                    THEN listingCall[h].tools ELSE boundRows
    /\ ListingDone(h)
    /\ UNCHANGED <<agent, listing, toolRows, listingRaced, listingFaults>>

DeleteTool ==
    /\ toolRows' = toolRows \ {"deleted"}
    /\ boundRows' = boundRows \ {"deleted"}
    /\ UNCHANGED <<agent, listing, listingCall, listingRaced, listingFaults>>

SetStatus(h) ==
    /\ ListingAt(h, "status")
    /\ agent' = IF listingCall[h].op = "publish" THEN "published" ELSE "paused"
    /\ ListingGoto(h, "list")
    /\ UNCHANGED <<listing, toolRows, boundRows, listingRaced, listingFaults>>

\* Mutant: a publication inserts the listing and leaves one that is there.
InsertListing(h) ==
    /\ ListingAt(h, "list")
    /\ listing' = IF listingCall[h].op = "publish"
                  THEN (IF listing = "none" THEN "listed" ELSE listing)
                  ELSE (IF listing = "none" THEN listing ELSE "unlisted")
    /\ ListingDone(h)
    /\ UNCHANGED <<agent, toolRows, boundRows, listingRaced, listingFaults>>

\* A publication upserts the listing, a pause updates it if it is there.
SetListed(h) ==
    /\ ListingAt(h, "list")
    /\ listing' = IF listingCall[h].op = "publish" THEN "listed"
                  ELSE IF listing = "none" THEN listing ELSE "unlisted"
    /\ ListingDone(h)
    /\ UNCHANGED <<agent, toolRows, boundRows, listingRaced, listingFaults>>

FailListingCall(h) ==
    /\ listingCall[h] # NoListingCall
    /\ listingFaults < MaxListingFaults
    /\ listingFaults' = listingFaults + 1
    /\ listingRaced' = (listingRaced \/ listingCall[h].op \in Lists)
    /\ ListingDone(h)
    /\ UNCHANGED <<agent, listing, toolRows, boundRows>>

ListingNext ==
    \/ \E h \in Handlers :
          \/ \E tools \in SUBSET ToolRows :
                \/ StartListing(h, "create", "insert", tools)
                \/ StartListing(h, "bind", "check", tools)
          \/ \E op \in Lists : StartListing(h, op, "status", {})
          \/ InsertAgent(h) \/ CheckTools(h) \/ BindTools(h)
          \/ SetStatus(h) \/ SetListed(h) \/ FailListingCall(h)
    \/ DeleteTool

ListingSpec == ListingInit /\ [][ListingNext]_listingVars

-----------------------------------------------------------------------------
\* searchDirectory finds the agent.
Found == listing = "listed" /\ agent = "published"

\* An agent that says it is published is found, and the listing of one that
\* does not is down, unless a publication and a pause overlapped or broke off.
FoundWhilePublished ==
    ~listingRaced /\ Listers = {}
    => (agent = "published" <=> Found) /\ (listing = "listed" <=> Found)

-----------------------------------------------------------------------------
\* Of the directory: what is published is found, and nothing else.
ListingRules ==
    /\ ListingTypeOK
    /\ FoundWhilePublished
=============================================================================
