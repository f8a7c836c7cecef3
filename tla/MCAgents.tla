------------------------------ MODULE MCAgents ------------------------------
(***************************************************************************)
(* Agents, the chat they run on and the pages they are administered with,  *)
(* checked side by side: each part has variables of its own, hence one of  *)
(* them runs at a time.                                                    *)
(*                                                                         *)
(* Bounds of its own: knocks, grants, exchanges and failures are five in   *)
(* all; nothing fails with a hosted agent whose connection or token was    *)
(* removed, and after either one request about it is served at a time; two *)
(* buttons of a list are pressed only while nobody else changes it and no  *)
(* request fails.                                                          *)
(***************************************************************************)
EXTENDS AgentTrust, HostedAgent, AgentListing, ChatSettings, TranscriptStream,
        ListPage, EditPage, ServerForm, TLC

VARIABLE
    part            \* the component that runs

agentVars == <<trustVars, hostedVars, listingVars, chatVars, streamVars>>
webVars == <<pageVars, editVars, formVars>>

Symmetric == Permutations(Handlers) \cup Permutations(Agents)

\* Of the parts that do not run, one initial state is enough, and it does not
\* matter which.
AgentsInit ==
    /\ part \in {"trust", "hosted", "listing", "chat", "stream", "list", "edit", "form"}
    /\ TrustInit
    /\ HostedInit
    /\ ListingInit
    /\ ChatInit
    /\ part # "hosted" => chat.client = "none" /\ bindings = [a \in Agents |-> {}]
    /\ StreamInit
    /\ part # "stream" => knock = "none"
    /\ PageInit
    /\ part # "list" => page = DashboardPage /\ selected = CHOOSE t \in Tenants : TRUE
    /\ EditInit
    /\ part # "edit" => form = EditRoleForm /\ route = CHOOSE s \in Subjects : TRUE
    /\ FormInit
    /\ part # "form" => mode = "create" /\ method = "oauth" /\ choice = "own"

FiveAboutTrust ==
    made'.knocks + made'.grants + made'.credentials + trustFaults' <= 5

CalmAfterRemoval ==
    /\ removals' = 0 \/ hostedFaults' = 0
    /\ removals' + hostedFaults' > 0 =>
          Cardinality({k \in Handlers : hostedCall'[k].op # "idle"}) <= 1

OnePressAmongUpsets == changes' + faults' > 0 => presses' <= 1

AgentsNext ==
    /\ UNCHANGED part
    /\ \/ /\ part = "trust"
          /\ TrustNext
          /\ FiveAboutTrust
          /\ UNCHANGED <<hostedVars, listingVars, chatVars, streamVars, webVars>>
       \/ /\ part = "hosted"
          /\ HostedNext
          /\ CalmAfterRemoval
          /\ UNCHANGED <<trustVars, listingVars, chatVars, streamVars, webVars>>
       \/ /\ part = "listing"
          /\ ListingNext
          /\ UNCHANGED <<trustVars, hostedVars, chatVars, streamVars, webVars>>
       \/ /\ part = "chat"
          /\ ChatNext
          /\ UNCHANGED <<trustVars, hostedVars, listingVars, streamVars, webVars>>
       \/ /\ part = "stream"
          /\ StreamNext
          /\ UNCHANGED <<trustVars, hostedVars, listingVars, chatVars, webVars>>
       \/ /\ part = "list"
          /\ PageNext /\ OnePressAmongUpsets
          /\ UNCHANGED <<agentVars, editVars, formVars>>
       \/ /\ part = "edit"
          /\ EditNext
          /\ UNCHANGED <<agentVars, pageVars, formVars>>
       \/ /\ part = "form"
          /\ FormNext
          /\ UNCHANGED <<agentVars, pageVars, editVars>>

AgentsSpec == AgentsInit /\ [][AgentsNext]_<<part, agentVars, webVars>>
=============================================================================
