------------------------------ MODULE MCCatalog ------------------------------
(***************************************************************************)
(* The catalog of servers and tools and the requests for them, checked     *)
(* side by side: each part has variables of its own, hence one of them     *)
(* runs at a time.                                                         *)
(*                                                                         *)
(* Bounds of its own: one access request while an administrator edits or a *)
(* statement fails; two changes, reviews and failures in all around the    *)
(* syncs.                                                                  *)
(***************************************************************************)
EXTENDS AccessRequests, KeysetList, HttpTool, ToolSync, TLC

VARIABLE
    part            \* the component that runs

Symmetric == Permutations(Handlers) \cup Permutations(Requests)

\* Two operations whose names collide, and with a third once one is numbered;
\* and one operation alone, as an MCP server may have it too.
MCDocuments ==
    {<<[id |-> <<"a">>, op |-> "x"], [id |-> <<"a">>, op |-> "y"],
       [id |-> <<"a", 2>>, op |-> "z"]>>,
     <<[id |-> <<"a">>, op |-> "y"]>>,
     <<[id |-> <<"b">>, op |-> "x"]>>}

AnOperation == CHOOSE o \in Operations : TRUE
ADocument   == CHOOSE d \in OfferedBy("mcp") : TRUE

CatalogInit ==
    /\ part \in {"access", "list", "http", "sync"}
    /\ part # "access" => roleGrant = {} /\ gated = {} /\ serverGated = FALSE
    /\ part # "http" => operation = AnOperation
    /\ part # "sync" =>
          /\ server = [present |-> TRUE, kind |-> "mcp", health |-> "unknown"]
          /\ credentials = {}
          /\ upstream = ADocument
    /\ AccessInit
    /\ serverGated => gated = {} /\ roleGrant = {}
    /\ KeysetInit
    /\ HttpInit
    /\ SyncInit

OneRequestAmongUpsets ==
    upsets' > 0 => Cardinality({r \in Requests : request'[r].status # "none"}) <= 1

TwoUpheavals == spent'.changes + spent'.reviews + spent'.faults <= 2

CatalogNext ==
    /\ UNCHANGED part
    /\ \/ /\ part = "access"
          /\ AccessNext /\ OneRequestAmongUpsets
          /\ UNCHANGED <<keysetVars, httpVars, syncVars>>
       \/ /\ part = "list"
          /\ KeysetNext
          /\ UNCHANGED <<accessVars, httpVars, syncVars>>
       \/ /\ part = "http"
          /\ HttpNext
          /\ UNCHANGED <<accessVars, keysetVars, syncVars>>
       \/ /\ part = "sync"
          /\ SyncNext /\ TwoUpheavals
          /\ UNCHANGED <<accessVars, keysetVars, httpVars>>

CatalogSpec ==
    CatalogInit /\ [][CatalogNext]_<<part, accessVars, keysetVars, httpVars, syncVars>>
=============================================================================
