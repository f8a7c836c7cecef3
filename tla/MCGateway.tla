------------------------------ MODULE MCGateway ------------------------------
(***************************************************************************)
(* What stands between a client and the upstream, checked side by side:    *)
(* how the authorization server comes to know a client, the session that   *)
(* client then holds, and one request made with its bearer.  They share no *)
(* variable, hence one of them runs at a time.                             *)
(*                                                                         *)
(* Bounds of its own: once a client was deleted or the metadata document   *)
(* changed, the registration serves one request at a time; of codes and    *)
(* tokens there are four in all, and one code where something fails.       *)
(***************************************************************************)
EXTENDS GatewayRequest, McpSession, ClientRegistration, TLC

VARIABLE
    part            \* the component that runs

\* Roles, tenants and names share their values, and are permuted together.
Symmetric == Permutations(Handlers) \cup Permutations(Roles)

CalmAfterEdits == edits' + Cardinality(Busy') <= 2

FourInAll ==
    /\ Len(codes') + Len(tokens') <= 4
    /\ faults' > 0 => Len(codes') <= 1

GatewayInit ==
    /\ part \in {"request", "session", "registration"}
    /\ Init
    /\ SessionInit
    /\ RegInit
    \* One initial state of the registration is enough beside the others.
    /\ part # "registration" =>
          tenancy = Multi /\ published = NoDoc

GatewayNext ==
    /\ UNCHANGED part
    /\ \/ part = "request" /\ Next /\ UNCHANGED <<sessionVars, regVars>>
       \/ part = "session" /\ SessionNext /\ FourInAll /\ UNCHANGED <<vars, regVars>>
       \/ /\ part = "registration" /\ RegNext /\ CalmAfterEdits
          /\ UNCHANGED <<vars, sessionVars>>

GatewaySpec ==
    GatewayInit /\ [][GatewayNext]_<<part, vars, sessionVars, regVars>>
=============================================================================
