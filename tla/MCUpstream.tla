----------------------------- MODULE MCUpstream -----------------------------
(***************************************************************************)
(* Credentials of upstreams, here and on a member's own machine, checked   *)
(* side by side: connecting with OAuth, the stored secrets and who reads   *)
(* them, discovery of OAuth endpoints, the command-line gateway's files    *)
(* and its sessions.  Each part has variables of its own, hence one of     *)
(* them runs at a time.                                                    *)
(*                                                                         *)
(* Bounds of its own: the stored credentials are OAuth tokens at first; of *)
(* secret ids, tokens and upheavals of a member's files there are four,    *)
(* and one token beside an upheaval; after a second change of the file one *)
(* session is left.                                                        *)
(***************************************************************************)
EXTENDS OAuthConnect, Credentials, PersonalStore, SessionHub, OAuthDiscovery,
        TLC

VARIABLE
    part            \* the component that runs

Symmetric == Permutations(Handlers)

TokensAtFirst == \A s \in Slots : vault[s] # NoRow => s.kind = "oauth"

UpstreamInit ==
    /\ part \in {"connect", "cred", "store", "hub", "discovery"}
    /\ ConnectInit
    /\ part # "connect" => srv.own = NoClient /\ srv.link = 0 /\ srv.public
    /\ CredInit
    /\ part # "cred" => host.auth = "oauth" /\ host.mode = "shared"
    /\ part # "cred" => \A s \in Slots : vault[s] # NoRow => s.binding.owner \notin Callers \cup {Shared}
    /\ TokensAtFirst
    /\ StoreInit
    /\ part # "store" => ~config.present /\ keys.up
    /\ HubInit
    /\ DiscoveryInit
    /\ part # "discovery" => hosts.hint = {} /\ hosts.metadata = {}
    /\ part # "discovery" => \A p \in DOMAIN hosts.prm : ~hosts.prm[p].json

FourAtMost ==
    /\ spent'.ids + spent'.tokens + spent'.upheavals <= 4
    /\ spent'.upheavals > 0 => spent'.tokens <= 1

OneSessionLeft == events' > 1 => \E s \in Sessions : session'[s].pc \in {"none", "closed"}

UpstreamNext ==
    /\ UNCHANGED part
    /\ \/ /\ part = "connect"
          /\ ConnectNext
          /\ UNCHANGED <<credVars, storeVars, hubVars, searchVars>>
       \/ /\ part = "cred"
          /\ CredNext
          /\ UNCHANGED <<connectVars, storeVars, hubVars, searchVars>>
       \/ /\ part = "store"
          /\ StoreNext /\ FourAtMost
          /\ UNCHANGED <<connectVars, credVars, hubVars, searchVars>>
       \/ /\ part = "hub"
          /\ HubNext /\ OneSessionLeft
          /\ UNCHANGED <<connectVars, credVars, storeVars, searchVars>>
       \/ /\ part = "discovery"
          /\ DiscoveryNext
          /\ UNCHANGED <<connectVars, credVars, storeVars, hubVars>>

UpstreamSpec ==
    UpstreamInit /\ [][UpstreamNext]_<<part, connectVars, credVars, storeVars, hubVars, searchVars>>
=============================================================================
