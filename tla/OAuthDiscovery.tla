--------------------------- MODULE OAuthDiscovery ---------------------------
(***************************************************************************)
(* Discovery of an MCP server's OAuth endpoints (packages/shared           *)
(* upstream/oauth.ts, discoverMcpOAuthMetadata): the server is probed for  *)
(* a challenge, its protected resource metadata (PRM) is looked for in     *)
(* three places, then the metadata of the authorization servers it names.  *)
(* A request that gets no answer counts as one that found nothing.         *)
(*                                                                         *)
(* The server is at a path of its origin.  Places and issuers are names,   *)
(* scopes and the endpoints themselves are left out.                       *)
(***************************************************************************)
EXTENDS Integers, Sequences, Functions

CONSTANT
    MaxLost         \* bound: requests that get no answer although one is there

ASSUME DiscoveryAssumption == MaxLost \in Nat

VARIABLES
    hosts,          \* what the hosts serve
    search,         \* the call of discoverMcpOAuthMetadata
    lost            \* requests that got no answer

searchVars == <<hosts, search, lost>>

\* What is served at a PRM place: nothing, JSON without authorization_servers,
\* or PRM that names some.
Served == {[json |-> FALSE, issuers |-> <<>>], [json |-> TRUE, issuers |-> <<>>],
           [json |-> TRUE, issuers |-> <<"first">>],
           [json |-> TRUE, issuers |-> <<"second", "first">>]}

Nothing == [json |-> FALSE, issuers |-> <<>>]

\* hint: the probes that are answered with a resource_metadata; metadata: where
\* authorization server metadata is served, "legacy" being beneath the server's
\* path, on behalf of its origin.
DiscoveryInit ==
    /\ hosts \in [hint : SUBSET {"GET", "POST"},
                  prm : [{"hint", "path", "root"} -> Served],
                  metadata : SUBSET {"first", "second", "origin", "legacy"}]
    /\ hosts.hint = {} => hosts.prm["hint"] = Nothing
    /\ search = [pc |-> "GET", todo |-> <<>>, prm |-> "none", issuer |-> "none"]
    /\ lost = 0

Answered(answered) ==
    IF answered THEN UNCHANGED lost ELSE lost < MaxLost /\ lost' = lost + 1

-----------------------------------------------------------------------------
\* prmCandidates
PrmPlaces(hinted) == (IF hinted THEN <<"hint">> ELSE <<>>) \o <<"path", "root">>

\* The challenge of a GET, and without a hint there that of an initialize.
Probe(method, answered) ==
    /\ search.pc = method
    /\ Answered(answered)
    /\ LET hinted == answered /\ method \in hosts.hint IN
          search' = IF hinted \/ method = "POST"
                    THEN [search EXCEPT !.pc = "prm", !.todo = PrmPlaces(hinted)]
                    ELSE [search EXCEPT !.pc = "POST"]
    /\ UNCHANGED hosts

\* The metadata places of the issuers themselves.
IssuerPlaces(issuers) == [i \in DOMAIN issuers |-> [issuer |-> issuers[i], place |-> issuers[i]]]

\* Mutant: the legacy place is tried whatever the PRM says.
LegacyPlaces(prm, issuers) ==
    <<[issuer |-> "origin", place |-> "legacy"]>> \o IssuerPlaces(issuers)

\* authorizationServerMetadataUrls; without PRM, hence with the origin as the only
\* issuer, the legacy place comes first.
MetadataPlaces(prm, issuers) ==
    (IF prm = "none" THEN <<[issuer |-> "origin", place |-> "legacy"]>> ELSE <<>>)
        \o IssuerPlaces(issuers)

\* The origin is the issuer where none is named.
IssuersOf(prm) ==
    IF prm = "none" \/ hosts.prm[prm].issuers = <<>> THEN <<"origin">>
    ELSE hosts.prm[prm].issuers

ToMetadata(prm) ==
    [search EXCEPT !.pc = "metadata", !.prm = prm,
                   !.todo = MetadataPlaces(prm, IssuersOf(prm))]

\* ProtectedResourceMetadataSchema requires no field: any JSON object is PRM.
ReadPrm(answered) ==
    /\ search.pc = "prm" /\ search.todo # <<>>
    /\ Answered(answered)
    /\ LET place == Head(search.todo) IN
          search' = IF answered /\ hosts.prm[place].json THEN ToMetadata(place)
                    ELSE [search EXCEPT !.todo = Tail(@)]
    /\ UNCHANGED hosts

NoPrm ==
    /\ search.pc = "prm" /\ search.todo = <<>>
    /\ search' = ToMetadata("none")
    /\ UNCHANGED <<hosts, lost>>

ReadMetadata(answered) ==
    /\ search.pc = "metadata" /\ search.todo # <<>>
    /\ Answered(answered)
    /\ search' = IF answered /\ Head(search.todo).place \in hosts.metadata
                 THEN [search EXCEPT !.pc = "found", !.issuer = Head(search.todo).issuer]
                 ELSE [search EXCEPT !.todo = Tail(@)]
    /\ UNCHANGED hosts

FailSearch ==
    /\ search.pc = "metadata" /\ search.todo = <<>>
    /\ search' = [search EXCEPT !.pc = "failed"]
    /\ UNCHANGED <<hosts, lost>>

\* The call has returned: nothing more happens.
Searched == search.pc \in {"found", "failed"} /\ UNCHANGED searchVars

DiscoveryNext ==
    \/ \E answered \in BOOLEAN :
          \/ \E method \in {"GET", "POST"} : Probe(method, answered)
          \/ ReadPrm(answered) \/ ReadMetadata(answered)
    \/ NoPrm \/ FailSearch \/ Searched

DiscoverySpec == DiscoveryInit /\ [][DiscoveryNext]_searchVars

-----------------------------------------------------------------------------
\* The places a search that loses no request asks for PRM.
AskedPlaces == {"path", "root"} \cup (IF hosts.hint = {} THEN {} ELSE {"hint"})

\* Whether some place answers with JSON that names no authorization server, which
\* the search takes for PRM and looks no further.
Misled == \E p \in AskedPlaces : hosts.prm[p].json /\ hosts.prm[p].issuers = <<>>

\* Types; an issuer is known exactly when metadata was found.
DiscoveryTypeOK ==
    /\ search.pc \in {"GET", "POST", "prm", "metadata", "found", "failed"}
    /\ search.prm \in {"none", "hint", "path", "root"}
    /\ search.pc = "found" <=> search.issuer # "none"
    /\ lost \in 0..MaxLost

\* A failure means that there was nothing to be found: no request was lost, and
\* neither the authorization servers named where the search found PRM nor, when
\* no place had any, the server's origin serves metadata.
FailureMeansNothing ==
    search.pc = "failed" /\ lost = 0 /\ ~Misled =>
        /\ search.prm = "none" => {"origin", "legacy"} \cap hosts.metadata = {}
        /\ search.prm # "none" => Range(hosts.prm[search.prm].issuers) \cap hosts.metadata = {}

\* The issuer is one the server's own metadata names.  The origin stands in for
\* it when nothing names another, or the answer that did was lost.
IssuerWasNamed ==
    search.pc = "found" =>
        \/ search.prm # "none" /\ search.issuer \in Range(hosts.prm[search.prm].issuers)
        \/ search.issuer = "origin" /\ Misled
        \/ search.issuer = "origin" /\ lost > 0
        \/ search.issuer = "origin" /\ \A p \in AskedPlaces : ~hosts.prm[p].json

-----------------------------------------------------------------------------
\* Of the discovery of an authorization server: it fails only when there is
\* none to be found, and finds one the server names.
DiscoveryRules ==
    /\ DiscoveryTypeOK
    /\ FailureMeansNothing
    /\ IssuerWasNamed
=============================================================================
