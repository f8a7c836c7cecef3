------------------------------ MODULE ToolCall ------------------------------
(***************************************************************************)
(* One tool call through the gateway: proxyToolCall resolves a bearer      *)
(* (OAuthRefresh), opens the upstream, calls the tool, and on a rejection  *)
(* forces a refresh and tries again.  Every caller of OAuthRefresh is one  *)
(* gateway request here; its calls to resolveUpstreamAuthHeaders are the   *)
(* only way a resolution starts.                                           *)
(*                                                                         *)
(* An MCP call retries twice over: connectUpstream when the session cannot *)
(* be opened, callWithAuthRetry when tools/call is rejected.  An HTTP call *)
(* retries once.  The upstream rejects a bearer that expired or that it    *)
(* revoked; once it rejects one it always does.                            *)
(***************************************************************************)
EXTENDS OAuthRefresh

CONSTANT Routes     \* kinds of upstream server

ASSUME RoutesAssumption == Routes # {} /\ Routes \subseteq {"mcp", "http"}

VARIABLES
    stage,      \* how far each tool call is
    route,      \* the kind of server it goes to
    bearer,     \* the access token it last sent or is about to send
    answer,     \* what the tool call returned
    spent,      \* history: forced refreshes of this call, bearers rejected
    health,     \* the server's health column
    revoked     \* access tokens the upstream no longer accepts

toolVars == <<stage, route, bearer, answer, spent, health, revoked>>
allVars  == <<vars, toolVars>>

\* Stages that await resolveUpstreamAuthHeaders, and the request that follows.
Resolving  == {"resolve", "resolveAgain", "forcedResolve"}
Requests   == {"open", "openAgain", "forcedOpen", "call", "forcedCall",
               "request", "requestAgain"}
Stage      == {"idle", "answered"} \cup Resolving \cup Requests

Answers    == {"none", "ok", "failed", "reconnect", "refreshFailed"}

Unspent == [forced |-> 0, rejected |-> {}]

ToolInit ==
    /\ Init
    /\ stage = [c \in Callers |-> "idle"]
    /\ route = [c \in Callers |-> CHOOSE r \in Routes : TRUE]
    /\ bearer = [c \in Callers |-> 0]
    /\ answer = [c \in Callers |-> "none"]
    /\ spent = [c \in Callers |-> Unspent]
    /\ health = "healthy"
    /\ revoked = {}

Rejects(t) == t \in revoked \/ life[t] = "expired"

\* The secrets row is loaded for a resolution; a missing one ends it at once.
Load(c, forced) == LoadSecret(c, forced) \/ LoadMissing(c)

StartCall(c, r) ==
    /\ stage[c] \in {"idle", "answered"}
    /\ Load(c, FALSE)
    /\ stage' = [stage EXCEPT ![c] = "resolve"]
    /\ route' = [route EXCEPT ![c] = r]
    /\ bearer' = [bearer EXCEPT ![c] = 0]
    /\ answer' = [answer EXCEPT ![c] = "none"]
    /\ spent' = [spent EXCEPT ![c] = Unspent]
    /\ UNCHANGED <<health, revoked>>

\* The tool call returns; its outcome is recorded as the server's health.
Return(c, a) ==
    /\ stage' = [stage EXCEPT ![c] = "answered"]
    /\ answer' = [answer EXCEPT ![c] = a]
    /\ health' = IF a = "ok" THEN "healthy" ELSE "unhealthy"

RequestAfter(c) ==
    CASE stage[c] = "resolve" -> IF route[c] = "mcp" THEN "open" ELSE "request"
      [] stage[c] = "resolveAgain" -> IF route[c] = "mcp" THEN "openAgain"
                                      ELSE "requestAgain"
      [] stage[c] = "forcedResolve" -> "forcedOpen"

\* A refresh after a rejected connect or HTTP request that yields the very
\* bearer that was rejected is not tried again.
SameBearer(c) == stage[c] = "resolveAgain" /\ result[c].at = bearer[c]

\* Mutant: an unresolved bearer is not noticed.
ResolvedUnchecked(c) ==
    /\ stage[c] \in Resolving
    /\ pc[c] = "done"
    /\ ~SameBearer(c)
    /\ bearer' = [bearer EXCEPT ![c] = result[c].at]
    /\ stage' = [stage EXCEPT ![c] = RequestAfter(c)]
    /\ UNCHANGED <<vars, route, answer, spent, health, revoked>>

Resolved(c) ==
    /\ stage[c] \in Resolving
    /\ pc[c] = "done"
    /\ result[c].kind = "ok"
    /\ ~SameBearer(c)
    /\ bearer' = [bearer EXCEPT ![c] = result[c].at]
    /\ stage' = [stage EXCEPT ![c] = RequestAfter(c)]
    /\ UNCHANGED <<vars, route, answer, spent, health, revoked>>

\* Mutant: every failed refresh sends the user to reconnect.
NotResolvedMeansReconnect(c) ==
    /\ stage[c] \in Resolving
    /\ pc[c] = "done"
    /\ result[c].kind = "ok" => SameBearer(c)
    /\ Return(c, "reconnect")
    /\ UNCHANGED <<vars, route, bearer, spent, revoked>>

NotResolved(c) ==
    /\ stage[c] \in Resolving
    /\ pc[c] = "done"
    /\ \/ /\ result[c].kind = "ok"
          /\ SameBearer(c)
          /\ Return(c, "reconnect")
       \/ /\ result[c].kind \in {"reauth", "missing"}
          /\ Return(c, "reconnect")
       \/ /\ result[c].kind \in {"transient", "config"}
          /\ Return(c, "refreshFailed")
    /\ UNCHANGED <<vars, route, bearer, spent, revoked>>

\* An accepted connect goes on to tools/call; an accepted call is the answer.
Accepted(c) ==
    /\ stage[c] \in Requests
    /\ ~Rejects(bearer[c])
    /\ \/ /\ stage[c] \in {"open", "openAgain"}
          /\ stage' = [stage EXCEPT ![c] = "call"]
          /\ UNCHANGED <<answer, health>>
       \/ /\ stage[c] = "forcedOpen"
          /\ stage' = [stage EXCEPT ![c] = "forcedCall"]
          /\ UNCHANGED <<answer, health>>
       \/ /\ stage[c] \in {"call", "forcedCall", "request", "requestAgain"}
          /\ Return(c, "ok")
    /\ UNCHANGED <<vars, route, bearer, spent, revoked>>

\* Any other upstream error is returned as it is.
UpstreamFails(c) ==
    /\ stage[c] \in Requests
    /\ Return(c, "failed")
    /\ UNCHANGED <<vars, route, bearer, spent, revoked>>

RejectedBearers(c) == spent[c].rejected \cup {bearer[c]}

\* The first rejection at each level forces a refresh.  tools/call ran inside
\* attempt(false), which marked the server unhealthy before the retry.
RejectedOnce(c) ==
    /\ stage[c] \in {"open", "request", "call"}
    /\ Rejects(bearer[c])
    /\ Load(c, TRUE)
    /\ stage' = [stage EXCEPT ![c] = IF stage[c] = "call" THEN "forcedResolve"
                                     ELSE "resolveAgain"]
    /\ spent' = [spent EXCEPT ![c] = [forced |-> @.forced + 1,
                                      rejected |-> RejectedBearers(c)]]
    /\ health' = IF stage[c] = "call" THEN "unhealthy" ELSE health
    /\ UNCHANGED <<route, bearer, answer, revoked>>

\* A second one ends the call.  A connect rejected on the forced attempt is
\* not authRejected, so the plain connect error is what the client gets.
RejectedAgain(c) ==
    /\ stage[c] \in {"openAgain", "requestAgain", "forcedOpen", "forcedCall"}
    /\ Rejects(bearer[c])
    /\ Return(c, IF stage[c] = "forcedOpen" THEN "failed" ELSE "reconnect")
    /\ spent' = [spent EXCEPT ![c].rejected = RejectedBearers(c)]
    /\ UNCHANGED <<vars, route, bearer, revoked>>

\* The upstream stops accepting an access token before it expires.
RevokeAccess(t) ==
    /\ t <= minted
    /\ t \notin revoked
    /\ revoked' = revoked \cup {t}
    /\ UNCHANGED <<vars, stage, route, bearer, answer, spent, health>>

CrashGateway(p) ==
    /\ Crash(p)
    /\ stage' = [c \in Callers |-> IF ProcOf[c] = p THEN "idle" ELSE stage[c]]
    /\ UNCHANGED <<route, bearer, answer, spent, health, revoked>>

-----------------------------------------------------------------------------
UpstreamAnswers(c) == Accepted(c) \/ UpstreamFails(c) \/ RejectedOnce(c)
                          \/ RejectedAgain(c)

Continue(c) == Resolved(c) \/ NotResolved(c)

ToolNext ==
    \/ \E c \in Callers :
          \/ \E r \in Routes : StartCall(c, r)
          \/ Continue(c) \/ UpstreamAnswers(c)
          \/ Resolve(c) /\ UNCHANGED toolVars
          \/ (LockFails(c) \/ LoseConnection(c)) /\ UNCHANGED toolVars
    \/ (User \/ Environment) /\ UNCHANGED toolVars
    \/ \E t \in Tokens : RevokeAccess(t)
    \/ \E p \in Procs : CrashGateway(p)

ToolSpec == ToolInit /\ [][ToolNext]_allVars

\* The resolver's own fairness, a gateway that runs its continuations, and an
\* upstream (or the HTTP client's timeouts) that ends every request.
FairToolSpec ==
    /\ ToolSpec
    /\ Fairness
    /\ \A c \in Callers :
          WF_allVars(Continue(c)) /\ WF_allVars(UpstreamAnswers(c))

-----------------------------------------------------------------------------
\* Types, and the tie between the two machines: a resolution is under way
\* only for a call that awaits it.
ToolTypeOK ==
    /\ stage \in [Callers -> Stage]
    /\ route \in [Callers -> Routes]
    /\ bearer \in [Callers -> 0..MaxMint]
    /\ answer \in [Callers -> Answers]
    /\ spent \in [Callers -> [forced : 0..2, rejected : SUBSET Tokens]]
    /\ health \in {"healthy", "unhealthy"}
    /\ revoked \subseteq Tokens
    /\ \A c \in Callers : ~Ready(c) => stage[c] \in Resolving
    /\ \A c \in Callers : stage[c] \in Requests => bearer[c] \in Tokens

\* The user is told to reconnect only when the credential was missing or could
\* not be refreshed, or when the upstream rejects the bearer last resolved.
ReconnectIsDeserved ==
    [][\A c \in Callers :
          stage[c] # "answered" /\ stage'[c] = "answered" /\ answer'[c] = "reconnect"
          => \/ result[c].kind \in {"missing", "reauth"}
             \/ result[c].kind = "ok" /\ Rejects(result[c].at)]_allVars

\* Whoever awaits a refresh when it is decided, its own or another call's, gets
\* no older bearer than was just rejected, as long as the user does not authorise
\* anew.  A call that joins a refresh already decided may fall back to one.
BearersMoveForward ==
    [][\A c, d \in Callers :
          /\ c = d \/ (pc[c] = "joined" /\ leader[c] = d)
          /\ pc[d] \in {"waiting", "sent", "minted"} /\ pc'[d] = "finishing"
          /\ result'[d].kind = "ok" /\ grants = 1
          => result'[d].at >= bearer[c]]_allVars

\* Every tool call is answered, unless its gateway crashes.
CallAnswered ==
    \A c \in Callers : stage[c] = "resolve" ~> stage[c] \in {"answered", "idle"}

\* harness-reauth.mdx: "If refresh fails or the upstream still rejects the
\* token, Jackline returns UpstreamCredentialFailureError": a call whose last
\* request was rejected ends in "reconnect".
RejectionReported ==
    [][\A c \in Callers :
          stage[c] # "answered" /\ stage'[c] = "answered"
              /\ bearer[c] \in spent'[c].rejected
              /\ spent'[c].rejected # spent[c].rejected
          => answer'[c] = "reconnect"]_allVars
=============================================================================
