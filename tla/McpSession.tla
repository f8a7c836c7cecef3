------------------------------ MODULE McpSession ------------------------------
(***************************************************************************)
(* The authorization server of the MCP gateway                             *)
(* (apps/api/src/features/mcpOauth/service.ts): consent, authorization     *)
(* codes, access tokens and the rotation of refresh tokens, for one client *)
(* and one user, hence one connections row at a time.                      *)
(*                                                                         *)
(* Every statement of a handler is a step: the service runs no             *)
(* transaction, so requests interleave between any two of its queries, and *)
(* administrators change the connection meanwhile.  A row of               *)
(* oauth_access_tokens holds an access token and its refresh token; the    *)
(* gateway's use of the access token is in GatewayRequest.                 *)
(***************************************************************************)
EXTENDS ApiHandlers, Sequences

CONSTANTS
    MaxConns,       \* bound: connections rows ever inserted
    MaxCodes,       \* bound: authorization codes
    MaxTokens,      \* bound: token rows
    MaxFaults       \* bound: failed statements, crashes and lost answers

ASSUME SessionAssumption ==
    /\ {MaxConns, MaxCodes, MaxTokens} \subseteq Nat \ {0}
    /\ MaxFaults \in Nat

ConnStatus == {"active", "quarantined", "disabled"}

None  == 0          \* no row; ids are given out from 1
NoRow == [id |-> None, status |-> "disabled"]

VARIABLES
    row,        \* the connection of this client and user: id (or None), status
    inserted,   \* connections rows inserted so far
    codes,      \* oauth_authorization_codes, in the order of insertion
    tokens,     \* oauth_access_tokens
    known,      \* codes and refresh tokens an answer has carried to the client
    stage,      \* where each handler is
    req,        \* what its request read: code, token, connection
    overlap,    \* refresh tokens whose exchanges have overlapped (history)
    faults

sessionVars ==
    <<row, inserted, codes, tokens, known, stage, req, overlap, faults>>

SessionPC == {"idle", "ensure", "activate", "insert", "reselect", "store",
              "mark", "check", "revoke", "issue"}

NoRequest == [code |-> None, token |-> None, conn |-> None, since |-> 0]

TokenState == {"live", "revoked", "deleted"}

\* Types, and every statement has the row ids it works on.
SessionTypeOK ==
    /\ row \in [id : 0..MaxConns, status : ConnStatus]
    /\ inserted \in 0..MaxConns
    /\ row.id <= inserted
    /\ codes \in Seq([conn : 0..MaxConns, used : BOOLEAN, expired : BOOLEAN])
    /\ Len(codes) <= MaxCodes
    /\ tokens \in Seq([conn : 1..MaxConns, state : TokenState,
                       code : 1..MaxCodes, parent : 0..MaxTokens])
    /\ Len(tokens) <= MaxTokens
    /\ known.codes \subseteq DOMAIN codes
    /\ known.tokens \subseteq DOMAIN tokens
    /\ stage \in [Handlers -> SessionPC]
    /\ req \in [Handlers -> [code : 0..MaxCodes, token : 0..MaxTokens,
                             conn : 0..MaxConns, since : 0..MaxConns]]
    /\ overlap \subseteq DOMAIN tokens
    /\ faults \in 0..MaxFaults
    /\ \A h \in Handlers :
          /\ stage[h] \in {"store", "issue", "check", "revoke"} => req[h].conn # None
          /\ stage[h] = "mark" => req[h].code # None

SessionInit ==
    /\ row = NoRow
    /\ inserted = 0
    /\ codes = <<>>
    /\ tokens = <<>>
    /\ known = [codes |-> {}, tokens |-> {}]
    /\ stage = [h \in Handlers |-> "idle"]
    /\ req = [h \in Handlers |-> NoRequest]
    /\ overlap = {}
    /\ faults = 0

-----------------------------------------------------------------------------
Advance(h, from, to) == stage[h] = from /\ stage' = [stage EXCEPT ![h] = to]

\* The handler answers: the request it served is over.
Answer(h, from) ==
    /\ Advance(h, from, "idle")
    /\ req' = [req EXCEPT ![h] = NoRequest]

\* Deleted rows: the one deleted most recently is the newest inserted, unless
\* it still stands.
Deleted == IF row.id = None THEN inserted ELSE inserted - 1

NewRequest(h, r) == req' = [req EXCEPT ![h] = r]

InsertRow(status) ==
    /\ row.id = None
    /\ inserted < MaxConns
    /\ inserted' = inserted + 1
    /\ row' = [id |-> inserted + 1, status |-> status]

-----------------------------------------------------------------------------
(* POST /oauth/authorize/consent: find or make the connection, then store a *)
(* code bound to it.                                                        *)

StartConsent(h) ==
    /\ Len(codes) < MaxCodes
    /\ Advance(h, "idle", "ensure")
    /\ NewRequest(h, [NoRequest EXCEPT !.since = Deleted])
    /\ UNCHANGED <<row, inserted, codes, tokens, known, overlap, faults>>

\* ensureConnection has its row: a consent stores the code, an exchange of a
\* code whose connection is gone issues the tokens.
Ensured(h, from, id) ==
    /\ Advance(h, from, IF req[h].code = None THEN "store" ELSE "issue")
    /\ req' = [req EXCEPT ![h].conn = id]

EnsureSelect(h) ==
    /\ \/ /\ row.id # None /\ row.status = "active"
          /\ Ensured(h, "ensure", row.id)
       \/ /\ row.id # None /\ row.status # "active"
          /\ Advance(h, "ensure", "activate")
          /\ req' = [req EXCEPT ![h].conn = row.id]
       \/ /\ row.id = None
          /\ Advance(h, "ensure", "insert")
          /\ UNCHANGED req
    /\ UNCHANGED <<row, inserted, codes, tokens, known, overlap, faults>>

\* UPDATE ... WHERE id: whatever the status has become, the row is active.
EnsureActivate(h) ==
    /\ IF row.id = req[h].conn
       THEN /\ row' = [row EXCEPT !.status = "active"]
            /\ Ensured(h, "activate", row.id)
       ELSE /\ Answer(h, "activate")
            /\ UNCHANGED row
    /\ UNCHANGED <<inserted, codes, tokens, known, overlap, faults>>

\* Mutant: the loser of the race to insert gives up.
InsertOrFail(h) ==
    /\ \/ /\ InsertRow("active")
          /\ Ensured(h, "insert", inserted + 1)
       \/ /\ row.id # None
          /\ Answer(h, "insert")
          /\ UNCHANGED <<row, inserted>>
    /\ UNCHANGED <<codes, tokens, known, overlap, faults>>

\* The unique index on (tenant, client, user) lets one insert win.
EnsureInsert(h) ==
    /\ \/ /\ InsertRow("active")
          /\ Ensured(h, "insert", inserted + 1)
       \/ /\ row.id # None
          /\ Advance(h, "insert", "reselect")
          /\ UNCHANGED <<row, inserted, req>>
    /\ UNCHANGED <<codes, tokens, known, overlap, faults>>

\* The loser takes the row that won, whatever its status.
EnsureReselect(h) ==
    /\ IF row.id # None THEN Ensured(h, "reselect", row.id)
       ELSE Answer(h, "reselect")
    /\ UNCHANGED <<row, inserted, codes, tokens, known, overlap, faults>>

\* An insert refers to the connection: a foreign key refuses a deleted one.
\* The answer may be lost on its way to the client.
Delivered(kind, id) ==
    \/ /\ known' = [known EXCEPT ![kind] = @ \cup {id}]
       /\ UNCHANGED faults
    \/ /\ faults < MaxFaults
       /\ faults' = faults + 1
       /\ UNCHANGED known

ForeignKeyFails(h, from) ==
    /\ row.id # req[h].conn
    /\ Answer(h, from)
    /\ UNCHANGED <<row, inserted, codes, tokens, known, overlap, faults>>

StoreCode(h) ==
    \/ ForeignKeyFails(h, "store")
    \/ /\ row.id = req[h].conn
       /\ Len(codes) < MaxCodes
       /\ codes' = Append(codes, [conn |-> row.id, used |-> FALSE,
                                  expired |-> FALSE])
       /\ Delivered("codes", Len(codes) + 1)
       /\ Answer(h, "store")
       /\ UNCHANGED <<row, inserted, tokens, overlap>>

-----------------------------------------------------------------------------
(* POST /oauth/token, grant_type=authorization_code.                        *)

ReadCode(h, c) ==
    /\ c \in known.codes
    /\ ~codes[c].used
    /\ ~codes[c].expired
    /\ Advance(h, "idle", "mark")
    /\ NewRequest(h, [NoRequest EXCEPT !.code = c, !.conn = codes[c].conn])
    /\ UNCHANGED <<row, inserted, codes, tokens, known, overlap, faults>>

\* UPDATE ... WHERE used_at IS NULL: one exchange of a code goes on.
MarkCode(h) ==
    /\ stage[h] = "mark"
    /\ LET c == req[h].code
       IN  IF codes[c].used
           THEN Answer(h, "mark") /\ UNCHANGED codes
           ELSE /\ codes' = [codes EXCEPT ![c].used = TRUE]
                /\ Advance(h, "mark",
                        IF req[h].conn = None THEN "ensure" ELSE "issue")
                /\ UNCHANGED req
    /\ UNCHANGED <<row, inserted, tokens, known, overlap, faults>>

-----------------------------------------------------------------------------
(* POST /oauth/token, grant_type=refresh_token.                             *)

\* Exchanges of t that have read it unrevoked and not yet revoked it.
Exchanging(t) == {h \in Handlers : stage[h] \in {"check", "revoke"}
                                   /\ req[h].token = t}

NowExchanging(h, t) ==
    overlap' = IF Exchanging(t) # {} THEN overlap \cup {t} ELSE overlap

ReadToken(h, t) ==
    /\ t \in known.tokens
    /\ tokens[t].state = "live"
    /\ Advance(h, "idle", "check")
    /\ NewRequest(h, [NoRequest EXCEPT !.token = t, !.conn = tokens[t].conn])
    /\ NowExchanging(h, t)
    /\ UNCHANGED <<row, inserted, codes, tokens, known, faults>>

RevokeRow(t) ==
    tokens' = IF tokens[t].state = "live"
              THEN [tokens EXCEPT ![t].state = "revoked"] ELSE tokens

Usable(h) == row.id = req[h].conn /\ row.status = "active"

CheckConnection(h) ==
    /\ IF Usable(h) THEN Advance(h, "check", "revoke") /\ UNCHANGED req
       ELSE Answer(h, "check")
    /\ UNCHANGED <<row, inserted, codes, tokens, known, overlap, faults>>

\* UPDATE ... WHERE id, of a row that may have been revoked since it was read.
Revoke(h) ==
    /\ Advance(h, "revoke", "issue")
    /\ RevokeRow(req[h].token)
    /\ UNCHANGED <<row, inserted, codes, known, req, overlap, faults>>

-----------------------------------------------------------------------------
\* issueMcpTokens: a new row for the connection the handler read earlier.
NewToken(h) ==
    [conn |-> req[h].conn, state |-> "live", parent |-> req[h].token,
     code |-> IF req[h].token = None THEN req[h].code
              ELSE tokens[req[h].token].code]

InsertToken(h) ==
    /\ Len(tokens) < MaxTokens
    /\ tokens' = Append(tokens, NewToken(h))
    /\ Delivered("tokens", Len(tokens) + 1)
    /\ Answer(h, "issue")
    /\ UNCHANGED <<row, inserted, codes, overlap>>

Issue(h) ==
    \/ ForeignKeyFails(h, "issue")
    \/ row.id = req[h].conn /\ InsertToken(h)

\* A statement fails, or the API process dies: the request is abandoned where
\* it stands.
Fail(h) ==
    /\ stage[h] # "idle"
    /\ faults < MaxFaults
    /\ faults' = faults + 1
    /\ Answer(h, stage[h])
    /\ UNCHANGED <<row, inserted, codes, tokens, known, overlap>>

-----------------------------------------------------------------------------
(* The connection meanwhile: connections/service.ts.                        *)

CreateConnection(s) ==
    /\ InsertRow(s)
    /\ UNCHANGED <<codes, tokens, known, stage, req, overlap, faults>>

UpdateConnection(s) ==
    /\ row.id # None
    /\ row.status # s
    /\ row' = [row EXCEPT !.status = s]
    /\ UNCHANGED <<inserted, codes, tokens, known, stage, req, overlap, faults>>

\* Tokens go with their connection (ON DELETE CASCADE), codes forget it
\* (ON DELETE SET NULL).  The last row the bound allows stays.
RemoveConnection ==
    /\ row.id # None
    /\ inserted < MaxConns
    /\ row' = NoRow
    /\ codes' = [c \in DOMAIN codes |-> [codes[c] EXCEPT !.conn = None]]
    /\ tokens' = [t \in DOMAIN tokens |-> [tokens[t] EXCEPT !.state = "deleted"]]
    /\ UNCHANGED <<inserted, known, stage, req, overlap, faults>>

Expire(c) ==
    /\ ~codes[c].expired
    /\ codes' = [codes EXCEPT ![c].expired = TRUE]
    /\ UNCHANGED <<row, inserted, tokens, known, stage, req, overlap, faults>>

-----------------------------------------------------------------------------
Ensure(h) == EnsureSelect(h) \/ EnsureActivate(h) \/ EnsureInsert(h)
                 \/ EnsureReselect(h)

SessionNext ==
    \/ \E h \in Handlers :
          \/ StartConsent(h) \/ Ensure(h) \/ StoreCode(h)
          \/ \E c \in DOMAIN codes : ReadCode(h, c)
          \/ MarkCode(h)
          \/ \E t \in DOMAIN tokens : ReadToken(h, t)
          \/ CheckConnection(h) \/ Revoke(h) \/ Issue(h) \/ Fail(h)
    \/ \E s \in ConnStatus : CreateConnection(s) \/ UpdateConnection(s)
    \/ RemoveConnection
    \/ \E c \in DOMAIN codes : Expire(c)

SessionSpec == SessionInit /\ [][SessionNext]_sessionVars

-----------------------------------------------------------------------------
\* A code yields one session, however many exchanges of it are in flight.
CodeGrantsOnce ==
    \A s, t \in DOMAIN tokens :
        tokens[s].code = tokens[t].code /\ tokens[s].parent = None
            /\ tokens[t].parent = None => s = t

\* Two rows descend from one refresh token only if its exchanges overlapped:
\* a client that refreshes one at a time keeps a single live session.
ForksOnlyByOverlap ==
    \A s, t \in DOMAIN tokens :
        tokens[s].parent = tokens[t].parent /\ s # t
        => tokens[s].parent \in overlap \cup {None}

\* What the session started by code c may still be refreshed with.
LiveTokens(c) ==
    {t \in known.tokens : tokens[t].code = c /\ tokens[t].state = "live"}

BeingIssued(c) ==
    {h \in Handlers : stage[h] = "issue" /\ req[h].token # None
                      /\ tokens[req[h].token].code = c}

\* While the connection exists and nothing fails, a client that was given a
\* session can refresh it: a refresh refused because the connection is not
\* active, or one of two that overlap, does not lose it.
SessionSurvives ==
    faults = 0 =>
        \A t \in known.tokens :
            tokens[t].state # "deleted"
            => LiveTokens(tokens[t].code) \cup BeingIssued(tokens[t].code) # {}

\* No token outlives its connection, not even one issued by an exchange that
\* read the connection before it was deleted.
TokensHaveConnection ==
    \A t \in DOMAIN tokens :
        tokens[t].state # "deleted" => tokens[t].conn = row.id

\* A consent is refused for no other reason than a fault or a connection
\* deleted while it ran: losing the race to insert the row is not one.
ConsentFailsOnlyByDelete ==
    [][\A h \in Handlers :
          /\ stage[h] # "idle" /\ stage'[h] = "idle"
          /\ req[h].code = None /\ req[h].token = None
          => \/ Len(codes') > Len(codes)
             \/ faults' > faults
             \/ Deleted > req[h].since]_sessionVars

-----------------------------------------------------------------------------
\* Of a session: a code yields one, it forks only when refreshes of it overlap,
\* it is not lost while nothing fails, its tokens go with the connection, and a
\* consent is refused only because of a fault or a deletion.
SessionRules ==
    /\ [](/\ SessionTypeOK
         /\ CodeGrantsOnce
         /\ ForksOnlyByOverlap
         /\ SessionSurvives
         /\ TokensHaveConnection)
    /\ ConsentFailsOnlyByDelete
=============================================================================
