----------------------------- MODULE AgentTrust -----------------------------
(***************************************************************************)
(* How a peer of an agent comes to be trusted (agents/service.ts): it      *)
(* knocks, the owner approves or denies, an approved peer exchanges the    *)
(* token it polls for a credential, and the credential admits its messages *)
(* until the grant expires or is revoked.  A knock, its A2A task and its   *)
(* grant are rows of three tables, written by separate statements.         *)
(* The agent is published and takes knocks: a request that finds it        *)
(* otherwise is refused and changes nothing.                               *)
(***************************************************************************)
EXTENDS ApiHandlers

CONSTANTS
    Peers,          \* peers that knock on the agent
    MaxKnocks,      \* bound: knock requests
    MaxGrants,      \* bound: approvals, and exchanges
    MaxTrustFaults  \* bound: failed statements and crashes

ASSUME TrustAssumption ==
    /\ IsFiniteSet(Peers)
    /\ {MaxKnocks, MaxGrants, MaxTrustFaults} \subseteq Nat

VARIABLES
    knocks,         \* rows of knocks
    knockTasks,     \* what a poll of each knock's task returns
    grants,         \* rows of trust_grants
    learned,        \* what peers hold: knock secrets, exchange tokens, credentials
    made,           \* knock requests, approvals and exchanges so far
    trustCall,      \* what each handler is doing
    trustRaced,     \* history: handlers that disturb each other overlapped
    trustFaults

trustTables == <<knocks, knockTasks, grants>>
trustHistory == <<learned, made, trustRaced, trustFaults>>
trustVars == <<trustTables, trustHistory, trustCall>>

\* A knock, its task and its secret are numbered by the request that made
\* them, a grant and its exchange token by the approval, a credential by the
\* exchange.
Knocks == 1..MaxKnocks
Grants == 1..MaxGrants

KnockRow == [peer : Peers, status : {"pending", "approved", "denied"},
             secret : Knocks, grant : Grants \cup {0}, used : BOOLEAN]

GrantRow == [knock : Knocks, usable : BOOLEAN, credential : Grants \cup {0}]

\* A task's result: no decision yet, a denial, or a grant and its token.
TaskRow == [state : {"input_required", "denied", "approved"},
            grant : Grants \cup {0}]

NoTrustCall == [op |-> "idle", pc |-> "idle", peer |-> "none", knock |-> 0,
                grant |-> 0, num |-> 0]

TrustOps == {"idle", "knock", "approve", "deny", "exchange"}
TrustPCs == {"idle", "find", "renew", "insert", "grant", "update",
             "settle", "use", "credential"}

TrustTypeOK ==
    /\ DOMAIN knocks \subseteq Knocks
    /\ \A k \in DOMAIN knocks : knocks[k] \in KnockRow
    /\ DOMAIN knockTasks \subseteq Knocks
    /\ \A k \in DOMAIN knockTasks : knockTasks[k] \in TaskRow
    /\ DOMAIN grants \subseteq Grants
    /\ \A g \in DOMAIN grants : grants[g] \in GrantRow
    /\ learned \in [secrets : SUBSET Knocks, tokens : SUBSET Grants,
                    credentials : SUBSET (Grants \X Grants)]
    /\ made \in [knocks : 0..MaxKnocks, grants : 0..MaxGrants,
                 credentials : 0..MaxGrants]
    /\ trustCall \in [Handlers -> [op : TrustOps, pc : TrustPCs,
                                   peer : Peers \cup {"none"},
                                   knock : Knocks \cup {0},
                                   grant : Grants \cup {0},
                                   num : Knocks \cup Grants \cup {0}]]
    /\ trustRaced \in [knock : BOOLEAN, decide : SUBSET Knocks,
                       exchange : SUBSET Grants]
    /\ trustFaults \in 0..MaxTrustFaults
    /\ DOMAIN knocks = DOMAIN knockTasks
    /\ \A k \in DOMAIN knocks : knocks[k].grant \in DOMAIN grants \cup {0}

\* An agent that is published and takes knocks.
TrustInit ==
    /\ knocks = << >>
    /\ knockTasks = << >>
    /\ grants = << >>
    /\ learned = [secrets |-> {}, tokens |-> {}, credentials |-> {}]
    /\ made = [knocks |-> 0, grants |-> 0, credentials |-> 0]
    /\ trustCall = [h \in Handlers |-> NoTrustCall]
    /\ trustRaced = [knock |-> FALSE, decide |-> {}, exchange |-> {}]
    /\ trustFaults = 0

-----------------------------------------------------------------------------
TrustAt(h, op, pc) == trustCall[h].op = op /\ trustCall[h].pc = pc

TrustGoto(h, pc) == trustCall' = [trustCall EXCEPT ![h].pc = pc]

TrustDone(h) == trustCall' = [trustCall EXCEPT ![h] = NoTrustCall]

Busy(ops) == {h \in Handlers : trustCall[h].op \in ops}

With(f, x, row) == [y \in DOMAIN f \cup {x} |-> IF y = x THEN row ELSE f[y]]

Decides == {"approve", "deny"}

\* A handler starts: history records whom it overlaps.  A denial also
\* disturbs an exchange of the same knock.
TrustStart(h, frame) ==
    /\ trustCall[h] = NoTrustCall
    /\ trustCall' = [trustCall EXCEPT ![h] = frame]
    /\ LET same(ops) == {k \in Busy(ops) : trustCall[k].knock = frame.knock}
       IN  trustRaced' =
             [knock |-> trustRaced.knock \/ (frame.op = "knock" /\ Busy({"knock"}) # {}),
              decide |-> trustRaced.decide \cup
                 {k \in {frame.knock} : frame.op \in Decides /\ same(Decides) # {}},
              exchange |-> trustRaced.exchange \cup
                 {g \in {frame.grant} : frame.op = "exchange" /\
                                        same({"exchange"} \cup Decides) # {}} \cup
                 {trustCall[k].grant : k \in {j \in same({"exchange"}) :
                                                 frame.op \in Decides}}]
    /\ UNCHANGED <<trustTables, learned, trustFaults>>

-----------------------------------------------------------------------------
(* A knock: processA2aJsonRpc reads the agent, decideA2aAuth lets the knock *)
(* of a peer without a grant through, createKnock does the rest.            *)

StartKnock(h, p) ==
    /\ made.knocks < MaxKnocks
    /\ made' = [made EXCEPT !.knocks = @ + 1]
    /\ TrustStart(h, [NoTrustCall EXCEPT !.op = "knock", !.pc = "find",
                         !.peer = p, !.num = made.knocks + 1])

\* A pending knock of the peer is renewed.
FindPending(h) ==
    /\ TrustAt(h, "knock", "find")
    /\ LET pending == {k \in DOMAIN knocks : /\ knocks[k].peer = trustCall[h].peer
                                             /\ knocks[k].status = "pending"}
       IN  \/ \E k \in pending :
                 trustCall' = [trustCall EXCEPT ![h].pc = "renew", ![h].knock = k]
           \/ pending = {} /\ TrustGoto(h, "insert")
    /\ UNCHANGED <<trustTables, trustHistory>>

Learn(field, x) == learned' = [learned EXCEPT ![field] = @ \cup {x}]

\* The row found gets the new secret, whatever its status is by now.
RenewKnock(h) ==
    /\ TrustAt(h, "knock", "renew")
    /\ knocks' = [knocks EXCEPT ![trustCall[h].knock].secret = trustCall[h].num]
    /\ Learn("secrets", trustCall[h].num)
    /\ TrustDone(h)
    /\ UNCHANGED <<knockTasks, grants, made, trustRaced, trustFaults>>

\* The task is inserted first, but nobody hears of it before the knock is: a
\* failure in between leaves a row that nothing refers to.  Nor does the
\* owner's notification, the last statement, matter here.
InsertKnock(h) ==
    /\ TrustAt(h, "knock", "insert")
    /\ LET n == trustCall[h].num
       IN  /\ knockTasks' = With(knockTasks, n, [state |-> "input_required", grant |-> 0])
           /\ knocks' = With(knocks, n,
                 [peer |-> trustCall[h].peer, status |-> "pending",
                  secret |-> n, grant |-> 0, used |-> FALSE])
           /\ Learn("secrets", n)
    /\ TrustDone(h)
    /\ UNCHANGED <<grants, made, trustRaced, trustFaults>>

-----------------------------------------------------------------------------
(* approveKnock and denyKnock.                                              *)

StartApprove(h, k) ==
    /\ k \in DOMAIN knocks
    /\ knocks[k].status = "pending"
    /\ made.grants < MaxGrants
    /\ made' = [made EXCEPT !.grants = @ + 1]
    /\ TrustStart(h, [NoTrustCall EXCEPT !.op = "approve", !.pc = "grant",
                         !.knock = k, !.grant = made.grants + 1])

InsertGrant(h) ==
    /\ TrustAt(h, "approve", "grant")
    /\ grants' = With(grants, trustCall[h].grant,
                      [knock |-> trustCall[h].knock, usable |-> TRUE, credential |-> 0])
    /\ TrustGoto(h, "update")
    /\ UNCHANGED <<knocks, knockTasks, trustHistory>>

ApproveKnock(h) ==
    /\ TrustAt(h, "approve", "update")
    /\ knocks' = [knocks EXCEPT ![trustCall[h].knock].status = "approved",
                                ![trustCall[h].knock].grant = trustCall[h].grant]
    /\ TrustGoto(h, "settle")
    /\ UNCHANGED <<knockTasks, grants, trustHistory>>

\* The only check of a denial is that the knock exists.
StartDeny(h, k) ==
    /\ k \in DOMAIN knocks
    /\ TrustStart(h, [NoTrustCall EXCEPT !.op = "deny", !.pc = "update", !.knock = k])
    /\ UNCHANGED made

\* A grant that the knock already has stays, and so does its credential.
DenyKnock(h) ==
    /\ TrustAt(h, "deny", "update")
    /\ knocks' = [knocks EXCEPT ![trustCall[h].knock].status = "denied"]
    /\ TrustGoto(h, "settle")
    /\ UNCHANGED <<knockTasks, grants, trustHistory>>

\* A peer that knows the task can poll its result from now on.
Settle(h, result) ==
    /\ knockTasks' = [knockTasks EXCEPT ![trustCall[h].knock] = result]
    /\ learned' = [learned EXCEPT !.tokens = @ \cup ({result.grant} \ {0})]
    /\ TrustDone(h)
    /\ UNCHANGED <<knocks, grants, made, trustRaced, trustFaults>>

\* The decision becomes the result of the knock's task.
SettleTask(h) ==
    /\ \E op \in Decides : TrustAt(h, op, "settle")
    /\ Settle(h, IF trustCall[h].op = "deny" THEN [state |-> "denied", grant |-> 0]
                 ELSE [state |-> "approved", grant |-> trustCall[h].grant])

-----------------------------------------------------------------------------
(* exchangeTrustGrant, and what its credential admits.                      *)

StartExchange(h, s, g) ==
    /\ s \in learned.secrets /\ g \in learned.tokens
    /\ made.credentials < MaxGrants
    /\ \E k \in DOMAIN knocks :
          /\ knocks[k].secret = s /\ knocks[k].status = "approved"
          /\ knocks[k].grant = g /\ ~knocks[k].used
          /\ TrustStart(h, [NoTrustCall EXCEPT !.op = "exchange", !.pc = "grant",
                  !.knock = k, !.grant = g, !.num = made.credentials + 1])
    /\ made' = [made EXCEPT !.credentials = @ + 1]

FindGrant(h) ==
    /\ TrustAt(h, "exchange", "grant")
    /\ LET g == grants[trustCall[h].grant]
       IN  IF g.usable /\ g.credential = 0 THEN TrustGoto(h, "use") ELSE TrustDone(h)
    /\ UNCHANGED <<trustTables, trustHistory>>

MarkTokenUsed(h) ==
    /\ TrustAt(h, "exchange", "use")
    /\ knocks' = [knocks EXCEPT ![trustCall[h].knock].used = TRUE]
    /\ TrustGoto(h, "credential")
    /\ UNCHANGED <<knockTasks, grants, trustHistory>>

\* Mutant: storing the credential makes the grant active.
StoreAndActivate(h) ==
    /\ TrustAt(h, "exchange", "credential")
    /\ grants' = [grants EXCEPT ![trustCall[h].grant].credential = trustCall[h].num,
                                ![trustCall[h].grant].usable = TRUE]
    /\ Learn("credentials", <<trustCall[h].grant, trustCall[h].num>>)
    /\ TrustDone(h)
    /\ UNCHANGED <<knocks, knockTasks, made, trustRaced, trustFaults>>

\* Only the hash is written: a revocation meanwhile stands.
StoreCredential(h) ==
    /\ TrustAt(h, "exchange", "credential")
    /\ grants' = [grants EXCEPT ![trustCall[h].grant].credential = trustCall[h].num]
    /\ Learn("credentials", <<trustCall[h].grant, trustCall[h].num>>)
    /\ TrustDone(h)
    /\ UNCHANGED <<knocks, knockTasks, made, trustRaced, trustFaults>>

\* revokeTrustGrant, or the grant's time has passed.
EndGrant(g) ==
    /\ g \in DOMAIN grants
    /\ grants[g].usable
    /\ grants' = [grants EXCEPT ![g].usable = FALSE]
    /\ UNCHANGED <<knocks, knockTasks, trustHistory, trustCall>>

\* resolvePeerGrant and decideA2aAuth, for a message with credential c.
Admits(c) ==
    /\ grants[c[1]].usable
    /\ grants[c[1]].credential = c[2]

\* A statement fails or the process dies: what was committed stays.
FailTrustCall(h) ==
    /\ trustCall[h] # NoTrustCall
    /\ trustFaults < MaxTrustFaults
    /\ trustFaults' = trustFaults + 1
    /\ TrustDone(h)
    /\ trustRaced' =
          [trustRaced EXCEPT
             !.decide = @ \cup IF trustCall[h].op \in Decides
                               THEN {trustCall[h].knock} ELSE {},
             !.exchange = @ \cup IF trustCall[h].op = "exchange"
                                 THEN {trustCall[h].grant} ELSE {}]
    /\ UNCHANGED <<trustTables, learned, made>>

-----------------------------------------------------------------------------
HandleTrust(h) ==
    \/ \E p \in Peers : StartKnock(h, p)
    \/ FindPending(h) \/ RenewKnock(h) \/ InsertKnock(h)
    \/ \E k \in Knocks : StartApprove(h, k)
    \/ InsertGrant(h) \/ ApproveKnock(h)
    \/ \E k \in Knocks : StartDeny(h, k)
    \/ DenyKnock(h) \/ SettleTask(h)
    \/ \E s \in Knocks, g \in Grants : StartExchange(h, s, g)
    \/ FindGrant(h) \/ MarkTokenUsed(h) \/ StoreCredential(h)
    \/ FailTrustCall(h)

TrustNext ==
    \/ \E h \in Handlers : HandleTrust(h)
    \/ \E g \in Grants : EndGrant(g)

TrustSpec == TrustInit /\ [][TrustNext]_trustVars

-----------------------------------------------------------------------------
\* A peer that knocks again renews its pending knock: it has one, unless
\* knocks overlapped (no index says so).
OnePendingPerPeer ==
    ~trustRaced.knock =>
        \A j, k \in DOMAIN knocks :
            knocks[j].peer = knocks[k].peer /\ knocks[j].status = "pending"
                /\ knocks[k].status = "pending" => j = k

\* A decision is made once: a knock has at most one grant, unless decisions
\* about it overlapped or broke off.
OneGrantPerKnock ==
    \A g, i \in DOMAIN grants :
        grants[g].knock = grants[i].knock
            /\ grants[g].knock \notin trustRaced.decide => g = i

\* What a peer polls is what the knock says, once decisions about the knock
\* are over: they update the knock and its task by separate statements.
TaskTellsDecision ==
    \A k \in DOMAIN knocks \ trustRaced.decide :
        ~(\E h \in Busy(Decides) : trustCall[h].knock = k)
        => knockTasks[k] = CASE knocks[k].status = "pending" ->
                                  [state |-> "input_required", grant |-> 0]
                             [] knocks[k].status = "denied" ->
                                  [state |-> "denied", grant |-> 0]
                             [] knocks[k].status = "approved" ->
                                  [state |-> "approved", grant |-> knocks[k].grant]

\* A peer whose knock was denied while it was pending gets no grant, unless
\* decisions overlapped.  A denial after an approval leaves the grant.
DeniedGrantsNothing ==
    \A g \in DOMAIN grants :
        LET k == grants[g].knock
        IN  k \notin trustRaced.decide /\ knocks[k].status = "denied"
            => knocks[k].grant = g

\* The secret of a peer's latest answered knock is one a knock has, so that
\* the peer can exchange, unless knocks overlapped.
LatestSecretStands ==
    ~trustRaced.knock /\ Busy({"knock"}) = {} /\ learned.secrets # {}
    => \E k \in DOMAIN knocks :
          knocks[k].secret = CHOOSE s \in learned.secrets :
                                \A t \in learned.secrets : t <= s

\* A credential is made out only for a knock that is approved, unless a
\* denial overlapped the exchange.
CredentialForApproved ==
    [][\A h \in Handlers :
          StoreCredential(h) /\ trustCall[h].grant \notin trustRaced.exchange
          => knocks[trustCall[h].knock].status = "approved"]_trustVars

\* "One-time exchange token": every credential that was returned is the one of
\* its grant and admits its holder while the grant lasts, unless two exchanges
\* of the token overlapped.
CredentialAdmitted ==
    \A c \in learned.credentials :
        grants[c[1]].usable /\ c[1] \notin trustRaced.exchange => Admits(c)

\* A grant that was revoked or has expired admits nobody again.
EndedStaysEnded ==
    [][\A g \in DOMAIN grants :
          ~grants[g].usable => ~grants'[g].usable]_trustVars

-----------------------------------------------------------------------------
\* Of the trust between agents: a knock is pending once, decided once and the
\* peer told of it; a denial grants nothing; the secret and the credential a
\* peer was given work, for as long as the grant lasts and no longer.
TrustRules ==
    /\ [](/\ TrustTypeOK
         /\ OnePendingPerPeer
         /\ OneGrantPerKnock
         /\ TaskTellsDecision
         /\ DeniedGrantsNothing
         /\ LatestSecretStands
         /\ CredentialAdmitted)
    /\ CredentialForApproved
    /\ EndedStaysEnded
=============================================================================
