---------------------------- MODULE AgentsProofs ----------------------------
(***************************************************************************)
(* Proofs about agents and chat: the trust between agents, the tools of    *)
(* hosted agents, the listing of an agent, the settings of the chat and    *)
(* the stream of a transcript; and about the pages of the web application  *)
(* that edit one subject or list many.                                     *)
(*                                                                         *)
(* AgentTrust.                                                             *)
(* Numbers are handed out once; a grant names the knock it was made for,   *)
(* and back; and while the handlers that disturb each other do not         *)
(* overlap, each still sees the rows as it found them.  TrustIInv says so, *)
(* handler by handler, and every action keeps each of its parts.           *)
(***************************************************************************)
EXTENDS AgentTrust, HostedAgent, AgentListing, ChatSettings, TranscriptStream,
        EditPage, ListPage, ServerForm,
        FiniteSetTheorems, TLAPS

TrustCallType ==
    [op : TrustOps, pc : TrustPCs, peer : Peers \cup {"none"},
     knock : Knocks \cup {0}, grant : Grants \cup {0},
     num : Knocks \cup Grants \cup {0}]

Doing(h, op) == trustCall[h].op = op

TrustPc(h, pcs) == trustCall[h].pc \in pcs

\* h decides on knock k.
DecidesOn(h, k) == trustCall[h].op \in Decides /\ trustCall[h].knock = k

\* h exchanges the token of grant g.
Exchanging(h, g) == Doing(h, "exchange") /\ trustCall[h].grant = g

StepAt(h) ==
    /\ Doing(h, "idle") => trustCall[h] = NoTrustCall
    /\ Doing(h, "knock") =>
          /\ TrustPc(h, {"find", "renew", "insert"})
          /\ trustCall[h].peer \in Peers
          /\ trustCall[h].num \in 1..made.knocks
          /\ trustCall[h].num \notin DOMAIN knocks
          /\ trustCall[h].num \notin learned.secrets
          /\ TrustPc(h, {"renew"}) => trustCall[h].knock \in DOMAIN knocks
    /\ Doing(h, "approve") =>
          /\ TrustPc(h, {"grant", "update", "settle"})
          /\ trustCall[h].knock \in DOMAIN knocks
          /\ trustCall[h].grant \in 1..made.grants
          /\ TrustPc(h, {"grant"}) => trustCall[h].grant \notin DOMAIN grants
          /\ TrustPc(h, {"update", "settle"}) =>
                /\ trustCall[h].grant \in DOMAIN grants
                /\ grants[trustCall[h].grant].knock = trustCall[h].knock
    /\ Doing(h, "deny") =>
          /\ TrustPc(h, {"update", "settle"})
          /\ trustCall[h].knock \in DOMAIN knocks
    /\ Doing(h, "exchange") =>
          /\ TrustPc(h, {"grant", "use", "credential"})
          /\ trustCall[h].knock \in DOMAIN knocks
          /\ trustCall[h].grant \in DOMAIN grants
          /\ grants[trustCall[h].grant].knock = trustCall[h].knock
          /\ trustCall[h].num \in 1..made.credentials

TrustSteps == \A h \in Handlers : StepAt(h)

Numbered ==
    /\ DOMAIN knocks \subseteq 1..made.knocks
    /\ learned.secrets \subseteq 1..made.knocks
    /\ DOMAIN grants \subseteq 1..made.grants
    /\ \A h, j \in Handlers :
          Doing(h, "knock") /\ Doing(j, "knock") /\ trustCall[h].num = trustCall[j].num
              => h = j
    /\ \A h, j \in Handlers :
          Doing(h, "approve") /\ Doing(j, "approve")
              /\ trustCall[h].grant = trustCall[j].grant => h = j

Linked ==
    /\ \A g \in DOMAIN grants : grants[g].knock \in DOMAIN knocks
    /\ \A k \in DOMAIN knocks :
          knocks[k].grant # 0 => grants[knocks[k].grant].knock = k
    /\ \A c \in learned.credentials : c[1] \in DOMAIN grants

\* Of a knock that is decided once.
OnceDecided(k) ==
    /\ \A h, j \in Handlers : DecidesOn(h, k) /\ DecidesOn(j, k) => h = j
    /\ \A h \in Handlers : DecidesOn(h, k) =>
          /\ Doing(h, "approve") /\ TrustPc(h, {"grant", "update"})
                => knocks[k].status = "pending"
          /\ Doing(h, "approve") /\ TrustPc(h, {"settle"})
                => knocks[k].status = "approved" /\ knocks[k].grant = trustCall[h].grant
          /\ Doing(h, "deny") /\ TrustPc(h, {"settle"}) => knocks[k].status = "denied"
    /\ \A g \in DOMAIN grants : grants[g].knock = k =>
          IF knocks[k].status = "pending"
          THEN \E h \in Handlers : /\ Doing(h, "approve") /\ TrustPc(h, {"update"})
                                   /\ trustCall[h].knock = k /\ trustCall[h].grant = g
          ELSE knocks[k].grant = g

DecidedOnce == \A k \in DOMAIN knocks \ trustRaced.decide : OnceDecided(k)

\* Of knocks that did not overlap.
KnocksInTurn ==
    ~trustRaced.knock =>
        /\ \A h, j \in Handlers : Doing(h, "knock") /\ Doing(j, "knock") => h = j
        /\ \A h \in Handlers : Doing(h, "knock") =>
              /\ \A s \in learned.secrets : s < trustCall[h].num
              /\ TrustPc(h, {"insert"}) =>
                    \A k \in DOMAIN knocks :
                        knocks[k].peer = trustCall[h].peer => knocks[k].status # "pending"
        /\ \A j, k \in DOMAIN knocks :
              knocks[j].peer = knocks[k].peer /\ knocks[j].status = "pending"
                  /\ knocks[k].status = "pending" => j = k
        /\ learned.secrets # {} =>
              \E k \in DOMAIN knocks :
                  /\ knocks[k].secret \in learned.secrets
                  /\ \A s \in learned.secrets : s <= knocks[k].secret

\* Of a token that is exchanged once, and whose knock is not decided meanwhile.
ExchangedOnce ==
    /\ \A h \in Handlers :
          Doing(h, "exchange") /\ trustCall[h].grant \notin trustRaced.exchange =>
             /\ knocks[trustCall[h].knock].status = "approved"
             /\ \A j \in Handlers : ~DecidesOn(j, trustCall[h].knock)
             /\ \A j \in Handlers : Exchanging(j, trustCall[h].grant) => j = h
             /\ TrustPc(h, {"use", "credential"}) => grants[trustCall[h].grant].credential = 0
    /\ \A c \in learned.credentials :
          c[1] \notin trustRaced.exchange => grants[c[1]].credential = c[2]

TrustIInv ==
    /\ TrustTypeOK
    /\ TrustSteps
    /\ Numbered
    /\ Linked
    /\ DecidedOnce
    /\ TaskTellsDecision
    /\ KnocksInTurn
    /\ ExchangedOnce

\* Types of single rows, and what there is of them.
LEMMA TrustTypes ==
  ASSUME TrustIInv
  PROVE  /\ MaxKnocks \in Nat /\ MaxGrants \in Nat /\ MaxTrustFaults \in Nat
         /\ made.knocks \in 0..MaxKnocks /\ made.grants \in 0..MaxGrants
         /\ made.credentials \in 0..MaxGrants
         /\ trustCall \in [Handlers -> TrustCallType]
         /\ NoTrustCall \in TrustCallType
         /\ DOMAIN knocks \subseteq Nat /\ DOMAIN grants \subseteq Nat \ {0}
         /\ learned.secrets \subseteq Nat
         /\ \A c \in learned.credentials : c[1] \in Grants /\ c[2] \in Grants
<1>1. MaxKnocks \in Nat /\ MaxGrants \in Nat /\ MaxTrustFaults \in Nat
  BY TrustAssumption
<1>2. trustCall \in [Handlers -> TrustCallType] /\ NoTrustCall \in TrustCallType
  BY DEF TrustIInv, TrustTypeOK, TrustCallType, NoTrustCall, TrustOps, TrustPCs
<1> QED
  BY <1>1, <1>2 DEF TrustIInv, TrustTypeOK, Knocks, Grants

-----------------------------------------------------------------------------
(* What keeps each part of the invariant.                                   *)

\* A handler goes on with what it does, or has nothing more to do.
GoesOnWith(j) ==
    \/ trustCall'[j] = NoTrustCall
    \/ /\ trustCall'[j].op = trustCall[j].op
       /\ trustCall'[j].grant = trustCall[j].grant
       /\ trustCall'[j].num = trustCall[j].num
       /\ trustCall'[j].peer = trustCall[j].peer
       /\ ~Doing(j, "knock") => trustCall'[j].knock = trustCall[j].knock

\* It is where it was, or does none of ops.
StaysOut(j, ops) == trustCall'[j] = trustCall[j] \/ trustCall'[j].op \notin ops

LEMMA StepsStay ==
  ASSUME TrustIInv, NEW h \in Handlers, StepAt(h)',
         \A j \in Handlers \ {h} : trustCall'[j] = trustCall[j],
         made.knocks <= made'.knocks, made.grants <= made'.grants,
         made.credentials <= made'.credentials,
         made'.knocks \in Nat, made'.grants \in Nat, made'.credentials \in Nat,
         DOMAIN knocks \subseteq DOMAIN knocks',
         \A g \in DOMAIN grants : g \in DOMAIN grants' /\ grants'[g].knock = grants[g].knock,
         \A j \in Handlers \ {h} :
            /\ Doing(j, "knock") => trustCall[j].num \notin DOMAIN knocks' \cup learned'.secrets
            /\ Doing(j, "approve") /\ TrustPc(j, {"grant"}) => trustCall[j].grant \notin DOMAIN grants'
  PROVE  TrustSteps'
<1> SUFFICES ASSUME NEW j \in Handlers \ {h} PROVE StepAt(j)'
  BY DEF TrustSteps
<1>1. StepAt(j)
  BY DEF TrustIInv, TrustSteps
<1>2. trustCall'[j] = trustCall[j]
  OBVIOUS
<1>3. /\ 1..made.knocks \subseteq 1..made'.knocks /\ 1..made.grants \subseteq 1..made'.grants
      /\ 1..made.credentials \subseteq 1..made'.credentials
  BY TrustTypes
<1> QED
  BY <1>1, <1>2, <1>3 DEF StepAt, Doing, TrustPc

LEMMA NumbersStay ==
  ASSUME TrustIInv, \A j \in Handlers : GoesOnWith(j), made' = made,
         DOMAIN knocks' \subseteq 1..made.knocks, learned'.secrets \subseteq 1..made.knocks,
         DOMAIN grants' \subseteq 1..made.grants
  PROVE  Numbered'
<1>1. NoTrustCall.op = "idle"
  BY DEF NoTrustCall
<1> QED
  BY <1>1 DEF TrustIInv, Numbered, GoesOnWith, Doing

LEMMA DecisionsStay ==
  ASSUME TrustIInv,
         \A j \in Handlers :
            \/ trustCall'[j] = trustCall[j]
            \/ /\ trustCall'[j].op \notin Decides
               /\ trustCall[j].op \in Decides => trustCall[j].knock \in trustRaced'.decide,
         trustRaced.decide \subseteq trustRaced'.decide,
         knockTasks' = knockTasks, DOMAIN knocks' = DOMAIN knocks,
         \A k \in DOMAIN knocks :
            knocks'[k].status = knocks[k].status /\ knocks'[k].grant = knocks[k].grant,
         DOMAIN grants' = DOMAIN grants,
         \A g \in DOMAIN grants : grants'[g].knock = grants[g].knock
  PROVE  DecidedOnce' /\ TaskTellsDecision'
<1>1. ASSUME NEW k \in DOMAIN knocks, k \notin trustRaced'.decide
      PROVE  OnceDecided(k)'
  <2>1. OnceDecided(k)
    BY <1>1 DEF TrustIInv, DecidedOnce
  <2>2. \A j \in Handlers :
           \/ trustCall'[j] = trustCall[j]
           \/ trustCall'[j].op \notin Decides /\ ~DecidesOn(j, k)
    BY <1>1 DEF DecidesOn
  <2>3. \A j \in Handlers : DecidesOn(j, k)' => DecidesOn(j, k) /\ trustCall'[j] = trustCall[j]
    BY <2>2 DEF DecidesOn
  <2>4. ASSUME NEW j \in Handlers, Doing(j, "approve"), trustCall[j].knock = k
        PROVE  trustCall'[j] = trustCall[j]
    BY <2>2, <2>4 DEF Doing, DecidesOn, Decides
  <2>5. \A i, j \in Handlers : DecidesOn(i, k)' /\ DecidesOn(j, k)' => i = j
    BY <2>1, <2>3 DEF OnceDecided
  <2>6. \A j \in Handlers : DecidesOn(j, k)' =>
           /\ Doing(j, "approve")' /\ TrustPc(j, {"grant", "update"})'
                 => knocks'[k].status = "pending"
           /\ Doing(j, "approve")' /\ TrustPc(j, {"settle"})'
                 => knocks'[k].status = "approved" /\ knocks'[k].grant = trustCall'[j].grant
           /\ Doing(j, "deny")' /\ TrustPc(j, {"settle"})' => knocks'[k].status = "denied"
    BY <1>1, <2>1, <2>3 DEF OnceDecided, Doing, TrustPc
  <2>7. ASSUME NEW g \in DOMAIN grants, grants'[g].knock = k
        PROVE  IF knocks'[k].status = "pending"
               THEN \E j \in Handlers : /\ Doing(j, "approve")' /\ TrustPc(j, {"update"})'
                                        /\ trustCall'[j].knock = k /\ trustCall'[j].grant = g
               ELSE knocks'[k].grant = g
    BY <1>1, <2>1, <2>4, <2>7 DEF OnceDecided, Doing, TrustPc
  <2> QED
    BY <2>5, <2>6, <2>7 DEF OnceDecided
<1>2. ASSUME NEW k \in DOMAIN knocks, k \notin trustRaced'.decide
      PROVE  \A j \in Handlers : DecidesOn(j, k) => DecidesOn(j, k)'
  BY <1>2 DEF DecidesOn
<1>3. TaskTellsDecision'
  BY <1>2 DEF TrustIInv, TaskTellsDecision, Busy, DecidesOn
<1> QED
  BY <1>1, <1>3 DEF DecidedOnce

LEMMA TurnStays ==
  ASSUME TrustIInv, \A j \in Handlers : StaysOut(j, {"knock"}),
         trustRaced'.knock <=> trustRaced.knock, learned'.secrets = learned.secrets,
         DOMAIN knocks' = DOMAIN knocks,
         \A k \in DOMAIN knocks :
            /\ knocks'[k].peer = knocks[k].peer /\ knocks'[k].secret = knocks[k].secret
            /\ knocks'[k].status = "pending" => knocks[k].status = "pending"
  PROVE  KnocksInTurn'
<1>1. \A j \in Handlers : Doing(j, "knock")' => Doing(j, "knock") /\ trustCall'[j] = trustCall[j]
  BY DEF StaysOut, Doing
<1> QED
  BY <1>1 DEF TrustIInv, KnocksInTurn, TrustPc

LEMMA ExchangesStay ==
  ASSUME TrustIInv, \A j \in Handlers : GoesOnWith(j),
         \A j \in Handlers : Doing(j, "exchange")' /\ TrustPc(j, {"use", "credential"})'
             => TrustPc(j, {"use", "credential"}),
         trustRaced.exchange \subseteq trustRaced'.exchange,
         learned'.credentials = learned.credentials,
         \A k \in DOMAIN knocks :
            knocks'[k].status = knocks[k].status \/ \E j \in Handlers : DecidesOn(j, k),
         \A g \in DOMAIN grants : grants'[g].credential = grants[g].credential
  PROVE  ExchangedOnce'
<1>1. \A j \in Handlers : Doing(j, "exchange")' =>
         /\ Doing(j, "exchange") /\ trustCall'[j].grant = trustCall[j].grant
         /\ trustCall'[j].knock = trustCall[j].knock
  BY DEF GoesOnWith, Doing, NoTrustCall
<1>2. \A j \in Handlers, k \in DOMAIN knocks : DecidesOn(j, k)' => DecidesOn(j, k)
  BY DEF GoesOnWith, DecidesOn, NoTrustCall, Decides, Doing
<1>3. \A j \in Handlers : Doing(j, "exchange") =>
         trustCall[j].knock \in DOMAIN knocks /\ trustCall[j].grant \in DOMAIN grants
  BY DEF TrustIInv, TrustSteps, StepAt
<1>4. ASSUME NEW j \in Handlers, Doing(j, "exchange")',
             trustCall'[j].grant \notin trustRaced'.exchange
      PROVE  /\ knocks'[trustCall'[j].knock].status = "approved"
             /\ \A i \in Handlers : ~DecidesOn(i, trustCall[j].knock)'
             /\ \A i \in Handlers : Exchanging(i, trustCall[j].grant)' => i = j
             /\ TrustPc(j, {"use", "credential"})' => grants'[trustCall'[j].grant].credential = 0
  <2>1. /\ Doing(j, "exchange") /\ trustCall[j].grant \notin trustRaced.exchange
        /\ trustCall'[j].grant = trustCall[j].grant /\ trustCall'[j].knock = trustCall[j].knock
    BY <1>1, <1>4
  <2>2. /\ knocks[trustCall[j].knock].status = "approved"
        /\ \A i \in Handlers : ~DecidesOn(i, trustCall[j].knock)
        /\ \A i \in Handlers : Exchanging(i, trustCall[j].grant) => i = j
        /\ TrustPc(j, {"use", "credential"}) => grants[trustCall[j].grant].credential = 0
    BY <2>1 DEF TrustIInv, ExchangedOnce
  <2>3. \A i \in Handlers : Exchanging(i, trustCall[j].grant)' => i = j
    BY <1>1, <2>1, <2>2 DEF Exchanging, Doing
  <2>4. \A i \in Handlers : ~DecidesOn(i, trustCall[j].knock)'
    BY <1>2, <1>3, <2>1, <2>2 DEF DecidesOn
  <2> QED
    BY <1>3, <1>4, <2>1, <2>2, <2>3, <2>4
<1>5. \A c \in learned'.credentials :
         c[1] \notin trustRaced'.exchange => grants'[c[1]].credential = c[2]
  BY DEF TrustIInv, ExchangedOnce, Linked
<1> QED
  BY <1>4, <1>5 DEF ExchangedOnce

-----------------------------------------------------------------------------
(* Requests that begin.                                                     *)

\* What TrustStart does to the handlers and to the history.
LEMMA StartIs ==
  ASSUME TrustIInv, NEW h \in Handlers, NEW frame \in TrustCallType, frame.op # "idle",
         frame.op \in Decides => frame.knock \in Knocks,
         frame.op = "exchange" => frame.grant \in Grants,
         TrustStart(h, frame)
  PROVE  /\ trustCall' \in [Handlers -> TrustCallType] /\ trustCall'[h] = frame
         /\ \A j \in Handlers \ {h} : trustCall'[j] = trustCall[j]
         /\ trustCall[h] = NoTrustCall
         /\ UNCHANGED <<trustTables, learned, trustFaults>>
         /\ trustRaced' \in [knock : BOOLEAN, decide : SUBSET Knocks, exchange : SUBSET Grants]
         /\ trustRaced.decide \subseteq trustRaced'.decide
         /\ trustRaced.exchange \subseteq trustRaced'.exchange
         /\ frame.op # "knock" => (trustRaced'.knock <=> trustRaced.knock)
         /\ frame.op = "knock" /\ ~trustRaced'.knock =>
               ~trustRaced.knock /\ \A j \in Handlers : ~Doing(j, "knock")
         /\ frame.op \in Decides /\ frame.knock \notin trustRaced'.decide =>
               \A j \in Handlers : ~DecidesOn(j, frame.knock)
         /\ frame.op = "exchange" /\ frame.grant \notin trustRaced'.exchange =>
               \A j \in Handlers : trustCall[j].knock = frame.knock =>
                  trustCall[j].op \notin {"exchange"} \cup Decides
         /\ frame.op \in Decides =>
               \A j \in Handlers : Doing(j, "exchange") /\ trustCall[j].knock = frame.knock
                  => trustCall[j].grant \in trustRaced'.exchange
<1>1. trustCall \in [Handlers -> TrustCallType]
  BY TrustTypes
<1>2. /\ trustCall' = [trustCall EXCEPT ![h] = frame] /\ trustCall[h] = NoTrustCall
      /\ UNCHANGED <<trustTables, learned, trustFaults>>
  BY DEF TrustStart
<1> DEFINE same(ops) == {k \in Busy(ops) : trustCall[k].knock = frame.knock}
           raced == trustRaced.knock \/ (frame.op = "knock" /\ Busy({"knock"}) # {})
           decided == {k \in {frame.knock} : frame.op \in Decides /\ same(Decides) # {}}
           mine == {g \in {frame.grant} : frame.op = "exchange" /\
                                        same({"exchange"} \cup Decides) # {}}
           theirs == {trustCall[k].grant : k \in {j \in same({"exchange"}) :
                                                 frame.op \in Decides}}
<1>3. trustRaced' = [knock |-> raced, decide |-> trustRaced.decide \cup decided,
                     exchange |-> trustRaced.exchange \cup mine \cup theirs]
  BY DEF TrustStart
<1>4. /\ trustRaced \in [knock : BOOLEAN, decide : SUBSET Knocks, exchange : SUBSET Grants]
      /\ raced \in BOOLEAN
  BY DEF TrustIInv, TrustTypeOK
<1>5. decided \subseteq Knocks
  OBVIOUS
<1>6. mine \subseteq Grants
  OBVIOUS
<1>7. theirs \subseteq Grants
  <2>1. \A j \in Handlers : Doing(j, "exchange") => trustCall[j].grant \in Grants
    BY DEF TrustIInv, TrustSteps, StepAt, TrustTypeOK
  <2> QED
    BY <2>1 DEF Busy, Doing
<1>8. frame.op = "knock" /\ ~raced => \A j \in Handlers : ~Doing(j, "knock")
  BY DEF Busy, Doing
<1>9. frame.op # "knock" => (raced <=> trustRaced.knock)
  OBVIOUS
<1>10. frame.op \in Decides /\ frame.knock \notin decided
         => \A j \in Handlers : ~DecidesOn(j, frame.knock)
  BY DEF Busy, DecidesOn
<1>11. frame.op = "exchange" /\ frame.grant \notin mine =>
          \A j \in Handlers : trustCall[j].knock = frame.knock =>
             trustCall[j].op \notin {"exchange"} \cup Decides
  BY DEF Busy
<1>12. frame.op \in Decides =>
          \A j \in Handlers : Doing(j, "exchange") /\ trustCall[j].knock = frame.knock
             => trustCall[j].grant \in theirs
  BY DEF Busy, Doing
<1>13. /\ trustCall' \in [Handlers -> TrustCallType] /\ trustCall'[h] = frame
       /\ \A j \in Handlers \ {h} : trustCall'[j] = trustCall[j]
  BY <1>1, <1>2
<1> HIDE DEF same, raced, decided, mine, theirs
<1>14. /\ trustRaced' \in [knock : BOOLEAN, decide : SUBSET Knocks, exchange : SUBSET Grants]
       /\ trustRaced'.knock <=> raced
       /\ trustRaced'.decide = trustRaced.decide \cup decided
       /\ trustRaced'.exchange = trustRaced.exchange \cup mine \cup theirs
  BY <1>3, <1>4, <1>5, <1>6, <1>7
<1>15. ~raced => ~trustRaced.knock
  BY DEF raced
<1> QED
  BY <1>2, <1>8, <1>9, <1>10, <1>11, <1>12, <1>13, <1>14, <1>15

LEMMA StartKnockKeeps ==
  ASSUME TrustIInv, NEW h \in Handlers, NEW p \in Peers, StartKnock(h, p)
  PROVE  TrustIInv'
<1> DEFINE n == made.knocks + 1
           frame == [NoTrustCall EXCEPT !.op = "knock", !.pc = "find", !.peer = p, !.num = n]
<1>1. n \in Knocks /\ n \notin 1..made.knocks
  BY TrustTypes DEF StartKnock, Knocks
<1>2. /\ frame \in TrustCallType /\ frame.op = "knock" /\ frame.pc = "find"
      /\ frame.peer = p /\ frame.num = n
  <2> HIDE DEF n
  <2> QED
    BY <1>1 DEF NoTrustCall, TrustCallType, TrustOps, TrustPCs
<1>3. /\ made' \in [knocks : 0..MaxKnocks, grants : 0..MaxGrants, credentials : 0..MaxGrants]
      /\ made'.knocks = n /\ made'.grants = made.grants /\ made'.credentials = made.credentials
  BY TrustTypes DEF TrustIInv, TrustTypeOK, StartKnock
<1>4. TrustStart(h, frame)
  BY DEF StartKnock
<1> HIDE DEF frame
<1>5. /\ trustCall' \in [Handlers -> TrustCallType] /\ trustCall'[h] = frame
      /\ \A j \in Handlers \ {h} : trustCall'[j] = trustCall[j]
      /\ trustCall[h] = NoTrustCall
      /\ UNCHANGED <<trustTables, learned, trustFaults>>
      /\ trustRaced' \in [knock : BOOLEAN, decide : SUBSET Knocks, exchange : SUBSET Grants]
      /\ trustRaced.decide \subseteq trustRaced'.decide
      /\ trustRaced.exchange \subseteq trustRaced'.exchange
      /\ ~trustRaced'.knock => ~trustRaced.knock /\ \A j \in Handlers : ~Doing(j, "knock")
  BY <1>2, <1>4, StartIs DEF Decides
<1>6. TrustTypeOK'
  BY <1>3, <1>5 DEF TrustIInv, TrustTypeOK, TrustCallType, trustTables
<1>7. TrustSteps'
  <2>1. StepAt(h)'
    <3>1. n \in 1..made'.knocks /\ n \notin DOMAIN knocks /\ n \notin learned.secrets
      BY <1>1, <1>3, TrustTypes DEF TrustIInv, Numbered
    <3> QED
      BY <1>2, <1>5, <3>1 DEF StepAt, Doing, TrustPc, trustTables
  <2>2. \A j \in Handlers : StepAt(j)
    BY DEF TrustIInv, TrustSteps
  <2> QED
    BY <1>3, <1>5, <2>1, <2>2, StepsStay, TrustTypes DEF trustTables, StepAt
<1>8. Numbered'
  <2>1. 1..made.knocks \subseteq 1..made'.knocks
    BY <1>3, TrustTypes
  <2>2. \A j \in Handlers : Doing(j, "knock") => trustCall[j].num # n
    BY <1>1 DEF TrustIInv, TrustSteps, StepAt
  <2> QED
    BY <1>2, <1>3, <1>5, <2>1, <2>2 DEF TrustIInv, Numbered, Doing, trustTables
<1>9. Linked'
  BY <1>5 DEF TrustIInv, Linked, trustTables
<1>10. DecidedOnce' /\ TaskTellsDecision'
  <2>1. frame.op \notin Decides /\ trustCall[h].op \notin Decides
    BY <1>2, <1>5 DEF Decides, NoTrustCall
  <2> QED
    BY <1>5, <2>1, DecisionsStay DEF trustTables
<1>11. KnocksInTurn'
  <2>1. \A s \in learned.secrets : s < n
    BY <1>1, TrustTypes DEF TrustIInv, Numbered
  <2> QED
    BY <1>2, <1>5, <2>1 DEF TrustIInv, KnocksInTurn, Doing, TrustPc, trustTables
<1>12. ExchangedOnce'
  <2>1. \A j \in Handlers : trustCall'[j].op \in {"exchange"} \cup Decides
           => trustCall'[j] = trustCall[j]
    BY <1>2, <1>5 DEF Decides
  <2> QED
    BY <1>5, <2>1 DEF TrustIInv, ExchangedOnce, Exchanging, DecidesOn, Doing, TrustPc, trustTables
<1> QED
  BY <1>6, <1>7, <1>8, <1>9, <1>10, <1>11, <1>12 DEF TrustIInv


-----------------------------------------------------------------------------
(* Steps of a request.                                                      *)

LEMMA GotoIs ==
  ASSUME TrustIInv, NEW h \in Handlers, NEW pc \in TrustPCs, TrustGoto(h, pc)
  PROVE  /\ trustCall' \in [Handlers -> TrustCallType]
         /\ trustCall'[h].pc = pc /\ trustCall'[h].op = trustCall[h].op
         /\ trustCall'[h].knock = trustCall[h].knock /\ trustCall'[h].grant = trustCall[h].grant
         /\ trustCall'[h].num = trustCall[h].num /\ trustCall'[h].peer = trustCall[h].peer
         /\ \A j \in Handlers \ {h} : trustCall'[j] = trustCall[j]
         /\ \A j \in Handlers : GoesOnWith(j)
<1>1. trustCall \in [Handlers -> TrustCallType]
  BY TrustTypes
<1>2. trustCall[h] \in TrustCallType
  BY <1>1
<1> DEFINE frame == [trustCall[h] EXCEPT !.pc = pc]
<1>3. /\ frame \in TrustCallType /\ frame.pc = pc /\ frame.op = trustCall[h].op
      /\ frame.knock = trustCall[h].knock /\ frame.grant = trustCall[h].grant
      /\ frame.num = trustCall[h].num /\ frame.peer = trustCall[h].peer
  BY <1>2 DEF TrustCallType
<1>4. trustCall' = [trustCall EXCEPT ![h] = frame]
  BY <1>1 DEF TrustGoto
<1> HIDE DEF frame
<1>5. /\ trustCall' \in [Handlers -> TrustCallType] /\ trustCall'[h] = frame
      /\ \A j \in Handlers \ {h} : trustCall'[j] = trustCall[j]
  BY <1>1, <1>3, <1>4
<1> QED
  BY <1>3, <1>5 DEF GoesOnWith

LEMMA DoneIs ==
  ASSUME TrustIInv, NEW h \in Handlers, TrustDone(h)
  PROVE  /\ trustCall' \in [Handlers -> TrustCallType] /\ trustCall'[h] = NoTrustCall
         /\ \A j \in Handlers \ {h} : trustCall'[j] = trustCall[j]
         /\ \A j \in Handlers : GoesOnWith(j)
         /\ \A j \in Handlers, ops \in SUBSET (TrustOps \ {"idle"}) : StaysOut(j, ops)
         /\ StepAt(h)'
<1>1. /\ trustCall' \in [Handlers -> TrustCallType] /\ trustCall'[h] = NoTrustCall
      /\ \A j \in Handlers \ {h} : trustCall'[j] = trustCall[j]
  BY TrustTypes DEF TrustDone
<1>2. NoTrustCall.op = "idle"
  BY DEF NoTrustCall
<1>3. StepAt(h)'
  BY <1>1, <1>2 DEF StepAt, Doing
<1> QED
  BY <1>1, <1>2, <1>3 DEF GoesOnWith, StaysOut

LEMMA FindPendingKeeps ==
  ASSUME TrustIInv, NEW h \in Handlers, FindPending(h)
  PROVE  TrustIInv'
<1> DEFINE pending == {k \in DOMAIN knocks : /\ knocks[k].peer = trustCall[h].peer
                                             /\ knocks[k].status = "pending"}
<1>1. /\ trustCall \in [Handlers -> TrustCallType] /\ trustCall[h] \in TrustCallType
      /\ Doing(h, "knock") /\ UNCHANGED <<trustTables, trustHistory>>
  BY TrustTypes DEF FindPending, TrustAt, Doing
<1> DEFINE Sought ==
      /\ trustCall' \in [Handlers -> TrustCallType]
      /\ \A j \in Handlers \ {h} : trustCall'[j] = trustCall[j]
      /\ trustCall'[h].op = trustCall[h].op /\ trustCall'[h].grant = trustCall[h].grant
      /\ trustCall'[h].num = trustCall[h].num /\ trustCall'[h].peer = trustCall[h].peer
      /\ \/ trustCall'[h].pc = "renew" /\ trustCall'[h].knock \in DOMAIN knocks
         \/ trustCall'[h].pc = "insert" /\ pending = {}
<1>2. Sought
  <2>1. CASE pending = {} /\ TrustGoto(h, "insert")
    BY <2>1, GotoIs DEF TrustPCs
  <2>2. ASSUME NEW k \in pending,
               trustCall' = [trustCall EXCEPT ![h].pc = "renew", ![h].knock = k]
        PROVE  Sought
    <3> DEFINE frame == [trustCall[h] EXCEPT !.pc = "renew", !.knock = k]
    <3>1. /\ frame \in TrustCallType /\ frame.pc = "renew" /\ frame.op = trustCall[h].op
          /\ frame.knock = k /\ frame.grant = trustCall[h].grant
          /\ frame.num = trustCall[h].num /\ frame.peer = trustCall[h].peer
      BY <1>1, <2>2 DEF TrustCallType, TrustPCs, TrustIInv, TrustTypeOK
    <3>2. trustCall' = [trustCall EXCEPT ![h] = frame]
      BY <1>1, <2>2
    <3> HIDE DEF frame
    <3> QED
      BY <1>1, <2>2, <3>1, <3>2
  <2>3. (\E k \in pending : trustCall' = [trustCall EXCEPT ![h].pc = "renew", ![h].knock = k])
        \/ (pending = {} /\ TrustGoto(h, "insert"))
    BY DEF FindPending
  <2> QED
    BY <2>1, <2>2, <2>3
<1>3. TrustTypeOK'
  BY <1>1, <1>2 DEF TrustIInv, TrustTypeOK, TrustCallType, trustTables, trustHistory
<1>4. TrustSteps'
  <2>1. \A j \in Handlers : StepAt(j)
    BY DEF TrustIInv, TrustSteps
  <2>2. StepAt(h)'
    BY <1>1, <1>2, <2>1 DEF StepAt, Doing, TrustPc, trustTables, trustHistory
  <2> QED
    BY <1>1, <1>2, <2>1, <2>2 DEF TrustSteps, StepAt, Doing, TrustPc, trustTables, trustHistory
<1>5. \A j \in Handlers : GoesOnWith(j)
  BY <1>1, <1>2 DEF GoesOnWith
<1>6. Numbered'
  BY <1>1, <1>5, NumbersStay DEF TrustIInv, Numbered, trustTables, trustHistory
<1>7. Linked'
  BY <1>1 DEF TrustIInv, Linked, trustTables, trustHistory
<1>8. DecidedOnce' /\ TaskTellsDecision'
  <2>1. trustCall[h].op \notin Decides /\ trustCall'[h].op \notin Decides
    BY <1>1, <1>2 DEF Doing, Decides
  <2> QED
    BY <1>1, <1>2, <2>1, DecisionsStay DEF trustTables, trustHistory
<1>9. KnocksInTurn'
  BY <1>1, <1>2 DEF TrustIInv, KnocksInTurn, Doing, TrustPc, trustTables, trustHistory
<1>10. ExchangedOnce'
  BY <1>1, <1>2, <1>5, ExchangesStay DEF Doing, TrustPc, trustTables, trustHistory
<1> QED
  BY <1>3, <1>4, <1>6, <1>7, <1>8, <1>9, <1>10 DEF TrustIInv

LEMMA RenewKnockKeeps ==
  ASSUME TrustIInv, NEW h \in Handlers, RenewKnock(h)
  PROVE  TrustIInv'
<1> DEFINE k == trustCall[h].knock
           n == trustCall[h].num
<1>1. /\ Doing(h, "knock") /\ StepAt(h) /\ TrustPc(h, {"renew"})
      /\ k \in DOMAIN knocks /\ n \in 1..made.knocks /\ n \in Knocks
      /\ n \notin learned.secrets /\ n \notin DOMAIN knocks
  <2>1. StepAt(h) /\ Doing(h, "knock") /\ TrustPc(h, {"renew"})
    BY DEF TrustIInv, TrustSteps, RenewKnock, TrustAt, Doing, TrustPc
  <2>2. 1..made.knocks \subseteq Knocks
    BY TrustTypes DEF Knocks
  <2> QED
    BY <2>1, <2>2 DEF StepAt
<1>2. /\ trustCall' \in [Handlers -> TrustCallType] /\ trustCall'[h] = NoTrustCall
      /\ \A j \in Handlers \ {h} : trustCall'[j] = trustCall[j]
      /\ \A j \in Handlers : GoesOnWith(j)
      /\ \A j \in Handlers, ops \in SUBSET (TrustOps \ {"idle"}) : StaysOut(j, ops)
      /\ StepAt(h)'
  BY DoneIs DEF RenewKnock
<1>3. UNCHANGED <<knockTasks, grants, made, trustRaced, trustFaults>>
  BY DEF RenewKnock
<1>4. /\ DOMAIN knocks' = DOMAIN knocks
      /\ \A i \in DOMAIN knocks : /\ knocks'[i] \in KnockRow
                                  /\ knocks'[i].peer = knocks[i].peer
                                  /\ knocks'[i].status = knocks[i].status
                                  /\ knocks'[i].grant = knocks[i].grant
      /\ knocks'[k].secret = n
  <2>1. \A i \in DOMAIN knocks : knocks[i] \in KnockRow
    BY DEF TrustIInv, TrustTypeOK
  <2>2. knocks' = [knocks EXCEPT ![k].secret = n]
    BY DEF RenewKnock
  <2> HIDE DEF k, n
  <2> QED
    BY <1>1, <2>1, <2>2 DEF KnockRow
<1>5. /\ learned' \in [secrets : SUBSET Knocks, tokens : SUBSET Grants,
                       credentials : SUBSET (Grants \X Grants)]
      /\ learned'.secrets = learned.secrets \cup {n} /\ learned'.credentials = learned.credentials
  <2>1. learned' = [learned EXCEPT !["secrets"] = @ \cup {n}]
    BY DEF RenewKnock, Learn
  <2> HIDE DEF n
  <2> QED
    BY <1>1, <2>1 DEF TrustIInv, TrustTypeOK
<1> HIDE DEF k, n
<1>6. TrustTypeOK'
  BY <1>2, <1>3, <1>4, <1>5 DEF TrustIInv, TrustTypeOK, TrustCallType
<1>7. TrustSteps'
  <2>1. \A j \in Handlers \ {h} : Doing(j, "knock") => trustCall[j].num # n
    BY <1>1 DEF TrustIInv, Numbered, n
  <2>2. \A j \in Handlers : StepAt(j)
    BY DEF TrustIInv, TrustSteps
  <2>3. \A j \in Handlers \ {h} :
            /\ Doing(j, "knock") => trustCall[j].num \notin DOMAIN knocks' \cup learned'.secrets
            /\ Doing(j, "approve") /\ TrustPc(j, {"grant"}) => trustCall[j].grant \notin DOMAIN grants'
    BY <1>3, <1>4, <1>5, <2>1, <2>2 DEF StepAt
  <2> QED
    BY <1>2, <1>3, <1>4, <2>3, StepsStay, TrustTypes
<1>8. Numbered'
  BY <1>1, <1>2, <1>3, <1>4, <1>5, NumbersStay DEF TrustIInv, Numbered
<1>9. Linked'
  BY <1>3, <1>4, <1>5 DEF TrustIInv, Linked
<1>10. DecidedOnce' /\ TaskTellsDecision'
  <2>1. trustCall[h].op \notin Decides /\ trustCall'[h].op \notin Decides
    BY <1>1, <1>2 DEF Doing, Decides, NoTrustCall
  <2> QED
    BY <1>2, <1>3, <1>4, <2>1, DecisionsStay
<1>11. KnocksInTurn'
  <2> SUFFICES ASSUME ~trustRaced.knock PROVE KnocksInTurn'
    BY <1>3 DEF KnocksInTurn
  <2>1. \A j \in Handlers : ~Doing(j, "knock")'
    BY <1>1, <1>2 DEF TrustIInv, KnocksInTurn, Doing, NoTrustCall
  <2>2. \A s \in learned'.secrets : s <= n
    BY <1>1, <1>5, TrustTypes DEF TrustIInv, KnocksInTurn, n
  <2> QED
    BY <1>1, <1>4, <1>5, <2>1, <2>2 DEF TrustIInv, KnocksInTurn
<1>12. ExchangedOnce'
  <2>1. \A j \in Handlers : TrustPc(j, {"use", "credential"})' => TrustPc(j, {"use", "credential"})
    BY <1>2 DEF TrustPc, NoTrustCall
  <2> QED
    BY <1>2, <1>3, <1>4, <1>5, <2>1, ExchangesStay
<1> QED
  BY <1>6, <1>7, <1>8, <1>9, <1>10, <1>11, <1>12 DEF TrustIInv

LEMMA InsertKnockKeeps ==
  ASSUME TrustIInv, NEW h \in Handlers, InsertKnock(h)
  PROVE  TrustIInv'
<1> DEFINE n == trustCall[h].num
           asked == [state |-> "input_required", grant |-> 0]
           row == [peer |-> trustCall[h].peer, status |-> "pending",
                   secret |-> n, grant |-> 0, used |-> FALSE]
<1>1. /\ Doing(h, "knock") /\ TrustPc(h, {"insert"}) /\ trustCall[h].peer \in Peers
      /\ n \in 1..made.knocks /\ n \in Knocks
      /\ n \notin learned.secrets /\ n \notin DOMAIN knocks
  <2>1. StepAt(h) /\ Doing(h, "knock") /\ TrustPc(h, {"insert"})
    BY DEF TrustIInv, TrustSteps, InsertKnock, TrustAt, Doing, TrustPc
  <2>2. 1..made.knocks \subseteq Knocks
    BY TrustTypes DEF Knocks
  <2> QED
    BY <2>1, <2>2 DEF StepAt
<1>2. /\ trustCall' \in [Handlers -> TrustCallType] /\ trustCall'[h] = NoTrustCall
      /\ \A j \in Handlers \ {h} : trustCall'[j] = trustCall[j]
      /\ \A j \in Handlers : GoesOnWith(j)
      /\ StepAt(h)'
  BY DoneIs DEF InsertKnock
<1>3. UNCHANGED <<grants, made, trustRaced, trustFaults>>
  BY DEF InsertKnock
<1>4. knockTasks' = With(knockTasks, n, asked) /\ knocks' = With(knocks, n, row)
  BY DEF InsertKnock
<1>5. /\ row \in KnockRow /\ asked \in TaskRow /\ row.status = "pending" /\ row.grant = 0
      /\ row.secret = n /\ row.peer = trustCall[h].peer
  <2> HIDE DEF n
  <2> QED
    BY <1>1 DEF KnockRow, TaskRow
<1>6. /\ learned' \in [secrets : SUBSET Knocks, tokens : SUBSET Grants,
                       credentials : SUBSET (Grants \X Grants)]
      /\ learned'.secrets = learned.secrets \cup {n} /\ learned'.credentials = learned.credentials
  <2>1. learned' = [learned EXCEPT !["secrets"] = @ \cup {n}]
    BY DEF InsertKnock, Learn
  <2> HIDE DEF n
  <2> QED
    BY <1>1, <2>1 DEF TrustIInv, TrustTypeOK
<1> HIDE DEF n, row, asked
<1>7. /\ DOMAIN knocks' = DOMAIN knocks \cup {n} /\ knocks'[n] = row
      /\ \A k \in DOMAIN knocks : knocks'[k] = knocks[k] /\ k # n
      /\ DOMAIN knockTasks' = DOMAIN knocks \cup {n} /\ knockTasks'[n] = asked
      /\ \A k \in DOMAIN knocks : knockTasks'[k] = knockTasks[k]
      /\ DOMAIN knockTasks = DOMAIN knocks
  <2>1. DOMAIN knockTasks = DOMAIN knocks
    BY DEF TrustIInv, TrustTypeOK
  <2>2. /\ DOMAIN With(knocks, n, row) = DOMAIN knocks \cup {n}
        /\ With(knocks, n, row)[n] = row
        /\ \A k \in DOMAIN knocks \ {n} : With(knocks, n, row)[k] = knocks[k]
    BY DEF With
  <2>3. /\ DOMAIN With(knockTasks, n, asked) = DOMAIN knocks \cup {n}
        /\ With(knockTasks, n, asked)[n] = asked
        /\ \A k \in DOMAIN knocks \ {n} : With(knockTasks, n, asked)[k] = knockTasks[k]
    BY <2>1 DEF With
  <2> QED
    BY <1>1, <1>4, <2>1, <2>2, <2>3
<1>8. TrustTypeOK'
  BY <1>1, <1>2, <1>3, <1>5, <1>6, <1>7 DEF TrustIInv, TrustTypeOK, TrustCallType
<1>9. TrustSteps'
  <2>1. \A j \in Handlers \ {h} : Doing(j, "knock") => trustCall[j].num # n
    BY <1>1 DEF TrustIInv, Numbered, n
  <2>2. \A j \in Handlers : StepAt(j)
    BY DEF TrustIInv, TrustSteps
  <2>3. \A j \in Handlers \ {h} :
            /\ Doing(j, "knock") => trustCall[j].num \notin DOMAIN knocks' \cup learned'.secrets
            /\ Doing(j, "approve") /\ TrustPc(j, {"grant"}) => trustCall[j].grant \notin DOMAIN grants'
    BY <1>3, <1>6, <1>7, <2>1, <2>2 DEF StepAt
  <2> QED
    BY <1>2, <1>3, <1>7, <2>3, StepsStay, TrustTypes
<1>10. Numbered'
  BY <1>1, <1>2, <1>3, <1>6, <1>7, NumbersStay DEF TrustIInv, Numbered
<1>11. Linked'
  BY <1>3, <1>5, <1>6, <1>7 DEF TrustIInv, Linked
<1>12. \A j \in Handlers : trustCall'[j].op # "idle" => j # h /\ trustCall'[j] = trustCall[j]
  BY <1>2 DEF NoTrustCall
<1>13. \A j \in Handlers : trustCall[j].op \in {"exchange"} \cup Decides
          => trustCall'[j] = trustCall[j] /\ trustCall[j].knock \in DOMAIN knocks
  <2>1. \A j \in Handlers : StepAt(j)
    BY DEF TrustIInv, TrustSteps
  <2> QED
    BY <1>1, <1>2, <2>1 DEF StepAt, Doing, Decides
<1>14. \A j \in Handlers, k \in DOMAIN knocks' :
          DecidesOn(j, k)' <=> DecidesOn(j, k) /\ k # n
  BY <1>1, <1>7, <1>12, <1>13 DEF DecidesOn, Decides
<1>15. DecidedOnce'
  <2> SUFFICES ASSUME NEW k \in DOMAIN knocks', k \notin trustRaced.decide
               PROVE  OnceDecided(k)'
    BY <1>3 DEF DecidedOnce
  <2>1. CASE k = n
    <3>1. \A j \in Handlers : ~DecidesOn(j, k)'
      BY <1>14, <2>1
    <3>2. \A g \in DOMAIN grants' : grants'[g].knock # k
      BY <1>1, <1>3, <2>1 DEF TrustIInv, Linked
    <3> QED
      BY <3>1, <3>2 DEF OnceDecided
  <2>2. CASE k \in DOMAIN knocks
    <3>1. OnceDecided(k)
      BY <2>2 DEF TrustIInv, DecidedOnce
    <3>2. \A j \in Handlers : DecidesOn(j, k)' => DecidesOn(j, k) /\ trustCall'[j] = trustCall[j]
      BY <1>12, <1>14 DEF DecidesOn, Decides
    <3>3. \A j \in Handlers : Doing(j, "approve") => trustCall'[j] = trustCall[j]
      BY <1>13 DEF Doing, Decides
    <3>4. knocks'[k] = knocks[k]
      BY <1>7, <2>2
    <3> QED
      BY <1>3, <3>1, <3>2, <3>3, <3>4 DEF OnceDecided, Doing, TrustPc
  <2> QED
    BY <1>7, <2>1, <2>2
<1>16. TaskTellsDecision'
  <2>1. ASSUME NEW k \in DOMAIN knocks', k \notin trustRaced.decide,
               \A j \in Handlers : ~DecidesOn(j, k)'
        PROVE  knockTasks'[k] = CASE knocks'[k].status = "pending" ->
                                  [state |-> "input_required", grant |-> 0]
                             [] knocks'[k].status = "denied" ->
                                  [state |-> "denied", grant |-> 0]
                             [] knocks'[k].status = "approved" ->
                                  [state |-> "approved", grant |-> knocks'[k].grant]
    <3>1. CASE k = n
      BY <1>5, <1>7, <3>1 DEF asked
    <3>2. CASE k \in DOMAIN knocks
      <4>1. \A j \in Handlers : ~DecidesOn(j, k)
        BY <1>7, <1>14, <2>1, <3>2
      <4> QED
        BY <1>7, <2>1, <3>2, <4>1 DEF TrustIInv, TaskTellsDecision, Busy, DecidesOn
    <3> QED
      BY <1>7, <2>1, <3>1, <3>2
  <2> QED
    BY <1>3, <2>1 DEF TaskTellsDecision, Busy, DecidesOn
<1>17. KnocksInTurn'
  <2> SUFFICES ASSUME ~trustRaced.knock PROVE KnocksInTurn'
    BY <1>3 DEF KnocksInTurn
  <2>1. \A j \in Handlers : ~Doing(j, "knock")'
    BY <1>1, <1>12 DEF TrustIInv, KnocksInTurn, Doing
  <2>2. \A s \in learned'.secrets : s <= n
    BY <1>1, <1>6, TrustTypes DEF TrustIInv, KnocksInTurn, n
  <2>3. \A k \in DOMAIN knocks : knocks[k].peer = row.peer => knocks[k].status # "pending"
    BY <1>1, <1>5 DEF TrustIInv, KnocksInTurn
  <2>4. \A j, k \in DOMAIN knocks' :
              knocks'[j].peer = knocks'[k].peer /\ knocks'[j].status = "pending"
                  /\ knocks'[k].status = "pending" => j = k
    BY <1>7, <2>3 DEF TrustIInv, KnocksInTurn
  <2> QED
    BY <1>5, <1>6, <1>7, <2>1, <2>2, <2>4 DEF KnocksInTurn
<1>18. ExchangedOnce'
  <2>1. \A j \in Handlers : TrustPc(j, {"use", "credential"})' => TrustPc(j, {"use", "credential"})
    BY <1>2 DEF TrustPc, NoTrustCall
  <2> QED
    BY <1>2, <1>3, <1>6, <1>7, <2>1, ExchangesStay
<1> QED
  BY <1>8, <1>9, <1>10, <1>11, <1>15, <1>16, <1>17, <1>18 DEF TrustIInv

\* A decision on k begins: nobody has decided it yet, or history says so.
LEMMA DecisionBegins ==
  ASSUME TrustIInv, NEW h \in Handlers, NEW k \in DOMAIN knocks,
         trustCall[h] = NoTrustCall,
         trustCall'[h].op \in Decides, trustCall'[h].knock = k,
         \/ /\ trustCall'[h].op = "approve" /\ trustCall'[h].pc = "grant"
            /\ knocks[k].status = "pending"
         \/ trustCall'[h].op = "deny" /\ trustCall'[h].pc = "update",
         \A j \in Handlers \ {h} : trustCall'[j] = trustCall[j],
         trustRaced.decide \subseteq trustRaced'.decide,
         k \notin trustRaced'.decide => \A j \in Handlers : ~DecidesOn(j, k),
         UNCHANGED <<knocks, knockTasks, grants>>
  PROVE  DecidedOnce' /\ TaskTellsDecision'
<1>1. trustCall[h].op \notin Decides
  BY DEF NoTrustCall, Decides
<1>2. \A j \in Handlers, i \in DOMAIN knocks :
         /\ DecidesOn(j, i) => DecidesOn(j, i)' /\ trustCall'[j] = trustCall[j]
         /\ DecidesOn(j, i)' => (j = h /\ i = k) \/ (j # h /\ DecidesOn(j, i))
  BY <1>1 DEF DecidesOn
<1>3. ASSUME NEW i \in DOMAIN knocks, i \notin trustRaced'.decide
      PROVE  OnceDecided(i)'
  <2>1. OnceDecided(i)
    BY <1>3 DEF TrustIInv, DecidedOnce
  <2>2. \A j \in Handlers : Doing(j, "approve") => trustCall'[j] = trustCall[j]
    BY <1>1 DEF Doing, Decides
  <2>3. \A g \in DOMAIN grants : grants[g].knock = i =>
           IF knocks[i].status = "pending"
           THEN \E j \in Handlers : /\ Doing(j, "approve")' /\ TrustPc(j, {"update"})'
                                    /\ trustCall'[j].knock = i /\ trustCall'[j].grant = g
           ELSE knocks[i].grant = g
    BY <2>1, <2>2 DEF OnceDecided, Doing, TrustPc
  <2>4. CASE i = k
    <3>1. \A j \in Handlers : DecidesOn(j, i)' => j = h
      BY <1>2, <1>3, <2>4
    <3> QED
      BY <2>3, <2>4, <3>1 DEF OnceDecided, Doing, TrustPc
  <2>5. CASE i # k
    <3>1. \A j \in Handlers : DecidesOn(j, i)' => DecidesOn(j, i) /\ trustCall'[j] = trustCall[j]
      BY <1>2, <2>5
    <3> QED
      BY <2>1, <2>3, <3>1 DEF OnceDecided, Doing, TrustPc
  <2> QED
    BY <2>4, <2>5
<1>4. TaskTellsDecision'
  <2>1. \A i \in DOMAIN knocks : (\E j \in Busy(Decides) : trustCall[j].knock = i)
           => \E j \in Busy(Decides)' : trustCall'[j].knock = i
    BY <1>2 DEF Busy, DecidesOn
  <2> QED
    BY <2>1 DEF TrustIInv, TaskTellsDecision
<1> QED
  BY <1>3, <1>4 DEF DecidedOnce

\* An exchange that a decision disturbs is in the history.
LEMMA ExchangesYield ==
  ASSUME TrustIInv, NEW h \in Handlers, NEW k \in DOMAIN knocks,
         trustCall'[h].op \in Decides, trustCall'[h].knock = k,
         \A j \in Handlers \ {h} : trustCall'[j] = trustCall[j],
         trustRaced.exchange \subseteq trustRaced'.exchange,
         \A j \in Handlers : Doing(j, "exchange") /\ trustCall[j].knock = k
            => trustCall[j].grant \in trustRaced'.exchange,
         UNCHANGED <<knocks, grants, learned>>
  PROVE  ExchangedOnce'
<1>1. \A j \in Handlers : Doing(j, "exchange")' =>
         j # h /\ Doing(j, "exchange") /\ trustCall'[j] = trustCall[j]
  BY DEF Doing, Decides
<1>2. ASSUME NEW j \in Handlers, Doing(j, "exchange")',
             trustCall[j].grant \notin trustRaced'.exchange
      PROVE  \A i \in Handlers : ~DecidesOn(i, trustCall[j].knock)'
  BY <1>1, <1>2 DEF TrustIInv, ExchangedOnce, DecidesOn
<1> QED
  BY <1>1, <1>2 DEF TrustIInv, ExchangedOnce, Exchanging, TrustPc, DecidesOn

-----------------------------------------------------------------------------
(* Decisions.                                                               *)

LEMMA StartApproveKeeps ==
  ASSUME TrustIInv, NEW h \in Handlers, NEW k \in Knocks, StartApprove(h, k)
  PROVE  TrustIInv'
<1> DEFINE n == made.grants + 1
           frame == [NoTrustCall EXCEPT !.op = "approve", !.pc = "grant",
                        !.knock = k, !.grant = n]
<1>1. n \in Grants /\ n \notin 1..made.grants /\ k \in DOMAIN knocks /\ knocks[k].status = "pending"
  BY TrustTypes DEF StartApprove, Grants
<1>2. /\ frame \in TrustCallType /\ frame.op = "approve" /\ frame.pc = "grant"
      /\ frame.knock = k /\ frame.grant = n
  <2> HIDE DEF n
  <2> QED
    BY <1>1 DEF NoTrustCall, TrustCallType, TrustOps, TrustPCs
<1>3. /\ made' \in [knocks : 0..MaxKnocks, grants : 0..MaxGrants, credentials : 0..MaxGrants]
      /\ made'.grants = n /\ made'.knocks = made.knocks /\ made'.credentials = made.credentials
  BY TrustTypes DEF TrustIInv, TrustTypeOK, StartApprove
<1>4. TrustStart(h, frame)
  BY DEF StartApprove
<1> HIDE DEF frame
<1>5. /\ trustCall' \in [Handlers -> TrustCallType] /\ trustCall'[h] = frame
      /\ \A j \in Handlers \ {h} : trustCall'[j] = trustCall[j]
      /\ trustCall[h] = NoTrustCall
      /\ UNCHANGED <<trustTables, learned, trustFaults>>
      /\ trustRaced' \in [knock : BOOLEAN, decide : SUBSET Knocks, exchange : SUBSET Grants]
      /\ trustRaced.decide \subseteq trustRaced'.decide
      /\ trustRaced.exchange \subseteq trustRaced'.exchange
      /\ trustRaced'.knock <=> trustRaced.knock
      /\ k \notin trustRaced'.decide => \A j \in Handlers : ~DecidesOn(j, k)
      /\ \A j \in Handlers : Doing(j, "exchange") /\ trustCall[j].knock = k
            => trustCall[j].grant \in trustRaced'.exchange
  BY <1>2, <1>4, StartIs DEF Decides
<1>6. TrustTypeOK'
  BY <1>3, <1>5 DEF TrustIInv, TrustTypeOK, TrustCallType, trustTables
<1>7. TrustSteps'
  <2>1. StepAt(h)'
    <3>1. n \in 1..made'.grants /\ n \notin DOMAIN grants
      BY <1>1, <1>3, TrustTypes DEF TrustIInv, Numbered
    <3> QED
      BY <1>1, <1>2, <1>5, <3>1 DEF StepAt, Doing, TrustPc, trustTables
  <2>2. \A j \in Handlers : StepAt(j)
    BY DEF TrustIInv, TrustSteps
  <2> QED
    BY <1>3, <1>5, <2>1, <2>2, StepsStay, TrustTypes DEF trustTables, StepAt
<1>8. Numbered'
  <2>1. 1..made.grants \subseteq 1..made'.grants
    BY <1>3, TrustTypes
  <2>2. \A j \in Handlers : Doing(j, "approve") => trustCall[j].grant # n
    BY <1>1 DEF TrustIInv, TrustSteps, StepAt
  <2> QED
    BY <1>2, <1>3, <1>5, <2>1, <2>2 DEF TrustIInv, Numbered, Doing, trustTables
<1>9. Linked'
  BY <1>5 DEF TrustIInv, Linked, trustTables
<1>10. DecidedOnce' /\ TaskTellsDecision'
  BY <1>1, <1>2, <1>5, DecisionBegins DEF trustTables, Decides
<1>11. KnocksInTurn'
  <2>1. \A j \in Handlers : StaysOut(j, {"knock"})
    BY <1>2, <1>5 DEF StaysOut
  <2> QED
    BY <1>5, <2>1, TurnStays DEF trustTables
<1>12. ExchangedOnce'
  BY <1>1, <1>2, <1>5, ExchangesYield DEF trustTables, Decides
<1> QED
  BY <1>6, <1>7, <1>8, <1>9, <1>10, <1>11, <1>12 DEF TrustIInv

LEMMA StartDenyKeeps ==
  ASSUME TrustIInv, NEW h \in Handlers, NEW k \in Knocks, StartDeny(h, k)
  PROVE  TrustIInv'
<1> DEFINE frame == [NoTrustCall EXCEPT !.op = "deny", !.pc = "update", !.knock = k]
<1>1. k \in DOMAIN knocks /\ made' = made
  BY DEF StartDeny
<1>2. /\ frame \in TrustCallType /\ frame.op = "deny" /\ frame.pc = "update"
      /\ frame.knock = k
  BY <1>1 DEF NoTrustCall, TrustCallType, TrustOps, TrustPCs
<1>3. TrustStart(h, frame)
  BY DEF StartDeny
<1> HIDE DEF frame
<1>4. /\ trustCall' \in [Handlers -> TrustCallType] /\ trustCall'[h] = frame
      /\ \A j \in Handlers \ {h} : trustCall'[j] = trustCall[j]
      /\ trustCall[h] = NoTrustCall
      /\ UNCHANGED <<trustTables, learned, trustFaults>>
      /\ trustRaced' \in [knock : BOOLEAN, decide : SUBSET Knocks, exchange : SUBSET Grants]
      /\ trustRaced.decide \subseteq trustRaced'.decide
      /\ trustRaced.exchange \subseteq trustRaced'.exchange
      /\ trustRaced'.knock <=> trustRaced.knock
      /\ k \notin trustRaced'.decide => \A j \in Handlers : ~DecidesOn(j, k)
      /\ \A j \in Handlers : Doing(j, "exchange") /\ trustCall[j].knock = k
            => trustCall[j].grant \in trustRaced'.exchange
  BY <1>2, <1>3, StartIs DEF Decides
<1>5. TrustTypeOK'
  BY <1>1, <1>4 DEF TrustIInv, TrustTypeOK, TrustCallType, trustTables
<1>6. TrustSteps'
  <2>1. StepAt(h)'
    BY <1>1, <1>2, <1>4 DEF StepAt, Doing, TrustPc, trustTables
  <2>2. \A j \in Handlers : StepAt(j)
    BY DEF TrustIInv, TrustSteps
  <2> QED
    BY <1>1, <1>4, <2>1, <2>2, StepsStay, TrustTypes DEF trustTables, StepAt
<1>7. Numbered'
  BY <1>1, <1>2, <1>4 DEF TrustIInv, Numbered, Doing, trustTables
<1>8. Linked'
  BY <1>4 DEF TrustIInv, Linked, trustTables
<1>9. DecidedOnce' /\ TaskTellsDecision'
  BY <1>1, <1>2, <1>4, DecisionBegins DEF trustTables, Decides
<1>10. KnocksInTurn'
  <2>1. \A j \in Handlers : StaysOut(j, {"knock"})
    BY <1>2, <1>4 DEF StaysOut
  <2> QED
    BY <1>4, <2>1, TurnStays DEF trustTables
<1>11. ExchangedOnce'
  BY <1>1, <1>2, <1>4, ExchangesYield DEF trustTables, Decides
<1> QED
  BY <1>5, <1>6, <1>7, <1>8, <1>9, <1>10, <1>11 DEF TrustIInv

LEMMA InsertGrantKeeps ==
  ASSUME TrustIInv, NEW h \in Handlers, InsertGrant(h)
  PROVE  TrustIInv'
<1> DEFINE k == trustCall[h].knock
           n == trustCall[h].grant
           row == [knock |-> k, usable |-> TRUE, credential |-> 0]
<1>1. /\ Doing(h, "approve") /\ TrustPc(h, {"grant"}) /\ DecidesOn(h, k)
      /\ k \in DOMAIN knocks /\ k \in Knocks
      /\ n \in 1..made.grants /\ n \in Grants /\ n \notin DOMAIN grants
  <2>1. StepAt(h) /\ Doing(h, "approve") /\ TrustPc(h, {"grant"})
    BY DEF TrustIInv, TrustSteps, InsertGrant, TrustAt, Doing, TrustPc
  <2>2. 1..made.grants \subseteq Grants
    BY TrustTypes DEF Grants
  <2> QED
    BY <2>1, <2>2 DEF StepAt, TrustIInv, TrustTypeOK, DecidesOn, Decides, Doing
<1>2. /\ trustCall' \in [Handlers -> TrustCallType]
      /\ trustCall'[h].pc = "update" /\ trustCall'[h].op = "approve"
      /\ trustCall'[h].knock = k /\ trustCall'[h].grant = n
      /\ \A j \in Handlers \ {h} : trustCall'[j] = trustCall[j]
      /\ \A j \in Handlers : GoesOnWith(j)
  BY <1>1, GotoIs DEF InsertGrant, TrustPCs, Doing
<1>3. UNCHANGED <<knocks, knockTasks, trustHistory>>
  BY DEF InsertGrant
<1>4. row \in GrantRow /\ row.knock = k /\ row.credential = 0
  <2> HIDE DEF k
  <2> QED
    BY <1>1 DEF GrantRow
<1>5. grants' = With(grants, n, row)
  BY DEF InsertGrant
<1> HIDE DEF k, n, row
<1>6. /\ DOMAIN grants' = DOMAIN grants \cup {n} /\ grants'[n] = row
      /\ \A g \in DOMAIN grants : grants'[g] = grants[g] /\ g # n
  BY <1>1, <1>5 DEF With
<1>7. TrustTypeOK'
  BY <1>1, <1>2, <1>3, <1>4, <1>6 DEF TrustIInv, TrustTypeOK, TrustCallType, trustHistory
<1>8. TrustSteps'
  <2>1. \A j \in Handlers \ {h} : Doing(j, "approve") => trustCall[j].grant # n
    BY <1>1 DEF TrustIInv, Numbered, n
  <2>2. \A j \in Handlers : StepAt(j)
    BY DEF TrustIInv, TrustSteps
  <2>3. \A j \in Handlers \ {h} :
            /\ Doing(j, "knock") => trustCall[j].num \notin DOMAIN knocks' \cup learned'.secrets
            /\ Doing(j, "approve") /\ TrustPc(j, {"grant"}) => trustCall[j].grant \notin DOMAIN grants'
    BY <1>3, <1>6, <2>1, <2>2 DEF StepAt, trustHistory
  <2>4. StepAt(h)'
    BY <1>1, <1>2, <1>3, <1>4, <1>6 DEF StepAt, Doing, TrustPc, trustHistory
  <2> QED
    BY <1>2, <1>3, <1>6, <2>3, <2>4, StepsStay, TrustTypes DEF trustHistory
<1>9. Numbered'
  BY <1>1, <1>2, <1>3, <1>6, NumbersStay DEF TrustIInv, Numbered, trustHistory
<1>10. Linked'
  BY <1>1, <1>3, <1>4, <1>6 DEF TrustIInv, TrustTypeOK, Linked, trustHistory
<1>11. \A j \in Handlers, i \in Knocks : DecidesOn(j, i)' <=> DecidesOn(j, i)
  BY <1>1, <1>2 DEF DecidesOn, Doing, Decides, k
<1>12. DecidedOnce'
  <2> SUFFICES ASSUME NEW i \in DOMAIN knocks, i \notin trustRaced.decide
               PROVE  OnceDecided(i)'
    BY <1>3 DEF DecidedOnce, trustHistory
  <2>1. OnceDecided(i) /\ i \in Knocks /\ knocks'[i] = knocks[i]
    BY <1>3 DEF TrustIInv, DecidedOnce, TrustTypeOK
  <2>2. CASE i # k
    <3>1. \A j \in Handlers : DecidesOn(j, i)' => DecidesOn(j, i) /\ trustCall'[j] = trustCall[j]
      BY <1>1, <1>2, <1>11, <2>1, <2>2 DEF DecidesOn, k
    <3>2. \A j \in Handlers : trustCall[j].knock = i => trustCall'[j] = trustCall[j]
      BY <1>2, <2>2 DEF k
    <3>3. \A g \in DOMAIN grants' : grants'[g].knock = i => g \in DOMAIN grants /\ grants[g].knock = i
      BY <1>4, <1>6, <2>2
    <3> QED
      BY <2>1, <3>1, <3>2, <3>3 DEF OnceDecided, Doing, TrustPc
  <2>3. CASE i = k
    <3>1. DecidesOn(h, i)
      BY <1>1, <2>3
    <3>2. knocks[i].status = "pending" /\ \A j \in Handlers : DecidesOn(j, i) => j = h
      BY <1>1, <2>1, <3>1 DEF OnceDecided, TrustPc
    <3>3. \A g \in DOMAIN grants : grants[g].knock # i
      <4>1. \A j \in Handlers : Doing(j, "approve") /\ trustCall[j].knock = i => j = h
        BY <3>2 DEF Doing, DecidesOn, Decides
      <4> QED
        BY <1>1, <2>1, <3>2, <4>1 DEF OnceDecided, TrustPc
    <3>4. \A j \in Handlers : DecidesOn(j, i)' => j = h
      BY <1>11, <2>1, <3>2
    <3>5. \A g \in DOMAIN grants' : grants'[g].knock = i => g = n
      BY <1>6, <3>3
    <3> QED
      BY <1>2, <2>1, <2>3, <3>2, <3>4, <3>5 DEF OnceDecided, Doing, TrustPc
  <2> QED
    BY <2>2, <2>3
<1>13. TaskTellsDecision'
  <2>1. \A i \in DOMAIN knocks : i \in Knocks
    BY DEF TrustIInv, TrustTypeOK
  <2>2. \A i \in DOMAIN knocks : (\E j \in Busy(Decides) : trustCall[j].knock = i)
           => \E j \in Busy(Decides)' : trustCall'[j].knock = i
    BY <1>11, <2>1 DEF Busy, DecidesOn
  <2> QED
    BY <1>3, <2>2 DEF TrustIInv, TaskTellsDecision, trustHistory
<1>14. KnocksInTurn'
  <2>1. \A j \in Handlers : StaysOut(j, {"knock"})
    BY <1>2 DEF StaysOut
  <2> QED
    BY <1>3, <2>1, TurnStays DEF trustHistory
<1>15. ExchangedOnce'
  <2>1. \A j \in Handlers : Doing(j, "exchange")' => Doing(j, "exchange") /\ trustCall'[j] = trustCall[j]
    BY <1>2 DEF Doing
  <2>2. \A j \in Handlers : StepAt(j)
    BY DEF TrustIInv, TrustSteps
  <2>3. \A j \in Handlers : Doing(j, "exchange") =>
           trustCall[j].knock \in Knocks /\ trustCall[j].grant \in DOMAIN grants
    BY <2>2 DEF StepAt, TrustIInv, TrustTypeOK
  <2>4. \A c \in learned.credentials : c[1] \in DOMAIN grants
    BY DEF TrustIInv, Linked
  <2> QED
    BY <1>3, <1>6, <1>11, <2>1, <2>3, <2>4
       DEF TrustIInv, ExchangedOnce, Exchanging, TrustPc, trustHistory
<1> QED
  BY <1>7, <1>8, <1>9, <1>10, <1>12, <1>13, <1>14, <1>15 DEF TrustIInv

\* A task is only behind its knock while somebody decides on the knock.
LEMMA TasksAwait ==
  ASSUME TrustIInv, NEW h \in Handlers, NEW k \in DOMAIN knocks, DecidesOn(h, k)',
         \A j \in Handlers, i \in Knocks : DecidesOn(j, i)' <=> DecidesOn(j, i),
         trustRaced' = trustRaced, knockTasks' = knockTasks, DOMAIN knocks' = DOMAIN knocks,
         \A i \in DOMAIN knocks \ {k} : knocks'[i] = knocks[i]
  PROVE  TaskTellsDecision'
<1>1. ASSUME NEW i \in DOMAIN knocks, i \notin trustRaced.decide,
             \A j \in Handlers : ~DecidesOn(j, i)'
      PROVE  knockTasks'[i] = CASE knocks'[i].status = "pending" ->
                                  [state |-> "input_required", grant |-> 0]
                             [] knocks'[i].status = "denied" ->
                                  [state |-> "denied", grant |-> 0]
                             [] knocks'[i].status = "approved" ->
                                  [state |-> "approved", grant |-> knocks'[i].grant]
  <2>1. i # k /\ i \in Knocks
    BY <1>1 DEF TrustIInv, TrustTypeOK
  <2>2. \A j \in Handlers : ~DecidesOn(j, i)
    BY <1>1, <2>1
  <2>3. knocks'[i] = knocks[i]
    BY <2>1
  <2> QED
    BY <1>1, <2>2, <2>3 DEF TrustIInv, TaskTellsDecision, Busy, DecidesOn
<1> QED
  BY <1>1 DEF TaskTellsDecision, Busy, DecidesOn

\* Nobody but the one who decides on a knock disturbs its decision.
LEMMA DeciderAlone ==
  ASSUME TrustIInv, NEW h \in Handlers, NEW k \in DOMAIN knocks \ trustRaced.decide,
         DecidesOn(h, k)
  PROVE  /\ OnceDecided(k)
         /\ \A j \in Handlers : DecidesOn(j, k) => j = h
         /\ \A j \in Handlers : Doing(j, "approve") /\ trustCall[j].knock = k => j = h
<1>1. OnceDecided(k)
  BY DEF TrustIInv, DecidedOnce
<1>2. \A j \in Handlers : DecidesOn(j, k) => j = h
  BY <1>1 DEF OnceDecided
<1> QED
  BY <1>1, <1>2 DEF DecidesOn, Doing, Decides

LEMMA ApproveKnockKeeps ==
  ASSUME TrustIInv, NEW h \in Handlers, ApproveKnock(h)
  PROVE  TrustIInv'
<1> SUFFICES ASSUME NEW k \in Knocks, NEW n \in Grants,
                    k = trustCall[h].knock, n = trustCall[h].grant,
                    k \in DOMAIN knocks, n \in DOMAIN grants, grants[n].knock = k,
                    Doing(h, "approve"), TrustPc(h, {"update"}), DecidesOn(h, k)
             PROVE  TrustIInv'
  <2>1. StepAt(h) /\ Doing(h, "approve") /\ TrustPc(h, {"update"})
    BY DEF TrustIInv, TrustSteps, ApproveKnock, TrustAt, Doing, TrustPc
  <2> QED
    BY <2>1 DEF StepAt, TrustPc, Doing, DecidesOn, Decides, TrustIInv, TrustTypeOK
<1>1. /\ trustCall' \in [Handlers -> TrustCallType]
      /\ trustCall'[h].pc = "settle" /\ trustCall'[h].op = "approve"
      /\ trustCall'[h].knock = k /\ trustCall'[h].grant = n
      /\ \A j \in Handlers \ {h} : trustCall'[j] = trustCall[j]
      /\ \A j \in Handlers : GoesOnWith(j)
  BY GotoIs DEF ApproveKnock, TrustPCs, Doing
<1>2. UNCHANGED <<knockTasks, grants, trustHistory>>
  BY DEF ApproveKnock
<1>3. /\ DOMAIN knocks' = DOMAIN knocks
      /\ \A i \in DOMAIN knocks : /\ knocks'[i] \in KnockRow
                                  /\ knocks'[i].peer = knocks[i].peer
                                  /\ knocks'[i].secret = knocks[i].secret
      /\ \A i \in DOMAIN knocks \ {k} : knocks'[i] = knocks[i]
      /\ knocks'[k].status = "approved" /\ knocks'[k].grant = n
  <2>1. \A i \in DOMAIN knocks : knocks[i] \in KnockRow
    BY DEF TrustIInv, TrustTypeOK
  <2>2. knocks' = [knocks EXCEPT ![k].status = "approved", ![k].grant = n]
    BY DEF ApproveKnock
  <2> QED
    BY <2>1, <2>2 DEF KnockRow
<1>4. TrustTypeOK'
  BY <1>1, <1>2, <1>3 DEF TrustIInv, TrustTypeOK, TrustCallType, trustHistory
<1>5. TrustSteps'
  <2>1. StepAt(h)'
    BY <1>1, <1>2, <1>3 DEF StepAt, Doing, TrustPc, TrustIInv, TrustSteps, trustHistory
  <2>2. \A j \in Handlers : StepAt(j)
    BY DEF TrustIInv, TrustSteps
  <2>3. \A j \in Handlers \ {h} :
            /\ Doing(j, "knock") => trustCall[j].num \notin DOMAIN knocks' \cup learned'.secrets
            /\ Doing(j, "approve") /\ TrustPc(j, {"grant"}) => trustCall[j].grant \notin DOMAIN grants'
    BY <1>2, <1>3, <2>2 DEF StepAt, trustHistory
  <2> QED
    BY <1>1, <1>2, <1>3, <2>1, <2>3, StepsStay, TrustTypes DEF trustHistory
<1>6. Numbered'
  BY <1>1, <1>2, <1>3, NumbersStay DEF TrustIInv, Numbered, trustHistory
<1>7. Linked'
  BY <1>2, <1>3 DEF TrustIInv, Linked, trustHistory
<1>8. \A j \in Handlers, i \in Knocks : DecidesOn(j, i)' <=> DecidesOn(j, i)
  BY <1>1 DEF DecidesOn, Doing, Decides
<1>9. DecidedOnce'
  <2> SUFFICES ASSUME NEW i \in DOMAIN knocks, i \notin trustRaced.decide
               PROVE  OnceDecided(i)'
    BY <1>2, <1>3 DEF DecidedOnce, trustHistory
  <2>1. OnceDecided(i) /\ i \in Knocks /\ grants' = grants
    BY <1>2 DEF TrustIInv, DecidedOnce, TrustTypeOK
  <2>2. CASE i # k
    <3>1. \A j \in Handlers : DecidesOn(j, i)' => DecidesOn(j, i) /\ trustCall'[j] = trustCall[j]
      BY <1>1, <1>8, <2>1, <2>2 DEF DecidesOn
    <3>2. \A j \in Handlers : trustCall[j].knock = i => trustCall'[j] = trustCall[j]
      BY <1>1, <2>2
    <3> QED
      BY <1>3, <2>1, <2>2, <3>1, <3>2 DEF OnceDecided, Doing, TrustPc
  <2>3. CASE i = k
    <3>1. /\ \A j \in Handlers : DecidesOn(j, i) => j = h
          /\ \A j \in Handlers : Doing(j, "approve") /\ trustCall[j].knock = i => j = h
      BY <2>3, DeciderAlone
    <3>2. knocks[i].status = "pending"
      BY <2>1, <2>3 DEF OnceDecided, TrustPc
    <3>3. \A g \in DOMAIN grants : grants[g].knock = i => g = n
      BY <2>1, <3>1, <3>2 DEF OnceDecided
    <3>4. \A j \in Handlers : DecidesOn(j, i)' => j = h
      BY <1>8, <2>1, <3>1
    <3> QED
      BY <1>1, <1>3, <2>1, <2>3, <3>3, <3>4 DEF OnceDecided, Doing, TrustPc
  <2> QED
    BY <2>2, <2>3
<1>10. TaskTellsDecision'
  BY <1>1, <1>2, <1>3, <1>8, TasksAwait DEF DecidesOn, Decides, trustHistory
<1>11. KnocksInTurn'
  <2>1. \A j \in Handlers : StaysOut(j, {"knock"})
    BY <1>1 DEF StaysOut
  <2>2. \A i \in DOMAIN knocks : knocks'[i].status = "pending" => knocks[i].status = "pending"
    BY <1>3
  <2> QED
    BY <1>2, <1>3, <2>1, <2>2, TurnStays DEF trustHistory
<1>12. ExchangedOnce'
  <2>1. \A j \in Handlers : Doing(j, "exchange")' => trustCall'[j] = trustCall[j]
    BY <1>1 DEF Doing
  <2> QED
    BY <1>1, <1>2, <1>3, <2>1, ExchangesStay DEF TrustPc, trustHistory
<1> QED
  BY <1>4, <1>5, <1>6, <1>7, <1>9, <1>10, <1>11, <1>12 DEF TrustIInv

LEMMA DenyKnockKeeps ==
  ASSUME TrustIInv, NEW h \in Handlers, DenyKnock(h)
  PROVE  TrustIInv'
<1> SUFFICES ASSUME NEW k \in Knocks, k = trustCall[h].knock, k \in DOMAIN knocks,
                    Doing(h, "deny"), DecidesOn(h, k)
             PROVE  TrustIInv'
  <2>1. StepAt(h) /\ Doing(h, "deny")
    BY DEF TrustIInv, TrustSteps, DenyKnock, TrustAt, Doing
  <2> QED
    BY <2>1 DEF StepAt, Doing, DecidesOn, Decides, TrustIInv, TrustTypeOK
<1>1. /\ trustCall' \in [Handlers -> TrustCallType]
      /\ trustCall'[h].pc = "settle" /\ trustCall'[h].op = "deny"
      /\ trustCall'[h].knock = k
      /\ \A j \in Handlers \ {h} : trustCall'[j] = trustCall[j]
      /\ \A j \in Handlers : GoesOnWith(j)
  BY GotoIs DEF DenyKnock, TrustPCs, Doing
<1>2. UNCHANGED <<knockTasks, grants, trustHistory>>
  BY DEF DenyKnock
<1>3. /\ DOMAIN knocks' = DOMAIN knocks
      /\ \A i \in DOMAIN knocks : /\ knocks'[i] \in KnockRow
                                  /\ knocks'[i].peer = knocks[i].peer
                                  /\ knocks'[i].secret = knocks[i].secret
                                  /\ knocks'[i].grant = knocks[i].grant
      /\ \A i \in DOMAIN knocks \ {k} : knocks'[i] = knocks[i]
      /\ knocks'[k].status = "denied"
  <2>1. \A i \in DOMAIN knocks : knocks[i] \in KnockRow
    BY DEF TrustIInv, TrustTypeOK
  <2>2. knocks' = [knocks EXCEPT ![k].status = "denied"]
    BY DEF DenyKnock
  <2> QED
    BY <2>1, <2>2 DEF KnockRow
<1>4. TrustTypeOK'
  BY <1>1, <1>2, <1>3 DEF TrustIInv, TrustTypeOK, TrustCallType, trustHistory
<1>5. TrustSteps'
  <2>1. StepAt(h)'
    BY <1>1, <1>2, <1>3 DEF StepAt, Doing, TrustPc
  <2>2. \A j \in Handlers : StepAt(j)
    BY DEF TrustIInv, TrustSteps
  <2>3. \A j \in Handlers \ {h} :
            /\ Doing(j, "knock") => trustCall[j].num \notin DOMAIN knocks' \cup learned'.secrets
            /\ Doing(j, "approve") /\ TrustPc(j, {"grant"}) => trustCall[j].grant \notin DOMAIN grants'
    BY <1>2, <1>3, <2>2 DEF StepAt, trustHistory
  <2> QED
    BY <1>1, <1>2, <1>3, <2>1, <2>3, StepsStay, TrustTypes DEF trustHistory
<1>6. Numbered'
  BY <1>1, <1>2, <1>3, NumbersStay DEF TrustIInv, Numbered, trustHistory
<1>7. Linked'
  BY <1>2, <1>3 DEF TrustIInv, Linked, trustHistory
<1>8. \A j \in Handlers, i \in Knocks : DecidesOn(j, i)' <=> DecidesOn(j, i)
  BY <1>1 DEF DecidesOn, Doing, Decides
<1>9. DecidedOnce'
  <2> SUFFICES ASSUME NEW i \in DOMAIN knocks, i \notin trustRaced.decide
               PROVE  OnceDecided(i)'
    BY <1>2, <1>3 DEF DecidedOnce, trustHistory
  <2>1. OnceDecided(i) /\ i \in Knocks /\ grants' = grants
    BY <1>2 DEF TrustIInv, DecidedOnce, TrustTypeOK
  <2>2. CASE i # k
    <3>1. \A j \in Handlers : DecidesOn(j, i)' => DecidesOn(j, i) /\ trustCall'[j] = trustCall[j]
      BY <1>1, <1>8, <2>1, <2>2 DEF DecidesOn
    <3>2. \A j \in Handlers : trustCall[j].knock = i => trustCall'[j] = trustCall[j]
      BY <1>1, <2>2
    <3> QED
      BY <1>3, <2>1, <2>2, <3>1, <3>2 DEF OnceDecided, Doing, TrustPc
  <2>3. CASE i = k
    <3>1. /\ \A j \in Handlers : DecidesOn(j, i) => j = h
          /\ \A j \in Handlers : ~(Doing(j, "approve") /\ trustCall[j].knock = i)
      BY <2>3, DeciderAlone DEF Doing
    <3>2. \A g \in DOMAIN grants : grants[g].knock = i => knocks[i].grant = g
      BY <2>1, <3>1 DEF OnceDecided
    <3>3. \A j \in Handlers : DecidesOn(j, i)' => j = h
      BY <1>8, <2>1, <3>1
    <3> QED
      BY <1>1, <1>3, <2>1, <2>3, <3>2, <3>3 DEF OnceDecided, Doing, TrustPc
  <2> QED
    BY <2>2, <2>3
<1>10. TaskTellsDecision'
  BY <1>1, <1>2, <1>3, <1>8, TasksAwait DEF DecidesOn, Decides, trustHistory
<1>11. KnocksInTurn'
  <2>1. \A j \in Handlers : StaysOut(j, {"knock"})
    BY <1>1 DEF StaysOut
  <2>2. \A i \in DOMAIN knocks : knocks'[i].status = "pending" => knocks[i].status = "pending"
    BY <1>3
  <2> QED
    BY <1>2, <1>3, <2>1, <2>2, TurnStays DEF trustHistory
<1>12. ExchangedOnce'
  <2>1. \A j \in Handlers : Doing(j, "exchange")' => trustCall'[j] = trustCall[j]
    BY <1>1 DEF Doing
  <2> QED
    BY <1>1, <1>2, <1>3, <2>1, ExchangesStay DEF TrustPc, trustHistory
<1> QED
  BY <1>4, <1>5, <1>6, <1>7, <1>9, <1>10, <1>11, <1>12 DEF TrustIInv

LEMMA SettleTaskKeeps ==
  ASSUME TrustIInv, NEW h \in Handlers, SettleTask(h)
  PROVE  TrustIInv'
<1> DEFINE result == IF trustCall[h].op = "deny" THEN [state |-> "denied", grant |-> 0]
                     ELSE [state |-> "approved", grant |-> trustCall[h].grant]
<1> SUFFICES ASSUME NEW k \in Knocks, k = trustCall[h].knock, k \in DOMAIN knocks,
                    TrustPc(h, {"settle"}), DecidesOn(h, k), result \in TaskRow
             PROVE  TrustIInv'
  <2>1. StepAt(h) /\ (Doing(h, "deny") \/ Doing(h, "approve")) /\ TrustPc(h, {"settle"})
    BY DEF TrustIInv, TrustSteps, SettleTask, TrustAt, Doing, TrustPc, Decides
  <2>2. Doing(h, "approve") => trustCall[h].grant \in Grants
    BY <2>1 DEF StepAt, Doing, TrustPc, TrustIInv, TrustTypeOK
  <2>3. result \in TaskRow
    BY <2>1, <2>2 DEF Doing, TaskRow
  <2> QED
    BY <2>1, <2>3 DEF StepAt, Doing, DecidesOn, Decides, TrustIInv, TrustTypeOK
<1>1. /\ trustCall' \in [Handlers -> TrustCallType] /\ trustCall'[h] = NoTrustCall
      /\ \A j \in Handlers \ {h} : trustCall'[j] = trustCall[j]
      /\ \A j \in Handlers : GoesOnWith(j)
      /\ \A j \in Handlers, ops \in SUBSET (TrustOps \ {"idle"}) : StaysOut(j, ops)
      /\ StepAt(h)'
  BY DoneIs DEF SettleTask, Settle
<1>2. UNCHANGED <<knocks, grants, made, trustRaced, trustFaults>>
  BY DEF SettleTask, Settle
<1>3. /\ knockTasks' = [knockTasks EXCEPT ![k] = result]
      /\ learned' = [learned EXCEPT !.tokens = @ \cup ({result.grant} \ {0})]
  BY DEF SettleTask, Settle
<1>4. result.grant \in Grants \cup {0}
  BY DEF TaskRow
<1>5. /\ trustCall[h].op = "deny" => result = [state |-> "denied", grant |-> 0]
      /\ trustCall[h].op = "approve" => result = [state |-> "approved", grant |-> trustCall[h].grant]
  OBVIOUS
<1> HIDE DEF result
<1>6. /\ learned' \in [secrets : SUBSET Knocks, tokens : SUBSET Grants,
                       credentials : SUBSET (Grants \X Grants)]
      /\ learned'.secrets = learned.secrets /\ learned'.credentials = learned.credentials
  BY <1>3, <1>4 DEF TrustIInv, TrustTypeOK
<1>7. /\ DOMAIN knockTasks' = DOMAIN knocks /\ DOMAIN knockTasks = DOMAIN knocks
      /\ knockTasks'[k] = result
      /\ \A i \in DOMAIN knocks \ {k} : knockTasks'[i] = knockTasks[i]
  BY <1>3 DEF TrustIInv, TrustTypeOK
<1>8. TrustTypeOK'
  BY <1>1, <1>2, <1>6, <1>7 DEF TrustIInv, TrustTypeOK, TrustCallType
<1>9. TrustSteps'
  <2>1. \A j \in Handlers : StepAt(j)
    BY DEF TrustIInv, TrustSteps
  <2>2. \A j \in Handlers \ {h} :
            /\ Doing(j, "knock") => trustCall[j].num \notin DOMAIN knocks' \cup learned'.secrets
            /\ Doing(j, "approve") /\ TrustPc(j, {"grant"}) => trustCall[j].grant \notin DOMAIN grants'
    BY <1>2, <1>6, <2>1 DEF StepAt
  <2> QED
    BY <1>1, <1>2, <2>2, StepsStay, TrustTypes
<1>10. Numbered'
  BY <1>1, <1>2, <1>6, NumbersStay DEF TrustIInv, Numbered
<1>11. Linked'
  BY <1>2, <1>6 DEF TrustIInv, Linked
<1>12. \A j \in Handlers, i \in Knocks :
          DecidesOn(j, i)' <=> DecidesOn(j, i) /\ j # h
  BY <1>1 DEF DecidesOn, Decides, NoTrustCall
<1>13. DecidedOnce'
  <2> SUFFICES ASSUME NEW i \in DOMAIN knocks, i \notin trustRaced.decide
               PROVE  OnceDecided(i)'
    BY <1>2 DEF DecidedOnce
  <2>1. OnceDecided(i) /\ i \in Knocks /\ grants' = grants /\ knocks' = knocks
    BY <1>2 DEF TrustIInv, DecidedOnce, TrustTypeOK
  <2>2. \A j \in Handlers : DecidesOn(j, i)' => DecidesOn(j, i) /\ trustCall'[j] = trustCall[j]
    BY <1>1, <1>12, <2>1
  <2>3. \A j \in Handlers : TrustPc(j, {"update"}) => trustCall'[j] = trustCall[j]
    BY <1>1 DEF TrustPc
  <2> QED
    BY <2>1, <2>2, <2>3 DEF OnceDecided, Doing, TrustPc
<1>14. TaskTellsDecision'
  <2>1. ASSUME NEW i \in DOMAIN knocks, i \notin trustRaced.decide,
               \A j \in Handlers : ~DecidesOn(j, i)'
        PROVE  knockTasks'[i] = CASE knocks[i].status = "pending" ->
                                  [state |-> "input_required", grant |-> 0]
                             [] knocks[i].status = "denied" ->
                                  [state |-> "denied", grant |-> 0]
                             [] knocks[i].status = "approved" ->
                                  [state |-> "approved", grant |-> knocks[i].grant]
    <3>1. CASE i = k
      <4>1. OnceDecided(k)
        BY <2>1, <3>1 DEF TrustIInv, DecidedOnce
      <4>2. \/ /\ trustCall[h].op = "deny" /\ knocks[k].status = "denied"
            \/ /\ trustCall[h].op = "approve" /\ knocks[k].status = "approved"
               /\ knocks[k].grant = trustCall[h].grant
        BY <4>1 DEF OnceDecided, Doing, DecidesOn, Decides
      <4> QED
        BY <1>5, <1>7, <3>1, <4>2
    <3>2. CASE i # k
      <4>1. \A j \in Handlers : ~DecidesOn(j, i)
        <5>1. ~DecidesOn(h, i) /\ i \in Knocks
          BY <3>2 DEF DecidesOn, TrustIInv, TrustTypeOK
        <5> QED
          BY <1>12, <2>1, <5>1
      <4> QED
        BY <1>7, <2>1, <3>2, <4>1 DEF TrustIInv, TaskTellsDecision, Busy, DecidesOn
    <3> QED
      BY <3>1, <3>2
  <2> QED
    BY <1>2, <2>1 DEF TaskTellsDecision, Busy, DecidesOn
<1>15. KnocksInTurn'
  <2>1. \A j \in Handlers : StaysOut(j, {"knock"})
    BY <1>1 DEF StaysOut, NoTrustCall
  <2> QED
    BY <1>2, <1>6, <2>1, TurnStays
<1>16. ExchangedOnce'
  <2>1. \A j \in Handlers : Doing(j, "exchange")' => trustCall'[j] = trustCall[j]
    BY <1>1 DEF Doing, NoTrustCall
  <2> QED
    BY <1>1, <1>2, <1>6, <2>1, ExchangesStay DEF TrustPc
<1> QED
  BY <1>8, <1>9, <1>10, <1>11, <1>13, <1>14, <1>15, <1>16 DEF TrustIInv

-----------------------------------------------------------------------------
(* Exchanges, and ends.                                                     *)

LEMMA StartExchangeKeeps ==
  ASSUME TrustIInv, NEW h \in Handlers, NEW s \in Knocks, NEW g \in Grants,
         StartExchange(h, s, g)
  PROVE  TrustIInv'
<1> DEFINE n == made.credentials + 1
           frame(k) == [NoTrustCall EXCEPT !.op = "exchange", !.pc = "grant",
                           !.knock = k, !.grant = g, !.num = n]
<1> PICK k \in DOMAIN knocks :
       /\ knocks[k].secret = s /\ knocks[k].status = "approved"
       /\ knocks[k].grant = g /\ ~knocks[k].used
       /\ TrustStart(h, frame(k))
  BY DEF StartExchange
<1>1. /\ n \in Grants /\ k \in Knocks /\ g \in DOMAIN grants /\ grants[g].knock = k
      /\ n \in 1..n /\ n \in Nat
  <2>1. n \in Grants /\ n \in 1..n /\ n \in Nat
    BY TrustTypes DEF StartExchange, Grants
  <2>2. g # 0
    BY DEF Grants
  <2> QED
    BY <2>1, <2>2 DEF TrustIInv, TrustTypeOK, Linked
<1> DEFINE call == frame(k)
<1>2. /\ call \in TrustCallType /\ call.op = "exchange" /\ call.pc = "grant"
      /\ call.knock = k /\ call.grant = g /\ call.num = n
  <2> HIDE DEF n
  <2> QED
    BY <1>1 DEF NoTrustCall, TrustCallType, TrustOps, TrustPCs
<1>3. /\ made' \in [knocks : 0..MaxKnocks, grants : 0..MaxGrants, credentials : 0..MaxGrants]
      /\ made'.credentials = n /\ made'.knocks = made.knocks /\ made'.grants = made.grants
  BY TrustTypes DEF TrustIInv, TrustTypeOK, StartExchange
<1>4. TrustStart(h, call)
  OBVIOUS
<1> HIDE DEF frame, call
<1>5. /\ trustCall' \in [Handlers -> TrustCallType] /\ trustCall'[h] = call
      /\ \A j \in Handlers \ {h} : trustCall'[j] = trustCall[j]
      /\ trustCall[h] = NoTrustCall
      /\ UNCHANGED <<trustTables, learned, trustFaults>>
      /\ trustRaced' \in [knock : BOOLEAN, decide : SUBSET Knocks, exchange : SUBSET Grants]
      /\ trustRaced.decide \subseteq trustRaced'.decide
      /\ trustRaced.exchange \subseteq trustRaced'.exchange
      /\ trustRaced'.knock <=> trustRaced.knock
      /\ g \notin trustRaced'.exchange =>
            \A j \in Handlers : trustCall[j].knock = k =>
               trustCall[j].op \notin {"exchange"} \cup Decides
  BY <1>2, <1>4, StartIs DEF Decides
<1>6. TrustTypeOK'
  BY <1>3, <1>5 DEF TrustIInv, TrustTypeOK, TrustCallType, trustTables
<1>7. TrustSteps'
  <2>1. StepAt(h)'
    BY <1>1, <1>2, <1>3, <1>5 DEF StepAt, Doing, TrustPc, trustTables
  <2>2. \A j \in Handlers : StepAt(j)
    BY DEF TrustIInv, TrustSteps
  <2>3. made.credentials <= made'.credentials /\ made'.credentials \in Nat
    BY <1>1, <1>3, TrustTypes
  <2> QED
    BY <1>3, <1>5, <2>1, <2>2, <2>3, StepsStay, TrustTypes DEF trustTables, StepAt
<1>8. Numbered'
  BY <1>2, <1>3, <1>5 DEF TrustIInv, Numbered, Doing, trustTables
<1>9. Linked'
  BY <1>5 DEF TrustIInv, Linked, trustTables
<1>10. DecidedOnce' /\ TaskTellsDecision'
  <2>1. trustCall[h].op \notin Decides /\ trustCall'[h].op \notin Decides
    BY <1>2, <1>5 DEF Decides, NoTrustCall
  <2> QED
    BY <1>5, <2>1, DecisionsStay DEF trustTables
<1>11. KnocksInTurn'
  <2>1. \A j \in Handlers : StaysOut(j, {"knock"})
    BY <1>2, <1>5 DEF StaysOut
  <2> QED
    BY <1>5, <2>1, TurnStays DEF trustTables
<1>12. ExchangedOnce'
  <2>1. \A j \in Handlers : Exchanging(j, g) => trustCall[j].knock = k
    BY <1>1 DEF TrustIInv, TrustSteps, StepAt, Exchanging
  <2>2. g \notin trustRaced'.exchange => \A j \in Handlers : ~Exchanging(j, g)
    BY <1>5, <2>1 DEF Exchanging, Doing
  <2>3. \A j \in Handlers, i \in Knocks : DecidesOn(j, i)' => DecidesOn(j, i)
    BY <1>2, <1>5 DEF DecidesOn, Decides
  <2>4. g \notin trustRaced'.exchange => \A j \in Handlers : ~DecidesOn(j, k)
    BY <1>5 DEF DecidesOn
  <2>5. ASSUME NEW j \in Handlers, NEW x \in Grants, NEW i \in Knocks,
               Doing(j, "exchange")', trustCall'[j].grant = x, trustCall'[j].knock = i,
               x \notin trustRaced'.exchange
        PROVE  /\ knocks[i].status = "approved"
               /\ \A m \in Handlers : ~DecidesOn(m, i)'
               /\ \A m \in Handlers : Exchanging(m, x)' => m = j
               /\ TrustPc(j, {"use", "credential"})' => grants[x].credential = 0
    <3>1. CASE j = h
      <4>1. x = g /\ i = k /\ trustCall'[j].pc = "grant"
        BY <1>2, <1>5, <2>5, <3>1
      <4> QED
        BY <1>2, <1>5, <2>2, <2>3, <2>4, <2>5, <3>1, <4>1 DEF Exchanging, Doing, TrustPc
    <3>2. CASE j # h
      <4>1. trustCall'[j] = trustCall[j] /\ Exchanging(j, x) /\ x # g
        BY <1>5, <2>2, <2>5, <3>2 DEF Exchanging, Doing
      <4>2. /\ knocks[i].status = "approved"
            /\ \A m \in Handlers : ~DecidesOn(m, i)
            /\ \A m \in Handlers : Exchanging(m, x) => m = j
            /\ TrustPc(j, {"use", "credential"}) => grants[x].credential = 0
        BY <1>5, <2>5, <4>1 DEF TrustIInv, ExchangedOnce, Exchanging
      <4>3. \A m \in Handlers : Exchanging(m, x)' => m # h /\ Exchanging(m, x)
        BY <1>2, <1>5, <4>1 DEF Exchanging, Doing
      <4> QED
        BY <2>3, <4>1, <4>2, <4>3 DEF TrustPc
    <3> QED
      BY <3>1, <3>2
  <2>6. \A j \in Handlers : Doing(j, "exchange")' =>
           trustCall'[j].grant \in Grants /\ trustCall'[j].knock \in Knocks
    BY <1>6, <1>7 DEF TrustTypeOK, TrustSteps, StepAt
  <2> QED
    BY <1>5, <2>5, <2>6 DEF TrustIInv, ExchangedOnce, Exchanging, DecidesOn, TrustPc, trustTables
<1> QED
  BY <1>6, <1>7, <1>8, <1>9, <1>10, <1>11, <1>12 DEF TrustIInv

\* What a handler is doing with the token of a grant.
LEMMA ExchangeIs ==
  ASSUME TrustIInv, NEW h \in Handlers, Doing(h, "exchange")
  PROVE  /\ trustCall[h].knock \in DOMAIN knocks /\ trustCall[h].knock \in Knocks
         /\ trustCall[h].grant \in DOMAIN grants /\ trustCall[h].grant \in Grants
         /\ grants[trustCall[h].grant].knock = trustCall[h].knock
         /\ trustCall[h].num \in 1..made.credentials /\ trustCall[h].num \in Grants
         /\ StepAt(h)
<1>1. StepAt(h)
  BY DEF TrustIInv, TrustSteps
<1>2. 1..made.credentials \subseteq Grants
  BY TrustTypes DEF Grants
<1> QED
  BY <1>1, <1>2 DEF StepAt, TrustIInv, TrustTypeOK

\* A step of an exchange that changes no row that somebody else relies on.
LEMMA ExchangeGoesOn ==
  ASSUME TrustIInv, NEW h \in Handlers, Doing(h, "exchange"),
         trustCall' \in [Handlers -> TrustCallType],
         \A j \in Handlers \ {h} : trustCall'[j] = trustCall[j],
         \A j \in Handlers : GoesOnWith(j),
         \/ trustCall'[h] = NoTrustCall
         \/ trustCall'[h].pc \in {"use", "credential"} /\ trustCall'[h].op = "exchange",
         UNCHANGED <<knockTasks, made, trustRaced, trustFaults>>,
         learned' \in [secrets : SUBSET Knocks, tokens : SUBSET Grants,
                       credentials : SUBSET (Grants \X Grants)],
         learned'.secrets = learned.secrets,
         \A c \in learned'.credentials : c[1] \in DOMAIN grants,
         DOMAIN knocks' = DOMAIN knocks, DOMAIN grants' = DOMAIN grants,
         \A k \in DOMAIN knocks :
            /\ knocks'[k] \in KnockRow
            /\ knocks'[k].peer = knocks[k].peer /\ knocks'[k].status = knocks[k].status
            /\ knocks'[k].secret = knocks[k].secret /\ knocks'[k].grant = knocks[k].grant,
         \A g \in DOMAIN grants :
            grants'[g] \in GrantRow /\ grants'[g].knock = grants[g].knock
  PROVE  /\ TrustTypeOK' /\ TrustSteps' /\ Numbered' /\ Linked'
         /\ DecidedOnce' /\ TaskTellsDecision' /\ KnocksInTurn'
<1>1. StepAt(h)'
  BY ExchangeIs DEF GoesOnWith, StepAt, Doing, TrustPc, NoTrustCall
<1>2. TrustSteps'
  <2>1. \A j \in Handlers : StepAt(j)
    BY DEF TrustIInv, TrustSteps
  <2>2. \A j \in Handlers \ {h} :
            /\ Doing(j, "knock") => trustCall[j].num \notin DOMAIN knocks' \cup learned'.secrets
            /\ Doing(j, "approve") /\ TrustPc(j, {"grant"}) => trustCall[j].grant \notin DOMAIN grants'
    BY <2>1 DEF StepAt
  <2> QED
    BY <1>1, <2>2, StepsStay, TrustTypes
<1>3. TrustTypeOK'
  BY DEF TrustIInv, TrustTypeOK, TrustCallType
<1>4. Numbered'
  BY NumbersStay DEF TrustIInv, Numbered
<1>5. Linked'
  <2>1. \A k \in DOMAIN knocks : knocks[k].grant \in DOMAIN grants \cup {0}
    BY DEF TrustIInv, TrustTypeOK
  <2> QED
    BY <2>1 DEF TrustIInv, Linked
<1>6. \A j \in Handlers : trustCall'[j] = trustCall[j]
        \/ (trustCall[j].op \notin Decides /\ trustCall'[j].op \notin Decides
             /\ StaysOut(j, {"knock"}))
  BY DEF StaysOut, Doing, NoTrustCall, Decides
<1>7. DecidedOnce' /\ TaskTellsDecision'
  BY <1>6, DecisionsStay
<1>8. KnocksInTurn'
  BY <1>6, TurnStays DEF StaysOut
<1> QED
  BY <1>2, <1>3, <1>4, <1>5, <1>7, <1>8

LEMMA FindGrantKeeps ==
  ASSUME TrustIInv, NEW h \in Handlers, FindGrant(h)
  PROVE  TrustIInv'
<1> DEFINE g == trustCall[h].grant
<1>1. Doing(h, "exchange") /\ UNCHANGED <<trustTables, trustHistory>>
  BY DEF FindGrant, TrustAt, Doing
<1>2. /\ trustCall' \in [Handlers -> TrustCallType]
      /\ \A j \in Handlers \ {h} : trustCall'[j] = trustCall[j]
      /\ \A j \in Handlers : GoesOnWith(j)
      /\ \/ trustCall'[h] = NoTrustCall
         \/ /\ trustCall'[h].pc = "use" /\ trustCall'[h].op = "exchange"
            /\ trustCall'[h].grant = trustCall[h].grant /\ trustCall'[h].knock = trustCall[h].knock
            /\ grants[trustCall[h].grant].credential = 0
  <2>1. (grants[g].credential = 0 /\ TrustGoto(h, "use")) \/ TrustDone(h)
    BY DEF FindGrant
  <2> QED
    BY <1>1, <2>1, GotoIs, DoneIs DEF TrustPCs, Doing
<1>3. /\ TrustTypeOK' /\ TrustSteps' /\ Numbered' /\ Linked'
      /\ DecidedOnce' /\ TaskTellsDecision' /\ KnocksInTurn'
  <2>1. /\ \A k \in DOMAIN knocks : knocks[k] \in KnockRow
        /\ \A x \in DOMAIN grants : grants[x] \in GrantRow
        /\ learned \in [secrets : SUBSET Knocks, tokens : SUBSET Grants,
                       credentials : SUBSET (Grants \X Grants)]
        /\ \A c \in learned.credentials : c[1] \in DOMAIN grants
    BY DEF TrustIInv, TrustTypeOK, Linked
  <2> QED
    BY <1>1, <1>2, <2>1, ExchangeGoesOn DEF trustTables, trustHistory
<1>4. ExchangedOnce'
  <2>1. \A j \in Handlers : Doing(j, "exchange")' =>
           /\ Doing(j, "exchange") /\ trustCall'[j].grant = trustCall[j].grant
           /\ trustCall'[j].knock = trustCall[j].knock
           /\ TrustPc(j, {"use", "credential"})' =>
                 TrustPc(j, {"use", "credential"}) \/ grants[trustCall[j].grant].credential = 0
    BY <1>1, <1>2 DEF Doing, TrustPc, NoTrustCall
  <2>2. \A j \in Handlers, k \in Knocks : DecidesOn(j, k)' => DecidesOn(j, k)
    BY <1>1, <1>2 DEF DecidesOn, Decides, Doing, NoTrustCall
  <2>3. ASSUME NEW j \in Handlers, Doing(j, "exchange")',
               trustCall[j].grant \notin trustRaced.exchange
        PROVE  /\ knocks[trustCall[j].knock].status = "approved"
               /\ \A i \in Handlers : ~DecidesOn(i, trustCall[j].knock)
               /\ \A i \in Handlers : Exchanging(i, trustCall[j].grant) => i = j
               /\ TrustPc(j, {"use", "credential"})' => grants[trustCall[j].grant].credential = 0
    BY <2>1, <2>3 DEF TrustIInv, ExchangedOnce
  <2>4. \A j \in Handlers : Doing(j, "exchange")' => trustCall[j].knock \in Knocks
    BY <2>1, ExchangeIs
  <2> QED
    BY <1>1, <2>1, <2>2, <2>3, <2>4
       DEF TrustIInv, ExchangedOnce, Exchanging, DecidesOn, trustTables, trustHistory
<1> QED
  BY <1>3, <1>4 DEF TrustIInv

LEMMA MarkTokenUsedKeeps ==
  ASSUME TrustIInv, NEW h \in Handlers, MarkTokenUsed(h)
  PROVE  TrustIInv'
<1> SUFFICES ASSUME NEW k \in Knocks, k = trustCall[h].knock, k \in DOMAIN knocks,
                    Doing(h, "exchange"), TrustPc(h, {"use"})
             PROVE  TrustIInv'
  <2>1. Doing(h, "exchange") /\ TrustPc(h, {"use"})
    BY DEF MarkTokenUsed, TrustAt, Doing, TrustPc
  <2> QED
    BY <2>1, ExchangeIs
<1>1. /\ trustCall' \in [Handlers -> TrustCallType]
      /\ trustCall'[h].pc = "credential" /\ trustCall'[h].op = "exchange"
      /\ \A j \in Handlers \ {h} : trustCall'[j] = trustCall[j]
      /\ \A j \in Handlers : GoesOnWith(j)
  BY GotoIs DEF MarkTokenUsed, TrustPCs, Doing
<1>2. UNCHANGED <<knockTasks, grants, trustHistory>>
  BY DEF MarkTokenUsed
<1>3. /\ DOMAIN knocks' = DOMAIN knocks
      /\ \A i \in DOMAIN knocks :
            /\ knocks'[i] \in KnockRow
            /\ knocks'[i].peer = knocks[i].peer /\ knocks'[i].status = knocks[i].status
            /\ knocks'[i].secret = knocks[i].secret /\ knocks'[i].grant = knocks[i].grant
  <2>1. \A i \in DOMAIN knocks : knocks[i] \in KnockRow
    BY DEF TrustIInv, TrustTypeOK
  <2>2. knocks' = [knocks EXCEPT ![k].used = TRUE]
    BY DEF MarkTokenUsed
  <2> QED
    BY <2>1, <2>2 DEF KnockRow
<1>4. /\ TrustTypeOK' /\ TrustSteps' /\ Numbered' /\ Linked'
      /\ DecidedOnce' /\ TaskTellsDecision' /\ KnocksInTurn'
  <2>1. /\ \A x \in DOMAIN grants : grants[x] \in GrantRow
        /\ learned \in [secrets : SUBSET Knocks, tokens : SUBSET Grants,
                       credentials : SUBSET (Grants \X Grants)]
        /\ \A c \in learned.credentials : c[1] \in DOMAIN grants
    BY DEF TrustIInv, TrustTypeOK, Linked
  <2> QED
    BY <1>1, <1>2, <1>3, <2>1, ExchangeGoesOn DEF trustHistory
<1>5. ExchangedOnce'
  <2>1. \A j \in Handlers : TrustPc(j, {"use", "credential"})' => TrustPc(j, {"use", "credential"})
    BY <1>1 DEF TrustPc
  <2> QED
    BY <1>1, <1>2, <1>3, <2>1, ExchangesStay DEF trustHistory
<1> QED
  BY <1>4, <1>5 DEF TrustIInv

LEMMA StoreCredentialKeeps ==
  ASSUME TrustIInv, NEW h \in Handlers, StoreCredential(h)
  PROVE  TrustIInv'
<1> SUFFICES ASSUME NEW g \in Grants, NEW n \in Grants,
                    g = trustCall[h].grant, n = trustCall[h].num, g \in DOMAIN grants,
                    Doing(h, "exchange"), TrustPc(h, {"credential"})
             PROVE  TrustIInv'
  <2>1. Doing(h, "exchange") /\ TrustPc(h, {"credential"})
    BY DEF StoreCredential, TrustAt, Doing, TrustPc
  <2> QED
    BY <2>1, ExchangeIs
<1>1. /\ trustCall' \in [Handlers -> TrustCallType] /\ trustCall'[h] = NoTrustCall
      /\ \A j \in Handlers \ {h} : trustCall'[j] = trustCall[j]
      /\ \A j \in Handlers : GoesOnWith(j)
  BY DoneIs DEF StoreCredential
<1>2. UNCHANGED <<knocks, knockTasks, made, trustRaced, trustFaults>>
  BY DEF StoreCredential
<1>3. /\ DOMAIN grants' = DOMAIN grants
      /\ \A x \in DOMAIN grants : grants'[x] \in GrantRow /\ grants'[x].knock = grants[x].knock
      /\ \A x \in DOMAIN grants \ {g} : grants'[x] = grants[x]
      /\ grants'[g].credential = n
  <2>1. \A x \in DOMAIN grants : grants[x] \in GrantRow
    BY DEF TrustIInv, TrustTypeOK
  <2>2. grants' = [grants EXCEPT ![g].credential = n]
    BY DEF StoreCredential
  <2> QED
    BY <2>1, <2>2 DEF GrantRow
<1>4. /\ learned' \in [secrets : SUBSET Knocks, tokens : SUBSET Grants,
                       credentials : SUBSET (Grants \X Grants)]
      /\ learned'.secrets = learned.secrets
      /\ learned'.credentials = learned.credentials \cup {<<g, n>>}
  <2>1. learned' = [learned EXCEPT !["credentials"] = @ \cup {<<g, n>>}]
    BY DEF StoreCredential, Learn
  <2> QED
    BY <2>1 DEF TrustIInv, TrustTypeOK
<1>5. /\ TrustTypeOK' /\ TrustSteps' /\ Numbered' /\ Linked'
      /\ DecidedOnce' /\ TaskTellsDecision' /\ KnocksInTurn'
  <2>1. \A i \in DOMAIN knocks : knocks[i] \in KnockRow
    BY DEF TrustIInv, TrustTypeOK
  <2>2. \A c \in learned'.credentials : c[1] \in DOMAIN grants
    BY <1>4 DEF TrustIInv, Linked
  <2> QED
    BY <1>1, <1>2, <1>3, <1>4, <2>1, <2>2, ExchangeGoesOn
<1>6. ExchangedOnce'
  <2>1. \A j \in Handlers : Doing(j, "exchange")' =>
           j # h /\ Doing(j, "exchange") /\ trustCall'[j] = trustCall[j]
    BY <1>1 DEF Doing, NoTrustCall
  <2>2. \A j \in Handlers, k \in Knocks : DecidesOn(j, k)' => DecidesOn(j, k)
    BY <1>1 DEF DecidesOn, Decides, NoTrustCall
  <2>3. ASSUME NEW j \in Handlers, Doing(j, "exchange")',
               trustCall[j].grant \notin trustRaced.exchange
        PROVE  /\ knocks[trustCall[j].knock].status = "approved"
               /\ \A i \in Handlers : ~DecidesOn(i, trustCall[j].knock)
               /\ \A i \in Handlers : Exchanging(i, trustCall[j].grant) => i = j
               /\ TrustPc(j, {"use", "credential"}) => grants[trustCall[j].grant].credential = 0
               /\ trustCall[j].grant # g
    BY <2>1, <2>3 DEF TrustIInv, ExchangedOnce, Exchanging
  <2>4. \A j \in Handlers : Doing(j, "exchange")' =>
           trustCall[j].knock \in Knocks /\ trustCall[j].grant \in DOMAIN grants
    BY <2>1, ExchangeIs
  <2>5. ASSUME NEW c \in learned'.credentials, c[1] \notin trustRaced.exchange
        PROVE  grants'[c[1]].credential = c[2]
    <3>1. CASE c = <<g, n>>
      BY <1>3, <3>1
    <3>2. CASE c \in learned.credentials
      <4>1. grants[c[1]].credential = c[2] /\ c[1] \in DOMAIN grants /\ c[2] # 0
        BY <2>5, <3>2, TrustTypes DEF TrustIInv, ExchangedOnce, Linked, Grants
      <4>2. c[1] = g => grants[g].credential = 0
        BY <2>5 DEF TrustIInv, ExchangedOnce, TrustPc
      <4> QED
        BY <1>3, <4>1, <4>2
    <3> QED
      BY <1>4, <3>1, <3>2
  <2> QED
    BY <1>2, <1>3, <2>1, <2>2, <2>3, <2>4, <2>5
       DEF ExchangedOnce, Exchanging, DecidesOn, TrustPc
<1> QED
  BY <1>5, <1>6 DEF TrustIInv

LEMMA FailTrustCallKeeps ==
  ASSUME TrustIInv, NEW h \in Handlers, FailTrustCall(h)
  PROVE  TrustIInv'
<1> DEFINE decided == IF trustCall[h].op \in Decides THEN {trustCall[h].knock} ELSE {}
           exchanged == IF trustCall[h].op = "exchange" THEN {trustCall[h].grant} ELSE {}
<1>1. /\ trustCall' \in [Handlers -> TrustCallType] /\ trustCall'[h] = NoTrustCall
      /\ \A j \in Handlers \ {h} : trustCall'[j] = trustCall[j]
      /\ \A j \in Handlers : GoesOnWith(j)
      /\ StepAt(h)'
  BY DoneIs DEF FailTrustCall
<1>2. UNCHANGED <<trustTables, learned, made>> /\ trustFaults' \in 0..MaxTrustFaults
  BY TrustTypes DEF FailTrustCall, TrustIInv, TrustTypeOK
<1>3. decided \subseteq Knocks /\ exchanged \subseteq Grants
  <2>1. StepAt(h)
    BY DEF TrustIInv, TrustSteps
  <2> QED
    BY <2>1 DEF StepAt, Doing, Decides, TrustIInv, TrustTypeOK
<1>4. trustCall[h].op \in Decides => trustCall[h].knock \in decided
  OBVIOUS
<1>5. trustRaced' = [trustRaced EXCEPT !.decide = @ \cup decided,
                                       !.exchange = @ \cup exchanged]
  BY DEF FailTrustCall
<1> HIDE DEF decided, exchanged
<1>6. /\ trustRaced' \in [knock : BOOLEAN, decide : SUBSET Knocks, exchange : SUBSET Grants]
      /\ trustRaced'.knock <=> trustRaced.knock
      /\ trustRaced'.decide = trustRaced.decide \cup decided
      /\ trustRaced'.exchange = trustRaced.exchange \cup exchanged
  BY <1>3, <1>5 DEF TrustIInv, TrustTypeOK
<1>7. TrustTypeOK'
  BY <1>1, <1>2, <1>6 DEF TrustIInv, TrustTypeOK, TrustCallType, trustTables
<1>8. TrustSteps'
  <2>1. \A j \in Handlers : StepAt(j)
    BY DEF TrustIInv, TrustSteps
  <2>2. \A j \in Handlers \ {h} :
            /\ Doing(j, "knock") => trustCall[j].num \notin DOMAIN knocks' \cup learned'.secrets
            /\ Doing(j, "approve") /\ TrustPc(j, {"grant"}) => trustCall[j].grant \notin DOMAIN grants'
    BY <1>2, <2>1 DEF StepAt, trustTables
  <2> QED
    BY <1>1, <1>2, <2>2, StepsStay, TrustTypes DEF trustTables
<1>9. Numbered'
  BY <1>1, <1>2, NumbersStay DEF TrustIInv, Numbered, trustTables
<1>10. Linked'
  BY <1>2 DEF TrustIInv, Linked, trustTables
<1>11. DecidedOnce' /\ TaskTellsDecision'
  <2>1. \A j \in Handlers :
            \/ trustCall'[j] = trustCall[j]
            \/ /\ trustCall'[j].op \notin Decides
               /\ trustCall[j].op \in Decides => trustCall[j].knock \in trustRaced'.decide
    BY <1>1, <1>4, <1>6 DEF NoTrustCall, Decides
  <2> QED
    BY <1>2, <1>6, <2>1, DecisionsStay DEF trustTables
<1>12. KnocksInTurn'
  <2>1. \A j \in Handlers : StaysOut(j, {"knock"})
    BY <1>1 DEF StaysOut, NoTrustCall
  <2> QED
    BY <1>2, <1>6, <2>1, TurnStays DEF trustTables
<1>13. ExchangedOnce'
  <2>1. \A j \in Handlers : TrustPc(j, {"use", "credential"})' => TrustPc(j, {"use", "credential"})
    BY <1>1 DEF TrustPc, NoTrustCall
  <2> QED
    BY <1>1, <1>2, <1>6, <2>1, ExchangesStay DEF trustTables
<1> QED
  BY <1>7, <1>8, <1>9, <1>10, <1>11, <1>12, <1>13 DEF TrustIInv

LEMMA EndGrantKeeps ==
  ASSUME TrustIInv, NEW g \in Grants, EndGrant(g)
  PROVE  TrustIInv'
<1>1. UNCHANGED <<knocks, knockTasks, trustHistory, trustCall>>
  BY DEF EndGrant
<1>2. /\ DOMAIN grants' = DOMAIN grants
      /\ \A x \in DOMAIN grants :
            /\ grants'[x] \in GrantRow /\ grants'[x].knock = grants[x].knock
            /\ grants'[x].credential = grants[x].credential
  <2>1. \A x \in DOMAIN grants : grants[x] \in GrantRow
    BY DEF TrustIInv, TrustTypeOK
  <2>2. grants' = [grants EXCEPT ![g].usable = FALSE] /\ g \in DOMAIN grants
    BY DEF EndGrant
  <2> QED
    BY <2>1, <2>2 DEF GrantRow
<1>3. TrustTypeOK'
  BY <1>1, <1>2 DEF TrustIInv, TrustTypeOK, trustHistory
<1>4. TrustSteps'
  BY <1>1, <1>2 DEF TrustIInv, TrustSteps, StepAt, Doing, TrustPc, trustHistory
<1>5. Numbered' /\ Linked'
  <2>1. \A k \in DOMAIN knocks : knocks[k].grant \in DOMAIN grants \cup {0}
    BY DEF TrustIInv, TrustTypeOK
  <2>2. Numbered'
    BY <1>1, <1>2 DEF TrustIInv, Numbered, Doing, trustHistory
  <2>3. Linked'
    BY <1>1, <1>2, <2>1 DEF TrustIInv, Linked, trustHistory
  <2> QED
    BY <2>2, <2>3
<1>6. DecidedOnce' /\ TaskTellsDecision'
  BY <1>1, <1>2, DecisionsStay DEF trustHistory
<1>7. KnocksInTurn'
  BY <1>1 DEF TrustIInv, KnocksInTurn, Doing, TrustPc, trustHistory
<1>8. ExchangedOnce'
  BY <1>1, <1>2 DEF TrustIInv, ExchangedOnce, Linked, TrustSteps, StepAt,
                    Exchanging, DecidesOn, Doing, TrustPc, trustHistory
<1> QED
  BY <1>3, <1>4, <1>5, <1>6, <1>7, <1>8 DEF TrustIInv

-----------------------------------------------------------------------------
LEMMA TrustIInvStart == TrustInit => TrustIInv
<1> SUFFICES ASSUME TrustInit PROVE TrustIInv
  OBVIOUS
<1>1. /\ DOMAIN knocks = {} /\ DOMAIN knockTasks = {} /\ DOMAIN grants = {}
      /\ learned = [secrets |-> {}, tokens |-> {}, credentials |-> {}]
      /\ made = [knocks |-> 0, grants |-> 0, credentials |-> 0]
      /\ trustRaced = [knock |-> FALSE, decide |-> {}, exchange |-> {}]
      /\ trustFaults = 0
      /\ trustCall = [h \in Handlers |-> NoTrustCall]
  BY DEF TrustInit
<1>2. NoTrustCall \in TrustCallType /\ NoTrustCall.op = "idle"
  BY DEF NoTrustCall, TrustCallType, TrustOps, TrustPCs
<1>3. \A h \in Handlers : trustCall[h].op = "idle" /\ trustCall[h] = NoTrustCall
  BY <1>1, <1>2
<1>4. MaxKnocks \in Nat /\ MaxGrants \in Nat /\ MaxTrustFaults \in Nat
  BY TrustAssumption
<1>5. TrustTypeOK
  BY <1>1, <1>2, <1>4 DEF TrustTypeOK, TrustCallType
<1>6. TrustSteps /\ Numbered /\ Linked
  BY <1>1, <1>3 DEF TrustSteps, StepAt, Numbered, Linked, Doing
<1>7. DecidedOnce /\ TaskTellsDecision /\ KnocksInTurn /\ ExchangedOnce
  BY <1>1, <1>3 DEF DecidedOnce, TaskTellsDecision, KnocksInTurn, ExchangedOnce, Doing
<1> QED
  BY <1>5, <1>6, <1>7 DEF TrustIInv

LEMMA TrustIInvStays == TrustIInv /\ [TrustNext]_trustVars => TrustIInv'
<1> SUFFICES ASSUME TrustIInv, [TrustNext]_trustVars PROVE TrustIInv'
  OBVIOUS
<1>1. ASSUME NEW h \in Handlers, HandleTrust(h) PROVE TrustIInv'
  BY <1>1, StartKnockKeeps, FindPendingKeeps, RenewKnockKeeps, InsertKnockKeeps,
     StartApproveKeeps, InsertGrantKeeps, ApproveKnockKeeps, StartDenyKeeps,
     DenyKnockKeeps, SettleTaskKeeps, StartExchangeKeeps, FindGrantKeeps,
     MarkTokenUsedKeeps, StoreCredentialKeeps, FailTrustCallKeeps
     DEF HandleTrust
<1>2. ASSUME NEW g \in Grants, EndGrant(g) PROVE TrustIInv'
  BY <1>2, EndGrantKeeps
<1>3. CASE UNCHANGED trustVars
  <2>1. UNCHANGED <<knocks, knockTasks, grants, learned, made, trustRaced, trustFaults, trustCall>>
    BY <1>3 DEF trustVars, trustTables, trustHistory
  <2>2. TrustTypeOK' /\ TrustSteps' /\ Numbered' /\ Linked'
    BY <2>1 DEF TrustIInv, TrustTypeOK, TrustSteps, StepAt, Numbered, Linked, Doing, TrustPc
  <2>3. DecidedOnce' /\ TaskTellsDecision'
    BY <2>1, DecisionsStay
  <2>4. KnocksInTurn' /\ ExchangedOnce'
    BY <2>1 DEF TrustIInv, KnocksInTurn, ExchangedOnce, Exchanging, DecidesOn, Doing, TrustPc
  <2> QED
    BY <2>2, <2>3, <2>4 DEF TrustIInv
<1> QED
  BY <1>1, <1>2, <1>3 DEF TrustNext

LEMMA TrustIInvSuffices ==
  ASSUME TrustIInv
  PROVE  /\ TrustTypeOK /\ OnePendingPerPeer /\ OneGrantPerKnock /\ TaskTellsDecision
         /\ DeniedGrantsNothing /\ LatestSecretStands /\ CredentialAdmitted
<1>1. OnePendingPerPeer
  BY DEF TrustIInv, KnocksInTurn, OnePendingPerPeer
<1>2. \A g \in DOMAIN grants : grants[g].knock \in DOMAIN knocks
  BY DEF TrustIInv, Linked
<1>3. OneGrantPerKnock
  <2> SUFFICES ASSUME NEW g \in DOMAIN grants, NEW i \in DOMAIN grants,
                      grants[g].knock = grants[i].knock,
                      grants[g].knock \notin trustRaced.decide
               PROVE  g = i
    BY DEF OneGrantPerKnock
  <2> DEFINE k == grants[g].knock
  <2>1. OnceDecided(k)
    BY <1>2 DEF TrustIInv, DecidedOnce
  <2>2. CASE knocks[k].status = "pending"
    <3>1. PICK h \in Handlers : /\ Doing(h, "approve")
                                /\ trustCall[h].knock = k /\ trustCall[h].grant = g
      BY <2>1, <2>2 DEF OnceDecided
    <3>2. PICK j \in Handlers : /\ Doing(j, "approve")
                                /\ trustCall[j].knock = k /\ trustCall[j].grant = i
      BY <2>1, <2>2 DEF OnceDecided
    <3>3. h = j
      BY <2>1, <3>1, <3>2 DEF OnceDecided, DecidesOn, Doing, Decides
    <3> QED
      BY <3>1, <3>2, <3>3
  <2>3. CASE knocks[k].status # "pending"
    BY <2>1, <2>3 DEF OnceDecided
  <2> QED
    BY <2>2, <2>3
<1>4. DeniedGrantsNothing
  BY <1>2 DEF TrustIInv, DecidedOnce, OnceDecided, DeniedGrantsNothing
<1>5. LatestSecretStands
  <2> SUFFICES ASSUME ~trustRaced.knock, learned.secrets # {}
               PROVE  \E k \in DOMAIN knocks :
                         knocks[k].secret = CHOOSE s \in learned.secrets :
                                               \A t \in learned.secrets : t <= s
    BY DEF LatestSecretStands
  <2>1. PICK k \in DOMAIN knocks :
           /\ knocks[k].secret \in learned.secrets
           /\ \A s \in learned.secrets : s <= knocks[k].secret
    BY DEF TrustIInv, KnocksInTurn
  <2> DEFINE latest == CHOOSE s \in learned.secrets : \A t \in learned.secrets : t <= s
  <2>2. latest \in learned.secrets /\ \A t \in learned.secrets : t <= latest
    BY <2>1
  <2> HIDE DEF latest
  <2>3. latest = knocks[k].secret
    <3>1. latest <= knocks[k].secret /\ knocks[k].secret <= latest
      BY <2>1, <2>2
    <3>2. latest \in Nat /\ knocks[k].secret \in Nat
      BY <2>1, <2>2, TrustTypes
    <3> QED
      BY <3>1, <3>2
  <2> QED
    BY <2>3 DEF latest
<1>6. CredentialAdmitted
  BY DEF TrustIInv, ExchangedOnce, CredentialAdmitted, Admits
<1> QED
  BY <1>1, <1>3, <1>4, <1>5, <1>6 DEF TrustIInv

\* Of the trust between agents (agents/service.ts: createKnock, approveKnock,
\* denyKnock, exchangeTrustGrant): whatever overlaps or breaks off, a knock of
\* a peer is pending once, decided once and its task tells the decision, a
\* denial grants nothing, the latest secret stands, and a credential is made
\* out for an approved knock, admits its holder and dies with its grant, but
\* for the overlaps that the history in trustRaced names.
THEOREM TrustCorrect == TrustSpec => TrustRules
<1>1. TrustIInv /\ [TrustNext]_trustVars =>
         [\A h \in Handlers :
            StoreCredential(h) /\ trustCall[h].grant \notin trustRaced.exchange
            => knocks[trustCall[h].knock].status = "approved"]_trustVars
  BY DEF StoreCredential, TrustAt, Doing, TrustIInv, ExchangedOnce
<1>2. TrustIInv /\ [TrustNext]_trustVars =>
         [\A g \in DOMAIN grants : ~grants[g].usable => ~grants'[g].usable]_trustVars
  <2> SUFFICES ASSUME TrustIInv, TrustNext, NEW g \in DOMAIN grants, ~grants[g].usable
               PROVE  ~grants'[g].usable
    OBVIOUS
  <2>1. \A x \in DOMAIN grants : grants[x] \in GrantRow
    BY DEF TrustIInv, TrustTypeOK
  <2>2. ASSUME NEW h \in Handlers, HandleTrust(h) PROVE ~grants'[g].usable
    <3>1. CASE InsertGrant(h)
      <4>1. trustCall[h].grant \notin DOMAIN grants
        BY <3>1 DEF TrustIInv, TrustSteps, StepAt, InsertGrant, TrustAt, Doing, TrustPc
      <4> QED
        BY <3>1, <4>1 DEF InsertGrant, With
    <3>2. CASE StoreCredential(h)
      <4>1. grants' = [grants EXCEPT ![trustCall[h].grant].credential = trustCall[h].num]
        BY <3>2 DEF StoreCredential
      <4> QED
        BY <2>1, <4>1 DEF GrantRow
    <3>3. InsertGrant(h) \/ StoreCredential(h) \/ UNCHANGED grants
      BY <2>2, ZenonT(40)
         DEF HandleTrust, StartKnock, FindPending, RenewKnock, InsertKnock, StartApprove,
             ApproveKnock, StartDeny, DenyKnock, SettleTask, Settle, StartExchange,
             FindGrant, MarkTokenUsed, FailTrustCall, TrustStart, trustTables
    <3> QED
      BY <3>1, <3>2, <3>3
  <2>3. ASSUME NEW x \in Grants, EndGrant(x) PROVE ~grants'[g].usable
    <3>1. grants' = [grants EXCEPT ![x].usable = FALSE]
      BY <2>3 DEF EndGrant
    <3> QED
      BY <2>1, <3>1 DEF GrantRow
  <2> QED
    BY <2>2, <2>3 DEF TrustNext
<1> QED
  BY <1>1, <1>2, TrustIInvStart, TrustIInvStays, TrustIInvSuffices, PTL
     DEF TrustSpec, TrustRules, CredentialForApproved, EndedStaysEnded

(***************************************************************************)
(* AgentListing.  While one handler at a time publishes or pauses, the     *)
(* status it has set is the one it lists the agent for.                    *)
(***************************************************************************)

ListingCallType ==
    [op : {"idle", "create", "bind", "publish", "pause"},
     pc : {"idle", "insert", "check", "bind", "status", "list"},
     tools : SUBSET ToolRows]

Listing(h) == listingCall[h].op \in Lists

ListingSteps ==
    \A h \in Handlers :
        /\ Listing(h) <=> listingCall[h].pc \in {"status", "list"}
        /\ Listing(h) \/ listingCall[h].pc \in {"check", "bind"} => agent # "none"

OneLists == ~listingRaced => \A h, k \in Handlers : Listing(h) /\ Listing(k) => h = k

StatusIsSet ==
    ~listingRaced => \A h \in Handlers : listingCall[h].pc = "list" =>
        agent = IF listingCall[h].op = "publish" THEN "published" ELSE "paused"

ListedAsPublished ==
    ~listingRaced /\ (\A h \in Handlers : ~Listing(h)) =>
        (agent = "published" <=> listing = "listed")

ListingIInv ==
    /\ ListingTypeOK
    /\ ListingSteps
    /\ OneLists
    /\ StatusIsSet
    /\ ListedAsPublished

LEMMA ListingTypes ==
  ASSUME ListingIInv
  PROVE  /\ listingCall \in [Handlers -> ListingCallType] /\ NoListingCall \in ListingCallType
         /\ agent \in {"none", "draft", "published", "paused"}
         /\ listing \in {"none", "listed", "unlisted"}
         /\ toolRows \subseteq ToolRows /\ boundRows \subseteq toolRows
         /\ listingRaced \in BOOLEAN /\ listingFaults \in 0..MaxListingFaults
         /\ agent = "none" => listing = "none" /\ boundRows = {}
         /\ MaxListingFaults \in Nat
<1>1. NoListingCall \in ListingCallType
  BY DEF NoListingCall, ListingCallType
<1>2. ListingTypeOK
  BY DEF ListingIInv
<1> QED
  BY <1>1, <1>2, ListingAssumption DEF ListingTypeOK, ListingCallType

LEMMA ListingStart == ListingInit => ListingIInv
<1> SUFFICES ASSUME ListingInit PROVE ListingIInv
  OBVIOUS
<1>1. \A h \in Handlers : listingCall[h] = NoListingCall
  BY DEF ListingInit
<1>2. ListingTypeOK
  <2>1. NoListingCall \in ListingCallType
    BY DEF NoListingCall, ListingCallType
  <2>2. listingFaults \in 0..MaxListingFaults
    BY ListingAssumption DEF ListingInit
  <2> QED
    BY <2>1, <2>2 DEF ListingInit, ListingTypeOK, ListingCallType
<1>3. ListingSteps /\ OneLists
  BY <1>1 DEF ListingSteps, OneLists, Listing, NoListingCall, Lists
<1>4. StatusIsSet /\ ListedAsPublished
  BY <1>1 DEF ListingInit, StatusIsSet, ListedAsPublished, NoListingCall
<1> QED
  BY <1>2, <1>3, <1>4 DEF ListingIInv

\* A handler that does not list goes on, or one that lists breaks off; the
\* agent may come to be, and its tools may change.
LEMMA ListingMoves ==
  ASSUME ListingIInv, NEW h \in Handlers, NEW r \in ListingCallType,
         listingCall' = [listingCall EXCEPT ![h] = r],
         r.op \notin Lists, r.pc \notin {"status", "list"},
         r.pc \in {"check", "bind"} => agent' # "none",
         listing' = listing,
         agent' = agent \/ (agent = "none" /\ agent' = "draft"),
         toolRows' = toolRows, boundRows' \subseteq toolRows,
         boundRows' # {} => agent' # "none",
         listingRaced' \in BOOLEAN, listingFaults' \in 0..MaxListingFaults,
         ~listingRaced' => ~listingRaced /\ ~Listing(h)
  PROVE  ListingIInv'
<1> USE ListingTypes
<1>1. /\ listingCall' \in [Handlers -> ListingCallType] /\ listingCall'[h] = r
      /\ \A k \in Handlers \ {h} : listingCall'[k] = listingCall[k]
  OBVIOUS
<1>2. ListingTypeOK'
  <2>1. agent' = "none" => listing' = "none" /\ boundRows' = {}
    OBVIOUS
  <2>2. agent' \in {"none", "draft", "published", "paused"}
    OBVIOUS
  <2> QED
    BY <1>1, <2>1, <2>2 DEF ListingTypeOK, ListingCallType
<1>3. agent # "none" => agent' = agent
  OBVIOUS
<1>4. ListingSteps'
  BY <1>1, <1>3 DEF ListingIInv, ListingSteps, Listing
<1>5. OneLists'
  BY <1>1 DEF ListingIInv, OneLists, Listing
<1>6. StatusIsSet'
  BY <1>1, <1>3 DEF ListingIInv, ListingSteps, StatusIsSet, Listing
<1>7. ListedAsPublished'
  <2> SUFFICES ASSUME ~listingRaced', \A k \in Handlers : ~Listing(k)'
               PROVE  agent' = "published" <=> listing' = "listed"
    BY DEF ListedAsPublished
  <2>1. \A k \in Handlers : ~Listing(k)
    BY <1>1 DEF Listing
  <2>2. agent = "published" <=> listing = "listed"
    BY <2>1 DEF ListingIInv, ListedAsPublished
  <2> QED
    BY <2>2
<1> QED
  BY <1>2, <1>4, <1>5, <1>6, <1>7 DEF ListingIInv

LEMMA ListingDoneIs ==
  ASSUME ListingIInv, NEW h \in Handlers, ListingDone(h)
  PROVE  /\ NoListingCall \in ListingCallType
         /\ listingCall' = [listingCall EXCEPT ![h] = NoListingCall]
         /\ NoListingCall.op \notin Lists
         /\ NoListingCall.pc \notin {"status", "list", "check", "bind"}
  BY ListingTypes DEF ListingDone, NoListingCall, Lists

LEMMA ListingGotoIs ==
  ASSUME ListingIInv, NEW h \in Handlers, NEW pc, ListingGoto(h, pc),
         pc \in {"idle", "insert", "check", "bind", "status", "list"}
  PROVE  \E r \in ListingCallType :
            /\ listingCall' = [listingCall EXCEPT ![h] = r]
            /\ r.pc = pc /\ r.op = listingCall[h].op /\ r.tools = listingCall[h].tools
<1> DEFINE r == [listingCall[h] EXCEPT !.pc = pc]
<1>1. listingCall' = [listingCall EXCEPT ![h] = r]
  BY Zenon DEF ListingGoto
<1>2. r \in ListingCallType /\ r.pc = pc /\ r.op = listingCall[h].op /\ r.tools = listingCall[h].tools
  BY ListingTypes DEF ListingCallType
<1> HIDE DEF r
<1> QED
  BY <1>1, <1>2

\* A creation and a binding start, as something that lists nothing.
LEMMA StartListingStays ==
  ASSUME ListingIInv, NEW h \in Handlers, NEW op, NEW pc, NEW tools \in SUBSET ToolRows,
         StartListing(h, op, pc, tools),
         \/ op = "create" /\ pc = "insert"
         \/ op = "bind" /\ pc = "check"
         \/ op \in Lists /\ pc = "status"
  PROVE  ListingIInv'
<1> USE ListingTypes
<1> DEFINE r == [op |-> op, pc |-> pc, tools |-> tools]
<1>1. r \in ListingCallType /\ r.op = op /\ r.pc = pc
  BY DEF ListingCallType, Lists
<1>2. /\ listingCall' = [listingCall EXCEPT ![h] = r]
      /\ op # "create" => agent # "none"
      /\ agent' = agent /\ listing' = listing /\ toolRows' = toolRows
      /\ boundRows' = boundRows /\ listingFaults' = listingFaults
      /\ listingCall[h] = NoListingCall
  BY DEF StartListing
<1>3. ~Listing(h)
  BY <1>2 DEF Listing, NoListingCall, Lists
<1>4. listingRaced' = (listingRaced \/ (op \in Lists /\ Listers # {}))
  BY DEF StartListing
<1>5. listingRaced' \in BOOLEAN
  BY <1>4
<1>6. ~listingRaced' => ~listingRaced /\ (op \in Lists => \A k \in Handlers : ~Listing(k))
  BY <1>4 DEF Listers, Listing
<1> HIDE DEF r
<1>7. CASE op \notin Lists
  BY <1>1, <1>2, <1>3, <1>5, <1>6, <1>7, ListingMoves DEF Lists
<1>8. CASE op \in Lists
  <2>1. /\ listingCall' \in [Handlers -> ListingCallType] /\ listingCall'[h] = r
        /\ \A k \in Handlers \ {h} : listingCall'[k] = listingCall[k]
    BY <1>1, <1>2
  <2>2. agent # "none" /\ pc = "status"
    BY <1>2, <1>8 DEF Lists
  <2>3. ListingTypeOK'
    BY <1>2, <1>5, <2>1 DEF ListingTypeOK, ListingCallType
  <2>4. ListingSteps'
    BY <1>1, <1>2, <1>8, <2>1, <2>2 DEF ListingIInv, ListingSteps, Listing
  <2>5. OneLists' /\ StatusIsSet'
    BY <1>1, <1>2, <1>6, <1>8, <2>1, <2>2
       DEF ListingIInv, OneLists, StatusIsSet, Listing
  <2>6. Listing(h)'
    BY <1>1, <1>8, <2>1 DEF Listing
  <2> QED
    BY <2>3, <2>4, <2>5, <2>6 DEF ListingIInv, ListedAsPublished
<1> QED
  BY <1>7, <1>8

LEMMA InsertAgentStays ==
  ASSUME ListingIInv, NEW h \in Handlers, InsertAgent(h)
  PROVE  ListingIInv'
<1> USE ListingTypes
<1>1. /\ listing' = listing /\ toolRows' = toolRows /\ boundRows' = boundRows
      /\ listingRaced' = listingRaced /\ listingFaults' = listingFaults
      /\ listingCall[h].pc = "insert"
  BY DEF InsertAgent, ListingAt
<1>2. ~Listing(h)
  BY <1>1 DEF ListingIInv, ListingSteps
<1>3. CASE agent = "none"
  <2>1. agent' = "draft" /\ ListingGoto(h, "check")
    BY <1>3 DEF InsertAgent
  <2>2. PICK r \in ListingCallType :
           /\ listingCall' = [listingCall EXCEPT ![h] = r]
           /\ r.pc = "check" /\ r.op = listingCall[h].op
    BY <2>1, ListingGotoIs
  <2>3. r.op \notin Lists
    BY <1>2, <2>2 DEF Listing
  <2> QED
    BY <1>1, <1>2, <1>3, <2>1, <2>2, <2>3, ListingMoves
<1>4. CASE agent # "none"
  BY <1>1, <1>2, <1>4, ListingDoneIs, ListingMoves DEF InsertAgent
<1> QED
  BY <1>3, <1>4

LEMMA CheckToolsStays ==
  ASSUME ListingIInv, NEW h \in Handlers, CheckTools(h)
  PROVE  ListingIInv'
<1> USE ListingTypes
<1>1. /\ listing' = listing /\ toolRows' = toolRows /\ boundRows' = boundRows
      /\ listingRaced' = listingRaced /\ listingFaults' = listingFaults
      /\ agent' = agent /\ listingCall[h].pc = "check"
  BY DEF CheckTools, ListingAt
<1>2. ~Listing(h) /\ agent # "none"
  BY <1>1 DEF ListingIInv, ListingSteps
<1>3. CASE listingCall[h].tools \subseteq toolRows
  <2>1. ListingGoto(h, "bind")
    BY <1>3 DEF CheckTools
  <2>2. PICK r \in ListingCallType :
           /\ listingCall' = [listingCall EXCEPT ![h] = r]
           /\ r.pc = "bind" /\ r.op = listingCall[h].op
    BY <2>1, ListingGotoIs
  <2>3. r.op \notin Lists
    BY <1>2, <2>2 DEF Listing
  <2> QED
    BY <1>1, <1>2, <2>2, <2>3, ListingMoves
<1>4. CASE ~(listingCall[h].tools \subseteq toolRows)
  BY <1>1, <1>2, <1>4, ListingDoneIs, ListingMoves DEF CheckTools
<1> QED
  BY <1>3, <1>4

LEMMA BindToolsStays ==
  ASSUME ListingIInv, NEW h \in Handlers, BindTools(h)
  PROVE  ListingIInv'
<1> USE ListingTypes
<1>1. /\ listing' = listing /\ toolRows' = toolRows
      /\ listingRaced' = listingRaced /\ listingFaults' = listingFaults
      /\ agent' = agent /\ listingCall[h].pc = "bind" /\ ListingDone(h)
      /\ boundRows' \subseteq toolRows
  BY DEF BindTools, ListingAt
<1>2. ~Listing(h) /\ agent # "none"
  BY <1>1 DEF ListingIInv, ListingSteps
<1> QED
  BY <1>1, <1>2, ListingDoneIs, ListingMoves

LEMMA FailListingCallStays ==
  ASSUME ListingIInv, NEW h \in Handlers, FailListingCall(h)
  PROVE  ListingIInv'
<1> USE ListingTypes
<1>1. /\ listing' = listing /\ toolRows' = toolRows /\ boundRows' = boundRows
      /\ agent' = agent /\ ListingDone(h)
      /\ listingFaults' \in 0..MaxListingFaults
  BY DEF FailListingCall
<1>2. listingRaced' = (listingRaced \/ Listing(h))
  BY Zenon DEF FailListingCall, Listing
<1>3. listingRaced' \in BOOLEAN /\ (~listingRaced' => ~listingRaced /\ ~Listing(h))
  BY <1>2
<1> QED
  BY <1>1, <1>3, ListingDoneIs, ListingMoves

LEMMA DeleteToolStays ==
  ASSUME ListingIInv, DeleteTool
  PROVE  ListingIInv'
<1> USE ListingTypes
<1>1. /\ listing' = listing /\ listingCall' = listingCall /\ agent' = agent
      /\ listingRaced' = listingRaced /\ listingFaults' = listingFaults
      /\ toolRows' \subseteq ToolRows /\ boundRows' \subseteq toolRows'
      /\ boundRows' \subseteq boundRows
  BY DEF DeleteTool
<1>2. ListingTypeOK'
  BY <1>1 DEF ListingTypeOK, ListingCallType
<1> QED
  BY <1>1, <1>2
     DEF ListingIInv, ListingSteps, OneLists, StatusIsSet, ListedAsPublished, Listing

LEMMA SetStatusStays ==
  ASSUME ListingIInv, NEW h \in Handlers, SetStatus(h)
  PROVE  ListingIInv'
<1> USE ListingTypes
<1>1. /\ listing' = listing /\ toolRows' = toolRows /\ boundRows' = boundRows
      /\ listingRaced' = listingRaced /\ listingFaults' = listingFaults
      /\ listingCall[h].pc = "status" /\ ListingGoto(h, "list")
      /\ agent' = IF listingCall[h].op = "publish" THEN "published" ELSE "paused"
  BY DEF SetStatus, ListingAt
<1>2. PICK r \in ListingCallType :
         /\ listingCall' = [listingCall EXCEPT ![h] = r]
         /\ r.pc = "list" /\ r.op = listingCall[h].op
  BY <1>1, ListingGotoIs
<1>3. /\ listingCall' \in [Handlers -> ListingCallType] /\ listingCall'[h] = r
      /\ \A k \in Handlers \ {h} : listingCall'[k] = listingCall[k]
  BY <1>2
<1>4. Listing(h) /\ Listing(h)' /\ agent # "none"
  BY <1>1, <1>2, <1>3 DEF ListingIInv, ListingSteps, Listing
<1>5. ListingTypeOK'
  BY <1>1, <1>3, <1>4 DEF ListingTypeOK, ListingCallType
<1>6. ListingSteps'
  BY <1>1, <1>2, <1>3, <1>4 DEF ListingIInv, ListingSteps, Listing
<1>7. OneLists'
  BY <1>1, <1>2, <1>3 DEF ListingIInv, OneLists, Listing
<1>8. StatusIsSet'
  <2> SUFFICES ASSUME ~listingRaced', NEW k \in Handlers, listingCall'[k].pc = "list"
               PROVE  agent' = IF listingCall'[k].op = "publish" THEN "published" ELSE "paused"
    BY DEF StatusIsSet
  <2>1. k = h
    BY <1>1, <1>3, <1>4 DEF ListingIInv, ListingSteps, OneLists
  <2> QED
    BY <1>1, <1>2, <1>3, <2>1
<1> QED
  BY <1>4, <1>5, <1>6, <1>7, <1>8 DEF ListingIInv, ListedAsPublished

LEMMA SetListedStays ==
  ASSUME ListingIInv, NEW h \in Handlers, SetListed(h)
  PROVE  ListingIInv'
<1> USE ListingTypes
<1>1. /\ agent' = agent /\ toolRows' = toolRows /\ boundRows' = boundRows
      /\ listingRaced' = listingRaced /\ listingFaults' = listingFaults
      /\ listingCall[h].pc = "list" /\ ListingDone(h)
      /\ listing' = IF listingCall[h].op = "publish" THEN "listed"
                    ELSE IF listing = "none" THEN listing ELSE "unlisted"
  BY DEF SetListed, ListingAt
<1>2. /\ listingCall' \in [Handlers -> ListingCallType] /\ listingCall'[h] = NoListingCall
      /\ \A k \in Handlers \ {h} : listingCall'[k] = listingCall[k]
  BY <1>1, ListingDoneIs
<1>3. Listing(h) /\ agent # "none"
  BY <1>1 DEF ListingIInv, ListingSteps
<1>4. ListingTypeOK'
  BY <1>1, <1>2, <1>3 DEF ListingTypeOK, ListingCallType
<1>5. ListingSteps' /\ OneLists'
  BY <1>1, <1>2, ListingDoneIs DEF ListingIInv, ListingSteps, OneLists, Listing
<1>6. StatusIsSet'
  BY <1>1, <1>2, ListingDoneIs DEF ListingIInv, StatusIsSet
<1>7. ListedAsPublished'
  BY <1>1 DEF ListingIInv, StatusIsSet, ListedAsPublished
<1> QED
  BY <1>4, <1>5, <1>6, <1>7 DEF ListingIInv

LEMMA ListingStays == ListingIInv /\ [ListingNext]_listingVars => ListingIInv'
<1> SUFFICES ASSUME ListingIInv, [ListingNext]_listingVars PROVE ListingIInv'
  OBVIOUS
<1>1. CASE UNCHANGED listingVars
  BY <1>1 DEF listingVars, ListingIInv, ListingTypeOK, ListingSteps, OneLists, StatusIsSet,
              ListedAsPublished, Listing
<1>2. ASSUME NEW h \in Handlers, NEW tools \in SUBSET ToolRows,
             \/ StartListing(h, "create", "insert", tools)
             \/ StartListing(h, "bind", "check", tools)
      PROVE  ListingIInv'
  BY <1>2, StartListingStays
<1>3. ASSUME NEW h \in Handlers, NEW op \in Lists, StartListing(h, op, "status", {})
      PROVE  ListingIInv'
  BY <1>3, StartListingStays
<1>4. ASSUME NEW h \in Handlers,
             \/ InsertAgent(h) \/ CheckTools(h) \/ BindTools(h)
             \/ SetStatus(h) \/ SetListed(h) \/ FailListingCall(h)
      PROVE  ListingIInv'
  BY <1>4, InsertAgentStays, CheckToolsStays, BindToolsStays, SetStatusStays,
     SetListedStays, FailListingCallStays
<1> QED
  BY <1>1, <1>2, <1>3, <1>4, DeleteToolStays DEF ListingNext

\* Of an agent's life in the directory (agents/service.ts: publishAgent,
\* pauseAgent): for any number of handlers and faults, an agent that says it is
\* published is found and no other is, unless publications and pauses
\* overlapped or broke off.
THEOREM ListingCorrect == ListingSpec => []ListingRules
<1>1. ListingIInv => ListingRules
  <2> SUFFICES ASSUME ListingIInv, ~listingRaced, Listers = {}
               PROVE  (agent = "published" <=> Found) /\ (listing = "listed" <=> Found)
    BY DEF ListingIInv, ListingRules, FoundWhilePublished
  <2>1. \A h \in Handlers : ~Listing(h)
    BY DEF Listers, Listing
  <2> QED
    BY <2>1 DEF ListingIInv, ListedAsPublished, Found
<1> QED
  BY <1>1, ListingStart, ListingStays, PTL DEF ListingSpec

(***************************************************************************)
(* ChatSettings.  A key once stored is only replaced, and an update stores *)
(* the one it was accepted with; while updates do not overlap, that is the *)
(* key given last or the one it found.                                     *)
(***************************************************************************)

ChatCallType ==
    [op : {"idle", "update", "run"},
     pc : {"idle", "load", "find", "write", "insert", "settings", "save",
           "create", "key"},
     provider : Providers \cup {"none"}, key : Updates \cup {0},
     gives : Updates \cup {0}]

ChatHistoryType ==
    [given : Updates \cup {0}, raced : BOOLEAN,
     accepted : (Providers \cup {"none"}) \X (Updates \cup {0}),
     faults : 0..MaxChatFaults]

\* What is left to an update: first the key, then the provider.
Storing == {"find", "write", "insert"}
Saving == {"settings", "save", "create"}

Changing(h) == chatCall[h].op = "update"

ChatSteps ==
    \A h \in Handlers :
        /\ Changing(h) => /\ chatCall[h].pc \in {"load"} \cup Storing \cup Saving
                          /\ chatCall[h].provider # "none"
                          /\ chatCall[h].pc \in Storing => chatCall[h].key # 0
        /\ Changing(h) /\ chatCall[h].pc \in Saving /\ chatCall[h].provider # "ollama"
              => llmKey # 0

OneChanges == ~chatHistory.raced => \A h, k \in Handlers : Changing(h) /\ Changing(k) => h = k

\* Of an update that no other one overlaps.
KeyInHand ==
    ~chatHistory.raced => \A h \in Handlers : Changing(h) =>
        /\ chatCall[h].pc \in Storing =>
              chatCall[h].key = IF chatCall[h].gives # 0 THEN chatCall[h].gives ELSE llmKey
        /\ chatCall[h].pc = "insert" => llmKey = 0
        /\ chatCall[h].pc = "create" => provider = "none"

\* What is stored, or is about to be, is what was accepted.
OnItsWay ==
    ~chatHistory.raced /\ chatHistory.faults = 0 =>
        /\ \A h \in Handlers : Changing(h) =>
              /\ chatCall[h].pc = "load" => <<provider, llmKey>> = chatHistory.accepted
              /\ chatCall[h].pc \in Storing =>
                    <<chatCall[h].provider, chatCall[h].key>> = chatHistory.accepted
              /\ chatCall[h].pc \in Saving =>
                    <<chatCall[h].provider, llmKey>> = chatHistory.accepted
        /\ (\A h \in Handlers : ~Changing(h)) => <<provider, llmKey>> = chatHistory.accepted

ChatIInv ==
    /\ ChatTypeOK
    /\ ChatSteps
    /\ RunHasKey
    /\ KeyIsLatest
    /\ OneChanges
    /\ KeyInHand
    /\ OnItsWay

LEMMA ChatTypes ==
  ASSUME ChatIInv
  PROVE  /\ MaxChatUpdates \in Nat /\ MaxChatFaults \in Nat
         /\ chatCall \in [Handlers -> ChatCallType] /\ NoChatCall \in ChatCallType
         /\ llmKey \in Updates \cup {0} /\ provider \in Providers \cup {"none"}
         /\ chatUpdates \in 0..MaxChatUpdates
         /\ chatHistory \in ChatHistoryType
         /\ provider = "openai" => llmKey # 0
<1>1. NoChatCall \in ChatCallType
  BY DEF NoChatCall, ChatCallType
<1>2. ChatTypeOK
  BY DEF ChatIInv
<1> QED
  BY <1>1, <1>2, ChatAssumption DEF ChatTypeOK, ChatCallType, ChatHistoryType

LEMMA ChatStart == ChatInit => ChatIInv
<1> SUFFICES ASSUME ChatInit PROVE ChatIInv
  OBVIOUS
<1>1. /\ \A h \in Handlers : chatCall[h] = NoChatCall
      /\ chatHistory.given = 0 /\ ~chatHistory.raced
      /\ chatHistory.accepted = <<"none", 0>> /\ provider = "none" /\ llmKey = 0
  BY DEF ChatInit
<1>2. NoChatCall.op = "idle" /\ NoChatCall.pc = "idle"
  BY DEF NoChatCall
<1>3. ChatTypeOK
  <2>1. NoChatCall \in ChatCallType
    BY DEF NoChatCall, ChatCallType
  <2>2. chatHistory \in ChatHistoryType
    BY ChatAssumption DEF ChatInit, ChatHistoryType
  <2>3. chatUpdates \in 0..MaxChatUpdates
    BY ChatAssumption DEF ChatInit
  <2> QED
    BY <1>1, <2>1, <2>2, <2>3 DEF ChatInit, ChatTypeOK, ChatCallType, ChatHistoryType
<1>4. ChatSteps /\ OneChanges /\ KeyInHand
  BY <1>1, <1>2 DEF ChatSteps, OneChanges, KeyInHand, Changing
<1>5. RunHasKey /\ KeyIsLatest /\ OnItsWay
  BY <1>1, <1>2 DEF RunHasKey, ChatAt, KeyIsLatest, OnItsWay, Changing
<1> QED
  BY <1>3, <1>4, <1>5 DEF ChatIInv

-----------------------------------------------------------------------------
(* What the helpers do to the handlers.                                     *)

LEMMA ChatGotoIs ==
  ASSUME ChatIInv, NEW h \in Handlers, NEW pc, ChatGoto(h, pc),
         pc \in {"find", "write", "insert", "settings", "save", "create", "key"}
  PROVE  \E r \in ChatCallType :
            /\ chatCall' = [chatCall EXCEPT ![h] = r]
            /\ r.pc = pc /\ r.op = chatCall[h].op /\ r.provider = chatCall[h].provider
            /\ r.key = chatCall[h].key /\ r.gives = chatCall[h].gives
<1> DEFINE r == [chatCall[h] EXCEPT !.pc = pc]
<1>1. chatCall' = [chatCall EXCEPT ![h] = r]
  BY Zenon DEF ChatGoto
<1>2. /\ r \in ChatCallType /\ r.pc = pc /\ r.op = chatCall[h].op
      /\ r.provider = chatCall[h].provider
      /\ r.key = chatCall[h].key /\ r.gives = chatCall[h].gives
  BY ChatTypes DEF ChatCallType
<1> HIDE DEF r
<1> QED
  BY <1>1, <1>2

\* A step that leaves keys and provider alone, and is not the update's own.
LEMMA ChatMoves ==
  ASSUME ChatIInv, NEW h \in Handlers, NEW r \in ChatCallType,
         chatCall' = [chatCall EXCEPT ![h] = r],
         UNCHANGED <<llmKey, provider, chatUpdates, chatHistory>>,
         ~Changing(h), r.op # "update",
         r.op = "run" /\ r.pc = "key" /\ r.provider # "ollama" => llmKey # 0
  PROVE  ChatIInv'
<1> USE ChatTypes
<1>1. /\ chatCall' \in [Handlers -> ChatCallType] /\ chatCall'[h] = r
      /\ \A k \in Handlers \ {h} : chatCall'[k] = chatCall[k]
  OBVIOUS
<1>2. ChatTypeOK'
  BY <1>1 DEF ChatTypeOK, ChatCallType, ChatHistoryType
<1>3. \A k \in Handlers : /\ Changing(k)' <=> Changing(k)
                          /\ Changing(k) => chatCall'[k] = chatCall[k]
  BY <1>1 DEF Changing
<1>4. ChatSteps' /\ OneChanges' /\ KeyInHand'
  BY <1>3 DEF ChatIInv, ChatSteps, OneChanges, KeyInHand
<1>5. OnItsWay' /\ KeyIsLatest'
  BY <1>3 DEF ChatIInv, OnItsWay, KeyIsLatest
<1>6. RunHasKey'
  BY <1>1 DEF ChatIInv, RunHasKey, ChatAt
<1> QED
  BY <1>2, <1>4, <1>5, <1>6 DEF ChatIInv

\* The update goes on, and no run loses a key.
LEMMA UpdateMoves ==
  ASSUME ChatIInv, NEW h \in Handlers, NEW r \in ChatCallType,
         chatCall' = [chatCall EXCEPT ![h] = r], Changing(h),
         r.op = "update" \/ r = NoChatCall,
         llmKey' \in Updates \cup {0}, provider' \in Providers \cup {"none"},
         chatUpdates' = chatUpdates, chatHistory' \in ChatHistoryType,
         provider' = "openai" => llmKey' # 0,
         llmKey # 0 => llmKey' # 0,
         chatHistory'.raced = chatHistory.raced,
         chatHistory'.faults = chatHistory.faults,
         ~chatHistory.raced => llmKey' = chatHistory'.given,
         r.op = "update" =>
            /\ r.pc \in Storing \cup Saving
            /\ r.provider # "none"
            /\ r.pc \in Storing => r.key # 0
            /\ r.pc \in Saving /\ r.provider # "ollama" => llmKey' # 0,
         ~chatHistory.raced /\ r.op = "update" =>
            /\ r.pc \in Storing => r.key = IF r.gives # 0 THEN r.gives ELSE llmKey'
            /\ r.pc = "insert" => llmKey' = 0
            /\ r.pc = "create" => provider' = "none",
         ~chatHistory.raced /\ chatHistory.faults = 0 =>
            /\ r.op = "update" /\ r.pc \in Storing => <<r.provider, r.key>> = chatHistory'.accepted
            /\ r.op = "update" /\ r.pc \in Saving => <<r.provider, llmKey'>> = chatHistory'.accepted
            /\ r = NoChatCall => <<provider', llmKey'>> = chatHistory'.accepted
  PROVE  ChatIInv'
<1> USE ChatTypes
<1>1. /\ chatCall' \in [Handlers -> ChatCallType] /\ chatCall'[h] = r
      /\ \A k \in Handlers \ {h} : chatCall'[k] = chatCall[k]
  OBVIOUS
<1>2. ChatTypeOK'
  BY <1>1 DEF ChatTypeOK, ChatCallType, ChatHistoryType
<1>3. NoChatCall.op = "idle" /\ "load" \notin Storing \cup Saving
  BY DEF NoChatCall, Storing, Saving
<1>4. ChatSteps'
  BY <1>1, <1>3 DEF ChatIInv, ChatSteps, Changing
<1>5. \A k \in Handlers : Changing(k)' => Changing(k)
  BY <1>1 DEF Changing
<1>6. OneChanges'
  BY <1>5 DEF ChatIInv, OneChanges
<1>7. ASSUME ~chatHistory'.raced, NEW k \in Handlers, Changing(k)' PROVE k = h
  BY <1>5, <1>7 DEF ChatIInv, OneChanges
<1>8. KeyInHand'
  BY <1>1, <1>3, <1>7 DEF KeyInHand, Changing
<1>9. OnItsWay'
  <2> SUFFICES ASSUME ~chatHistory'.raced, chatHistory'.faults = 0
               PROVE  /\ \A k \in Handlers : Changing(k)' =>
                           /\ chatCall'[k].pc = "load" => <<provider', llmKey'>> = chatHistory'.accepted
                           /\ chatCall'[k].pc \in Storing =>
                                 <<chatCall'[k].provider, chatCall'[k].key>> = chatHistory'.accepted
                           /\ chatCall'[k].pc \in Saving =>
                                 <<chatCall'[k].provider, llmKey'>> = chatHistory'.accepted
                      /\ (\A k \in Handlers : ~Changing(k)') => <<provider', llmKey'>> = chatHistory'.accepted
    BY DEF OnItsWay
  <2>1. CASE r.op = "update"
    <3>1. Changing(h)' /\ chatCall'[h] = r
      BY <1>1, <2>1 DEF Changing
    <3> QED
      BY <1>3, <1>7, <2>1, <3>1
  <2>2. CASE r = NoChatCall
    <3>1. \A k \in Handlers : ~Changing(k)'
      BY <1>1, <1>3, <1>7, <2>2 DEF Changing
    <3> QED
      BY <2>2, <3>1
  <2> QED
    BY <2>1, <2>2
<1>10. KeyIsLatest'
  BY DEF KeyIsLatest
<1>11. RunHasKey'
  BY <1>1, <1>3 DEF ChatIInv, RunHasKey, ChatAt
<1> QED
  BY <1>2, <1>4, <1>6, <1>8, <1>9, <1>10, <1>11 DEF ChatIInv

-----------------------------------------------------------------------------
(* The actions.                                                             *)

LEMMA StartChatUpdateStays ==
  ASSUME ChatIInv, NEW h \in Handlers, NEW p \in Providers, NEW gives \in BOOLEAN,
         StartChatUpdate(h, p, gives)
  PROVE  ChatIInv'
<1> USE ChatTypes
<1> DEFINE n == IF gives THEN chatUpdates + 1 ELSE 0
           r == [op |-> "update", pc |-> "load", provider |-> p, key |-> 0, gives |-> n]
           hist == [chatHistory EXCEPT !.raced = chatHistory.raced \/ Updating]
<1>1. /\ chatCall' = [chatCall EXCEPT ![h] = r] /\ llmKey' = llmKey /\ provider' = provider
      /\ chatCall[h] = NoChatCall /\ chatHistory' = hist
      /\ chatUpdates < MaxChatUpdates /\ chatUpdates' = chatUpdates + 1
  BY DEF StartChatUpdate
<1>2. chatUpdates' \in 0..MaxChatUpdates /\ chatUpdates + 1 \in Updates
  BY <1>1 DEF Updates
<1>3. r \in ChatCallType /\ r.op = "update" /\ r.pc = "load" /\ r.provider = p
  BY <1>2 DEF ChatCallType
<1>4. Updating \in BOOLEAN
  BY DEF Updating
<1>5. /\ hist \in ChatHistoryType /\ hist.given = chatHistory.given
      /\ hist.accepted = chatHistory.accepted /\ hist.faults = chatHistory.faults
      /\ hist.raced = (chatHistory.raced \/ Updating)
  BY <1>4 DEF ChatHistoryType
<1> HIDE DEF r, hist
<1>6. ~chatHistory'.raced => ~chatHistory.raced /\ \A k \in Handlers : ~Changing(k)
  BY <1>1, <1>5 DEF Updating, Changing
<1>7. /\ chatCall' \in [Handlers -> ChatCallType] /\ chatCall'[h] = r
      /\ \A k \in Handlers \ {h} : chatCall'[k] = chatCall[k]
  BY <1>1, <1>3
<1>8. ChatTypeOK'
  BY <1>1, <1>2, <1>5, <1>7 DEF ChatTypeOK, ChatCallType, ChatHistoryType
<1>9. "load" \notin Storing \cup Saving /\ "none" \notin Providers
  BY DEF Storing, Saving, Providers
<1>10. ChatSteps'
  BY <1>1, <1>3, <1>7, <1>9 DEF ChatIInv, ChatSteps, Changing
<1>11. RunHasKey'
  BY <1>1, <1>3, <1>7 DEF ChatIInv, RunHasKey, ChatAt
<1>12. ASSUME ~chatHistory'.raced, NEW k \in Handlers, Changing(k)' PROVE k = h
  BY <1>6, <1>7, <1>12 DEF Changing
<1>13. OneChanges' /\ KeyInHand'
  BY <1>3, <1>7, <1>9, <1>12 DEF OneChanges, KeyInHand
<1>14. Changing(h)'
  BY <1>3, <1>7 DEF Changing
<1>15. OnItsWay' /\ KeyIsLatest'
  <2>1. KeyIsLatest'
    BY <1>1, <1>5, <1>6 DEF ChatIInv, KeyIsLatest
  <2>2. ~chatHistory'.raced /\ chatHistory'.faults = 0 =>
           <<provider', llmKey'>> = chatHistory'.accepted
    BY <1>1, <1>5, <1>6 DEF ChatIInv, OnItsWay
  <2>3. OnItsWay'
    BY <1>3, <1>7, <1>9, <1>12, <1>14, <2>2 DEF OnItsWay
  <2> QED
    BY <2>1, <2>3
<1> QED
  BY <1>8, <1>10, <1>11, <1>13, <1>15 DEF ChatIInv

LEMMA LoadKeyStays ==
  ASSUME ChatIInv, NEW h \in Handlers, LoadKey(h)
  PROVE  ChatIInv'
<1> USE ChatTypes
<1> DEFINE c == chatCall[h]
           next == IF c.gives # 0 THEN c.gives ELSE llmKey
           r == [c EXCEPT !.key = next, !.pc = IF next # 0 THEN "find" ELSE "settings"]
           hist == [chatHistory EXCEPT !.accepted = <<c.provider, next>>]
<1>1. /\ Changing(h) /\ c.pc = "load" /\ c \in ChatCallType
      /\ llmKey' = llmKey /\ provider' = provider /\ chatUpdates' = chatUpdates
  BY DEF LoadKey, ChatAt, Changing
<1>2. next \in Updates \cup {0}
  BY <1>1 DEF ChatCallType
<1>3. ~chatHistory.raced => llmKey = chatHistory.given
  BY DEF ChatIInv, KeyIsLatest
<1>4. c.provider # "none"
  BY <1>1 DEF ChatIInv, ChatSteps
<1>5. CASE c.provider # "ollama" /\ next = 0
  <2>1. chatCall' = [chatCall EXCEPT ![h] = NoChatCall] /\ chatHistory' = chatHistory
    BY <1>5 DEF LoadKey, ChatDone
  <2>2. NoChatCall.op # "update"
    BY DEF NoChatCall
  <2>3. ~chatHistory.raced /\ chatHistory.faults = 0 => <<provider, llmKey>> = chatHistory.accepted
    BY <1>1 DEF ChatIInv, OnItsWay
  <2> QED
    BY <1>1, <1>3, <2>1, <2>2, <2>3, UpdateMoves
<1>6. CASE ~(c.provider # "ollama" /\ next = 0)
  <2>1. chatCall' = [chatCall EXCEPT ![h] = r] /\ chatHistory' = hist
    BY <1>6 DEF LoadKey
  <2>2. /\ r \in ChatCallType /\ r.op = "update" /\ r.provider = c.provider /\ r.gives = c.gives
        /\ r.key = next /\ r.pc = IF next # 0 THEN "find" ELSE "settings"
    <3> DEFINE pc == IF next # 0 THEN "find" ELSE "settings"
    <3>1. pc \in {"find", "settings"}
      OBVIOUS
    <3>2. r = [c EXCEPT !.key = next, !.pc = pc]
      OBVIOUS
    <3> HIDE DEF pc, next, r
    <3>3. /\ r \in ChatCallType /\ r.op = c.op /\ r.provider = c.provider
          /\ r.gives = c.gives /\ r.key = next /\ r.pc = pc
      BY <1>1, <1>2, <3>1, <3>2 DEF ChatCallType
    <3> QED
      BY <1>1, <3>3 DEF Changing, pc
  <2>3. /\ hist \in ChatHistoryType /\ hist.accepted = <<c.provider, next>>
        /\ hist.raced = chatHistory.raced /\ hist.faults = chatHistory.faults
        /\ hist.given = chatHistory.given
    BY <1>1, <1>2 DEF ChatHistoryType, ChatCallType
  <2>4. next = 0 => llmKey = 0 /\ r.provider = "ollama"
    BY <1>2, <1>6, <2>2
  <2> HIDE DEF r, hist
  <2>5. r.pc \in Storing <=> next # 0
    BY <2>2 DEF Storing
  <2>6. r.pc \in Saving <=> next = 0
    BY <2>2 DEF Saving
  <2>7. r.pc # "insert" /\ r.pc # "create" /\ r.pc \in Storing \cup Saving
    BY <2>2 DEF Storing, Saving
  <2>8. r # NoChatCall
    BY <2>2 DEF NoChatCall
  <2>9. r.key = IF r.gives # 0 THEN r.gives ELSE llmKey
    BY <2>2
  <2> HIDE DEF next
  <2> QED
    BY <1>1, <1>3, <1>4, <2>1, <2>2, <2>3, <2>4, <2>5, <2>6, <2>7, <2>8, <2>9, UpdateMoves
<1> QED
  BY <1>5, <1>6

\* What an update holds, as far as it has come.
LEMMA UpdateHolds ==
  ASSUME ChatIInv, NEW h \in Handlers, Changing(h)
  PROVE  /\ chatCall[h] \in ChatCallType /\ chatCall[h].op = "update"
         /\ chatCall[h].provider # "none"
         /\ chatCall[h].pc \in Storing => chatCall[h].key # 0
         /\ chatCall[h].pc \in Saving /\ chatCall[h].provider # "ollama" => llmKey # 0
         /\ ~chatHistory.raced =>
               /\ llmKey = chatHistory.given
               /\ chatCall[h].pc \in Storing =>
                     chatCall[h].key = IF chatCall[h].gives # 0 THEN chatCall[h].gives ELSE llmKey
               /\ chatCall[h].pc = "insert" => llmKey = 0
               /\ chatCall[h].pc = "create" => provider = "none"
         /\ ~chatHistory.raced /\ chatHistory.faults = 0 =>
               /\ chatCall[h].pc \in Storing =>
                    <<chatCall[h].provider, chatCall[h].key>> = chatHistory.accepted
               /\ chatCall[h].pc \in Saving =>
                    <<chatCall[h].provider, llmKey>> = chatHistory.accepted
  BY ChatTypes
     DEF ChatIInv, ChatSteps, KeyIsLatest, KeyInHand, OnItsWay, Changing

LEMMA FindKeyStays ==
  ASSUME ChatIInv, NEW h \in Handlers, FindKey(h)
  PROVE  ChatIInv'
<1> USE ChatTypes
<1>1. /\ Changing(h) /\ chatCall[h].pc = "find"
      /\ ChatGoto(h, IF llmKey = 0 THEN "insert" ELSE "write")
      /\ llmKey' = llmKey /\ provider' = provider /\ chatUpdates' = chatUpdates
      /\ chatHistory' = chatHistory
  BY DEF FindKey, ChatAt, Changing
<1>2. PICK r \in ChatCallType :
         /\ chatCall' = [chatCall EXCEPT ![h] = r]
         /\ r.pc = (IF llmKey = 0 THEN "insert" ELSE "write") /\ r.op = chatCall[h].op
         /\ r.provider = chatCall[h].provider
         /\ r.key = chatCall[h].key /\ r.gives = chatCall[h].gives
  BY <1>1, ChatGotoIs
<1>3. /\ r.pc \in Storing /\ r.pc \notin Saving /\ r.pc # "create" /\ r.op = "update"
      /\ r # NoChatCall /\ (r.pc = "insert" => llmKey = 0) /\ chatCall[h].pc \in Storing
  BY <1>1, <1>2 DEF Storing, Saving, Changing, NoChatCall
<1> QED
  BY <1>1, <1>2, <1>3, UpdateHolds, UpdateMoves

LEMMA StoreKeyStays ==
  ASSUME ChatIInv, NEW h \in Handlers, StoreKey(h)
  PROVE  ChatIInv'
<1> USE ChatTypes
<1> DEFINE c == chatCall[h]
           hist == [chatHistory EXCEPT !.given = Given(h)]
<1>1. /\ Changing(h) /\ c.pc \in {"insert", "write"} /\ c.pc \in Storing
      /\ provider' = provider /\ chatUpdates' = chatUpdates
  BY DEF StoreKey, ChatAt, Changing, Storing
<1>2. c \in ChatCallType /\ c.key \in Updates \cup {0} /\ c.gives \in Updates \cup {0} /\ c.key # 0
  BY <1>1, UpdateHolds DEF ChatCallType
<1>3. CASE c.pc = "insert" /\ llmKey # 0
  <2>1. /\ chatCall' = [chatCall EXCEPT ![h] = NoChatCall] /\ chatHistory' = chatHistory
        /\ llmKey' = llmKey
    BY <1>1, <1>3 DEF StoreKey, ChatDone, ChatAt, Changing
  <2>2. NoChatCall.op # "update"
    BY DEF NoChatCall
  <2>3. chatHistory.raced
    BY <1>1, <1>3, UpdateHolds
  <2> QED
    BY <1>1, <2>1, <2>2, <2>3, UpdateMoves
<1>4. CASE ~(c.pc = "insert" /\ llmKey # 0)
  <2>1. /\ ChatGoto(h, "settings") /\ chatHistory' = hist /\ llmKey' = c.key
    BY <1>1, <1>4 DEF StoreKey, ChatAt, Changing
  <2>2. PICK r \in ChatCallType :
           /\ chatCall' = [chatCall EXCEPT ![h] = r]
           /\ r.pc = "settings" /\ r.op = c.op
           /\ r.provider = c.provider /\ r.key = c.key /\ r.gives = c.gives
    BY <2>1, ChatGotoIs
  <2>3. Given(h) = IF c.gives # 0 THEN c.gives ELSE chatHistory.given
    BY DEF Given
  <2>4. Given(h) \in Updates \cup {0}
    BY <1>2, <2>3 DEF ChatHistoryType
  <2>5. /\ hist \in ChatHistoryType /\ hist.given = Given(h)
        /\ hist.raced = chatHistory.raced /\ hist.faults = chatHistory.faults
        /\ hist.accepted = chatHistory.accepted
    BY <2>4 DEF ChatHistoryType
  <2>6. ~chatHistory.raced => c.key = Given(h)
    BY <1>1, <2>3, UpdateHolds
  <2>7. /\ r.pc \in Saving /\ r.pc \notin Storing /\ r.op = "update" /\ r # NoChatCall
    BY <1>1, <2>2 DEF Storing, Saving, Changing, NoChatCall
  <2> HIDE DEF hist
  <2> QED
    BY <1>1, <1>2, <2>1, <2>2, <2>5, <2>6, <2>7, UpdateHolds, UpdateMoves
<1> QED
  BY <1>3, <1>4

LEMMA FindChatSettingsStays ==
  ASSUME ChatIInv, NEW h \in Handlers, FindChatSettings(h)
  PROVE  ChatIInv'
<1> USE ChatTypes
<1>1. /\ Changing(h) /\ chatCall[h].pc = "settings"
      /\ ChatGoto(h, IF provider = "none" THEN "create" ELSE "save")
      /\ llmKey' = llmKey /\ provider' = provider /\ chatUpdates' = chatUpdates
      /\ chatHistory' = chatHistory
  BY DEF FindChatSettings, ChatAt, Changing
<1>2. PICK r \in ChatCallType :
         /\ chatCall' = [chatCall EXCEPT ![h] = r]
         /\ r.pc = (IF provider = "none" THEN "create" ELSE "save") /\ r.op = chatCall[h].op
         /\ r.provider = chatCall[h].provider
         /\ r.key = chatCall[h].key /\ r.gives = chatCall[h].gives
  BY <1>1, ChatGotoIs
<1>3. /\ r.pc \notin Storing /\ r.pc \in Saving /\ r.pc # "insert" /\ r.op = "update"
      /\ r # NoChatCall /\ (r.pc = "create" => provider = "none") /\ chatCall[h].pc \in Saving
  BY <1>1, <1>2 DEF Storing, Saving, Changing, NoChatCall
<1> QED
  BY <1>1, <1>2, <1>3, UpdateHolds, UpdateMoves

LEMMA SaveChatSettingsStays ==
  ASSUME ChatIInv, NEW h \in Handlers, SaveChatSettings(h)
  PROVE  ChatIInv'
<1> USE ChatTypes
<1>1. /\ Changing(h) /\ chatCall[h].pc \in {"create", "save"} /\ chatCall[h].pc \in Saving
      /\ chatCall' = [chatCall EXCEPT ![h] = NoChatCall]
      /\ llmKey' = llmKey /\ chatUpdates' = chatUpdates /\ chatHistory' = chatHistory
  BY DEF SaveChatSettings, ChatAt, ChatDone, Changing, Saving
<1>2. provider' = IF chatCall[h].pc = "create" /\ provider # "none"
                  THEN provider ELSE chatCall[h].provider
  BY <1>1 DEF SaveChatSettings, ChatAt, Changing
<1>3. NoChatCall.op # "update"
  BY DEF NoChatCall
<1>4. chatCall[h].provider \in Providers \cup {"none"}
  BY <1>1, UpdateHolds DEF ChatCallType
<1>5. /\ provider' \in Providers \cup {"none"}
      /\ provider' = "openai" => llmKey # 0
      /\ ~chatHistory.raced => provider' = chatCall[h].provider
  BY <1>1, <1>2, <1>4, UpdateHolds
<1> QED
  BY <1>1, <1>3, <1>5, UpdateHolds, UpdateMoves

LEMMA RunStays ==
  ASSUME ChatIInv, NEW h \in Handlers,
         StartRun(h) \/ ReadProvider(h) \/ CheckConfigured(h) \/ ReadKey(h)
  PROVE  ChatIInv'
<1> USE ChatTypes
<1>1. UNCHANGED <<llmKey, provider, chatUpdates, chatHistory>>
  BY DEF StartRun, ReadProvider, CheckConfigured, ReadKey
<1>2. ~Changing(h)
  BY DEF StartRun, ReadProvider, CheckConfigured, ReadKey, ChatAt, Changing, NoChatCall
<1>3. ASSUME ChatDone(h) PROVE ChatIInv'
  BY <1>1, <1>2, <1>3, ChatMoves DEF ChatDone, NoChatCall
<1>4. CASE StartRun(h)
  <2> DEFINE r == [chatCall[h] EXCEPT !.op = "run", !.pc = "settings"]
  <2>1. chatCall' = [chatCall EXCEPT ![h] = r]
    BY <1>4, Zenon DEF StartRun
  <2>2. r \in ChatCallType /\ r.op = "run" /\ r.pc = "settings"
    BY DEF ChatCallType
  <2> HIDE DEF r
  <2> QED
    BY <1>1, <1>2, <2>1, <2>2, ChatMoves
<1>5. CASE ReadProvider(h)
  <2>1. CASE provider # "none"
    <3> DEFINE r == [chatCall[h] EXCEPT !.provider = provider, !.pc = "load"]
    <3>1. chatCall' = [chatCall EXCEPT ![h] = r] /\ chatCall[h].op = "run"
      BY <1>5, <2>1, Zenon DEF ReadProvider, ChatAt
    <3>2. r \in ChatCallType /\ r.op = "run" /\ r.pc = "load"
      BY <3>1 DEF ChatCallType
    <3> HIDE DEF r
    <3> QED
      BY <1>1, <1>2, <3>1, <3>2, ChatMoves
  <2> QED
    BY <1>3, <1>5, <2>1 DEF ReadProvider
<1>6. CASE CheckConfigured(h)
  <2>1. CASE ~(chatCall[h].provider # "ollama" /\ llmKey = 0)
    <3>1. ChatGoto(h, "key") /\ chatCall[h].op = "run"
      BY <1>6, <2>1 DEF CheckConfigured, ChatAt
    <3>2. PICK r \in ChatCallType :
             /\ chatCall' = [chatCall EXCEPT ![h] = r]
             /\ r.pc = "key" /\ r.op = chatCall[h].op /\ r.provider = chatCall[h].provider
      BY <3>1, ChatGotoIs
    <3> QED
      BY <1>1, <1>2, <2>1, <3>1, <3>2, ChatMoves
  <2> QED
    BY <1>3, <1>6, <2>1 DEF CheckConfigured
<1>7. CASE ReadKey(h)
  BY <1>3, <1>7 DEF ReadKey
<1> QED
  BY <1>4, <1>5, <1>6, <1>7

LEMMA FailChatCallStays ==
  ASSUME ChatIInv, NEW h \in Handlers, FailChatCall(h)
  PROVE  ChatIInv'
<1> USE ChatTypes
<1> DEFINE hist == [chatHistory EXCEPT !.faults = chatHistory.faults + 1]
<1>1. /\ chatCall' = [chatCall EXCEPT ![h] = NoChatCall] /\ chatHistory' = hist
      /\ chatHistory.faults < MaxChatFaults
      /\ llmKey' = llmKey /\ provider' = provider /\ chatUpdates' = chatUpdates
  BY DEF FailChatCall, ChatDone
<1>2. /\ hist \in ChatHistoryType /\ hist.given = chatHistory.given
      /\ hist.raced = chatHistory.raced /\ hist.faults # 0
  BY <1>1 DEF ChatHistoryType
<1> HIDE DEF hist
<1>3. /\ chatCall' \in [Handlers -> ChatCallType] /\ chatCall'[h] = NoChatCall
      /\ \A k \in Handlers \ {h} : chatCall'[k] = chatCall[k]
      /\ NoChatCall.op = "idle"
  BY <1>1 DEF NoChatCall
<1>4. ChatTypeOK'
  BY <1>1, <1>2, <1>3 DEF ChatTypeOK, ChatCallType, ChatHistoryType
<1>5. ChatSteps' /\ RunHasKey'
  BY <1>1, <1>3 DEF ChatIInv, ChatSteps, RunHasKey, ChatAt, Changing
<1>6. OneChanges' /\ KeyInHand'
  BY <1>1, <1>2, <1>3 DEF ChatIInv, OneChanges, KeyInHand, Changing
<1>7. OnItsWay' /\ KeyIsLatest'
  BY <1>1, <1>2 DEF ChatIInv, OnItsWay, KeyIsLatest
<1> QED
  BY <1>4, <1>5, <1>6, <1>7 DEF ChatIInv

LEMMA ChatStays == ChatIInv /\ [ChatNext]_chatVars => ChatIInv'
<1> SUFFICES ASSUME ChatIInv, [ChatNext]_chatVars PROVE ChatIInv'
  OBVIOUS
<1>1. CASE UNCHANGED chatVars
  BY <1>1 DEF chatVars, ChatIInv, ChatTypeOK, ChatSteps, RunHasKey, KeyIsLatest, OneChanges,
              KeyInHand, OnItsWay, ChatAt, Changing
<1>2. ASSUME NEW h \in Handlers, NEW p \in Providers, NEW gives \in BOOLEAN,
             StartChatUpdate(h, p, gives)
      PROVE  ChatIInv'
  BY <1>2, StartChatUpdateStays
<1>3. ASSUME NEW h \in Handlers,
             \/ LoadKey(h) \/ FindKey(h) \/ StoreKey(h)
             \/ FindChatSettings(h) \/ SaveChatSettings(h)
      PROVE  ChatIInv'
  BY <1>3, LoadKeyStays, FindKeyStays, StoreKeyStays, FindChatSettingsStays,
     SaveChatSettingsStays
<1>4. ASSUME NEW h \in Handlers,
             \/ StartRun(h) \/ ReadProvider(h) \/ CheckConfigured(h) \/ ReadKey(h)
             \/ FailChatCall(h)
      PROVE  ChatIInv'
  BY <1>4, RunStays, FailChatCallStays
<1> QED
  BY <1>1, <1>2, <1>3, <1>4 DEF ChatNext

\* Of a tenant's chat settings (chat/service.ts: updateSettings, resolveRun):
\* for any handlers, updates and faults, the key in use is the one given last
\* unless updates overlapped; provider and key were accepted together unless
\* updates overlapped or something failed; and a run that needs a key finds it.
THEOREM ChatCorrect == ChatSpec => []ChatRules
<1>1. ChatIInv => ChatRules
  <2> SUFFICES ASSUME ChatIInv PROVE ChatRules
    OBVIOUS
  <2>1. AcceptedTogether
    BY DEF ChatIInv, OnItsWay, AcceptedTogether, Updating, Changing
  <2> QED
    BY <2>1 DEF ChatIInv, ChatRules
<1> QED
  BY <1>1, ChatStart, ChatStays, PTL DEF ChatSpec

(***************************************************************************)
(* TranscriptStream.  A poll that nothing has crossed has read what is on  *)
(* record, and the stream is current only while every poll is such a one.  *)
(***************************************************************************)

PollPCs == {"idle", "knocks", "grants", "tasks", "send"}

PollType == [pc : PollPCs, read : Transcript, fresh : BOOLEAN]

\* Grants are never taken back here: a message and an approval have one.
GrantsFirst ==
    /\ knock = "approved" => grant
    /\ task # "none" => grant

\* An approval that was read has a grant, which is read after it.
ReadInOrder ==
    \A p \in Polls : poll[p].read.knock = "approved" =>
        /\ poll[p].pc = "grants" => grant
        /\ poll[p].pc \in {"tasks", "send"} => poll[p].read.grant

FreshIsCurrent ==
    \A p \in Polls : poll[p].fresh =>
        /\ poll[p].pc \in {"grants", "tasks", "send"} => poll[p].read.knock = knock
        /\ poll[p].pc \in {"tasks", "send"} => poll[p].read.grant = grant
        /\ poll[p].pc = "send" => poll[p].read.task = task

NoneBehind == current => \A p \in Polls : poll[p].pc = "idle" \/ poll[p].fresh

StreamIInv ==
    /\ StreamTypeOK
    /\ GrantsFirst
    /\ ReadInOrder
    /\ FreshIsCurrent
    /\ NoneBehind
    /\ StreamIsCurrent

LEMMA StreamTypes ==
  ASSUME StreamIInv
  PROVE  /\ poll \in [Polls -> PollType] /\ Idle \in PollType
         /\ knock \in KnockStates /\ grant \in BOOLEAN /\ task \in TaskStates
         /\ sent \in Transcript /\ current \in BOOLEAN
         /\ sent.knock = "approved" => sent.grant
  BY DEF StreamIInv, StreamTypeOK, PollType, PollPCs, Idle, Transcript, KnockStates, TaskStates

LEMMA StreamStart == StreamInit => StreamIInv
<1> SUFFICES ASSUME StreamInit PROVE StreamIInv
  OBVIOUS
<1>1. \A p \in Polls : poll[p] = Idle
  BY DEF StreamInit
<1>2. knock \in KnockStates /\ grant \in BOOLEAN /\ task \in TaskStates
  BY DEF StreamInit, KnockStates, TaskStates
<1>3. sent = Reported
  BY DEF StreamInit, Reported
<1>4. sent \in Transcript /\ (sent.knock = "approved" => sent.grant)
  <2>1. sent \in Transcript
    BY <1>2, <1>3 DEF Reported, Transcript
  <2>2. sent.knock = knock /\ sent.grant = grant
    BY <1>3 DEF Reported
  <2> QED
    BY <2>1, <2>2 DEF StreamInit
<1>5. StreamTypeOK
  BY <1>2, <1>4 DEF StreamInit, StreamTypeOK, Idle, Transcript, KnockStates, TaskStates
<1>6. GrantsFirst /\ ReadInOrder /\ FreshIsCurrent /\ NoneBehind /\ StreamIsCurrent
  BY <1>1, <1>3
     DEF StreamInit, GrantsFirst, ReadInOrder, FreshIsCurrent, NoneBehind, StreamIsCurrent, Idle
<1> QED
  BY <1>5, <1>6 DEF StreamIInv

\* What changes on record leaves no poll fresh and the stream behind.
LEMMA RecordMoves ==
  ASSUME StreamIInv, Changed,
         knock' \in KnockStates, grant' \in BOOLEAN, task' \in TaskStates,
         grant => grant', GrantsFirst'
  PROVE  StreamIInv'
<1> USE StreamTypes
<1>1. \A p \in Polls : /\ poll'[p] \in PollType /\ ~poll'[p].fresh
                       /\ poll'[p].pc = poll[p].pc /\ poll'[p].read = poll[p].read
  BY DEF Changed, PollType
<1>2. poll' \in [Polls -> PollType]
  BY <1>1 DEF Changed
<1>3. StreamTypeOK'
  BY <1>2 DEF Changed, StreamTypeOK, PollType, PollPCs
<1>4. ReadInOrder'
  BY <1>1 DEF StreamIInv, ReadInOrder
<1>5. FreshIsCurrent'
  BY <1>1 DEF FreshIsCurrent
<1>6. NoneBehind' /\ StreamIsCurrent'
  BY DEF Changed, NoneBehind, StreamIsCurrent
<1> QED
  BY <1>3, <1>4, <1>5, <1>6 DEF StreamIInv

LEMMA KnockChangesStays ==
  ASSUME StreamIInv, KnockChanges
  PROVE  StreamIInv'
<1>1. knock' \in KnockStates /\ task' = task
  BY StreamTypes DEF KnockChanges, KnockStates
<1>4. grant' = grant \/ grant' = TRUE
  BY DEF KnockChanges
<1>5. grant' \in BOOLEAN /\ (grant => grant')
  <2>1. CASE grant' = grant
    BY <2>1, StreamTypes, Zenon
  <2>2. CASE grant' = TRUE
    BY <2>2, Zenon
  <2> QED
    BY <1>4, <2>1, <2>2
<1>2. GrantsFirst'
  BY <1>1 DEF KnockChanges, StreamIInv, GrantsFirst
<1>3. Changed
  BY DEF KnockChanges
<1> QED
  BY <1>1, <1>2, <1>3, <1>5, RecordMoves, StreamTypes

LEMMA TaskChangesStays ==
  ASSUME StreamIInv, TaskChanges
  PROVE  StreamIInv'
<1>1. task' \in TaskStates /\ knock' = knock /\ grant' = grant
  BY StreamTypes DEF TaskChanges, TaskStates
<1>2. GrantsFirst'
  BY <1>1 DEF TaskChanges, StreamIInv, GrantsFirst
<1>3. Changed
  BY DEF TaskChanges
<1> QED
  BY <1>1, <1>2, <1>3, RecordMoves, StreamTypes

\* A poll that goes on keeps the invariant if its reading is in order.
LEMMA PollMoves ==
  ASSUME StreamIInv, NEW p \in Polls, NEW r \in PollType,
         poll' = [poll EXCEPT ![p] = r], UNCHANGED <<tables, sent, current>>,
         r.pc = "idle" \/ r.fresh \/ (~poll[p].fresh /\ poll[p].pc # "idle"),
         r.read.knock = "approved" =>
            /\ r.pc = "grants" => grant
            /\ r.pc \in {"tasks", "send"} => r.read.grant,
         r.fresh =>
            /\ r.pc \in {"grants", "tasks", "send"} => r.read.knock = knock
            /\ r.pc \in {"tasks", "send"} => r.read.grant = grant
            /\ r.pc = "send" => r.read.task = task
  PROVE  StreamIInv'
<1> USE StreamTypes
<1>1. /\ poll' \in [Polls -> PollType] /\ poll'[p] = r
      /\ \A q \in Polls \ {p} : poll'[q] = poll[q]
  OBVIOUS
<1>2. knock' = knock /\ grant' = grant /\ task' = task /\ sent' = sent /\ current' = current
  BY DEF tables
<1>3. StreamTypeOK'
  BY <1>1, <1>2 DEF StreamTypeOK, PollType, PollPCs
<1>4. ReadInOrder'
  BY <1>1, <1>2 DEF StreamIInv, ReadInOrder
<1>5. FreshIsCurrent'
  BY <1>1, <1>2 DEF StreamIInv, FreshIsCurrent
<1>6. NoneBehind'
  BY <1>1, <1>2 DEF StreamIInv, NoneBehind
<1>7. GrantsFirst' /\ StreamIsCurrent'
  BY <1>2 DEF StreamIInv, GrantsFirst, StreamIsCurrent, Reported
<1> QED
  BY <1>3, <1>4, <1>5, <1>6, <1>7 DEF StreamIInv

LEMMA StartPollStays ==
  ASSUME StreamIInv, NEW p \in Polls, StartPoll(p)
  PROVE  StreamIInv'
<1> DEFINE r == [Idle EXCEPT !.pc = "knocks", !.fresh = TRUE]
<1>1. r \in PollType /\ r.pc = "knocks" /\ r.fresh
  BY StreamTypes DEF PollType, PollPCs
<1>2. poll' = [poll EXCEPT ![p] = r] /\ UNCHANGED <<tables, sent, current>>
  BY DEF StartPoll
<1> HIDE DEF r
<1>3. r.pc = "idle" \/ r.fresh \/ (~poll[p].fresh /\ poll[p].pc # "idle")
  BY <1>1, Zenon
<1>4. r.pc # "grants" /\ r.pc \notin {"tasks", "send"} /\ r.pc # "send" /\ r.pc \notin {"grants", "tasks", "send"}
  BY <1>1
<1> QED
  BY <1>1, <1>2, <1>3, <1>4, PollMoves, Zenon

LEMMA ReadKnocksStays ==
  ASSUME StreamIInv, NEW p \in Polls, ReadKnocks(p)
  PROVE  StreamIInv'
<1> USE StreamTypes
<1> DEFINE c == poll[p]
           t == [c.read EXCEPT !.knock = knock]
           r == [c EXCEPT !.read.knock = knock, !.pc = "grants"]
<1>1. c \in PollType /\ c.read \in Transcript
  BY DEF PollType
<1>2. t \in Transcript /\ t.knock = knock
  BY <1>1 DEF Transcript
<1>3. r \in PollType /\ r.pc = "grants" /\ r.read = t /\ r.fresh = c.fresh
  BY <1>1, <1>2 DEF PollType, PollPCs
<1>4. poll' = [poll EXCEPT ![p] = r] /\ UNCHANGED <<tables, sent, current>>
  BY Zenon DEF ReadKnocks
<1>5. c.pc = "knocks"
  BY DEF ReadKnocks
<1> HIDE DEF r, t
<1> QED
  BY <1>2, <1>3, <1>4, <1>5, PollMoves DEF StreamIInv, GrantsFirst

LEMMA ReadGrantsStays ==
  ASSUME StreamIInv, NEW p \in Polls, ReadGrants(p)
  PROVE  StreamIInv'
<1> USE StreamTypes
<1> DEFINE c == poll[p]
           t == [c.read EXCEPT !.grant = grant]
           r == [c EXCEPT !.read.grant = grant, !.pc = "tasks"]
<1>1. c \in PollType /\ c.read \in Transcript
  BY DEF PollType
<1>2. t \in Transcript /\ t.knock = c.read.knock /\ t.grant = grant
  BY <1>1 DEF Transcript
<1>3. r \in PollType /\ r.pc = "tasks" /\ r.read = t /\ r.fresh = c.fresh
  BY <1>1, <1>2 DEF PollType, PollPCs
<1>4. poll' = [poll EXCEPT ![p] = r] /\ UNCHANGED <<tables, sent, current>>
  BY Zenon DEF ReadGrants
<1>5. c.pc = "grants"
  BY DEF ReadGrants
<1>6. /\ c.read.knock = "approved" => grant
      /\ c.fresh => c.read.knock = knock
  BY <1>5 DEF StreamIInv, ReadInOrder, FreshIsCurrent
<1> HIDE DEF r, t
<1> QED
  BY <1>2, <1>3, <1>4, <1>5, <1>6, PollMoves

LEMMA ReadTasksStays ==
  ASSUME StreamIInv, NEW p \in Polls, ReadTasks(p)
  PROVE  StreamIInv'
<1> USE StreamTypes
<1> DEFINE c == poll[p]
           t == [c.read EXCEPT !.task = task]
           r == [c EXCEPT !.read.task = task, !.pc = "send"]
<1>1. c \in PollType /\ c.read \in Transcript
  BY DEF PollType
<1>2. t \in Transcript /\ t.knock = c.read.knock /\ t.grant = c.read.grant /\ t.task = task
  BY <1>1 DEF Transcript
<1>3. r \in PollType /\ r.pc = "send" /\ r.read = t /\ r.fresh = c.fresh
  BY <1>1, <1>2 DEF PollType, PollPCs
<1>4. poll' = [poll EXCEPT ![p] = r] /\ UNCHANGED <<tables, sent, current>>
  BY Zenon DEF ReadTasks
<1>5. c.pc = "tasks"
  BY DEF ReadTasks
<1>6. /\ c.read.knock = "approved" => c.read.grant
      /\ c.fresh => c.read.knock = knock /\ c.read.grant = grant
  BY <1>5 DEF StreamIInv, ReadInOrder, FreshIsCurrent
<1> HIDE DEF r, t
<1> QED
  BY <1>2, <1>3, <1>4, <1>5, <1>6, PollMoves

LEMMA SendSnapshotStays ==
  ASSUME StreamIInv, NEW p \in Polls, SendSnapshot(p)
  PROVE  StreamIInv'
<1> USE StreamTypes
<1> DEFINE c == poll[p]
           caughtUp == c.fresh /\ \A q \in Polls : poll[q].pc = "idle" \/ poll[q].fresh
<1>1. c \in PollType /\ c.read \in Transcript /\ c.pc = "send"
  BY DEF PollType, SendSnapshot
<1>2. /\ poll' \in [Polls -> PollType] /\ poll'[p] = Idle
      /\ \A q \in Polls \ {p} : poll'[q] = poll[q]
  BY DEF SendSnapshot
<1>3. knock' = knock /\ grant' = grant /\ task' = task
  BY DEF SendSnapshot, tables
<1>4. sent' = IF Entries(c.read) # Entries(sent) THEN c.read ELSE sent
  BY DEF SendSnapshot
<1>5. current' = (current \/ caughtUp)
  BY DEF SendSnapshot
<1>6. current' \in BOOLEAN /\ (current' => caughtUp)
  BY <1>1, <1>5 DEF StreamIInv, NoneBehind
<1>7. sent' \in Transcript /\ (sent'.knock = "approved" => sent'.grant)
  BY <1>1, <1>4 DEF StreamIInv, ReadInOrder
<1>8. StreamTypeOK'
  BY <1>2, <1>3, <1>6, <1>7 DEF StreamTypeOK, PollType, PollPCs
<1>9. ReadInOrder' /\ FreshIsCurrent' /\ NoneBehind' /\ GrantsFirst'
  <2>1. ReadInOrder' /\ FreshIsCurrent'
    BY <1>2, <1>3 DEF StreamIInv, ReadInOrder, FreshIsCurrent, Idle
  <2>2. NoneBehind' /\ GrantsFirst'
    BY <1>2, <1>3, <1>6 DEF StreamIInv, NoneBehind, GrantsFirst, Idle
  <2> QED
    BY <2>1, <2>2
<1>10. ASSUME current' PROVE Entries(sent)' = Entries(Reported)'
  <2>1. c.read.knock = knock /\ c.read.grant = grant /\ c.read.task = task
    BY <1>1, <1>6, <1>10 DEF StreamIInv, FreshIsCurrent
  <2>2. c.read = Reported
    BY <1>1, <2>1 DEF Reported, Transcript
  <2>3. Entries(sent') = Entries(Reported)
    BY <1>4, <2>2
  <2>4. Reported' = Reported
    BY <1>3 DEF Reported
  <2>5. Entries(sent)' = Entries(sent')
    BY DEF Entries, KnockEntries, TaskEntries
  <2>6. Entries(Reported)' = Entries(Reported')
    BY DEF Entries, KnockEntries, TaskEntries
  <2> QED
    BY <2>3, <2>4, <2>5, <2>6, Zenon
<1> QED
  BY <1>8, <1>9, <1>10 DEF StreamIInv, StreamIsCurrent

LEMMA StreamStays == StreamIInv /\ [StreamNext]_streamVars => StreamIInv'
<1> SUFFICES ASSUME StreamIInv, [StreamNext]_streamVars PROVE StreamIInv'
  OBVIOUS
<1>1. CASE UNCHANGED streamVars
  BY <1>1 DEF streamVars, tables, StreamIInv, StreamTypeOK, GrantsFirst, ReadInOrder,
              FreshIsCurrent, NoneBehind, StreamIsCurrent, Reported
<1>2. ASSUME NEW p \in Polls,
             StartPoll(p) \/ ReadKnocks(p) \/ ReadGrants(p) \/ ReadTasks(p) \/ SendSnapshot(p)
      PROVE  StreamIInv'
  BY <1>2, StartPollStays, ReadKnocksStays, ReadGrantsStays, ReadTasksStays, SendSnapshotStays
<1> QED
  BY <1>1, <1>2, KnockChangesStays, TaskChangesStays DEF StreamNext

\* Of the stream on which an owner follows conversations (streamTranscript in
\* agents/handler.ts): for any number of polls in flight, answered in any
\* order, what was sent last is what is on record once a poll that nothing
\* crossed is answered and no older one is left.
THEOREM StreamCorrect == StreamSpec => []StreamRules
<1>1. StreamIInv => StreamRules
  BY DEF StreamIInv, StreamRules
<1> QED
  BY <1>1, StreamStart, StreamStays, PTL DEF StreamSpec

(***************************************************************************)
(* HostedAgent.  A handler that meets no other may rely on what it has     *)
(* read: nothing is stored but by it.  The numbers of connections and      *)
(* tokens stay within their bounds since each but the last was removed.    *)
(***************************************************************************)

HostedCallType ==
    [op : HostedOps, pc : HostedPCs, agent : Agents \cup {"none"},
     tool : AgentTools \cup {"none"}, tools : SUBSET AgentTools,
     conn : Numbers \cup {0}, token : Numbers \cup {0},
     bound : BOOLEAN, alone : BOOLEAN]

\* What is stored, and numbers that are within their bounds as removals are.
HostedTables(b, c, o, n) ==
    /\ b \in [Agents -> SUBSET AgentTools]
    /\ c \in ChatRow
    /\ o \subseteq AgentTools
    /\ c.conn = 0 => o = {} /\ c.token = 0
    /\ c.client # "keyed" => c.conn = 0
    /\ n \in 0..MaxRemovals
    /\ c.conns <= n + (IF c.conn = 0 THEN 0 ELSE 1)
    /\ c.tokens <= n + (IF c.token = 0 THEN 0 ELSE 1)

\* What a handler f has done before it comes to a step; c is the chat row.
HostedSteps(f, c) ==
    /\ f # NoHostedCall => f.pc # "idle" /\ f.op # "idle"
    /\ f.op \in {"message", "setTools"} => f.agent \in Agents
    /\ f.pc \in {"list", "task", "call", "complete"} => f.op = "message"
    /\ f.pc = "replace" => f.op = "setTools"
    /\ f.pc = "sync" => f.op \in {"message", "setTools"}
    /\ f.pc \in {"task", "call", "complete"} => f.bound
    /\ f.pc \in {"list", "replace"} => ~f.bound
    /\ f.pc \in {"conn", "newConn"} => c.client = "keyed"
    /\ f.pc \in {"token", "mint", "sync"} => f.conn # 0

\* What a handler f that meets no other may rely on: what it has read is stored.
HostedRelies(f, b, c, o) ==
    /\ f.op \in {"message", "setTools"} /\ f.pc \notin {"list", "replace"} =>
          f.tools = b[f.agent]
    /\ f.bound => o = f.tools
    /\ f.pc \in {"token", "mint", "sync"} => f.conn = c.conn
    /\ f.pc = "mint" => c.token = 0
    /\ f.pc \in {"task", "call"} => f.token = c.token

HostedCallOK(h) ==
    /\ HostedSteps(hostedCall[h], chat)
    /\ hostedCall[h] # NoHostedCall /\ hostedCall[h].alone =>
          /\ \A k \in Handlers \ {h} : hostedCall[k] = NoHostedCall
          /\ HostedRelies(hostedCall[h], bindings, chat, overrides)

\* The overrides are those of the agent they were set for.
OverridesAreSynced ==
    /\ synced \in [agent : Agents \cup {"none"}, clean : BOOLEAN]
    /\ synced.clean => synced.agent \in Agents /\ overrides = bindings[synced.agent]

HostedIInv ==
    /\ HostedTables(bindings, chat, overrides, removals)
    /\ hostedCall \in [Handlers -> HostedCallType]
    /\ \A h \in Handlers : HostedCallOK(h)
    /\ OverridesAreSynced
    /\ hostedFaults \in 0..MaxHostedFaults
    /\ working \subseteq Handlers
    /\ WorkingIsRunning

LEMMA NoHostedCallIs ==
  /\ NoHostedCall \in HostedCallType
  /\ NoHostedCall.pc = "idle"
  /\ \A c : HostedSteps(NoHostedCall, c)
  BY DEF NoHostedCall, HostedCallType, HostedOps, HostedPCs, HostedSteps

LEMMA HostedFacts ==
  ASSUME HostedIInv, NEW h \in Handlers
  PROVE  /\ HostedTables(bindings, chat, overrides, removals)
         /\ hostedCall \in [Handlers -> HostedCallType]
         /\ hostedCall[h] \in HostedCallType
         /\ HostedSteps(hostedCall[h], chat)
         /\ hostedCall[h].pc = "idle" <=> hostedCall[h] = NoHostedCall
         /\ hostedCall[h] # NoHostedCall /\ hostedCall[h].alone =>
               HostedRelies(hostedCall[h], bindings, chat, overrides)
         /\ OverridesAreSynced
         /\ hostedFaults \in 0..MaxHostedFaults
         /\ working \subseteq Handlers
         /\ hostedFaults = 0 => (h \in working <=> hostedCall[h].pc \in {"call", "complete"})
<1>1. hostedCall[h] \in HostedCallType
  BY DEF HostedIInv
<1>2. HostedCallOK(h)
  BY DEF HostedIInv
<1>3. hostedCall[h].pc = "idle" <=> hostedCall[h] = NoHostedCall
  BY <1>2, NoHostedCallIs DEF HostedCallOK, HostedSteps
<1>4. hostedFaults = 0 => (h \in working <=> hostedCall[h].pc \in {"call", "complete"})
  BY DEF HostedIInv, WorkingIsRunning
<1> QED
  BY <1>1, <1>2, <1>3, <1>4 DEF HostedIInv, HostedCallOK

\* A step of a handler h, which leaves it with x.
LEMMA HostedMoves ==
  ASSUME HostedIInv, NEW h \in Handlers, hostedCall[h] # NoHostedCall,
         NEW x \in HostedCallType, hostedCall' = [hostedCall EXCEPT ![h] = x],
         HostedTables(bindings', chat', overrides', removals'),
         HostedSteps(x, chat'),
         x # NoHostedCall => x.alone = hostedCall[h].alone,
         x # NoHostedCall /\ x.alone => HostedRelies(x, bindings', chat', overrides'),
         chat.client = "keyed" => chat'.client = "keyed",
         OverridesAreSynced', hostedFaults' \in 0..MaxHostedFaults, working' \subseteq Handlers,
         hostedFaults' = 0 =>
            /\ hostedFaults = 0
            /\ h \in working' <=> x.pc \in {"call", "complete"}
            /\ \A k \in Handlers \ {h} : k \in working' <=> k \in working
  PROVE  HostedIInv'
<1>1. /\ hostedCall' \in [Handlers -> HostedCallType]
      /\ hostedCall'[h] = x
      /\ \A k \in Handlers \ {h} : hostedCall'[k] = hostedCall[k]
  BY DEF HostedIInv
<1>2. ASSUME NEW k \in Handlers
      PROVE  HostedCallOK(k)'
  <2>1. CASE k = h
    <3>1. HostedSteps(hostedCall'[k], chat')
      BY <1>1, <2>1
    <3>2. ASSUME hostedCall'[k] # NoHostedCall, hostedCall'[k].alone
          PROVE  /\ \A q \in Handlers \ {k} : hostedCall'[q] = NoHostedCall
                 /\ HostedRelies(hostedCall'[k], bindings', chat', overrides')
      BY <1>1, <2>1, <3>2 DEF HostedIInv, HostedCallOK
    <3> QED
      BY <3>1, <3>2 DEF HostedCallOK
  <2>2. CASE k # h
    <3>1. HostedCallOK(k) /\ hostedCall'[k] = hostedCall[k]
      BY <1>1, <2>2 DEF HostedIInv
    <3>2. HostedSteps(hostedCall'[k], chat')
      BY <3>1 DEF HostedCallOK, HostedSteps
    <3>3. ~(hostedCall'[k] # NoHostedCall /\ hostedCall'[k].alone)
      BY <2>2, <3>1 DEF HostedCallOK
    <3> QED
      BY <3>2, <3>3 DEF HostedCallOK
  <2> QED
    BY <2>1, <2>2
<1>3. WorkingIsRunning'
  <2> SUFFICES ASSUME hostedFaults' = 0
               PROVE  \A k \in Handlers : k \in working' <=> hostedCall'[k].pc \in {"call", "complete"}
    BY DEF WorkingIsRunning
  <2>1. hostedFaults = 0
    OBVIOUS
  <2>2. \A k \in Handlers : k \in working <=> hostedCall[k].pc \in {"call", "complete"}
    BY <2>1, HostedFacts
  <2> QED
    BY <1>1, <2>2
<1> QED
  BY <1>1, <1>2, <1>3 DEF HostedIInv

\* A step that changes nothing but what the handler is doing.
LEMMA HostedReads ==
  ASSUME HostedIInv, NEW h \in Handlers, hostedCall[h] # NoHostedCall,
         NEW x \in HostedCallType, hostedCall' = [hostedCall EXCEPT ![h] = x],
         UNCHANGED <<hostedTables, hostedHistory>>,
         HostedSteps(x, chat),
         x # NoHostedCall => x.alone = hostedCall[h].alone,
         x # NoHostedCall /\ x.alone => HostedRelies(x, bindings, chat, overrides),
         x.pc \in {"call", "complete"} <=> hostedCall[h].pc \in {"call", "complete"}
  PROVE  HostedIInv'
<1>1. /\ bindings' = bindings /\ chat' = chat /\ overrides' = overrides /\ working' = working
      /\ synced' = synced /\ removals' = removals /\ hostedFaults' = hostedFaults
  BY DEF hostedTables, hostedHistory
<1>2. OverridesAreSynced'
  BY <1>1, HostedFacts DEF OverridesAreSynced
<1>3. hostedFaults' = 0 => /\ hostedFaults = 0
                           /\ h \in working' <=> x.pc \in {"call", "complete"}
                           /\ \A k \in Handlers \ {h} : k \in working' <=> k \in working
  BY <1>1, HostedFacts
<1>4. /\ HostedTables(bindings', chat', overrides', removals')
      /\ hostedFaults' \in 0..MaxHostedFaults /\ working' \subseteq Handlers
      /\ HostedSteps(x, chat')
      /\ x # NoHostedCall /\ x.alone => HostedRelies(x, bindings', chat', overrides')
  BY <1>1, HostedFacts
<1> QED
  BY <1>1, <1>2, <1>3, <1>4, HostedMoves

LEMMA HostedStartStays ==
  ASSUME HostedIInv, NEW h \in Handlers, NEW frame \in HostedCallType,
         HostedStart(h, frame), frame.pc \in {"client", "list", "replace"}, ~frame.bound,
         frame.op \in {"session", "message", "setTools"},
         frame.pc = "client" => frame.op = "session",
         frame.pc = "list" => frame.op = "message", frame.pc = "replace" => frame.op = "setTools",
         frame.op \in {"message", "setTools"} => frame.agent \in Agents
  PROVE  HostedIInv'
<1> DEFINE running == {k \in Handlers : hostedCall[k] # NoHostedCall}
           alone == running = {}
           x == [frame EXCEPT !.alone = alone]
<1>1. /\ bindings' = bindings /\ chat' = chat /\ overrides' = overrides /\ working' = working
      /\ synced' = synced /\ removals' = removals /\ hostedFaults' = hostedFaults
      /\ hostedCall[h] = NoHostedCall
  BY DEF HostedStart, hostedTables, hostedHistory
<1>2. hostedCall' = [k \in Handlers |->
                       CASE k = h         -> x
                         [] k \in running -> [hostedCall[k] EXCEPT !.alone = FALSE]
                         [] OTHER         -> NoHostedCall]
  BY DEF HostedStart
<1>3. h \notin running
  BY <1>1
<1>4. alone \in BOOLEAN
  OBVIOUS
<1>5. alone => \A k \in Handlers : hostedCall[k] = NoHostedCall
  OBVIOUS
<1> HIDE DEF alone
<1>6. /\ x \in HostedCallType /\ x.alone = alone /\ x.pc = frame.pc /\ x.op = frame.op
      /\ x.bound = frame.bound /\ x.agent = frame.agent
  BY <1>4 DEF HostedCallType
<1>7. HostedSteps(x, chat)
  BY <1>6 DEF HostedSteps
<1>8. HostedRelies(x, bindings, chat, overrides)
  BY <1>6 DEF HostedRelies, HostedCallType
<1> HIDE DEF x
<1>9. ASSUME NEW k \in running
      PROVE  /\ k \in Handlers
             /\ [hostedCall[k] EXCEPT !.alone = FALSE] \in HostedCallType
             /\ [hostedCall[k] EXCEPT !.alone = FALSE].alone = FALSE
             /\ [hostedCall[k] EXCEPT !.alone = FALSE].pc = hostedCall[k].pc
             /\ HostedSteps([hostedCall[k] EXCEPT !.alone = FALSE], chat)
  <2> DEFINE y == [hostedCall[k] EXCEPT !.alone = FALSE]
  <2>1. k \in Handlers
    OBVIOUS
  <2>2. hostedCall[k] \in HostedCallType /\ HostedSteps(hostedCall[k], chat)
        /\ hostedCall[k] # NoHostedCall
    BY <2>1, HostedFacts
  <2>3. /\ y \in HostedCallType /\ y.alone = FALSE /\ y.pc = hostedCall[k].pc
        /\ y.op = hostedCall[k].op /\ y.agent = hostedCall[k].agent
        /\ y.bound = hostedCall[k].bound /\ y.conn = hostedCall[k].conn
    BY <2>2 DEF HostedCallType
  <2> HIDE DEF y
  <2>4. HostedSteps(y, chat)
    BY <2>2, <2>3 DEF HostedSteps
  <2>5. y \in HostedCallType /\ y.alone = FALSE /\ y.pc = hostedCall[k].pc /\ HostedSteps(y, chat)
    BY <2>3, <2>4
  <2> QED
    BY <2>1, <2>5 DEF y
<1>10. \A k \in Handlers : k # h /\ k \notin running =>
          hostedCall[k] = NoHostedCall /\ hostedCall'[k] = NoHostedCall
  BY <1>2
<1>11. hostedCall'[h] = x
  BY <1>2, <1>3
<1>12. \A k \in running : hostedCall'[k] = [hostedCall[k] EXCEPT !.alone = FALSE]
  BY <1>2, <1>3
<1>13. \A k \in Handlers : /\ hostedCall'[k] \in HostedCallType
                           /\ HostedSteps(hostedCall'[k], chat)
                           /\ hostedCall'[k].pc \in {"call", "complete"}
                                 <=> hostedCall[k].pc \in {"call", "complete"}
  <2> TAKE k \in Handlers
  <2>1. CASE k = h
    BY <1>1, <1>6, <1>7, <1>11, <2>1, NoHostedCallIs
  <2>2. CASE k \in running
    BY <1>9, <1>12, <2>2
  <2>3. CASE k # h /\ k \notin running
    BY <1>10, <2>3, NoHostedCallIs
  <2> QED
    BY <2>1, <2>2, <2>3
<1> HIDE DEF running
<1>14. hostedCall' \in [Handlers -> HostedCallType]
  <2>1. hostedCall' = [k \in Handlers |-> hostedCall'[k]]
    BY <1>2
  <2> QED
    BY <1>13, <2>1
<1>15. \A k \in Handlers : HostedCallOK(k)'
  <2> SUFFICES ASSUME NEW k \in Handlers,
                      hostedCall'[k] # NoHostedCall, hostedCall'[k].alone
               PROVE  /\ \A q \in Handlers \ {k} : hostedCall'[q] = NoHostedCall
                      /\ HostedRelies(hostedCall'[k], bindings, chat, overrides)
    BY <1>1, <1>13 DEF HostedCallOK
  <2>1. k = h
    BY <1>9, <1>10, <1>12
  <2>2. alone
    BY <1>6, <1>11, <2>1
  <2>3. running = {}
    BY <2>2 DEF alone
  <2> QED
    BY <1>8, <1>10, <1>11, <2>1, <2>3
<1>16. OverridesAreSynced'
  BY <1>1, HostedFacts DEF OverridesAreSynced
<1>17. WorkingIsRunning'
  <2> SUFFICES ASSUME hostedFaults = 0
               PROVE  \A k \in Handlers : k \in working <=> hostedCall'[k].pc \in {"call", "complete"}
    BY <1>1, HostedFacts DEF WorkingIsRunning
  <2> QED
    BY <1>13, HostedFacts
<1> QED
  BY <1>1, <1>14, <1>15, <1>16, <1>17, HostedFacts DEF HostedIInv

LEMMA ListBoundToolsStays ==
  ASSUME HostedIInv, NEW h \in Handlers, ListBoundTools(h)
  PROVE  HostedIInv'
<1> DEFINE f == hostedCall[h]
           x == [f EXCEPT !.pc = "client", !.tools = bindings[f.agent]]
<1>1. f # NoHostedCall /\ f.pc = "list" /\ f \in HostedCallType /\ HostedSteps(f, chat)
  BY HostedFacts DEF ListBoundTools, HostedAt
<1>2. hostedCall' = [hostedCall EXCEPT ![h] = x] /\ UNCHANGED <<hostedTables, hostedHistory>>
  BY Zenon DEF ListBoundTools
<1>3. f.op = "message" /\ f.agent \in Agents /\ ~f.bound
  BY <1>1 DEF HostedSteps
<1>4. bindings[f.agent] \in SUBSET AgentTools
  BY <1>3, HostedFacts DEF HostedTables
<1> HIDE DEF f
<1>5. /\ x \in HostedCallType /\ x.pc = "client" /\ x.op = f.op /\ x.agent = f.agent
      /\ x.tools = bindings[f.agent] /\ x.bound = f.bound /\ x.alone = f.alone
  BY <1>1, <1>4 DEF HostedCallType, HostedPCs
<1> HIDE DEF x
<1>6. HostedSteps(x, chat) /\ HostedRelies(x, bindings, chat, overrides)
  BY <1>3, <1>5 DEF HostedSteps, HostedRelies
<1> QED
  BY <1>1, <1>2, <1>5, <1>6, HostedReads DEF f

LEMMA ReplaceBindingsStays ==
  ASSUME HostedIInv, NEW h \in Handlers, ReplaceBindings(h)
  PROVE  HostedIInv'
<1> DEFINE f == hostedCall[h]
           x == [f EXCEPT !.pc = "client"]
<1>1. f # NoHostedCall /\ f.pc = "replace" /\ f \in HostedCallType /\ HostedSteps(f, chat)
  BY HostedFacts DEF ReplaceBindings, HostedAt
<1>2. /\ hostedCall' = [hostedCall EXCEPT ![h] = x]
      /\ bindings' = [bindings EXCEPT ![f.agent] = f.tools]
      /\ synced' = [synced EXCEPT !.clean = FALSE]
      /\ chat' = chat /\ overrides' = overrides /\ working' = working /\ removals' = removals
      /\ hostedFaults' = hostedFaults
  BY Zenon DEF ReplaceBindings, HostedGoto
<1>3. f.op = "setTools" /\ f.agent \in Agents /\ ~f.bound
  BY <1>1 DEF HostedSteps
<1> HIDE DEF f
<1>4. /\ x \in HostedCallType /\ x.pc = "client" /\ x.op = f.op /\ x.agent = f.agent
      /\ x.tools = f.tools /\ x.bound = f.bound /\ x.alone = f.alone
      /\ f.tools \in SUBSET AgentTools
  BY <1>1 DEF HostedCallType, HostedPCs
<1> HIDE DEF x
<1>5. bindings' \in [Agents -> SUBSET AgentTools] /\ bindings'[f.agent] = f.tools
  BY <1>2, <1>3, <1>4, HostedFacts DEF HostedTables
<1>6. HostedTables(bindings', chat', overrides', removals')
  BY <1>2, <1>5, HostedFacts DEF HostedTables
<1>7. HostedSteps(x, chat') /\ HostedRelies(x, bindings', chat', overrides')
  BY <1>2, <1>3, <1>4, <1>5 DEF HostedSteps, HostedRelies
<1>8. OverridesAreSynced'
  BY <1>2, HostedFacts DEF OverridesAreSynced
<1>9. hostedFaults' = 0 => /\ hostedFaults = 0
                           /\ h \in working' <=> x.pc \in {"call", "complete"}
                           /\ \A k \in Handlers \ {h} : k \in working' <=> k \in working
  BY <1>1, <1>2, <1>4, HostedFacts DEF f
<1> QED
  BY <1>1, <1>2, <1>4, <1>6, <1>7, <1>8, <1>9, HostedFacts, HostedMoves DEF f

LEMMA FindChatClientStays ==
  ASSUME HostedIInv, NEW h \in Handlers, FindChatClient(h)
  PROVE  HostedIInv'
<1> DEFINE f == hostedCall[h]
           pc == CASE chat.client = "keyed" -> "conn"
                   [] chat.client = "named" -> "adopt"
                   [] chat.client = "none"  -> "newClient"
           x == [f EXCEPT !.pc = pc]
<1>1. f # NoHostedCall /\ f.pc = "client" /\ f \in HostedCallType /\ HostedSteps(f, chat)
  BY HostedFacts DEF FindChatClient, HostedAt
<1>2. hostedCall' = [hostedCall EXCEPT ![h] = x] /\ UNCHANGED <<hostedTables, hostedHistory>>
  BY Zenon DEF FindChatClient, HostedGoto
<1>3. pc \in {"conn", "adopt", "newClient"} /\ (pc = "conn" => chat.client = "keyed")
  <2>1. chat.client \in {"none", "named", "keyed"}
    BY HostedFacts DEF HostedTables, ChatRow
  <2> QED
    BY <2>1
<1> HIDE DEF f, pc
<1>4. /\ x \in HostedCallType /\ x.pc = pc /\ x.op = f.op /\ x.agent = f.agent
      /\ x.tools = f.tools /\ x.bound = f.bound /\ x.alone = f.alone
  BY <1>1, <1>3 DEF HostedCallType, HostedPCs
<1> HIDE DEF x
<1>5. HostedSteps(x, chat)
  BY <1>1, <1>3, <1>4 DEF HostedSteps
<1>6. f.alone => HostedRelies(x, bindings, chat, overrides)
  <2> SUFFICES ASSUME f.alone PROVE HostedRelies(x, bindings, chat, overrides)
    OBVIOUS
  <2>1. HostedRelies(f, bindings, chat, overrides)
    BY <1>1, HostedFacts DEF f
  <2> QED
    BY <1>1, <1>3, <1>4, <2>1 DEF HostedRelies
<1> QED
  BY <1>1, <1>2, <1>3, <1>4, <1>5, <1>6, HostedReads DEF f

LEMMA MakeChatClientStays ==
  ASSUME HostedIInv, NEW h \in Handlers, MakeChatClient(h)
  PROVE  HostedIInv'
<1> DEFINE f == hostedCall[h]
           x == [f EXCEPT !.pc = "conn"]
<1>1. /\ f # NoHostedCall /\ f.pc \in {"adopt", "newClient"} /\ f \in HostedCallType
      /\ HostedSteps(f, chat)
  BY HostedFacts DEF MakeChatClient, HostedAt
<1>2. /\ hostedCall' = [hostedCall EXCEPT ![h] = x]
      /\ chat' = [chat EXCEPT !.client = "keyed"]
      /\ bindings' = bindings /\ overrides' = overrides /\ working' = working
      /\ synced' = synced /\ removals' = removals /\ hostedFaults' = hostedFaults
  BY Zenon DEF MakeChatClient, HostedGoto, hostedHistory
<1> HIDE DEF f
<1>3. /\ x \in HostedCallType /\ x.pc = "conn" /\ x.op = f.op /\ x.agent = f.agent
      /\ x.tools = f.tools /\ x.bound = f.bound /\ x.alone = f.alone
  BY <1>1 DEF HostedCallType, HostedPCs
<1> HIDE DEF x
<1>4. /\ chat' \in ChatRow /\ chat'.client = "keyed" /\ chat'.conn = chat.conn
      /\ chat'.token = chat.token /\ chat'.conns = chat.conns /\ chat'.tokens = chat.tokens
  BY <1>2, HostedFacts DEF HostedTables, ChatRow
<1>5. HostedTables(bindings', chat', overrides', removals')
  BY <1>2, <1>4, HostedFacts DEF HostedTables
<1>6. HostedSteps(x, chat')
  BY <1>1, <1>3, <1>4 DEF HostedSteps
<1>7. f.alone => HostedRelies(x, bindings', chat', overrides')
  <2> SUFFICES ASSUME f.alone PROVE HostedRelies(x, bindings', chat', overrides')
    OBVIOUS
  <2>1. HostedRelies(f, bindings, chat, overrides)
    BY <1>1, HostedFacts DEF f
  <2> QED
    BY <1>1, <1>2, <1>3, <1>4, <2>1 DEF HostedRelies
<1>8. OverridesAreSynced'
  BY <1>2, HostedFacts DEF OverridesAreSynced
<1>9. hostedFaults' = 0 => /\ hostedFaults = 0
                           /\ h \in working' <=> x.pc \in {"call", "complete"}
                           /\ \A k \in Handlers \ {h} : k \in working' <=> k \in working
  BY <1>1, <1>2, <1>3, HostedFacts DEF f
<1> QED
  BY <1>1, <1>2, <1>3, <1>4, <1>5, <1>6, <1>7, <1>8, <1>9, HostedFacts, HostedMoves DEF f

LEMMA FindConnectionStays ==
  ASSUME HostedIInv, NEW h \in Handlers, FindConnection(h)
  PROVE  HostedIInv'
<1> DEFINE f == hostedCall[h]
           c == chat.conn
           pc == IF c = 0 THEN "newConn" ELSE "token"
           x == [f EXCEPT !.conn = c, !.pc = pc]
<1>1. f # NoHostedCall /\ f.pc = "conn" /\ f \in HostedCallType /\ HostedSteps(f, chat)
  BY HostedFacts DEF FindConnection, HostedAt
<1>2. hostedCall' = [hostedCall EXCEPT ![h] = x] /\ UNCHANGED <<hostedTables, hostedHistory>>
  BY Zenon DEF FindConnection
<1>3. pc \in {"newConn", "token"} /\ (pc = "token" => c # 0) /\ chat.client = "keyed"
  BY <1>1 DEF HostedSteps
<1>4. c \in Numbers \cup {0}
  BY HostedFacts DEF HostedTables, ChatRow
<1> HIDE DEF f, pc
<1>5. /\ x \in HostedCallType /\ x.pc = pc /\ x.op = f.op /\ x.agent = f.agent /\ x.conn = c
      /\ x.tools = f.tools /\ x.bound = f.bound /\ x.alone = f.alone
  BY <1>1, <1>3, <1>4 DEF HostedCallType, HostedPCs
<1> HIDE DEF x
<1>6. HostedSteps(x, chat)
  BY <1>1, <1>3, <1>5 DEF HostedSteps
<1>7. f.alone => HostedRelies(x, bindings, chat, overrides)
  <2> SUFFICES ASSUME f.alone PROVE HostedRelies(x, bindings, chat, overrides)
    OBVIOUS
  <2>1. HostedRelies(f, bindings, chat, overrides)
    BY <1>1, HostedFacts DEF f
  <2> QED
    BY <1>1, <1>3, <1>5, <2>1 DEF HostedRelies
<1> QED
  BY <1>1, <1>2, <1>3, <1>5, <1>6, <1>7, HostedReads DEF f

LEMMA InsertConnectionStays ==
  ASSUME HostedIInv, NEW h \in Handlers, InsertConnection(h)
  PROVE  HostedIInv'
<1> DEFINE f == hostedCall[h]
           c == chat'.conn
           x == [f EXCEPT !.conn = c, !.pc = "token"]
<1>1. f # NoHostedCall /\ f.pc = "newConn" /\ f \in HostedCallType /\ HostedSteps(f, chat)
  BY HostedFacts DEF InsertConnection, HostedAt
<1>2. /\ hostedCall' = [hostedCall EXCEPT ![h] = x]
      /\ chat' = IF chat.conn # 0 THEN chat
                 ELSE [chat EXCEPT !.conn = chat.conn + chat.conns + 1, !.conns = chat.conns + 1]
      /\ bindings' = bindings /\ overrides' = overrides /\ working' = working
      /\ synced' = synced /\ removals' = removals /\ hostedFaults' = hostedFaults
  BY Zenon DEF InsertConnection, hostedHistory
<1>3. /\ chat' \in ChatRow /\ chat'.client = "keyed" /\ chat'.conn # 0
      /\ chat'.token = chat.token /\ chat'.tokens = chat.tokens
      /\ chat'.conns <= removals + 1
  <2>1. chat.client = "keyed" /\ chat \in ChatRow
    BY <1>1, HostedFacts DEF HostedSteps, HostedTables
  <2>2. CASE chat.conn # 0
    BY <1>2, <2>1, <2>2, HostedFacts DEF HostedTables, ChatRow
  <2>3. CASE chat.conn = 0
    <3> DEFINE n == chat.conns + 1
    <3>1. chat.conns \in Nat /\ removals \in Nat /\ MaxRemovals \in Nat
      BY <2>1, HostedFacts, HostedAssumption DEF ChatRow, Numbers, HostedTables
    <3>2. n \in Numbers /\ n # 0 /\ n <= removals + 1 /\ chat.conn + chat.conns + 1 = n
      BY <2>3, <3>1, HostedFacts DEF HostedTables, Numbers
    <3>3. chat' = [chat EXCEPT !.conn = n, !.conns = n]
      BY <1>2, <2>3, <3>2
    <3> HIDE DEF n
    <3> QED
      BY <2>1, <3>2, <3>3 DEF ChatRow
  <2> QED
    BY <2>2, <2>3
<1>4. chat.conn # 0 => chat' = chat
  BY <1>2
<1> HIDE DEF f
<1>5. /\ x \in HostedCallType /\ x.pc = "token" /\ x.op = f.op /\ x.agent = f.agent
      /\ x.conn = chat'.conn
      /\ x.tools = f.tools /\ x.bound = f.bound /\ x.alone = f.alone
  BY <1>1, <1>3 DEF HostedCallType, HostedPCs, ChatRow
<1> HIDE DEF x
<1>6. HostedTables(bindings', chat', overrides', removals')
  <2>1. chat'.tokens <= removals' + (IF chat'.token = 0 THEN 0 ELSE 1)
    BY <1>2, <1>3, HostedFacts DEF HostedTables
  <2>2. chat'.conns <= removals' + (IF chat'.conn = 0 THEN 0 ELSE 1)
    BY <1>2, <1>3
  <2> QED
    BY <1>2, <1>3, <2>1, <2>2, HostedFacts DEF HostedTables
<1>7. HostedSteps(x, chat')
  BY <1>1, <1>3, <1>5 DEF HostedSteps
<1>8. f.alone => HostedRelies(x, bindings', chat', overrides')
  <2> SUFFICES ASSUME f.alone PROVE HostedRelies(x, bindings', chat', overrides')
    OBVIOUS
  <2>1. HostedRelies(f, bindings, chat, overrides)
    BY <1>1, HostedFacts DEF f
  <2> QED
    BY <1>1, <1>2, <1>3, <1>5, <2>1 DEF HostedRelies
<1>9. OverridesAreSynced'
  BY <1>2, HostedFacts DEF OverridesAreSynced
<1>10. hostedFaults' = 0 => /\ hostedFaults = 0
                            /\ h \in working' <=> x.pc \in {"call", "complete"}
                            /\ \A k \in Handlers \ {h} : k \in working' <=> k \in working
  BY <1>1, <1>2, <1>5, HostedFacts DEF f
<1> QED
  BY <1>1, <1>2, <1>3, <1>5, <1>6, <1>7, <1>8, <1>9, <1>10, HostedFacts, HostedMoves DEF f

\* What a handler does once it has its token.
LEMMA BindIs ==
  ASSUME HostedIInv, NEW h \in Handlers, hostedCall[h].pc \in {"token", "mint"},
         NEW token \in Numbers \cup {0}, Bind(h, token)
  PROVE  \E x \in HostedCallType :
            /\ hostedCall' = [hostedCall EXCEPT ![h] = x]
            /\ x = NoHostedCall \/
                  /\ x # NoHostedCall /\ x.pc \in {"task", "sync"}
                  /\ x.pc = "task" => x.op = "message" /\ x.bound
                  /\ x.op \in {"message", "setTools"}
                  /\ x.op = hostedCall[h].op /\ x.agent = hostedCall[h].agent
                  /\ x.tools = hostedCall[h].tools /\ x.bound = hostedCall[h].bound
                  /\ x.alone = hostedCall[h].alone /\ x.conn = hostedCall[h].conn
                  /\ x.token = token
<1> DEFINE f == hostedCall[h]
           next == AfterEnsure(f)
           x == [f EXCEPT !.token = token, !.pc = next]
<1>1. f \in HostedCallType /\ HostedSteps(f, chat) /\ f.pc \in {"token", "mint"}
  BY HostedFacts
<1>2. f.op \in {"session", "message", "setTools"}
  <2>1. f # NoHostedCall
    BY <1>1, NoHostedCallIs
  <2> HIDE DEF f
  <2> QED
    BY <1>1, <2>1 DEF HostedSteps, HostedCallType, HostedOps
<1>3. next = "idle" => hostedCall' = [hostedCall EXCEPT ![h] = NoHostedCall]
  BY DEF Bind, HostedDone
<1>4. next # "idle" => hostedCall' = [hostedCall EXCEPT ![h] = x]
  BY Zenon DEF Bind
<1> HIDE DEF f
<1>5. /\ next \in {"idle", "task", "sync"}
      /\ next # "idle" => f.op \in {"message", "setTools"}
      /\ next = "task" => f.op = "message" /\ f.bound
  BY <1>2 DEF AfterEnsure
<1> HIDE DEF next
<1>6. CASE next = "idle"
  BY <1>3, <1>6, NoHostedCallIs
<1>7. CASE next # "idle"
  <2>1. /\ x \in HostedCallType /\ x.pc = next /\ x.op = f.op /\ x.agent = f.agent
        /\ x.conn = f.conn /\ x.token = token
        /\ x.tools = f.tools /\ x.bound = f.bound /\ x.alone = f.alone
    BY <1>1, <1>5 DEF HostedCallType, HostedPCs
  <2> HIDE DEF x
  <2>2. x # NoHostedCall
    BY <1>7, <2>1, NoHostedCallIs
  <2> QED
    BY <1>4, <1>5, <1>7, <2>1, <2>2 DEF f
<1> QED
  BY <1>6, <1>7

LEMMA LoadGatewayTokenStays ==
  ASSUME HostedIInv, NEW h \in Handlers, LoadGatewayToken(h)
  PROVE  HostedIInv'
<1> DEFINE f == hostedCall[h]
           token == TokenOf(f.conn)
<1>1. f # NoHostedCall /\ f.pc = "token" /\ f \in HostedCallType /\ HostedSteps(f, chat)
  BY HostedFacts DEF LoadGatewayToken, HostedAt
<1>2. f.alone => HostedRelies(f, bindings, chat, overrides)
  BY <1>1, HostedFacts
<1>3. UNCHANGED <<hostedTables, hostedHistory>>
  BY DEF LoadGatewayToken
<1>4. token \in Numbers \cup {0} /\ (f.alone => token = chat.token)
  <2>1. chat.token \in Numbers \cup {0} /\ (f.alone => f.conn = chat.conn)
    BY <1>1, <1>2, HostedFacts DEF HostedTables, ChatRow, HostedRelies
  <2> QED
    BY <2>1 DEF TokenOf
<1>5. CASE token = 0
  <2> DEFINE x == [f EXCEPT !.pc = "mint"]
  <2>1. hostedCall' = [hostedCall EXCEPT ![h] = x]
    BY <1>5, Zenon DEF LoadGatewayToken, HostedGoto
  <2> HIDE DEF f, token
  <2>2. /\ x \in HostedCallType /\ x.pc = "mint" /\ x.op = f.op /\ x.agent = f.agent
        /\ x.conn = f.conn
        /\ x.tools = f.tools /\ x.bound = f.bound /\ x.alone = f.alone
    BY <1>1 DEF HostedCallType, HostedPCs
  <2> HIDE DEF x
  <2>3. HostedSteps(x, chat)
    BY <1>1, <2>2 DEF HostedSteps
  <2>4. f.alone => HostedRelies(x, bindings, chat, overrides)
    BY <1>1, <1>2, <1>4, <1>5, <2>2 DEF HostedRelies
  <2> QED
    BY <1>1, <1>3, <2>1, <2>2, <2>3, <2>4, HostedReads DEF f
<1>6. CASE token # 0
  <2>1. Bind(h, token)
    BY <1>6 DEF LoadGatewayToken
  <2> HIDE DEF token
  <2>2. PICK x \in HostedCallType :
            /\ hostedCall' = [hostedCall EXCEPT ![h] = x]
            /\ x = NoHostedCall \/
                  /\ x # NoHostedCall /\ x.pc \in {"task", "sync"}
                  /\ x.pc = "task" => x.op = "message" /\ x.bound
                  /\ x.op \in {"message", "setTools"}
                  /\ x.op = f.op /\ x.agent = f.agent
                  /\ x.tools = f.tools /\ x.bound = f.bound
                  /\ x.alone = f.alone /\ x.conn = f.conn
                  /\ x.token = token
    BY <1>1, <1>4, <2>1, BindIs
  <2>3. x.pc \in {"idle", "task", "sync"}
    BY <2>2, NoHostedCallIs
  <2> HIDE DEF f
  <2>4. HostedSteps(x, chat)
    BY <1>1, <2>2, NoHostedCallIs DEF HostedSteps
  <2>5. x # NoHostedCall /\ x.alone => HostedRelies(x, bindings, chat, overrides)
    BY <1>1, <1>2, <1>4, <2>2 DEF HostedRelies
  <2>6. x # NoHostedCall => x.alone = f.alone
    BY <2>2
  <2>7. hostedCall' = [hostedCall EXCEPT ![h] = x]
    BY <2>2
  <2>8. x.pc \in {"call", "complete"} <=> f.pc \in {"call", "complete"}
    BY <1>1, <2>3
  <2> QED
    BY <1>1, <1>3, <2>4, <2>5, <2>6, <2>7, <2>8, HostedReads DEF f
<1> QED
  BY <1>5, <1>6

LEMMA MintTokenStays ==
  ASSUME HostedIInv, NEW h \in Handlers, MintToken(h)
  PROVE  HostedIInv'
<1> DEFINE f == hostedCall[h]
           t == chat.tokens + 1
<1>1. f # NoHostedCall /\ f.pc = "mint" /\ f \in HostedCallType /\ HostedSteps(f, chat)
  BY HostedFacts DEF MintToken, HostedAt
<1>2. f.alone => HostedRelies(f, bindings, chat, overrides)
  BY <1>1, HostedFacts
<1>3. /\ bindings' = bindings /\ overrides' = overrides /\ working' = working
      /\ synced' = synced /\ removals' = removals /\ hostedFaults' = hostedFaults
  BY DEF MintToken, hostedHistory
<1>4. OverridesAreSynced'
  BY <1>3, HostedFacts DEF OverridesAreSynced
<1>5. CASE ~CanMint(h)
  <2>1. hostedCall' = [hostedCall EXCEPT ![h] = NoHostedCall] /\ chat' = chat
    BY <1>5 DEF MintToken, HostedDone
  <2>2. UNCHANGED <<hostedTables, hostedHistory>>
    BY <1>3, <2>1 DEF hostedTables, hostedHistory
  <2>3. NoHostedCall.pc \in {"call", "complete"} <=> f.pc \in {"call", "complete"}
    BY <1>1, NoHostedCallIs
  <2> QED
    BY <1>1, <2>1, <2>2, <2>3, NoHostedCallIs, HostedReads
<1>6. CASE CanMint(h)
  <2>1. chat.token = 0 /\ f.conn = chat.conn /\ chat.conn # 0
    BY <1>1, <1>6 DEF CanMint, HostedSteps
  <2>2. chat' = [chat EXCEPT !.token = t, !.tokens = t] /\ Bind(h, chat'.token)
    BY <1>6 DEF MintToken
  <2>3. t \in Numbers /\ t # 0 /\ t <= removals + 1
    <3>1. chat.tokens \in Nat /\ removals \in Nat /\ MaxRemovals \in Nat
      BY HostedFacts, HostedAssumption DEF ChatRow, Numbers, HostedTables
    <3> QED
      BY <2>1, <3>1, HostedFacts DEF HostedTables, Numbers
  <2> HIDE DEF t
  <2>4. /\ chat' \in ChatRow /\ chat'.token = t /\ chat'.tokens = t /\ chat'.conn = chat.conn
        /\ chat'.conns = chat.conns /\ chat'.client = chat.client
    BY <2>2, <2>3, HostedFacts DEF HostedTables, ChatRow
  <2>5. HostedTables(bindings', chat', overrides', removals')
    BY <1>3, <2>1, <2>3, <2>4, HostedFacts DEF HostedTables
  <2>6. Bind(h, t)
    BY <2>2, <2>4
  <2>7. PICK x \in HostedCallType :
            /\ hostedCall' = [hostedCall EXCEPT ![h] = x]
            /\ x = NoHostedCall \/
                  /\ x # NoHostedCall /\ x.pc \in {"task", "sync"}
                  /\ x.pc = "task" => x.op = "message" /\ x.bound
                  /\ x.op \in {"message", "setTools"}
                  /\ x.op = f.op /\ x.agent = f.agent
                  /\ x.tools = f.tools /\ x.bound = f.bound
                  /\ x.alone = f.alone /\ x.conn = f.conn
                  /\ x.token = t
    BY <1>1, <2>3, <2>6, BindIs
  <2>8. x.pc \in {"idle", "task", "sync"}
    BY <2>7, NoHostedCallIs
  <2> HIDE DEF f
  <2>9. HostedSteps(x, chat')
    BY <1>1, <2>1, <2>4, <2>7, NoHostedCallIs DEF HostedSteps
  <2>10. x # NoHostedCall /\ x.alone => HostedRelies(x, bindings', chat', overrides')
    BY <1>1, <1>2, <1>3, <2>1, <2>4, <2>7 DEF HostedRelies
  <2>11. /\ x # NoHostedCall => x.alone = f.alone
         /\ hostedCall' = [hostedCall EXCEPT ![h] = x]
    BY <2>7
  <2>12. hostedFaults' = 0 => /\ hostedFaults = 0
                              /\ h \in working' <=> x.pc \in {"call", "complete"}
                              /\ \A k \in Handlers \ {h} : k \in working' <=> k \in working
    BY <1>1, <1>3, <2>8, HostedFacts DEF f
  <2> QED
    BY <1>1, <1>3, <1>4, <2>4, <2>5, <2>9, <2>10, <2>11, <2>12, HostedFacts, HostedMoves DEF f
<1> QED
  BY <1>5, <1>6

\* Of a handler that has brought its tools to the connection, or found it gone.
LEMMA AfterSyncIs ==
  ASSUME HostedIInv, NEW h \in Handlers, hostedCall[h].pc = "sync",
         AfterSync(h) \/ HostedDone(h)
  PROVE  \E x \in HostedCallType :
            /\ hostedCall' = [hostedCall EXCEPT ![h] = x]
            /\ x = NoHostedCall \/
                  /\ AfterSync(h)
                  /\ x # NoHostedCall /\ x.pc = "client" /\ x.op = "message" /\ x.bound
                  /\ x.op = hostedCall[h].op /\ x.agent = hostedCall[h].agent
                  /\ x.tools = hostedCall[h].tools /\ x.alone = hostedCall[h].alone
<1> DEFINE f == hostedCall[h]
           x == [f EXCEPT !.bound = TRUE, !.pc = "client"]
<1>1. f \in HostedCallType
  BY HostedFacts
<1>2. CASE hostedCall' = [hostedCall EXCEPT ![h] = NoHostedCall]
  BY <1>2, NoHostedCallIs
<1>3. CASE AfterSync(h) /\ f.op = "message"
  <2>1. hostedCall' = [hostedCall EXCEPT ![h] = x]
    BY <1>3, Zenon DEF AfterSync
  <2> HIDE DEF f
  <2>2. /\ x \in HostedCallType /\ x.pc = "client" /\ x.op = f.op /\ x.agent = f.agent
        /\ x.tools = f.tools /\ x.bound = TRUE /\ x.alone = f.alone
    BY <1>1 DEF HostedCallType, HostedPCs
  <2> HIDE DEF x
  <2>3. x # NoHostedCall
    BY <2>2, NoHostedCallIs
  <2> QED
    BY <1>3, <2>1, <2>2, <2>3 DEF f
<1> QED
  BY <1>2, <1>3 DEF AfterSync, HostedDone

LEMMA SyncOverridesStays ==
  ASSUME HostedIInv, NEW h \in Handlers, SyncOverrides(h)
  PROVE  HostedIInv'
<1> DEFINE f == hostedCall[h]
<1>1. f # NoHostedCall /\ f.pc = "sync" /\ f \in HostedCallType /\ HostedSteps(f, chat)
  BY HostedFacts DEF SyncOverrides, HostedAt
<1>2. f.alone => HostedRelies(f, bindings, chat, overrides)
  BY <1>1, HostedFacts
<1>3. /\ bindings' = bindings /\ chat' = chat /\ working' = working
      /\ removals' = removals /\ hostedFaults' = hostedFaults
  BY DEF SyncOverrides
<1>4. AfterSync(h) \/ HostedDone(h)
  BY DEF SyncOverrides
<1>5. PICK x \in HostedCallType :
            /\ hostedCall' = [hostedCall EXCEPT ![h] = x]
            /\ x = NoHostedCall \/
                  /\ AfterSync(h)
                  /\ x # NoHostedCall /\ x.pc = "client" /\ x.op = "message" /\ x.bound
                  /\ x.op = f.op /\ x.agent = f.agent
                  /\ x.tools = f.tools /\ x.alone = f.alone
  BY <1>1, <1>4, AfterSyncIs
<1>6. /\ f.op \in {"message", "setTools"} /\ f.agent \in Agents /\ f.conn # 0
      /\ f.tools \in SUBSET AgentTools /\ f.alone \in BOOLEAN
  BY <1>1 DEF HostedSteps, HostedCallType
<1>7. f.alone => f.tools = bindings[f.agent] /\ f.conn = chat.conn
  BY <1>1, <1>2, <1>6 DEF HostedRelies
<1>8. /\ overrides' = (IF chat.conn = f.conn THEN f.tools ELSE overrides)
      /\ synced' = (IF chat.conn = f.conn THEN [agent |-> f.agent, clean |-> f.alone] ELSE synced)
  BY DEF SyncOverrides
<1> HIDE DEF f
<1>9. HostedTables(bindings', chat', overrides', removals')
  BY <1>3, <1>6, <1>8, HostedFacts DEF HostedTables
<1>10. OverridesAreSynced'
  <2>1. CASE chat.conn = f.conn
    <3>1. synced' = [agent |-> f.agent, clean |-> f.alone] /\ overrides' = f.tools
      BY <1>8, <2>1
    <3> QED
      BY <1>3, <1>6, <1>7, <3>1 DEF OverridesAreSynced
  <2>2. CASE chat.conn # f.conn
    BY <1>3, <1>8, <2>2, HostedFacts DEF OverridesAreSynced
  <2> QED
    BY <2>1, <2>2
<1>11. HostedSteps(x, chat')
  <2>1. CASE x = NoHostedCall
    BY <2>1, NoHostedCallIs
  <2>2. CASE x # NoHostedCall
    BY <1>5, <1>6, <2>2 DEF HostedSteps
  <2> QED
    BY <2>1, <2>2
<1>12. x # NoHostedCall /\ x.alone => HostedRelies(x, bindings', chat', overrides')
  <2> SUFFICES ASSUME x # NoHostedCall, x.alone
               PROVE  HostedRelies(x, bindings', chat', overrides')
    OBVIOUS
  <2>1. f.alone /\ x.pc = "client" /\ x.tools = f.tools /\ x.agent = f.agent
    BY <1>5
  <2>2. overrides' = f.tools /\ f.tools = bindings[f.agent]
    BY <1>7, <1>8, <2>1
  <2> QED
    BY <1>3, <2>1, <2>2 DEF HostedRelies
<1>13. hostedFaults' = 0 => /\ hostedFaults = 0
                            /\ h \in working' <=> x.pc \in {"call", "complete"}
                            /\ \A k \in Handlers \ {h} : k \in working' <=> k \in working
  <2>1. x.pc \in {"idle", "client"}
    BY <1>5, NoHostedCallIs
  <2> QED
    BY <1>1, <1>3, <2>1, HostedFacts DEF f
<1>14. /\ x # NoHostedCall => x.alone = f.alone
       /\ hostedCall' = [hostedCall EXCEPT ![h] = x]
  BY <1>5
<1> QED
  BY <1>1, <1>3, <1>9, <1>10, <1>11, <1>12, <1>13, <1>14, HostedFacts, HostedMoves DEF f

LEMMA HostedTasksStay ==
  ASSUME HostedIInv, NEW h \in Handlers, InsertWorkingTask(h) \/ CallTool(h)
  PROVE  HostedIInv'
<1> DEFINE f == hostedCall[h]
           pc == IF f.pc = "task" THEN "call" ELSE "complete"
           x == [f EXCEPT !.pc = pc]
<1>1. f # NoHostedCall /\ f.pc \in {"task", "call"} /\ f \in HostedCallType /\ HostedSteps(f, chat)
  BY HostedFacts DEF InsertWorkingTask, CallTool, HostedAt
<1>2. f.alone => HostedRelies(f, bindings, chat, overrides)
  BY <1>1, HostedFacts
<1>3. /\ bindings' = bindings /\ chat' = chat /\ overrides' = overrides
      /\ synced' = synced /\ removals' = removals /\ hostedFaults' = hostedFaults
      /\ working' = IF f.pc = "task" THEN working \cup {h} ELSE working
      /\ hostedCall' = [hostedCall EXCEPT ![h] = x]
  <2>1. CASE InsertWorkingTask(h)
    BY <2>1 DEF InsertWorkingTask, HostedAt, HostedGoto, hostedHistory
  <2>2. CASE CallTool(h)
    BY <2>2 DEF CallTool, HostedAt, HostedGoto, hostedTables, hostedHistory
  <2> QED
    BY <2>1, <2>2
<1>4. pc \in {"call", "complete"} /\ (f.pc = "call" => pc = "complete")
  OBVIOUS
<1> HIDE DEF f, pc
<1>5. /\ x \in HostedCallType /\ x.pc = pc /\ x.op = f.op /\ x.agent = f.agent
      /\ x.tools = f.tools /\ x.bound = f.bound /\ x.alone = f.alone /\ x.token = f.token
  BY <1>1, <1>4 DEF HostedCallType, HostedPCs
<1> HIDE DEF x
<1>6. HostedSteps(x, chat')
  BY <1>1, <1>4, <1>5 DEF HostedSteps
<1>7. f.alone => HostedRelies(x, bindings', chat', overrides')
  <2> SUFFICES ASSUME f.alone PROVE HostedRelies(x, bindings', chat', overrides')
    OBVIOUS
  <2>1. HostedRelies(f, bindings, chat, overrides)
    BY <1>2
  <2> QED
    BY <1>1, <1>3, <1>4, <1>5, <2>1 DEF HostedRelies
<1>8. OverridesAreSynced' /\ HostedTables(bindings', chat', overrides', removals')
  BY <1>3, HostedFacts DEF OverridesAreSynced
<1>9. hostedFaults' = 0 => /\ hostedFaults = 0
                           /\ h \in working' <=> x.pc \in {"call", "complete"}
                           /\ \A k \in Handlers \ {h} : k \in working' <=> k \in working
  BY <1>1, <1>3, <1>4, <1>5, HostedFacts DEF f
<1>10. working' \subseteq Handlers
  BY <1>3, HostedFacts
<1> QED
  BY <1>1, <1>3, <1>5, <1>6, <1>7, <1>8, <1>9, <1>10, HostedFacts, HostedMoves DEF f

LEMMA HostedEndsStay ==
  ASSUME HostedIInv, NEW h \in Handlers, CompleteTask(h) \/ FailHostedCall(h)
  PROVE  HostedIInv'
<1>1. /\ hostedCall[h] # NoHostedCall
      /\ hostedCall' = [hostedCall EXCEPT ![h] = NoHostedCall]
      /\ bindings' = bindings /\ chat' = chat /\ overrides' = overrides
      /\ removals' = removals
  BY HostedFacts DEF CompleteTask, FailHostedCall, HostedAt, HostedDone, hostedTables, hostedHistory
<1>2. \/ /\ hostedCall[h].pc = "complete" /\ working' = working \ {h}
         /\ synced' = synced /\ hostedFaults' = hostedFaults
      \/ /\ working' = working /\ synced' = [synced EXCEPT !.clean = FALSE]
         /\ hostedFaults < MaxHostedFaults /\ hostedFaults' = hostedFaults + 1
  BY DEF CompleteTask, FailHostedCall, HostedAt, hostedTables, hostedHistory
<1>3. OverridesAreSynced'
  BY <1>1, <1>2, HostedFacts DEF OverridesAreSynced
<1>4. /\ hostedFaults' \in 0..MaxHostedFaults /\ working' \subseteq Handlers
      /\ hostedFaults' = 0 => hostedFaults = 0 /\ working' = working \ {h}
  BY <1>2, HostedFacts, HostedAssumption
<1>5. HostedTables(bindings', chat', overrides', removals')
  BY <1>1, HostedFacts
<1> QED
  BY <1>1, <1>3, <1>4, <1>5, NoHostedCallIs, HostedMoves

LEMMA RemoveStays ==
  ASSUME HostedIInv, RemoveToken \/ RemoveConnection
  PROVE  HostedIInv'
<1>1. PICK gone \in {"token", "connection"} :
         Remove(gone) /\ (gone = "token" => chat.token # 0) /\ (gone = "connection" => chat.conn # 0)
  BY DEF RemoveToken, RemoveConnection
<1>2. /\ removals < MaxRemovals /\ removals' = removals + 1
      /\ chat' = IF gone = "token" THEN [chat EXCEPT !.token = 0]
                 ELSE [chat EXCEPT !.token = 0, !.conn = 0]
      /\ overrides' = IF gone = "token" THEN overrides ELSE {}
      /\ bindings' = bindings /\ working' = working /\ hostedFaults' = hostedFaults
  BY <1>1 DEF Remove
<1>3. synced' = [synced EXCEPT !.clean = synced.clean /\ gone = "token"]
  BY <1>1 DEF Remove
<1>4. hostedCall' = [h \in Handlers |->
                       IF hostedCall[h] = NoHostedCall THEN NoHostedCall
                       ELSE [hostedCall[h] EXCEPT !.alone = FALSE]]
  BY <1>1 DEF Remove
<1>5. HostedTables(bindings, chat, overrides, removals) /\ OverridesAreSynced
  BY DEF HostedIInv
<1>6. /\ chat' \in ChatRow /\ chat'.client = chat.client /\ chat'.token = 0
      /\ chat'.conns = chat.conns /\ chat'.tokens = chat.tokens
      /\ chat'.conn = IF gone = "token" THEN chat.conn ELSE 0
  BY <1>2, <1>5 DEF HostedTables, ChatRow
<1>7. HostedTables(bindings', chat', overrides', removals')
  <2>1. /\ removals' \in 0..MaxRemovals /\ removals \in Nat
        /\ chat.conns \in Nat /\ chat.tokens \in Nat
    BY <1>2, <1>5, HostedAssumption DEF HostedTables, ChatRow, Numbers
  <2>2. chat'.conns <= removals' + (IF chat'.conn = 0 THEN 0 ELSE 1)
    BY <1>1, <1>2, <1>5, <1>6, <2>1 DEF HostedTables
  <2>3. chat'.tokens <= removals' + (IF chat'.token = 0 THEN 0 ELSE 1)
    BY <1>2, <1>5, <1>6, <2>1 DEF HostedTables
  <2> QED
    BY <1>1, <1>2, <1>5, <1>6, <2>1, <2>2, <2>3 DEF HostedTables
<1>8. ASSUME NEW h \in Handlers
      PROVE  /\ hostedCall'[h] \in HostedCallType
             /\ hostedCall'[h].pc = hostedCall[h].pc
             /\ HostedCallOK(h)'
  <2>1. CASE hostedCall[h] = NoHostedCall
    <3>1. hostedCall'[h] = NoHostedCall
      BY <1>4, <2>1
    <3> QED
      BY <2>1, <3>1, NoHostedCallIs DEF HostedCallOK
  <2>2. CASE hostedCall[h] # NoHostedCall
    <3> DEFINE x == [hostedCall[h] EXCEPT !.alone = FALSE]
    <3>1. hostedCall'[h] = x
      BY <1>4, <2>2
    <3>2. hostedCall[h] \in HostedCallType /\ HostedSteps(hostedCall[h], chat)
      BY HostedFacts
    <3>3. /\ x \in HostedCallType /\ x.alone = FALSE /\ x.pc = hostedCall[h].pc
          /\ x.op = hostedCall[h].op /\ x.agent = hostedCall[h].agent
          /\ x.bound = hostedCall[h].bound /\ x.conn = hostedCall[h].conn
      BY <3>2 DEF HostedCallType
    <3> HIDE DEF x
    <3>4. HostedSteps(x, chat')
      BY <1>6, <2>2, <3>2, <3>3 DEF HostedSteps
    <3> QED
      BY <3>1, <3>3, <3>4 DEF HostedCallOK
  <2> QED
    BY <2>1, <2>2
<1>9. hostedCall' \in [Handlers -> HostedCallType]
  <2>1. hostedCall' = [h \in Handlers |-> hostedCall'[h]]
    BY <1>4
  <2> QED
    BY <1>8, <2>1
<1>10. OverridesAreSynced'
  <2>1. synced' \in [agent : Agents \cup {"none"}, clean : BOOLEAN] /\ synced'.agent = synced.agent
    BY <1>3, <1>5 DEF OverridesAreSynced
  <2>2. CASE gone = "token"
    <3>1. synced'.clean => synced.clean
      BY <1>3, <1>5 DEF OverridesAreSynced
    <3> QED
      BY <1>2, <1>5, <2>1, <2>2, <3>1 DEF OverridesAreSynced
  <2>3. CASE gone # "token"
    <3>1. ~synced'.clean
      BY <1>3, <1>5, <2>3 DEF OverridesAreSynced
    <3> QED
      BY <2>1, <3>1 DEF OverridesAreSynced
  <2> QED
    BY <2>2, <2>3
<1>11. WorkingIsRunning'
  <2>1. WorkingIsRunning
    BY DEF HostedIInv
  <2> QED
    BY <1>2, <1>8, <2>1 DEF WorkingIsRunning
<1> QED
  BY <1>2, <1>7, <1>8, <1>9, <1>10, <1>11 DEF HostedIInv

LEMMA HostedIInvStart == HostedInit => HostedIInv
<1> SUFFICES ASSUME HostedInit PROVE HostedIInv
  OBVIOUS
<1>1. PICK c \in {"none", "named"} :
         chat = [client |-> c, conn |-> 0, token |-> 0, conns |-> 0, tokens |-> 0]
  BY DEF HostedInit
<1>2. HostedTables(bindings, chat, overrides, removals)
  BY <1>1, HostedAssumption DEF HostedInit, HostedTables, ChatRow
<1>3. /\ hostedCall \in [Handlers -> HostedCallType]
      /\ \A h \in Handlers : hostedCall[h] = NoHostedCall
  BY NoHostedCallIs DEF HostedInit
<1>4. \A h \in Handlers : HostedCallOK(h)
  BY <1>3, NoHostedCallIs DEF HostedCallOK
<1>5. WorkingIsRunning /\ working \subseteq Handlers
  BY <1>3, NoHostedCallIs DEF WorkingIsRunning, HostedInit
<1>6. OverridesAreSynced /\ hostedFaults \in 0..MaxHostedFaults
  BY HostedAssumption DEF HostedInit, OverridesAreSynced
<1> QED
  BY <1>2, <1>3, <1>4, <1>5, <1>6 DEF HostedIInv

LEMMA HostedStartsStay ==
  ASSUME HostedIInv, NEW h \in Handlers,
         \/ StartSession(h)
         \/ \E a \in Agents, t \in AgentTools : StartMessage(h, a, t)
         \/ \E a \in Agents, tools \in SUBSET AgentTools : StartSetTools(h, a, tools)
  PROVE  HostedIInv'
<1>1. CASE StartSession(h)
  <2> DEFINE x == [NoHostedCall EXCEPT !.op = "session", !.pc = "client"]
  <2>1. HostedStart(h, x)
    BY <1>1 DEF StartSession
  <2>2. x \in HostedCallType /\ x.op = "session" /\ x.pc = "client" /\ ~x.bound
    BY DEF NoHostedCall, HostedCallType, HostedOps, HostedPCs
  <2> HIDE DEF x
  <2> QED
    BY <2>1, <2>2, HostedStartStays
<1>2. ASSUME NEW a \in Agents, NEW t \in AgentTools, StartMessage(h, a, t)
      PROVE  HostedIInv'
  <2> DEFINE x == [NoHostedCall EXCEPT !.op = "message", !.pc = "list", !.agent = a, !.tool = t]
  <2>1. HostedStart(h, x)
    BY <1>2 DEF StartMessage
  <2>2. /\ x \in HostedCallType /\ x.op = "message" /\ x.pc = "list" /\ x.agent = a
        /\ ~x.bound
    BY DEF NoHostedCall, HostedCallType, HostedOps, HostedPCs
  <2> HIDE DEF x
  <2> QED
    BY <2>1, <2>2, HostedStartStays
<1>3. ASSUME NEW a \in Agents, NEW tools \in SUBSET AgentTools, StartSetTools(h, a, tools)
      PROVE  HostedIInv'
  <2> DEFINE x == [NoHostedCall EXCEPT !.op = "setTools", !.pc = "replace", !.agent = a,
                                       !.tools = tools]
  <2>1. HostedStart(h, x)
    BY <1>3 DEF StartSetTools
  <2>2. /\ x \in HostedCallType /\ x.op = "setTools" /\ x.pc = "replace" /\ x.agent = a
        /\ ~x.bound
    BY DEF NoHostedCall, HostedCallType, HostedOps, HostedPCs
  <2> HIDE DEF x
  <2> QED
    BY <2>1, <2>2, HostedStartStays
<1> QED
  BY <1>1, <1>2, <1>3

LEMMA HostedIInvStays == HostedIInv /\ [HostedNext]_hostedVars => HostedIInv'
<1> SUFFICES ASSUME HostedIInv, [HostedNext]_hostedVars PROVE HostedIInv'
  OBVIOUS
<1>1. ASSUME NEW h \in Handlers, HandleHosted(h) PROVE HostedIInv'
  BY <1>1, HostedStartsStay, ListBoundToolsStays, ReplaceBindingsStays, FindChatClientStays,
     MakeChatClientStays, FindConnectionStays, InsertConnectionStays, LoadGatewayTokenStays,
     MintTokenStays, SyncOverridesStays, HostedTasksStay, HostedEndsStay DEF HandleHosted
<1>2. CASE RemoveToken \/ RemoveConnection
  BY <1>2, RemoveStays
<1>3. CASE UNCHANGED hostedVars
  <2>1. /\ bindings' = bindings /\ chat' = chat /\ overrides' = overrides /\ working' = working
        /\ synced' = synced /\ removals' = removals /\ hostedFaults' = hostedFaults
        /\ hostedCall' = hostedCall
    BY <1>3 DEF hostedVars, hostedTables, hostedHistory
  <2>2. OverridesAreSynced' /\ WorkingIsRunning' /\ \A h \in Handlers : HostedCallOK(h)'
    BY <2>1 DEF HostedIInv, OverridesAreSynced, WorkingIsRunning, HostedCallOK
  <2> QED
    BY <2>1, <2>2 DEF HostedIInv
<1> QED
  BY <1>1, <1>2, <1>3 DEF HostedNext

\* For any agents, handlers, removals and faults.
THEOREM HostedCorrect == HostedSpec => HostedRules
<1>1. HostedIInv => HostedTypeOK /\ OverridesFollowBindings /\ WorkingIsRunning
  <2> SUFFICES ASSUME HostedIInv
               PROVE  HostedTypeOK /\ OverridesFollowBindings /\ WorkingIsRunning
    OBVIOUS
  <2>1. HostedTypeOK
    BY DEF HostedIInv, HostedTables, HostedTypeOK, HostedCallType, OverridesAreSynced
  <2>2. OverridesFollowBindings
    BY DEF HostedIInv, OverridesAreSynced, OverridesFollowBindings
  <2> QED
    BY <2>1, <2>2 DEF HostedIInv
<1>2. HostedIInv /\ [HostedNext]_hostedVars =>
         [\A h \in Handlers :
            CallTool(h) /\ hostedCall[h].alone
            => (Permitted(h) <=> hostedCall[h].tool \in bindings[hostedCall[h].agent])
         ]_hostedVars
  <2> SUFFICES ASSUME HostedIInv, NEW h \in Handlers, CallTool(h), hostedCall[h].alone
               PROVE  Permitted(h) <=> hostedCall[h].tool \in bindings[hostedCall[h].agent]
    OBVIOUS
  <2>1. /\ hostedCall[h].pc = "call" /\ HostedSteps(hostedCall[h], chat)
        /\ HostedRelies(hostedCall[h], bindings, chat, overrides)
    BY HostedFacts DEF CallTool, HostedAt
  <2> QED
    BY <2>1 DEF HostedSteps, HostedRelies, Permitted
<1>3. HostedIInv /\ [HostedNext]_hostedVars =>
         [\A h \in Handlers : MintToken(h) /\ hostedCall[h].alone => CanMint(h)]_hostedVars
  <2> SUFFICES ASSUME HostedIInv, NEW h \in Handlers, MintToken(h), hostedCall[h].alone
               PROVE  CanMint(h)
    OBVIOUS
  <2>1. hostedCall[h].pc = "mint" /\ HostedRelies(hostedCall[h], bindings, chat, overrides)
    BY HostedFacts DEF MintToken, HostedAt
  <2> QED
    BY <2>1 DEF HostedRelies, CanMint
<1> QED
  BY <1>1, <1>2, <1>3, HostedIInvStart, HostedIInvStays, PTL
     DEF HostedSpec, HostedRules, BoundToolsCallable, AloneIsServed

-----------------------------------------------------------------------------
(***************************************************************************)
(* EditPage.  What is under way is about the subject of the route, until   *)
(* the subject changes under it.                                           *)
(***************************************************************************)

EditAny == Subjects \cup {None, Elsewhere}

EditFetchRec == [state : {"idle", "asked", "answered"}, of : EditAny,
                 value : Settings \cup {Unset}]

EditPressRec == [state : {"idle", "writing", "loading"}, kind : {None, "save", "act"},
                 at : EditAny, to : EditAny, saw : EditAny, calm : BOOLEAN,
                 value : Settings \cup {Unset}]

EditTypes ==
    /\ form \in Forms
    /\ route \in Subjects \cup {Elsewhere}
    /\ moves \in Runs
    /\ stored \in [Subjects -> Settings \cup {Unset}]
    /\ fetch \in [Fetchers -> EditFetchRec]
    /\ press \in [Presses -> EditPressRec]
    /\ view \in Subjects \cup {None}
    /\ draft \in Settings \cup {Unset}
    /\ typed \in 0..MaxTyped
    /\ failures \in 0..MaxEditFaults
    /\ overlapped \in BOOLEAN
    /\ missed \in BOOLEAN

\* All that is under way is about the subject of the route.
EditNear ==
    \/ form.acts # {} /\ ~overlapped /\ ~missed
    \/ form \in {SsoForm, ChatSettingsForm} /\ moves = 0

\* Settings are where they were entered for.
EditClean == form \in {ConnectionDetailPage, EditRoleForm} \/ EditNear

EditFetchOK(x, F, R, clean, near) ==
    /\ x.state # "idle" => x.of \in Subjects \cup {Elsewhere}
    /\ x.state = "answered" => x.of \in Subjects /\ (F.fills # "merge" => x.value # Unset)
    /\ clean /\ x.state = "answered" => x.value.from \in {x.of, None}
    /\ near /\ x.state # "idle" => x.of = R

EditPressOK(x, F, R, clean, near, far) ==
    /\ x.state = "idle" => x.kind = None
    /\ x.state # "idle" =>
          x.kind \in {"save", "act"} /\ x.at \in Subjects \cup {Elsewhere}
    /\ x.kind = "save" =>
          /\ x.state = "writing" /\ x.value # Unset /\ F.saves # "never"
          /\ IF F.saves = "route" THEN x.to = x.at ELSE x.to \in Subjects
    /\ x.kind = "act" =>
          /\ F.acts # {}
          /\ x.to \in {x.saw, Elsewhere} \/ ~x.calm \/ far
    /\ clean /\ x.kind = "save" /\ x.at # Elsewhere => x.value.from = x.to
    /\ near /\ x.state # "idle" => x.at = R

EditStored ==
    \A s \in Subjects : /\ form.fills # "merge" => stored[s] # Unset
                        /\ EditClean => stored[s].from \in {s, None}

\* The form is of what is shown, and that is the subject of the route.
EditScreen ==
    /\ form.fills \in {"load", "mount", "keyed"} /\ view # None => draft # Unset
    /\ form.fills = "none" => draft = Unset
    /\ form.fills = "keyed" => IF view = None THEN draft = Unset ELSE draft.from = view
    /\ EditNear /\ form.acts # {} /\ ~Waiting /\ route # Elsewhere =>
          view = route /\ (form.fills = "load" => draft.from = route)
    /\ EditNear /\ form.acts = {} =>
          /\ route \in Subjects /\ view \in {None, route}
          /\ draft # Unset => draft.from = route

EditIInv ==
    /\ EditTypes
    /\ EditStored
    /\ EditScreen
    /\ \A f \in Fetchers : EditFetchOK(fetch[f], form, route, EditClean, EditNear)
    /\ \A p \in Presses : /\ EditPressOK(press[p], form, route, EditClean, EditNear,
                                         overlapped \/ missed)
                          /\ fetch[p].state # "idle" => press[p].state = "loading"

\* Nothing is saved before the form was filled.
EditSeen == form.fills # "keyed" /\ view = None => \A p \in Presses : press[p].kind # "save"

\* What the forms have in common, and what tells them apart.
LEMMA EditForms ==
    ASSUME form \in Forms
    PROVE  /\ form.fills \in {"load", "mount", "merge", "keyed", "none"}
           /\ form.saves \in {"route", "shown", "never"}
           /\ form.guarded \in BOOLEAN /\ form.hides \in BOOLEAN /\ form.strays \in BOOLEAN
           /\ form.fills = "load" <=> form = AgentDetailPage
           /\ form.fills = "none" <=> form = ConnectionDetailPage
           /\ form.fills = "mount" <=> form = SsoForm
           /\ form.fills = "merge" <=> form = ChatSettingsForm
           /\ form.fills = "keyed" <=> form = EditRoleForm
           /\ form.acts # {} <=> form.fills \in {"load", "none"}
           /\ form.saves = "never" <=> form.fills = "none"
           /\ form.saves = "shown" <=> form.fills = "keyed"
           /\ form.strays <=> form.acts # {}
           /\ form.guarded <=> form.fills = "merge"
           /\ form.hides <=> form.fills = "load"
<1>1. /\ AgentDetailPage.fills = "load" /\ AgentDetailPage.hides = TRUE /\ AgentDetailPage.guarded = FALSE
      /\ AgentDetailPage.saves = "route" /\ AgentDetailPage.acts = {"route"}
      /\ AgentDetailPage.strays = TRUE
  BY DEF AgentDetailPage
<1>2. /\ ConnectionDetailPage.fills = "none" /\ ConnectionDetailPage.hides = FALSE /\ ConnectionDetailPage.guarded = FALSE
      /\ ConnectionDetailPage.saves = "never" /\ ConnectionDetailPage.acts = {"route", "shown"}
      /\ ConnectionDetailPage.strays = TRUE
  BY DEF ConnectionDetailPage
<1>3. /\ SsoForm.fills = "mount" /\ SsoForm.hides = FALSE /\ SsoForm.guarded = FALSE
      /\ SsoForm.saves = "route" /\ SsoForm.acts = {}
      /\ SsoForm.strays = FALSE
  BY DEF SsoForm
<1>4. /\ ChatSettingsForm.fills = "merge" /\ ChatSettingsForm.hides = FALSE /\ ChatSettingsForm.guarded = TRUE
      /\ ChatSettingsForm.saves = "route" /\ ChatSettingsForm.acts = {}
      /\ ChatSettingsForm.strays = FALSE
  BY DEF ChatSettingsForm
<1>5. /\ EditRoleForm.fills = "keyed" /\ EditRoleForm.hides = FALSE /\ EditRoleForm.guarded = FALSE
      /\ EditRoleForm.saves = "shown" /\ EditRoleForm.acts = {}
      /\ EditRoleForm.strays = FALSE
  BY DEF EditRoleForm
<1>6. CASE form = AgentDetailPage
  BY <1>1, <1>2, <1>3, <1>4, <1>5, <1>6
<1>7. CASE form = ConnectionDetailPage
  BY <1>1, <1>2, <1>3, <1>4, <1>5, <1>7
<1>8. CASE form = SsoForm
  BY <1>1, <1>2, <1>3, <1>4, <1>5, <1>8
<1>9. CASE form = ChatSettingsForm
  BY <1>1, <1>2, <1>3, <1>4, <1>5, <1>9
<1>10. CASE form = EditRoleForm
  BY <1>1, <1>2, <1>3, <1>4, <1>5, <1>10
<1> QED
  BY <1>6, <1>7, <1>8, <1>9, <1>10 DEF Forms

LEMMA EditNames ==
    /\ None \notin Subjects /\ Elsewhere \notin Subjects /\ None # Elsewhere
    /\ Unset \notin Settings /\ Unset.from = None
    /\ \A v \in Settings : v.from \in Subjects
    /\ \A p \in Presses : p \notin Runs
    /\ Runs \subseteq Fetchers /\ Presses \subseteq Fetchers
    /\ 0 \in Runs /\ Runs \subseteq Nat
  BY EditPageAssumption DEF None, Elsewhere, Settings, Unset, Runs, Fetchers

LEMMA EditInvTypes == EditIInv => EditTypeOK /\ SavedWhereLoaded /\ ActsOnShown
<1> SUFFICES ASSUME EditIInv PROVE EditTypeOK /\ SavedWhereLoaded /\ ActsOnShown
  OBVIOUS
<1>1. EditTypes
  BY DEF EditIInv
<1>2. EditTypeOK
  BY <1>1 DEF EditIInv, EditTypes, EditTypeOK, EditFetchRec, EditScreen
<1>3. form.acts # {} <=> form \in {AgentDetailPage, ConnectionDetailPage}
  BY <1>1, EditForms DEF EditTypes
<1>4. SavedWhereLoaded
  BY <1>1, <1>3 DEF EditIInv, EditStored, EditClean, EditNear, SavedWhereLoaded, EditTypes,
     Forms, Runs
<1>5. ActsOnShown
  BY DEF EditIInv, EditPressOK, ActsOnShown
<1> QED
  BY <1>2, <1>4, <1>5

LEMMA EditEmpty ==
    /\ NoFetch \in EditFetchRec /\ NoFetch.state = "idle"
    /\ NoPress \in EditPressRec /\ NoPress.state = "idle" /\ NoPress.kind = None
    /\ \A s \in EditAny : /\ Fetch(s) \in EditFetchRec
                          /\ Fetch(s).state = "asked" /\ Fetch(s).of = s
<1> QED
  BY DEF NoFetch, Fetch, EditFetchRec, EditAny, NoPress, EditPressRec

LEMMA EditStart == EditInit => EditIInv /\ EditSeen
<1> SUFFICES ASSUME EditInit PROVE EditIInv /\ EditSeen
  OBVIOUS
<1>1. form \in Forms /\ moves = 0 /\ moves \in Runs
  BY EditNames DEF EditInit
<1>2. NoFetch \in EditFetchRec /\ Fetch(route) \in EditFetchRec
  BY DEF EditInit, NoFetch, Fetch, EditFetchRec, EditAny
<1>3. NoPress \in EditPressRec
  BY DEF NoPress, EditPressRec, EditAny
<1>4. fetch \in [Fetchers -> EditFetchRec] /\ press \in [Presses -> EditPressRec]
  BY <1>2, <1>3 DEF EditInit
<1>5. EditTypes
  <2>1. 0 \in 0..MaxTyped /\ 0 \in 0..MaxEditFaults
    BY EditPageAssumption
  <2> QED
    BY <1>1, <1>4, <2>1 DEF EditInit, EditTypes
<1>6. EditStored
  <2>1. \A s \in Subjects : stored[s] = [from |-> s, edit |-> 0]
                            \/ (form.fills = "merge" /\ stored[s] = Unset)
    BY DEF EditInit
  <2>2. ASSUME NEW s \in Subjects
        PROVE  stored[s].from \in {s, None} /\ (form.fills # "merge" => stored[s] # Unset)
    <3>1. CASE stored[s] = [from |-> s, edit |-> 0]
      <4>1. stored[s].from = s
        BY <3>1
      <4> QED
        BY <4>1, EditNames
    <3>2. CASE form.fills = "merge" /\ stored[s] = Unset
      BY <3>2, EditNames
    <3> QED
      BY <2>1, <3>1, <3>2
  <2> QED
    BY <2>2 DEF EditStored
<1>7. EditScreen
  <2>1. Waiting
    BY <1>1, EditNames DEF EditInit, Waiting, Fetch, NoFetch
  <2> QED
    BY <2>1, <1>1, EditForms DEF EditInit, EditScreen
<1>8. \A f \in Fetchers : EditFetchOK(fetch[f], form, route, EditClean, EditNear)
  BY DEF EditInit, EditFetchOK, Fetch, NoFetch
<1>9. ASSUME NEW p \in Presses
      PROVE  /\ EditPressOK(press[p], form, route, EditClean, EditNear, overlapped \/ missed)
             /\ fetch[p].state # "idle" => press[p].state = "loading"
  <2>1. fetch[p] = NoFetch /\ press[p] = NoPress
    BY EditNames DEF EditInit
  <2> QED
    BY <2>1 DEF EditPressOK, NoFetch, NoPress, None
<1>10. EditSeen
  BY EditEmpty DEF EditInit, EditSeen, None
<1> QED
  BY <1>5, <1>6, <1>7, <1>8, <1>9, <1>10 DEF EditIInv

\* Until the subject changes, no more is asked of what does not move.
LEMMA EditMono ==
    ASSUME EditIInv, UNCHANGED <<form, route, moves, overlapped>>, missed => missed'
    PROVE  /\ EditNear' => EditNear
           /\ EditClean' => EditClean
           /\ \A f \in Fetchers : EditFetchOK(fetch[f], form, route, EditClean', EditNear')
           /\ \A p \in Presses : EditPressOK(press[p], form, route, EditClean', EditNear',
                                             (overlapped \/ missed)')
<1>1. (EditNear' => EditNear) /\ (EditClean' => EditClean)
  BY DEF EditNear, EditClean
<1>2. ASSUME NEW f \in Fetchers
      PROVE  EditFetchOK(fetch[f], form, route, EditClean', EditNear')
  <2>1. EditFetchOK(fetch[f], form, route, EditClean, EditNear)
    BY DEF EditIInv
  <2> QED
    BY <1>1, <2>1 DEF EditFetchOK
<1>3. ASSUME NEW p \in Presses
      PROVE  EditPressOK(press[p], form, route, EditClean', EditNear', (overlapped \/ missed)')
  <2>1. EditPressOK(press[p], form, route, EditClean, EditNear, overlapped \/ missed)
    BY DEF EditIInv
  <2> QED
    BY <1>1, <2>1 DEF EditPressOK
<1> QED
  BY <1>1, <1>2, <1>3

LEMMA EditMoves ==
    ASSUME EditIInv, NEW s \in Subjects \cup {Elsewhere}, MoveTo(s)
    PROVE  EditIInv'
<1>1. EditTypes
  BY DEF EditIInv
<1>2. /\ moves < MaxMoves /\ moves' = moves + 1
      /\ form.fills = "keyed" => view = None
      /\ s = Elsewhere => form.strays
      /\ route' = s
      /\ fetch' = [fetch EXCEPT ![moves + 1] = Fetch(s)]
      /\ overlapped' = (overlapped \/ ~Calm)
      /\ UNCHANGED <<form, stored, press, view, draft, typed, failures, missed>>
  BY DEF MoveTo
<1>3. moves + 1 \in Runs /\ moves + 1 \in Fetchers /\ moves' \in Runs /\ moves' # 0
      /\ moves + 1 \notin Presses
  BY <1>1, <1>2, EditNames, EditPageAssumption DEF EditTypes, Runs
<1>4. Fetch(s) \in EditFetchRec /\ Fetch(s).state = "asked" /\ Fetch(s).of = s
  BY EditEmpty DEF EditAny
<1>5. /\ fetch' \in [Fetchers -> EditFetchRec] /\ fetch'[moves + 1] = Fetch(s)
      /\ \A f \in Fetchers \ {moves + 1} : fetch'[f] = fetch[f]
  BY <1>1, <1>2, <1>3, <1>4 DEF EditTypes
<1>6. Calm \in BOOLEAN
  BY DEF Calm
<1>7. EditTypes'
  BY <1>1, <1>2, <1>3, <1>5, <1>6 DEF EditTypes
<1>8. EditNear' => EditNear /\ Calm /\ form.acts # {}
  BY <1>1, <1>2, <1>3, EditForms DEF EditNear, EditTypes
<1>9. EditClean' => EditClean
  BY <1>2, <1>8 DEF EditClean
<1>10. Waiting'
  BY <1>2, <1>4, <1>5 DEF Waiting
<1>11. EditStored'
  BY <1>2, <1>9 DEF EditIInv, EditStored
<1>12. EditScreen'
  BY <1>2, <1>8, <1>10 DEF EditIInv, EditScreen
<1>13. ASSUME NEW f \in Fetchers
       PROVE  EditFetchOK(fetch'[f], form, s, EditClean', EditNear')
  <2>1. CASE f = moves + 1
    BY <2>1, <1>4, <1>5 DEF EditFetchOK
  <2>2. CASE f # moves + 1
    <3>1. EditFetchOK(fetch[f], form, route, EditClean, EditNear)
      BY DEF EditIInv
    <3>2. EditNear' => fetch[f].state = "idle"
      BY <1>8 DEF Calm
    <3> QED
      BY <3>1, <3>2, <2>2, <1>5, <1>9 DEF EditFetchOK
  <2> QED
    BY <2>1, <2>2
<1>14. ASSUME NEW p \in Presses
       PROVE  EditPressOK(press[p], form, s, EditClean', EditNear', (overlapped \/ missed)')
  <2>1. EditPressOK(press[p], form, route, EditClean, EditNear, overlapped \/ missed)
    BY DEF EditIInv
  <2>2. EditNear' => press[p].state = "idle"
    BY <1>8 DEF Calm
  <2>3. overlapped \/ missed => (overlapped \/ missed)'
    BY <1>2
  <2> QED
    BY <2>1, <2>2, <2>3, <1>9 DEF EditPressOK
<1>15. \A p \in Presses : fetch'[p] = fetch[p]
  BY <1>3, <1>5, EditNames
<1> QED
  BY <1>2, <1>7, <1>11, <1>12, <1>13, <1>14, <1>15 DEF EditIInv

LEMMA EditAnswers ==
    ASSUME EditIInv, NEW f \in Fetchers, AnswerFetch(f)
    PROVE  EditIInv'
<1> DEFINE x == fetch[f]
           v == stored[x.of]
           y == [x EXCEPT !.state = "answered", !.value = v]
<1>1. EditTypes /\ EditStored /\ EditFetchOK(x, form, route, EditClean, EditNear)
  BY DEF EditIInv
<1>2. /\ x.state = "asked" /\ x.of # Elsewhere
      /\ UNCHANGED <<form, route, moves, stored, press, view, draft, typed, failures,
                     overlapped, missed>>
  BY DEF AnswerFetch
<1>3. x \in EditFetchRec /\ x.of \in Subjects /\ v \in Settings \cup {Unset}
  BY <1>1, <1>2 DEF EditTypes, EditFetchOK
<1>4. fetch' = [fetch EXCEPT ![f] = y]
  BY DEF AnswerFetch
<1>5. (form.fills # "merge" => v # Unset) /\ (EditClean => v.from \in {x.of, None})
  BY <1>1, <1>3 DEF EditStored
<1> HIDE DEF x, v
<1>6. y \in EditFetchRec /\ y.state = "answered" /\ y.of = x.of /\ y.value = v
  BY <1>3 DEF EditFetchRec
<1> HIDE DEF y
<1>7. /\ fetch' \in [Fetchers -> EditFetchRec] /\ fetch'[f] = y
      /\ \A g \in Fetchers \ {f} : fetch'[g] = fetch[g]
  BY <1>1, <1>4, <1>6 DEF EditTypes
<1>8. EditNear' = EditNear /\ EditClean' = EditClean
  BY <1>2 DEF EditNear, EditClean
<1>9. EditTypes' /\ EditStored'
  BY <1>1, <1>2, <1>7, <1>8 DEF EditTypes, EditStored
<1>10. Waiting' <=> Waiting
  BY <1>1, <1>2, <1>6, <1>7, EditNames DEF Waiting, x, EditTypes
<1>11. EditScreen'
  BY <1>2, <1>8, <1>10 DEF EditIInv, EditScreen
<1>12. EditFetchOK(y, form, route, EditClean, EditNear)
  BY <1>1, <1>2, <1>3, <1>5, <1>6 DEF EditFetchOK
<1>13. \A g \in Fetchers : EditFetchOK(fetch'[g], form, route, EditClean, EditNear)
  BY <1>7, <1>12 DEF EditIInv
<1>14. ASSUME NEW p \in Presses, fetch'[p].state # "idle"
       PROVE  press[p].state = "loading"
  <2>1. fetch[p].state # "idle"
    BY <1>2, <1>7, <1>14, EditNames DEF x
  <2> QED
    BY <2>1 DEF EditIInv
<1> QED
  BY <1>2, <1>8, <1>9, <1>11, <1>13, <1>14 DEF EditIInv

\* A load is over and so is the handler that waited for it.
LEMMA EditLoadEnds ==
    ASSUME EditIInv, NEW f \in Fetchers, UNCHANGED <<form, route, moves, overlapped>>,
           missed => missed', missed' \in BOOLEAN,
           fetch[f].state # "idle",
           fetch' = [fetch EXCEPT ![f] = NoFetch],
           press' = IF f \in Presses THEN [press EXCEPT ![f] = NoPress] ELSE press
    PROVE  /\ fetch' \in [Fetchers -> EditFetchRec] /\ press' \in [Presses -> EditPressRec]
           /\ fetch'[f] = NoFetch /\ \A g \in Fetchers \ {f} : fetch'[g] = fetch[g]
           /\ \A g \in Fetchers : EditFetchOK(fetch'[g], form', route', EditClean', EditNear')
           /\ \A p \in Presses : /\ EditPressOK(press'[p], form', route', EditClean', EditNear',
                                                (overlapped \/ missed)')
                                 /\ fetch'[p].state # "idle" => press'[p].state = "loading"
<1>1. EditTypes
  BY DEF EditIInv
<1>2. /\ fetch' \in [Fetchers -> EditFetchRec] /\ fetch'[f] = NoFetch
      /\ \A g \in Fetchers \ {f} : fetch'[g] = fetch[g]
  BY <1>1, EditEmpty DEF EditTypes
<1>3. /\ press' \in [Presses -> EditPressRec]
      /\ \A p \in Presses : press'[p] = IF p = f THEN NoPress ELSE press[p]
  BY <1>1, EditEmpty DEF EditTypes
<1>4. ASSUME NEW g \in Fetchers
      PROVE  EditFetchOK(fetch'[g], form, route, EditClean', EditNear')
  <2>1. EditFetchOK(fetch[g], form, route, EditClean', EditNear')
    BY EditMono
  <2>2. EditFetchOK(NoFetch, form, route, EditClean', EditNear')
    BY EditEmpty DEF EditFetchOK
  <2> QED
    BY <2>1, <2>2, <1>2
<1>5. ASSUME NEW p \in Presses
      PROVE  /\ EditPressOK(press'[p], form, route, EditClean', EditNear', (overlapped \/ missed)')
             /\ fetch'[p].state # "idle" => press'[p].state = "loading"
  <2>1. EditPressOK(press[p], form, route, EditClean', EditNear', (overlapped \/ missed)')
    BY EditMono
  <2>2. EditPressOK(NoPress, form, route, EditClean', EditNear', (overlapped \/ missed)')
    BY EditEmpty DEF EditPressOK, None
  <2>3. fetch'[p].state # "idle" => press'[p].state = "loading"
    BY <1>2, <1>3, EditEmpty, EditNames DEF EditIInv
  <2> QED
    BY <2>1, <2>2, <2>3, <1>3
<1> QED
  BY <1>2, <1>3, <1>4, <1>5

LEMMA EditFails ==
    ASSUME EditIInv, NEW f \in Fetchers, FailFetch(f)
    PROVE  EditIInv'
<1>1. EditTypes /\ EditFetchOK(fetch[f], form, route, EditClean, EditNear)
  BY DEF EditIInv
<1>2. /\ fetch[f].state = "asked"
      /\ IF fetch[f].of = Elsewhere THEN missed' = missed ELSE missed' = TRUE
      /\ missed' \in BOOLEAN
      /\ failures' \in 0..MaxEditFaults
      /\ fetch' = [fetch EXCEPT ![f] = NoFetch]
      /\ press' = IF f \in Presses THEN [press EXCEPT ![f] = NoPress] ELSE press
      /\ UNCHANGED <<form, route, moves, stored, view, draft, typed, overlapped>>
  <2>1. failures' = failures \/ (failures < MaxEditFaults /\ failures' = failures + 1)
    BY DEF FailFetch
  <2>2. failures' \in 0..MaxEditFaults
    BY <1>1, <2>1, EditPageAssumption DEF EditTypes
  <2>3. missed' = missed \/ missed' = TRUE
    BY DEF FailFetch
  <2>4. missed' \in BOOLEAN
    BY <1>1, <2>3 DEF EditTypes
  <2> QED
    BY <2>2, <2>4 DEF FailFetch
<1>3. missed => missed'
  BY <1>2
<1>4. /\ fetch' \in [Fetchers -> EditFetchRec] /\ press' \in [Presses -> EditPressRec]
      /\ fetch'[f] = NoFetch /\ \A g \in Fetchers \ {f} : fetch'[g] = fetch[g]
      /\ \A g \in Fetchers : EditFetchOK(fetch'[g], form', route', EditClean', EditNear')
      /\ \A p \in Presses : /\ EditPressOK(press'[p], form', route', EditClean', EditNear',
                                           (overlapped \/ missed)')
                            /\ fetch'[p].state # "idle" => press'[p].state = "loading"
  BY <1>2, <1>3, EditLoadEnds
<1>5. (EditNear' => EditNear) /\ (EditClean' => EditClean)
  BY <1>2, <1>3 DEF EditNear, EditClean
<1>6. EditTypes' /\ EditStored'
  BY <1>1, <1>2, <1>4, <1>5 DEF EditTypes, EditStored, EditIInv
<1>7. ASSUME EditNear', form.acts # {}, ~Waiting', route # Elsewhere
      PROVE  ~Waiting
  <2>1. CASE f = moves
    <3>1. fetch[f].of # Elsewhere
      BY <1>1, <1>2, <1>5, <1>7 DEF EditFetchOK
    <3> QED
      BY <3>1, <1>2, <1>7, EditForms, <1>1 DEF EditNear, EditTypes
  <2>2. CASE f # moves
    BY <2>2, <1>1, <1>2, <1>4, <1>7, EditNames DEF Waiting, EditTypes
  <2> QED
    BY <2>1, <2>2
<1>8. EditScreen'
  BY <1>2, <1>5, <1>7 DEF EditIInv, EditScreen
<1> QED
  BY <1>4, <1>6, <1>8 DEF EditIInv

LEMMA EditShows ==
    ASSUME EditIInv, NEW f \in Fetchers, ShowFetched(f)
    PROVE  EditIInv'
<1> DEFINE x == fetch[f]
           dropped == form.guarded /\ f \in Runs /\ f # moves
<1>1. EditTypes /\ EditScreen /\ EditFetchOK(x, form, route, EditClean, EditNear)
  BY DEF EditIInv
<1>2. /\ x.state = "answered"
      /\ fetch' = [fetch EXCEPT ![f] = NoFetch]
      /\ press' = IF f \in Presses THEN [press EXCEPT ![f] = NoPress] ELSE press
      /\ view' = IF dropped THEN view ELSE x.of
      /\ draft' = IF dropped THEN draft ELSE Filled(x.of, x.value)
      /\ UNCHANGED <<form, route, moves, stored, typed, failures, overlapped, missed>>
  BY DEF ShowFetched
<1>3. /\ x.of \in Subjects /\ x.value \in Settings \cup {Unset}
      /\ form.fills # "merge" => x.value # Unset
      /\ EditClean => x.value.from \in {x.of, None}
      /\ EditNear => x.of = route
  BY <1>1, <1>2 DEF EditTypes, EditFetchRec, EditFetchOK
<1>4. /\ fetch' \in [Fetchers -> EditFetchRec] /\ press' \in [Presses -> EditPressRec]
      /\ fetch'[f] = NoFetch /\ \A g \in Fetchers \ {f} : fetch'[g] = fetch[g]
      /\ \A g \in Fetchers : EditFetchOK(fetch'[g], form', route', EditClean', EditNear')
      /\ \A p \in Presses : /\ EditPressOK(press'[p], form', route', EditClean', EditNear',
                                           (overlapped \/ missed)')
                            /\ fetch'[p].state # "idle" => press'[p].state = "loading"
  <2>1. fetch[f].state # "idle" /\ missed' \in BOOLEAN
    BY <1>1, <1>2 DEF EditTypes
  <2> QED
    BY <1>2, <2>1, EditLoadEnds
<1>5. (EditNear' <=> EditNear) /\ (EditClean' <=> EditClean)
  BY <1>2 DEF EditNear, EditClean
<1>6. EditStored'
  BY <1>2, <1>5 DEF EditStored, EditIInv
<1>7. form.fills \in {"load", "mount", "merge", "keyed", "none"}
  BY <1>1, EditForms DEF EditTypes
<1> DEFINE d == Filled(x.of, x.value)
<1>8. /\ form.fills = "load" => d = x.value
      /\ form.fills = "merge" => d = IF x.value = Unset THEN draft ELSE x.value
      /\ form.fills = "mount" => d = IF view = None THEN x.value ELSE draft
      /\ form.fills = "keyed" => d = IF view # x.of THEN x.value ELSE draft
      /\ form.fills = "none" => d = Unset
  BY <1>7 DEF Filled
<1> HIDE DEF x, d, dropped
<1>9. view' \in Subjects \cup {None} /\ draft' \in Settings \cup {Unset}
  BY <1>1, <1>2, <1>3, <1>7, <1>8 DEF EditTypes, d
<1>10. EditTypes'
  BY <1>1, <1>2, <1>4, <1>9 DEF EditTypes
<1>11. dropped => form.fills = "merge"
  BY <1>1, EditForms DEF EditTypes, dropped
<1>12. x.value # Unset => x.value.from \in Subjects
  BY <1>3, EditNames
<1>13. EditScreen'
  <2>1. form.fills \in {"load", "mount", "keyed"} => draft' # Unset
    BY <1>1, <1>2, <1>3, <1>8, <1>11, EditNames DEF EditScreen, d
  <2>2. form.fills = "none" => draft' = Unset
    BY <1>2, <1>8, <1>11 DEF d
  <2>3. form.fills = "keyed" => view' # None /\ draft'.from = view'
    <3> SUFFICES ASSUME form.fills = "keyed" PROVE view' # None /\ draft'.from = view'
      OBVIOUS
    <3>1. view' = x.of /\ draft' = IF view # x.of THEN x.value ELSE draft
      BY <1>2, <1>8, <1>11 DEF d
    <3>2. EditClean
      BY <1>1, EditForms DEF EditTypes, EditClean
    <3>3. x.value.from = x.of
      BY <3>2, <1>3, <1>12, EditNames
    <3>4. view = x.of => draft.from = x.of
      BY <1>1, <1>3, EditNames DEF EditScreen
    <3> QED
      BY <3>1, <3>3, <3>4, <1>3, EditNames
  <2>4. EditNear /\ form.acts # {} =>
           view' = route /\ (form.fills = "load" => draft'.from = route)
    <3> SUFFICES ASSUME EditNear, form.acts # {}
                 PROVE  view' = route /\ (form.fills = "load" => draft'.from = route)
      OBVIOUS
    <3>1. form.fills \in {"load", "none"} /\ EditClean
      BY <1>1, EditForms DEF EditTypes, EditClean
    <3>2. view' = x.of /\ x.of = route
      BY <3>1, <1>2, <1>3, <1>11
    <3>3. x.value.from = x.of
      BY <3>1, <1>3, <1>12, EditNames
    <3> QED
      BY <3>1, <3>2, <3>3, <1>2, <1>8, <1>11 DEF d
  <2>5. EditNear /\ form.acts = {} =>
          /\ route \in Subjects /\ view' \in {None, route}
          /\ draft' # Unset => draft'.from = route
    <3> SUFFICES ASSUME EditNear, form.acts = {}
                 PROVE  /\ route \in Subjects /\ view' \in {None, route}
                        /\ draft' # Unset => draft'.from = route
      OBVIOUS
    <3>1. form.fills \in {"merge", "mount"} /\ EditClean
      BY <1>1, EditForms DEF EditTypes, EditClean, EditNear
    <3>2. /\ route \in Subjects /\ view \in {None, route}
          /\ draft # Unset => draft.from = route
      BY <1>1 DEF EditScreen
    <3>3. x.of = route /\ (x.value # Unset => x.value.from = route)
      BY <3>1, <1>3, <1>12, EditNames
    <3> QED
      BY <3>1, <3>2, <3>3, <1>2, <1>8 DEF d
  <2> QED
    BY <2>1, <2>2, <2>3, <2>4, <2>5, <1>2, <1>5 DEF EditScreen
<1> QED
  BY <1>4, <1>6, <1>10, <1>13 DEF EditIInv

LEMMA EditTyped ==
    ASSUME EditIInv, Type
    PROVE  EditIInv'
<1>1. EditTypes /\ EditScreen
  BY DEF EditIInv
<1> DEFINE d == [from |-> IF draft = Unset THEN view ELSE draft.from, edit |-> typed + 1]
<1>2. /\ Visible /\ form.saves # "never"
      /\ typed < MaxTyped /\ typed' = typed + 1 /\ draft' = d
      /\ UNCHANGED <<form, route, moves, stored, fetch, press, view, failures, overlapped,
                     missed>>
  BY DEF Type
<1>3. view \in Subjects /\ view # None
  BY <1>1, <1>2 DEF Visible, EditTypes
<1>4. typed + 1 \in 0..MaxTyped
  BY <1>1, <1>2, EditPageAssumption DEF EditTypes
<1>5. draft # Unset => draft.from \in Subjects
  BY <1>1, EditNames DEF EditTypes
<1>6. d \in Settings /\ d.from = IF draft = Unset THEN view ELSE draft.from
  BY <1>3, <1>4, <1>5 DEF Settings
<1> HIDE DEF d
<1>7. EditTypes'
  BY <1>1, <1>2, <1>4, <1>6 DEF EditTypes
<1>8. (EditNear' <=> EditNear) /\ (EditClean' <=> EditClean) /\ (Waiting' <=> Waiting)
  BY <1>2 DEF EditNear, EditClean, Waiting
<1>9. draft' # Unset /\ draft'.from = IF draft = Unset THEN view ELSE draft.from
  BY <1>2, <1>6, EditNames
<1>10. form.fills # "none"
  BY <1>1, <1>2, EditForms DEF EditTypes
<1>11. EditScreen'
  BY <1>1, <1>2, <1>3, <1>8, <1>9, <1>10 DEF EditScreen
<1>12. EditStored'
  BY <1>2, <1>8 DEF EditIInv, EditStored
<1>13. /\ \A f \in Fetchers : EditFetchOK(fetch[f], form, route, EditClean', EditNear')
       /\ \A p \in Presses : EditPressOK(press[p], form, route, EditClean', EditNear',
                                         (overlapped \/ missed)')
  BY <1>2, EditMono
<1> QED
  BY <1>2, <1>7, <1>11, <1>12, <1>13 DEF EditIInv

\* A button is pressed: y is what its handler has in hand.
LEMMA EditPresses ==
    ASSUME EditIInv, NEW p \in Presses, NEW y \in EditPressRec,
           press' = [press EXCEPT ![p] = y],
           fetch[p].state # "idle" => y.state = "loading",
           EditPressOK(y, form, route, EditClean, EditNear, overlapped \/ missed),
           UNCHANGED <<form, route, moves, stored, fetch, view, draft, typed, failures,
                       overlapped, missed>>
    PROVE  EditIInv'
<1>1. EditTypes
  BY DEF EditIInv
<1>2. /\ press' \in [Presses -> EditPressRec]
      /\ \A q \in Presses : press'[q] = IF q = p THEN y ELSE press[q]
  BY <1>1 DEF EditTypes
<1>3. EditTypes'
  BY <1>1, <1>2 DEF EditTypes
<1>4. (EditNear' <=> EditNear) /\ (EditClean' <=> EditClean) /\ (Waiting' <=> Waiting)
  BY DEF EditNear, EditClean, Waiting
<1>5. EditStored' /\ EditScreen'
  BY <1>4 DEF EditIInv, EditStored, EditScreen
<1>6. /\ \A f \in Fetchers : EditFetchOK(fetch[f], form, route, EditClean', EditNear')
      /\ \A q \in Presses : EditPressOK(press[q], form, route, EditClean', EditNear',
                                         (overlapped \/ missed)')
  BY EditMono
<1>7. EditPressOK(y, form, route, EditClean', EditNear', (overlapped \/ missed)')
  BY <1>4 DEF EditPressOK
<1>8. \A q \in Presses : fetch[q].state # "idle" => press'[q].state = "loading"
  BY <1>2 DEF EditIInv
<1> QED
  BY <1>2, <1>3, <1>5, <1>6, <1>7, <1>8 DEF EditIInv

LEMMA EditStarts ==
    ASSUME EditIInv, NEW p \in Presses,
           Save(p) \/ \E way \in {"route", "shown"} : Act(p, way)
    PROVE  EditIInv'
<1>1. EditTypes /\ EditScreen
  BY DEF EditIInv
<1>2. PICK kind \in {"save", "act"}, to \in {route, view}, value \in {draft, Unset} :
         /\ Start(p, kind, to, value)
         /\ kind = "save" =>
               /\ form.saves # "never" /\ draft # Unset /\ value = draft
               /\ to = IF form.saves = "route" THEN route ELSE view
         /\ kind = "act" =>
               /\ form.acts # {} /\ value = Unset
  <2>1. CASE Save(p)
    BY <2>1 DEF Save
  <2>2. CASE \E way \in {"route", "shown"} : Act(p, way)
    BY <2>2 DEF Act
  <2> QED
    BY <2>1, <2>2
<1> DEFINE y == [state |-> "writing", kind |-> kind, at |-> route, to |-> to,
                 saw |-> view, calm |-> ~Waiting, value |-> value]
<1>3. /\ Visible /\ press[p].state = "idle" /\ press' = [press EXCEPT ![p] = y]
      /\ UNCHANGED <<form, route, moves, stored, fetch, view, draft, typed, failures,
                     overlapped, missed>>
  BY <1>2 DEF Start
<1>4. view \in Subjects /\ view # None /\ (form.hides => ~Waiting)
  BY <1>1, <1>3 DEF Visible, EditTypes
<1>5. Waiting \in BOOLEAN
  BY DEF Waiting
<1>6. y \in EditPressRec
  BY <1>1, <1>2, <1>4, <1>5 DEF EditTypes, EditPressRec, EditAny
<1>7. /\ y.state = "writing" /\ y.kind = kind /\ y.at = route /\ y.to = to
      /\ y.saw = view /\ y.calm = ~Waiting /\ y.value = value
  OBVIOUS
<1> HIDE DEF y
<1>8. route \in Subjects \cup {Elsewhere}
  BY <1>1 DEF EditTypes
<1>9. kind = "act" => y.to \in {y.saw, Elsewhere} \/ ~y.calm \/ overlapped \/ missed
  BY <1>1, <1>2, <1>4, <1>5, <1>7 DEF EditScreen, EditNear
<1>10. EditClean /\ kind = "save" /\ route # Elsewhere => value.from = to
  <2> SUFFICES ASSUME EditClean, kind = "save", route # Elsewhere PROVE draft.from = to
    BY <1>2
  <2>1. CASE form.fills = "keyed"
    BY <2>1, <1>1, <1>2, <1>4, EditForms DEF EditTypes, EditScreen
  <2>2. CASE form.fills = "load"
    BY <2>2, <1>1, <1>2, <1>4, EditForms DEF EditTypes, EditScreen, EditClean
  <2>3. CASE form.fills \in {"mount", "merge"}
    BY <2>3, <1>1, <1>2, <1>4, EditForms DEF EditTypes, EditScreen, EditClean
  <2> QED
    BY <2>1, <2>2, <2>3, <1>1, <1>2, EditForms DEF EditTypes
<1>11. EditPressOK(y, form, route, EditClean, EditNear, overlapped \/ missed)
  BY <1>1, <1>2, <1>4, <1>7, <1>8, <1>9, <1>10 DEF EditPressOK
<1>12. fetch[p].state = "idle"
  BY <1>3 DEF EditIInv
<1> QED
  BY <1>3, <1>6, <1>11, <1>12, EditPresses

LEMMA EditSaves ==
    ASSUME EditIInv, EditSeen, NEW p \in Presses, ApplySave(p)
    PROVE  EditIInv'
<1> DEFINE y == press[p]
<1>1. /\ EditTypes /\ EditScreen /\ EditStored
      /\ EditPressOK(y, form, route, EditClean, EditNear, overlapped \/ missed)
  BY DEF EditIInv
<1>2. /\ y.state = "writing" /\ y.kind = "save" /\ y.at # Elsewhere
      /\ stored' = [stored EXCEPT ![y.to] = y.value]
      /\ view' = IF form.fills = "keyed" THEN None ELSE y.to
      /\ draft' = IF form.fills = "keyed" THEN Unset ELSE draft
      /\ press' = [press EXCEPT ![p] = NoPress]
      /\ UNCHANGED <<form, route, moves, fetch, typed, failures, overlapped, missed>>
  BY DEF ApplySave
<1>3. y \in EditPressRec
  BY <1>1 DEF EditTypes
<1>4. y.to \in Subjects /\ y.value \in Settings /\ (EditClean => y.value.from = y.to)
  BY <1>1, <1>2, <1>3 DEF EditPressOK, EditPressRec
<1>5. EditNear => y.at = route
  BY <1>1, <1>2 DEF EditPressOK
<1>6. form.saves = "route" => y.to = y.at
  BY <1>1, <1>2 DEF EditPressOK
<1> HIDE DEF y
<1>7. /\ press' \in [Presses -> EditPressRec]
      /\ \A q \in Presses : press'[q] = IF q = p THEN NoPress ELSE press[q]
  BY <1>1, <1>2, EditEmpty DEF EditTypes
<1>8. /\ stored' \in [Subjects -> Settings \cup {Unset}] /\ stored'[y.to] = y.value
      /\ \A s \in Subjects \ {y.to} : stored'[s] = stored[s]
  BY <1>1, <1>2, <1>4 DEF EditTypes
<1>9. EditTypes'
  BY <1>1, <1>2, <1>4, <1>7, <1>8 DEF EditTypes
<1>10. (EditNear' <=> EditNear) /\ (EditClean' <=> EditClean) /\ (Waiting' <=> Waiting)
  BY <1>2 DEF EditNear, EditClean, Waiting
<1>11. EditStored'
  BY <1>1, <1>2, <1>4, <1>8, <1>10, EditNames DEF EditStored
<1>12. form.fills # "none"
  <2>1. form.saves # "never"
    BY <1>1, <1>2 DEF EditPressOK, y
  <2> QED
    BY <2>1, <1>1, EditForms DEF EditTypes
<1>13. EditScreen'
  <2>1. CASE form.fills = "keyed"
    BY <2>1, <1>1, <1>2, <1>10, EditForms DEF EditTypes, EditScreen, EditNear
  <2>2. CASE form.fills \in {"load", "mount", "merge"}
    <3>1. form.saves = "route"
      BY <2>2, <1>1, EditForms DEF EditTypes
    <3>2. draft' = draft /\ view' = y.to /\ (EditNear => view' = route)
      BY <2>2, <3>1, <1>2, <1>5, <1>6
    <3>3. form.fills \in {"load", "mount"} => draft # Unset
      <4>1. view # None
        BY <2>2, <1>2 DEF EditSeen, y
      <4> QED
        BY <2>2, <4>1, <1>1 DEF EditScreen
    <3> QED
      BY <2>2, <3>2, <3>3, <1>1, <1>2, <1>10 DEF EditScreen
  <2> QED
    BY <2>1, <2>2, <1>1, <1>12, EditForms DEF EditTypes
<1>14. /\ \A f \in Fetchers : EditFetchOK(fetch[f], form, route, EditClean', EditNear')
       /\ \A q \in Presses : EditPressOK(press[q], form, route, EditClean', EditNear',
                                         (overlapped \/ missed)')
  BY <1>2, EditMono
<1>15. EditPressOK(NoPress, form, route, EditClean', EditNear', (overlapped \/ missed)')
  BY EditEmpty DEF EditPressOK, None
<1>16. \A q \in Presses : fetch[q].state # "idle" => press'[q].state = "loading"
  BY <1>2, <1>7 DEF EditIInv, y
<1> QED
  BY <1>2, <1>7, <1>9, <1>11, <1>13, <1>14, <1>15, <1>16 DEF EditIInv

LEMMA EditActs ==
    ASSUME EditIInv, NEW p \in Presses, ApplyAct(p)
    PROVE  EditIInv'
<1> DEFINE x == press[p]
           y == [x EXCEPT !.state = "loading"]
<1>1. /\ EditTypes
      /\ EditPressOK(x, form, route, EditClean, EditNear, overlapped \/ missed)
  BY DEF EditIInv
<1>2. /\ x.state = "writing" /\ x.kind = "act" /\ x.at # Elsewhere
      /\ press' = [press EXCEPT ![p] = y]
      /\ fetch' = [fetch EXCEPT ![p] = Fetch(x.at)]
      /\ UNCHANGED <<form, route, moves, stored, view, draft, typed, failures, overlapped,
                     missed>>
  BY DEF ApplyAct
<1>3. x \in EditPressRec
  BY <1>1 DEF EditTypes
<1>4. x.at \in Subjects /\ (EditNear => x.at = route)
  BY <1>1, <1>2 DEF EditPressOK
<1> HIDE DEF x
<1>5. /\ y \in EditPressRec /\ y.state = "loading" /\ y.kind = x.kind /\ y.at = x.at
      /\ y.to = x.to /\ y.saw = x.saw /\ y.calm = x.calm /\ y.value = x.value
  BY <1>3 DEF EditPressRec
<1>6. Fetch(x.at) \in EditFetchRec /\ Fetch(x.at).state = "asked" /\ Fetch(x.at).of = x.at
  BY <1>4, EditEmpty DEF EditAny
<1> HIDE DEF y
<1>7. /\ press' \in [Presses -> EditPressRec]
      /\ \A q \in Presses : press'[q] = IF q = p THEN y ELSE press[q]
  BY <1>1, <1>2, <1>5 DEF EditTypes
<1>8. /\ fetch' \in [Fetchers -> EditFetchRec]
      /\ \A f \in Fetchers : fetch'[f] = IF f = p THEN Fetch(x.at) ELSE fetch[f]
  BY <1>1, <1>2, <1>6 DEF EditTypes
<1>9. EditTypes'
  BY <1>1, <1>2, <1>7, <1>8 DEF EditTypes
<1>10. (EditNear' <=> EditNear) /\ (EditClean' <=> EditClean)
  BY <1>2 DEF EditNear, EditClean
<1>11. Waiting' <=> Waiting
  <2>1. moves \in Fetchers /\ moves # p
    BY <1>1, EditNames DEF EditTypes
  <2> QED
    BY <2>1, <1>2, <1>8 DEF Waiting
<1>12. EditStored' /\ EditScreen'
  BY <1>2, <1>10, <1>11 DEF EditIInv, EditStored, EditScreen
<1>13. /\ \A f \in Fetchers : EditFetchOK(fetch[f], form, route, EditClean', EditNear')
       /\ \A q \in Presses : EditPressOK(press[q], form, route, EditClean', EditNear',
                                         (overlapped \/ missed)')
  BY <1>2, EditMono
<1>14. EditFetchOK(Fetch(x.at), form, route, EditClean', EditNear')
  BY <1>4, <1>6, <1>10 DEF EditFetchOK
<1>15. EditPressOK(x, form, route, EditClean', EditNear', (overlapped \/ missed)')
  BY <1>13 DEF x
<1>16. EditPressOK(y, form, route, EditClean', EditNear', (overlapped \/ missed)')
  BY <1>2, <1>5, <1>15 DEF EditPressOK
<1>17. \A q \in Presses : fetch'[q].state # "idle" => press'[q].state = "loading"
  BY <1>5, <1>7, <1>8, EditNames DEF EditIInv
<1>18. \A f \in Fetchers : EditFetchOK(fetch'[f], form, route, EditClean', EditNear')
  BY <1>8, <1>13, <1>14
<1>19. \A q \in Presses : EditPressOK(press'[q], form, route, EditClean', EditNear',
                                      (overlapped \/ missed)')
  BY <1>7, <1>13, <1>16
<1> QED
  BY <1>2, <1>9, <1>12, <1>17, <1>18, <1>19 DEF EditIInv

LEMMA EditRefuses ==
    ASSUME EditIInv, NEW p \in Presses, RefusePress(p)
    PROVE  EditIInv'
<1>1. EditTypes
  BY DEF EditIInv
<1>2. /\ press[p].state = "writing"
      /\ press' = [press EXCEPT ![p] = NoPress]
      /\ UNCHANGED <<form, route, moves, stored, fetch, view, draft, typed, overlapped,
                     missed>>
  BY DEF RefusePress
<1>3. failures' \in 0..MaxEditFaults
  <2>1. failures' = failures \/ (failures < MaxEditFaults /\ failures' = failures + 1)
    BY DEF RefusePress
  <2> QED
    BY <1>1, <2>1, EditPageAssumption DEF EditTypes
<1>4. /\ press' \in [Presses -> EditPressRec]
      /\ \A q \in Presses : press'[q] = IF q = p THEN NoPress ELSE press[q]
  BY <1>1, <1>2, EditEmpty DEF EditTypes
<1>5. EditTypes'
  BY <1>1, <1>2, <1>3, <1>4 DEF EditTypes
<1>6. (EditNear' <=> EditNear) /\ (EditClean' <=> EditClean) /\ (Waiting' <=> Waiting)
  BY <1>2 DEF EditNear, EditClean, Waiting
<1>7. EditStored' /\ EditScreen'
  BY <1>2, <1>6 DEF EditIInv, EditStored, EditScreen
<1>8. /\ \A f \in Fetchers : EditFetchOK(fetch[f], form, route, EditClean', EditNear')
      /\ \A q \in Presses : EditPressOK(press[q], form, route, EditClean', EditNear',
                                         (overlapped \/ missed)')
  BY <1>2, EditMono
<1>9. EditPressOK(NoPress, form, route, EditClean', EditNear', (overlapped \/ missed)')
  BY EditEmpty DEF EditPressOK, None
<1>10. \A q \in Presses : fetch[q].state # "idle" => press'[q].state = "loading"
  BY <1>2, <1>4 DEF EditIInv
<1> QED
  BY <1>2, <1>4, <1>5, <1>7, <1>8, <1>9, <1>10 DEF EditIInv

LEMMA EditSeenStays ==
    ASSUME EditIInv, EditSeen, [EditNext]_editVars
    PROVE  EditSeen'
<1>1. EditTypes
  BY DEF EditIInv
<1>2. form.fills = form'.fills /\ (form.fills # "keyed" /\ view' = None => view = None)
  <2>1. ASSUME NEW f \in Fetchers, ShowFetched(f)
        PROVE  form' = form /\ (view' = None => view = None)
    <3>1. fetch[f].of \in Subjects
      BY <1>1, <2>1 DEF ShowFetched, EditIInv, EditFetchOK
    <3> QED
      BY <2>1, <3>1, EditNames DEF ShowFetched
  <2>2. ASSUME NEW p \in Presses, ApplySave(p), form.fills # "keyed"
        PROVE  view' # None
    <3>1. press[p].to \in Subjects
      BY <1>1, <2>2, EditForms DEF ApplySave, EditIInv, EditPressOK, EditTypes
    <3> QED
      BY <2>2, <3>1, EditNames DEF ApplySave
  <2>3. form' = form
    BY DEF EditNext, MoveTo, AnswerFetch, FailFetch, ShowFetched, Type, Save, Act, Start,
       ApplySave, ApplyAct, RefusePress, EditRests, editVars
  <2>4. view' = view \/ (\E f \in Fetchers : ShowFetched(f)) \/ \E p \in Presses : ApplySave(p)
    BY DEF EditNext, MoveTo, AnswerFetch, FailFetch, Type, Save, Act, Start, ApplyAct,
       RefusePress, EditRests, editVars
  <2> QED
    BY <2>1, <2>2, <2>3, <2>4
<1>3. ASSUME NEW p \in Presses, press'[p].kind = "save", press[p].kind # "save"
      PROVE  view # None
  <2>1. NoPress.kind # "save"
    BY EditEmpty DEF None
  <2>2. PICK q \in Presses : Save(q) \/ \E way \in {"route", "shown"} : Act(q, way)
    <3>1. ASSUME NEW q \in Presses, press' = [press EXCEPT ![q] = NoPress]
          PROVE  FALSE
      BY <1>1, <1>3, <2>1, <3>1 DEF EditTypes
    <3>2. ASSUME NEW q \in Presses, ApplyAct(q)
          PROVE  FALSE
      BY <1>1, <1>3, <3>2 DEF EditTypes, ApplyAct, EditPressRec
    <3>3. press' # press
      BY <1>3
    <3>4. EditNext
      BY <3>3 DEF editVars
    <3> QED
      BY <3>1, <3>2, <3>3, <3>4 DEF EditNext, MoveTo, AnswerFetch, FailFetch, ShowFetched,
         Type, ApplySave, RefusePress, EditRests, editVars
  <2> QED
    BY <2>2 DEF Save, Act, Start, Visible
<1> QED
  BY <1>2, <1>3 DEF EditSeen

LEMMA EditStays == EditIInv /\ EditSeen /\ [EditNext]_editVars => EditIInv' /\ EditSeen'
<1> SUFFICES ASSUME EditIInv, EditSeen, [EditNext]_editVars PROVE EditIInv'
  BY EditSeenStays
<1>1. CASE UNCHANGED editVars
  <2>1. UNCHANGED <<form, route, moves, stored, fetch, press, view, draft, typed, failures,
                    overlapped, missed>>
    BY <1>1 DEF editVars
  <2>2. /\ \A f \in Fetchers : EditFetchOK(fetch[f], form, route, EditClean', EditNear')
        /\ \A q \in Presses : EditPressOK(press[q], form, route, EditClean', EditNear',
                                          (overlapped \/ missed)')
    BY <2>1, EditMono
  <2>3. EditTypes' /\ EditStored' /\ EditScreen'
    BY <2>1 DEF EditIInv, EditTypes, EditStored, EditScreen, EditNear, EditClean, Waiting
  <2> QED
    BY <2>1, <2>2, <2>3 DEF EditIInv
<1>2. ASSUME NEW p \in Presses, NEW way \in {"route", "shown"}, Act(p, way)
      PROVE  EditIInv'
  BY <1>2, EditStarts
<1>3. CASE EditRests
  BY <1>1, <1>3 DEF EditRests
<1> QED
  BY <1>1, <1>2, <1>3, EditMoves, EditAnswers, EditFails, EditShows, EditTyped, EditStarts,
     EditSaves, EditActs, EditRefuses DEF EditNext

LEMMA EditKeepsTyped ==
    ASSUME EditIInv, [EditNext]_editVars, draft' # draft
    PROVE  \/ typed' # typed
           \/ view = None \/ view' # view
           \/ /\ form.fills \in {"load", "merge"}
              /\ \E f \in Fetchers :
                    fetch[f].state = "answered" /\ fetch'[f].state = "idle"
<1>1. EditTypes /\ EditScreen
  BY DEF EditIInv
<1>2. \/ \E f \in Fetchers : ShowFetched(f)
      \/ Type
      \/ \E p \in Presses : ApplySave(p)
  <2>1. EditNext
    BY DEF editVars
  <2> QED
    BY <2>1 DEF EditNext, MoveTo, AnswerFetch, FailFetch, Save, Act, Start, ApplyAct,
       RefusePress, EditRests, editVars
<1>3. CASE Type
  BY <1>1, <1>3 DEF Type, EditTypes
<1>4. ASSUME NEW p \in Presses, ApplySave(p)
      PROVE  view = None \/ view' # view
  BY <1>4 DEF ApplySave
<1>5. ASSUME NEW f \in Fetchers, ShowFetched(f)
      PROVE  \/ view = None \/ view' # view
             \/ /\ form.fills \in {"load", "merge"}
                /\ fetch[f].state = "answered" /\ fetch'[f].state = "idle"
  <2>1. fetch[f].state = "answered" /\ fetch'[f] = NoFetch
    BY <1>1, <1>5 DEF ShowFetched, EditTypes
  <2>2. /\ draft' = Filled(fetch[f].of, fetch[f].value)
        /\ view' = fetch[f].of
    BY <1>5 DEF ShowFetched
  <2>3. form.fills \in {"load", "mount", "merge", "keyed", "none"}
    BY <1>1, EditForms DEF EditTypes
  <2>4. CASE form.fills = "mount"
    BY <2>2, <2>4 DEF Filled
  <2>5. CASE form.fills = "keyed"
    BY <2>2, <2>5 DEF Filled
  <2>6. CASE form.fills = "none"
    BY <2>2, <2>6, <1>1 DEF Filled, EditScreen
  <2> QED
    BY <2>1, <2>3, <2>4, <2>5, <2>6, EditEmpty
<1> QED
  BY <1>2, <1>3, <1>4, <1>5

\* Of a page that edits, for any number of subjects, changes of the subject,
\* handlers, edits and failures: settings are saved where they were loaded,
\* buttons act on what is shown, and what was typed is kept.
THEOREM EditCorrect == EditSpec => EditRules
<1>1. EditIInv /\ [EditNext]_editVars =>
        [draft' # draft =>
            \/ typed' # typed
            \/ view = None \/ view' # view
            \/ form.fills \in {"load", "merge"}
                  /\ \E f \in Fetchers :
                        fetch[f].state = "answered" /\ fetch'[f].state = "idle"]_editVars
  BY EditKeepsTyped
<1> QED
  BY <1>1, EditInvTypes, EditStart, EditStays, PTL DEF EditSpec, EditRules, TypedIsKept

-----------------------------------------------------------------------------
(***************************************************************************)
(* ListPage.  While activities of the page do not overlap, there is one    *)
(* load or one handler under way, for the selected tenant, and it ends     *)
(* with what is stored shown or with an error told.                        *)
(***************************************************************************)

PageKind(p) ==
    /\ p.guarded \in BOOLEAN /\ p.oneBusy \in BOOLEAN /\ p.catches \in BOOLEAN
    /\ p.catchesWrites \in BOOLEAN /\ p.clears \in BOOLEAN
    /\ p.guarded => p.writes = {}
    /\ "all" \in p.writes => p.catches

LEMMA PageFacts == ASSUME page \in Pages PROVE PageKind(page)
<1>1. PageKind(AgentsPage)
  BY DEF AgentsPage, Plain, PageKind
<1>2. PageKind(ClientsPage)
  BY DEF ClientsPage, Plain, PageKind
<1>3. PageKind(UsersPage)
  BY DEF UsersPage, Plain, PageKind
<1>4. PageKind(RolesPage)
  BY DEF RolesPage, Plain, PageKind
<1>5. PageKind(SecretsPage)
  BY DEF SecretsPage, Plain, PageKind
<1>6. PageKind(ServersPage)
  BY DEF ServersPage, Plain, PageKind
<1>7. PageKind(ToolsPage)
  BY DEF ToolsPage, Plain, PageKind
<1>8. PageKind(MyAccessPage)
  BY DEF MyAccessPage, Plain, PageKind
<1>9. PageKind(ConnectionsPage)
  BY DEF ConnectionsPage, Plain, PageKind
<1>10. PageKind(DashboardPage)
  BY DEF DashboardPage, Plain, PageKind
<1>11. PageKind(AuditPage)
  BY DEF AuditPage, Plain, PageKind
<1>12. PageKind(AccessRequestsPage)
  BY DEF AccessRequestsPage, Plain, PageKind
<1>13. PageKind(NotificationsPage)
  BY DEF NotificationsPage, Plain, PageKind
<1> QED
  BY <1>1, <1>2, <1>3, <1>4, <1>5, <1>6, <1>7, <1>8,
     <1>9, <1>10, <1>11, <1>12, <1>13 DEF Pages

PageLoadRec == [state : {"idle", "asked", "answered", "failed", "lost"},
                of : Tenants \cup {Nowhere}, rows : [Rows -> BOOLEAN]]

PageClickRec == [state : {"idle", "writing", "loading", "failed"},
                 kind : {Nowhere, "toggle", "settle", "all", "add"},
                 as : Tenants \cup {Nowhere}, of : Tenants \cup {Nowhere},
                 left : SUBSET Rows, to : BOOLEAN,
                 what : Rows \cup {Nowhere, "all", "add"}]

PageTypes ==
    /\ page \in Pages
    /\ selected \in Tenants
    /\ switches \in Effects
    /\ rows \in [Tenants -> [Rows -> BOOLEAN]]
    /\ load \in [Loaders -> PageLoadRec]
    /\ click \in [Clicks -> PageClickRec]
    /\ busy \subseteq Rows \cup {"all", "add"}
    /\ shown \in [of : Tenants \cup {Nowhere}, rows : [Rows -> BOOLEAN]]
    /\ told \in BOOLEAN /\ crossed \in BOOLEAN /\ others \in BOOLEAN
    /\ presses \in Nat /\ changes \in Nat /\ faults \in Nat

PageActive(x) == x.state \in {"asked", "answered", "failed"}

PageClickOK(y, p) ==
    /\ y.state \in {"idle", "loading"} => y.left = {}
    /\ y.state # "idle" => y.as \in Tenants /\ y.kind \in p.writes
    /\ y.kind # "all" => \A r, s \in y.left : r = s
    /\ y.state = "failed" /\ y.kind # "all" => y.left = {}

\* A handler loads after it has written, for the tenant it wrote in.
PagePairOK(x, y) ==
    x.state # "idle" => PageActive(x) /\ y.state = "loading" /\ x.of = y.as

PageLoads(L, k, t) ==
    /\ \A l \in Loaders : PageActive(L[l]) => L[l].of \in Tenants
    /\ PageActive(L[k]) => L[k].of = t
    /\ \A l \in Effects : l > k => L[l].state = "idle"

PageBusy(B, K) ==
    \A b \in B : \E c \in Clicks : K[c].state \in {"writing", "loading"} /\ K[c].what = b

\* One activity, of the selected tenant.
PageOne(L, K, k, t) ==
    /\ \A l \in Effects : PageActive(L[l]) => l = k
    /\ \A c \in Clicks : K[c].state # "idle" => K[c].as = t /\ ~PageActive(L[k])
    /\ \A c, d \in Clicks : K[c].state # "idle" /\ K[d].state # "idle" => c = d

\* What a load has read is what is stored.
PageRead(L, R) ==
    \A l \in Loaders : L[l].state = "answered" => L[l].rows = R

PageTells(K, e) == \A c \in Clicks : K[c].state = "failed" => e

PageIInv ==
    /\ PageTypes
    /\ \A c \in Clicks : PageClickOK(click[c], page) /\ PagePairOK(load[c], click[c])
    /\ PageLoads(load, switches, selected)
    /\ PageBusy(busy, click)
    /\ ShownIsSelected
    /\ ~crossed => PageOne(load, click, switches, selected)
    /\ ~crossed /\ ~others => PageRead(load, rows[selected])
    /\ ~crossed /\ page.catchesWrites => PageTells(click, told)
    /\ QuietIsCurrent

LEMMA PageNames ==
    /\ Effects \subseteq Loaders /\ Clicks \subseteq Loaders
    /\ \A c \in Clicks : c \notin Effects
    /\ 0 \in Effects /\ Effects \subseteq Nat
    /\ \A k \in Effects : k < MaxSwitches => k + 1 \in Effects
  BY ListPageAssumption DEF Effects, Loaders

LEMMA PageEmpty ==
    /\ Blank \in [Rows -> BOOLEAN]
    /\ NoLoad \in PageLoadRec /\ NoLoad.state = "idle" /\ ~PageActive(NoLoad)
    /\ NoClick \in PageClickRec /\ NoClick.state = "idle" /\ NoClick.left = {}
    /\ \A t \in Tenants : /\ Ask(t) \in PageLoadRec /\ Ask(t).state = "asked"
                          /\ Ask(t).of = t /\ PageActive(Ask(t))
    /\ \A p : PageClickOK(NoClick, p)
    /\ \A y : PagePairOK(NoLoad, y)
<1>1. Blank \in [Rows -> BOOLEAN]
  BY DEF Blank
<1>2. NoLoad \in PageLoadRec /\ NoLoad.state = "idle"
  BY <1>1 DEF NoLoad, PageLoadRec
<1>3. NoClick \in PageClickRec /\ NoClick.state = "idle" /\ NoClick.left = {}
  BY DEF NoClick, PageClickRec
<1>4. ASSUME NEW t \in Tenants
      PROVE  Ask(t) \in PageLoadRec /\ Ask(t).state = "asked" /\ Ask(t).of = t
  BY <1>1 DEF Ask, NoLoad, PageLoadRec
<1> QED
  BY <1>1, <1>2, <1>3, <1>4 DEF PageActive, PageClickOK, PagePairOK

LEMMA PageInvTypes == PageIInv => PageTypeOK
<1> SUFFICES ASSUME PageIInv PROVE PageTypeOK
  OBVIOUS
<1>1. PageTypes
  BY DEF PageIInv
<1>2. \A l \in Loaders :
         load[l].state \in {"idle", "asked", "answered", "failed", "lost"}
  BY <1>1 DEF PageTypes, PageLoadRec
<1>3. \A l \in Clicks :
         load[l].state # "idle" =>
            click[l].state = "loading" /\ load[l].of = click[l].as
  BY DEF PageIInv, PagePairOK
<1>4. \A c \in Clicks : click[c].state \in {"idle", "writing", "loading", "failed"}
  BY <1>1 DEF PageTypes, PageClickRec
<1>5. (\A c \in Clicks : click[c].state = "idle") => busy = {}
  <2> SUFFICES ASSUME \A c \in Clicks : click[c].state = "idle", NEW b \in busy PROVE FALSE
    OBVIOUS
  <2> QED
    BY DEF PageIInv, PageBusy
<1>6. shown.of \in Tenants \cup {Nowhere}
  BY <1>1 DEF PageTypes
<1> QED
  BY <1>1, <1>2, <1>3, <1>4, <1>5, <1>6 DEF PageTypes, PageTypeOK

LEMMA PageStart == PageInit => PageIInv
<1> SUFFICES ASSUME PageInit PROVE PageIInv
  OBVIOUS
<1>1. /\ \A l \in Loaders : load[l] = IF l = 0 THEN Ask(selected) ELSE NoLoad
      /\ \A c \in Clicks : click[c] = NoClick
      /\ selected \in Tenants /\ switches = 0 /\ busy = {} /\ crossed = FALSE
      /\ load[switches] = Ask(selected)
  BY PageNames DEF PageInit
<1>2. PageTypes
  <2>1. load \in [Loaders -> PageLoadRec]
    BY PageEmpty DEF PageInit
  <2>2. click \in [Clicks -> PageClickRec]
    BY PageEmpty DEF PageInit
  <2>3. rows \in [Tenants -> [Rows -> BOOLEAN]]
    BY PageEmpty DEF PageInit
  <2> QED
    BY <2>1, <2>2, <2>3, PageEmpty, PageNames DEF PageInit, PageTypes
<1>3. \A c \in Clicks : PageClickOK(click[c], page) /\ PagePairOK(load[c], click[c])
  BY <1>1, PageEmpty, PageNames
<1>4. PageLoads(load, switches, selected)
  BY <1>1, PageEmpty, PageNames DEF PageLoads
<1>5. PageBusy(busy, click) /\ PageTells(click, told)
  BY <1>1, PageEmpty DEF PageBusy, PageTells
<1>6. PageOne(load, click, switches, selected)
  BY <1>1, PageEmpty, PageNames DEF PageOne
<1>7. PageRead(load, rows[selected])
  BY <1>1, PageEmpty, PageNames DEF PageRead
<1>8. ShownIsSelected /\ QuietIsCurrent
  <2>1. ~Quiet
    BY <1>1, PageEmpty, PageNames DEF Quiet
  <2> QED
    BY <2>1, <1>1, PageEmpty DEF ShownIsSelected, QuietIsCurrent
<1> QED
  BY <1>2, <1>3, <1>4, <1>5, <1>6, <1>7, <1>8 DEF PageIInv

\* Activities of a page that do not overlap: one load at most, of the selected
\* tenant, and none beside a handler that writes.
LEMMA PageOnly ==
    ASSUME PageIInv, ~crossed
    PROVE  /\ \A l, m \in Loaders : PageActive(load[l]) /\ PageActive(load[m]) => l = m
           /\ \A l \in Loaders : PageActive(load[l]) => load[l].of = selected
           /\ \A c \in Clicks : click[c].state \in {"writing", "failed"} =>
                 \A l \in Loaders : ~PageActive(load[l])
<1>1. /\ PageOne(load, click, switches, selected) /\ PageLoads(load, switches, selected)
      /\ \A c \in Clicks : PagePairOK(load[c], click[c])
  BY DEF PageIInv
<1>2. \A c \in Clicks : PageActive(load[c]) =>
         /\ click[c].state = "loading" /\ load[c].of = click[c].as
  BY <1>1 DEF PagePairOK, PageActive
<1>3. ASSUME NEW l \in Loaders, PageActive(load[l])
      PROVE  /\ load[l].of = selected
             /\ l = switches \/ (l \in Clicks /\ click[l].state = "loading"
                                 /\ ~PageActive(load[switches]))
  <2>1. CASE l \in Effects
    BY <2>1, <1>1, <1>3 DEF PageOne, PageLoads
  <2>2. CASE l \in Clicks
    BY <2>2, <1>1, <1>2, <1>3 DEF PageOne
  <2> QED
    BY <2>1, <2>2 DEF Loaders
<1>4. ASSUME NEW l \in Loaders, NEW m \in Loaders, PageActive(load[l]), PageActive(load[m])
      PROVE  l = m
  BY <1>1, <1>3, <1>4 DEF PageOne
<1>5. ASSUME NEW c \in Clicks, click[c].state \in {"writing", "failed"}, NEW l \in Loaders
      PROVE  ~PageActive(load[l])
  BY <1>1, <1>3, <1>5 DEF PageOne
<1> QED
  BY <1>3, <1>4, <1>5

LEMMA PageQuiet ==
    ASSUME PageIInv, Quiet
    PROVE  /\ \A l \in Loaders : ~PageActive(load[l]) /\ load[l].state # "answered"
           /\ \A c \in Clicks : click[c].state = "idle"
  BY DEF Quiet, PageActive

LEMMA PageSelects ==
    ASSUME PageIInv, NEW t \in Tenants, SelectTenant(t)
    PROVE  PageIInv'
<1>1. PageTypes /\ PageLoads(load, switches, selected) /\ PageBusy(busy, click)
  BY DEF PageIInv
<1>2. /\ switches < MaxSwitches /\ selected' = t /\ switches' = switches + 1
      /\ load' = [load EXCEPT ![switches + 1] = Ask(t)]
      /\ told' = (told /\ ~page.clears)
      /\ crossed' = ~Quiet
      /\ UNCHANGED <<page, rows, click, busy, shown, others, presses, changes, faults>>
  BY DEF SelectTenant
<1>3. /\ switches + 1 \in Effects /\ switches + 1 \in Loaders /\ switches + 1 \notin Clicks
      /\ switches \in Nat
  BY <1>1, <1>2, PageNames DEF PageTypes
<1>4. /\ load' \in [Loaders -> PageLoadRec]
      /\ \A l \in Loaders : load'[l] = IF l = switches + 1 THEN Ask(t) ELSE load[l]
  BY <1>1, <1>2, <1>3, PageEmpty DEF PageTypes
<1>5. Quiet \in BOOLEAN
  BY DEF Quiet
<1>6. PageTypes'
  <2>1. told' \in BOOLEAN
    BY <1>2
  <2> QED
    BY <2>1, <1>1, <1>2, <1>3, <1>4, <1>5 DEF PageTypes
<1>7. \A c \in Clicks : PageClickOK(click'[c], page') /\ PagePairOK(load'[c], click'[c])
  BY <1>2, <1>3, <1>4, PageNames DEF PageIInv
<1>8. PageLoads(load', switches', selected')
  <2>1. \A l \in Effects : l > switches + 1 => l > switches /\ l # switches + 1
    BY <1>3, PageNames
  <2> QED
    BY <2>1, <1>1, <1>2, <1>3, <1>4, PageEmpty, PageNames DEF PageLoads
<1>9. load'[switches'].state = "asked" /\ ~Quiet'
  BY <1>2, <1>3, <1>4, PageEmpty DEF Quiet
<1>10. ShownIsSelected' /\ QuietIsCurrent'
  BY <1>9 DEF ShownIsSelected, QuietIsCurrent
<1>11. ASSUME ~crossed'
       PROVE  /\ PageOne(load', click', switches', selected')
              /\ PageRead(load', rows'[selected']) /\ PageTells(click', told')
  <2>1. /\ \A l \in Loaders : ~PageActive(load[l]) /\ load[l].state # "answered"
        /\ \A c \in Clicks : click[c].state = "idle"
    BY <1>2, <1>11, PageQuiet
  <2> QED
    BY <2>1, <1>2, <1>3, <1>4, PageEmpty, PageNames DEF PageOne, PageRead, PageTells
<1> QED
  BY <1>1, <1>2, <1>6, <1>7, <1>8, <1>10, <1>11 DEF PageIInv

\* A load is answered or fails.
LEMMA PageAnswers ==
    ASSUME PageIInv, NEW l \in Loaders, AnswerLoad(l) \/ FailLoad(l)
    PROVE  PageIInv'
<1> DEFINE x == load[l]
           R == rows[x.of]
           y == load'[l]
<1>1. PageTypes /\ PageLoads(load, switches, selected) /\ PageBusy(busy, click)
  BY DEF PageIInv
<1>2. /\ x.state = "asked"
      /\ UNCHANGED <<page, selected, switches, rows, click, busy, shown, told, crossed,
                     presses, changes>>
  BY DEF AnswerLoad, FailLoad
<1>3. x \in PageLoadRec /\ PageActive(x) /\ x.of \in Tenants /\ R \in [Rows -> BOOLEAN]
  BY <1>1, <1>2 DEF PageTypes, PageLoads, PageActive
<1>4. PICK z \in PageLoadRec :
        /\ load' = [load EXCEPT ![l] = z] /\ z.of = x.of
        /\ \/ z.state = "answered" /\ z.rows = R
           \/ z.state = "failed" /\ UNCHANGED others
  <2>1. CASE AnswerLoad(l)
    <3> DEFINE z == [x EXCEPT !.state = "answered", !.rows = R]
    <3>1. load' = [load EXCEPT ![l] = z]
      BY <2>1 DEF AnswerLoad
    <3> HIDE DEF x, R
    <3>2. z \in PageLoadRec /\ z.of = x.of /\ z.state = "answered" /\ z.rows = R
      BY <1>3 DEF PageLoadRec
    <3> QED
      BY <3>1, <3>2 DEF x, R
  <2>2. CASE FailLoad(l)
    <3> DEFINE z == [x EXCEPT !.state = "failed"]
    <3>1. load' = [load EXCEPT ![l] = z] /\ UNCHANGED others
      BY <2>2 DEF FailLoad
    <3> HIDE DEF x, R
    <3>2. z \in PageLoadRec /\ z.of = x.of /\ z.state = "failed"
      BY <1>3 DEF PageLoadRec
    <3> QED
      BY <3>1, <3>2 DEF x, R
  <2> QED
    BY <2>1, <2>2
<1>5. /\ load' \in [Loaders -> PageLoadRec]
      /\ \A m \in Loaders : load'[m] = IF m = l THEN z ELSE load[m]
  BY <1>1, <1>4 DEF PageTypes
<1>6. PageActive(z) /\ others' \in BOOLEAN /\ faults' \in Nat
  <2>1. PageActive(z)
    BY <1>4 DEF PageActive
  <2>2. others' = FALSE \/ others' = others
    BY DEF AnswerLoad, FailLoad
  <2>3. faults' = faults \/ faults' = faults + 1
    BY DEF AnswerLoad, FailLoad
  <2>4. others' \in BOOLEAN
    BY <1>1, <2>2 DEF PageTypes
  <2>5. faults' \in Nat
    BY <1>1, <2>3 DEF PageTypes
  <2> QED
    BY <2>1, <2>4, <2>5
<1>7. PageTypes'
  BY <1>1, <1>2, <1>5, <1>6 DEF PageTypes
<1>8. \A c \in Clicks : PageClickOK(click'[c], page') /\ PagePairOK(load'[c], click'[c])
  BY <1>2, <1>4, <1>5, <1>6, PageNames DEF PageIInv, PagePairOK
<1>9. \A m \in Loaders : /\ PageActive(load'[m]) <=> PageActive(load[m])
                         /\ load'[m].of = load[m].of
                         /\ load'[m].state = "idle" <=> load[m].state = "idle"
  BY <1>2, <1>3, <1>4, <1>5, <1>6
<1>10. PageLoads(load', switches', selected')
  BY <1>1, <1>2, <1>9, PageNames DEF PageLoads, PageTypes
<1>11. ~Quiet'
  BY <1>4, <1>5 DEF Quiet
<1>12. ShownIsSelected' /\ QuietIsCurrent'
  BY <1>1, <1>2, <1>9, <1>11, PageNames DEF ShownIsSelected, QuietIsCurrent, PageIInv, PageTypes
<1>13. ASSUME ~crossed'
       PROVE  /\ PageOne(load', click', switches', selected')
              /\ PageRead(load', rows'[selected'])
  <2>1. PageOne(load, click, switches, selected)
    BY <1>2, <1>13 DEF PageIInv
  <2>2. PageOne(load', click', switches', selected')
    BY <2>1, <1>1, <1>2, <1>9, PageNames DEF PageOne, PageTypes
  <2>3. x.of = selected /\ \A m \in Loaders : PageActive(load[m]) => m = l
    BY <1>2, <1>3, <1>13, PageOnly
  <2>4. PageRead(load', rows[selected])
    BY <2>3, <1>4, <1>5 DEF PageRead, PageActive
  <2> QED
    BY <2>2, <2>4, <1>2
<1> QED
  BY <1>1, <1>2, <1>7, <1>8, <1>10, <1>12, <1>13 DEF PageIInv

\* A load is over, and the handler it was for ends with it.
LEMMA PageEnds ==
    ASSUME PageIInv, NEW l \in Loaders, EndClick(l), PageActive(load[l])
    PROVE  /\ click' \in [Clicks -> PageClickRec]
           /\ \A c \in Clicks : click'[c] = IF c = l THEN NoClick ELSE click[c]
           /\ busy' \subseteq busy /\ PageBusy(busy', click')
<1>1. PageTypes /\ PageBusy(busy, click)
  BY DEF PageIInv
<1>2. CASE l \in Clicks
  <2>1. click' = [click EXCEPT ![l] = NoClick] /\ busy' = Released(l)
    BY <1>2 DEF EndClick
  <2>2. /\ click' \in [Clicks -> PageClickRec]
        /\ \A c \in Clicks : click'[c] = IF c = l THEN NoClick ELSE click[c]
    BY <1>1, <2>1, PageEmpty DEF PageTypes
  <2>3. busy' \subseteq busy \ {click[l].what}
    BY <2>1 DEF Released
  <2>4. PageBusy(busy', click')
    BY <1>1, <2>2, <2>3 DEF PageBusy
  <2> QED
    BY <2>2, <2>3, <2>4
<1>3. CASE l \notin Clicks
  BY <1>1, <1>3 DEF EndClick, PageTypes
<1> QED
  BY <1>2, <1>3

LEMMA PageShows ==
    ASSUME PageIInv, NEW l \in Loaders, ShowLoaded(l)
    PROVE  PageIInv'
<1> DEFINE x == load[l]
           dropped == page.guarded /\ Unwanted(l)
<1>1. PageTypes /\ PageLoads(load, switches, selected) /\ PageKind(page)
  BY PageFacts DEF PageIInv, PageTypes
<1>2. /\ x.state = "answered"
      /\ load' = [load EXCEPT ![l] = NoLoad]
      /\ shown' = IF dropped THEN shown ELSE [of |-> x.of, rows |-> x.rows]
      /\ EndClick(l)
      /\ UNCHANGED <<page, selected, switches, rows, told, crossed, others, presses,
                     changes, faults>>
  BY DEF ShowLoaded
<1>3. PageActive(x) /\ x.of \in Tenants /\ x.rows \in [Rows -> BOOLEAN]
  BY <1>1, <1>2 DEF PageActive, PageLoads, PageTypes, PageLoadRec
<1>4. /\ click' \in [Clicks -> PageClickRec]
      /\ \A c \in Clicks : click'[c] = IF c = l THEN NoClick ELSE click[c]
      /\ busy' \subseteq busy /\ PageBusy(busy', click')
  BY <1>2, <1>3, PageEnds
<1>5. /\ load' \in [Loaders -> PageLoadRec]
      /\ \A m \in Loaders : load'[m] = IF m = l THEN NoLoad ELSE load[m]
  BY <1>1, <1>2, PageEmpty DEF PageTypes
<1>6. shown' \in [of : Tenants \cup {Nowhere}, rows : [Rows -> BOOLEAN]]
  BY <1>1, <1>2, <1>3 DEF PageTypes
<1>7. PageTypes'
  BY <1>1, <1>2, <1>4, <1>5, <1>6 DEF PageTypes
<1>8. \A c \in Clicks : PageClickOK(click'[c], page') /\ PagePairOK(load'[c], click'[c])
  BY <1>2, <1>4, <1>5, PageEmpty, PageNames DEF PageIInv
<1>9. PageLoads(load', switches', selected')
  BY <1>1, <1>2, <1>5, PageEmpty, PageNames DEF PageLoads, PageTypes
<1>10. ~crossed => /\ x.of = selected /\ ~dropped
                   /\ shown' = [of |-> x.of, rows |-> x.rows]
  <2> SUFFICES ASSUME ~crossed PROVE x.of = selected /\ ~dropped
    BY <1>2
  <2>1. PageOne(load, click, switches, selected)
    BY DEF PageIInv
  <2>2. ~Unwanted(l)
    BY <2>1, <1>3 DEF PageOne, Unwanted
  <2> QED
    BY <2>2, <1>3, PageOnly
<1>11. ShownIsSelected'
  <2> SUFFICES ASSUME load'[switches].state = "idle", page.guarded \/ ~crossed
               PROVE  shown'.of = selected
    BY <1>1, <1>2 DEF ShownIsSelected, PageKind
  <2>1. CASE ~crossed
    BY <2>1, <1>10
  <2>2. CASE page.guarded
    <3>1. l \in Effects
      <4>1. ASSUME l \in Clicks
            PROVE  FALSE
        <5>1. click[l].state # "idle" /\ click[l].kind \in page.writes
          BY <4>1, <1>3 DEF PageIInv, PagePairOK, PageClickOK, PageActive
        <5> QED
          BY <5>1, <2>2, <1>1 DEF PageKind
      <4> QED
        BY <4>1 DEF Loaders
    <3>2. CASE l = switches
      <4>1. x.of = selected /\ ~dropped
        BY <3>2, <1>1, <1>3 DEF PageLoads, Unwanted
      <4> QED
        BY <4>1, <1>2
    <3>3. CASE l # switches
      <4>1. dropped /\ load'[switches] = load[switches]
        BY <3>1, <3>3, <2>2, <1>1, <1>5, PageNames DEF Unwanted, PageTypes
      <4> QED
        BY <4>1, <2>2, <1>2 DEF PageIInv, ShownIsSelected
    <3> QED
      BY <3>2, <3>3
  <2> QED
    BY <2>1, <2>2
<1>12. ~crossed' => PageOne(load', click', switches', selected')
  <2>1. switches' = switches /\ selected' = selected /\ crossed' = crossed
    BY <1>2
  <2>2. /\ \A m \in Loaders : PageActive(load'[m]) => PageActive(load[m])
        /\ \A c \in Clicks : click'[c].state # "idle" => click'[c] = click[c]
    BY <1>4, <1>5, PageEmpty
  <2>3. ~crossed => PageOne(load, click, switches, selected)
    BY DEF PageIInv
  <2>4. switches \in Loaders /\ Effects \subseteq Loaders
    BY <1>1, PageNames DEF PageTypes
  <2> QED
    BY <2>1, <2>2, <2>3, <2>4 DEF PageOne
<1>13. ~crossed' /\ ~others' => PageRead(load', rows'[selected'])
  BY <1>2, <1>5, PageEmpty DEF PageRead, PageIInv
<1>14. ~crossed' /\ page.catchesWrites => PageTells(click', told')
  BY <1>2, <1>4, PageEmpty DEF PageTells, PageIInv
<1>15. QuietIsCurrent'
  <2> SUFFICES ASSUME ~crossed, ~others
               PROVE  shown'.rows = rows[selected]
    BY <1>2 DEF QuietIsCurrent
  <2>1. x.rows = rows[selected]
    BY <1>2 DEF PageIInv, PageRead
  <2> QED
    BY <2>1, <1>10
<1> QED
  BY <1>2, <1>4, <1>7, <1>8, <1>9, <1>11, <1>12, <1>13, <1>14, <1>15 DEF PageIInv

LEMMA PageErrs ==
    ASSUME PageIInv, NEW l \in Loaders, ShowLoadError(l)
    PROVE  PageIInv'
<1> DEFINE x == load[l]
           z == [NoLoad EXCEPT !.state = IF l \in Effects THEN "lost" ELSE "idle"]
<1>1. PageTypes /\ PageLoads(load, switches, selected)
  BY DEF PageIInv
<1>2. /\ x.state = "failed"
      /\ load' = [load EXCEPT ![l] = z]
      /\ told' = (told \/ ~Unwanted(l) \/ ~page.catches)
      /\ EndClick(l)
      /\ UNCHANGED <<page, selected, switches, rows, shown, crossed, others, presses,
                     changes, faults>>
  BY DEF ShowLoadError
<1>3. PageActive(x)
  BY <1>2 DEF PageActive
<1>4. /\ click' \in [Clicks -> PageClickRec]
      /\ \A c \in Clicks : click'[c] = IF c = l THEN NoClick ELSE click[c]
      /\ busy' \subseteq busy /\ PageBusy(busy', click')
  BY <1>2, <1>3, PageEnds
<1>5. /\ z \in PageLoadRec /\ ~PageActive(z) /\ z.state # "answered"
      /\ z.state = "idle" <=> l \notin Effects
  BY PageEmpty DEF NoLoad, PageLoadRec, PageActive
<1> HIDE DEF z
<1>6. /\ load' \in [Loaders -> PageLoadRec]
      /\ \A m \in Loaders : load'[m] = IF m = l THEN z ELSE load[m]
  BY <1>1, <1>2, <1>5 DEF PageTypes
<1>7. told' \in BOOLEAN
  BY <1>2
<1>8. PageTypes'
  BY <1>1, <1>2, <1>4, <1>6, <1>7 DEF PageTypes
<1>9. \A c \in Clicks : PageClickOK(click'[c], page') /\ PagePairOK(load'[c], click'[c])
  BY <1>2, <1>4, <1>5, <1>6, PageEmpty, PageNames DEF PageIInv, PagePairOK
<1>10. l \in Effects => l = switches \/ l < switches
  BY <1>1, <1>2, PageNames DEF PageLoads, PageTypes
<1>11. PageLoads(load', switches', selected')
  BY <1>1, <1>2, <1>5, <1>6, <1>10, PageNames DEF PageLoads, PageTypes
<1>12. ShownIsSelected'
  BY <1>1, <1>2, <1>5, <1>6, PageNames DEF ShownIsSelected, PageIInv, PageTypes
<1>13. ~crossed' => PageOne(load', click', switches', selected')
  BY <1>1, <1>2, <1>4, <1>5, <1>6, PageEmpty, PageNames DEF PageOne, PageIInv, PageTypes
<1>14. ~crossed' /\ ~others' => PageRead(load', rows'[selected'])
  BY <1>2, <1>5, <1>6 DEF PageRead, PageIInv
<1>15. ~crossed => told'
  <2> SUFFICES ASSUME ~crossed PROVE ~Unwanted(l)
    BY <1>2
  <2> QED
    BY <1>3 DEF PageIInv, PageOne, Unwanted
<1>16. QuietIsCurrent' /\ (~crossed' /\ page.catchesWrites => PageTells(click', told'))
  BY <1>2, <1>15 DEF QuietIsCurrent, PageTells
<1> QED
  BY <1>2, <1>4, <1>8, <1>9, <1>11, <1>12, <1>13, <1>14, <1>16 DEF PageIInv

-----------------------------------------------------------------------------
\* A button is pressed.
LEMMA PageBegins ==
    ASSUME PageIInv, NEW c \in Clicks, NEW kind \in page.writes, NEW what, NEW of, NEW left,
           NEW to, Begin(c, kind, what, of, left, to),
           kind \in {"toggle", "settle", "all", "add"},
           what \in Rows \cup {Nowhere, "all", "add"}, of \in Tenants, left \subseteq Rows,
           to \in BOOLEAN,
           kind # "all" => \A r, s \in left : r = s,
           told' \in BOOLEAN,
           busy' \subseteq Rows \cup {"all", "add"}, \A b \in busy' : b \in busy \/ b = what
    PROVE  PageIInv'
<1> DEFINE y == [state |-> "writing", kind |-> kind, as |-> selected, of |-> of,
                 left |-> left, to |-> to, what |-> what]
<1>1. PageTypes /\ PageLoads(load, switches, selected) /\ PageBusy(busy, click) /\ PageKind(page)
  BY PageFacts DEF PageIInv, PageTypes
<1>2. /\ click[c].state = "idle" /\ presses' = presses + 1
      /\ click' = [click EXCEPT ![c] = y]
      /\ crossed' = (~Quiet \/ (crossed /\ shown.of # selected))
      /\ UNCHANGED <<page, selected, switches, rows, load, shown, others, changes, faults>>
  BY DEF Begin
<1>3. y \in PageClickRec
  BY <1>1 DEF PageTypes, PageClickRec
<1>4. y.state = "writing" /\ y.what = what /\ y.as = selected /\ PageClickOK(y, page)
  BY <1>1 DEF PageClickOK, PageTypes
<1> HIDE DEF y
<1>5. /\ click' \in [Clicks -> PageClickRec]
      /\ \A d \in Clicks : click'[d] = IF d = c THEN y ELSE click[d]
  BY <1>1, <1>2, <1>3 DEF PageTypes
<1>6. PageTypes'
  <2>1. crossed' \in BOOLEAN
    BY <1>2
  <2> QED
    BY <2>1, <1>1, <1>2, <1>5 DEF PageTypes
<1>7. load[c].state = "idle"
  BY <1>2 DEF PageIInv, PagePairOK
<1>8. \A d \in Clicks : PageClickOK(click'[d], page') /\ PagePairOK(load'[d], click'[d])
  BY <1>2, <1>4, <1>5, <1>7 DEF PageIInv, PagePairOK
<1>9. PageBusy(busy', click')
  BY <1>1, <1>2, <1>4, <1>5 DEF PageBusy
<1>10. ~Quiet'
  BY <1>4, <1>5 DEF Quiet
<1>11. ~page.guarded
  BY <1>1 DEF PageKind
<1>12. ~crossed' => Quiet /\ (load[switches].state = "idle" => shown.of = selected)
  BY <1>2, <1>11 DEF PageIInv, ShownIsSelected
<1>13. ShownIsSelected' /\ QuietIsCurrent'
  <2>1. load'[switches'].state = "idle" => shown'.of = selected' \/ crossed'
    BY <1>2, <1>12
  <2>2. ShownIsSelected'
    BY <2>1, <1>2, <1>11 DEF ShownIsSelected
  <2>3. QuietIsCurrent'
    BY <1>10 DEF QuietIsCurrent
  <2> QED
    BY <2>2, <2>3
<1>14. ASSUME ~crossed'
       PROVE  /\ PageOne(load, click', switches, selected)
              /\ PageRead(load, rows[selected]) /\ PageTells(click', told')
  <2>1. /\ \A l \in Loaders : ~PageActive(load[l]) /\ load[l].state # "answered"
        /\ \A d \in Clicks : click[d].state = "idle"
    BY <1>12, <1>14, PageQuiet
  <2> QED
    BY <2>1, <1>1, <1>4, <1>5, PageNames DEF PageOne, PageRead, PageTells, PageTypes
<1> QED
  BY <1>1, <1>2, <1>6, <1>8, <1>9, <1>13, <1>14 DEF PageIInv

LEMMA PagePresses ==
    ASSUME PageIInv, NEW c \in Clicks,
           \/ AllowAll(c)
           \/ \E r \in Rows : Toggle(c, r) \/ SettleRow(c, r) \/ Add(c, r)
    PROVE  PageIInv'
<1>1. PageTypes
  BY DEF PageIInv
<1>2. shown.of # Nowhere => shown.of \in Tenants
  BY <1>1 DEF PageTypes
<1>3. CASE AllowAll(c)
  <2> DEFINE targets == {r \in Rows : ~shown.rows[r]}
  <2>1. Begin(c, "all", "all", shown.of, targets, TRUE) /\ shown.of # Nowhere
    BY <1>3 DEF AllowAll
  <2>2. busy' = busy \cup {"all"} /\ told' = FALSE
    BY <1>3 DEF AllowAll
  <2>3. targets \subseteq Rows
    OBVIOUS
  <2>4. "all" \in page.writes
    BY <2>1 DEF Begin
  <2> HIDE DEF targets
  <2> QED
    BY <1>1, <1>2, <2>1, <2>2, <2>3, <2>4, PageBegins DEF PageTypes
<1> DEFINE one(r) == {r}
<1>7. \A r \in Rows : one(r) \subseteq Rows /\ \A a, b \in one(r) : a = b
  OBVIOUS
<1>4. ASSUME NEW r \in Rows, Toggle(c, r)
      PROVE  PageIInv'
  <2> DEFINE off == ~shown.rows[r]
  <2>1. Begin(c, "toggle", Nowhere, shown.of, one(r), off) /\ shown.of # Nowhere
    BY <1>4 DEF Toggle
  <2>2. busy' = busy /\ told' = FALSE
    BY <1>4 DEF Toggle
  <2>3. "toggle" \in page.writes
    BY <2>1 DEF Begin
  <2>5. /\ busy' \subseteq Rows \cup {"all", "add"} /\ told' \in BOOLEAN
        /\ \A b \in busy' : b \in busy \/ b = Nowhere
    BY <1>1, <2>2 DEF PageTypes
  <2>4. off \in BOOLEAN
    OBVIOUS
  <2> HIDE DEF one, off
  <2> QED
    BY <1>1, <1>2, <1>7, <2>1, <2>2, <2>3, <2>4, <2>5, PageBegins DEF PageTypes
<1>5. ASSUME NEW r \in Rows, SettleRow(c, r)
      PROVE  PageIInv'
  <2>1. Begin(c, "settle", r, shown.of, one(r), TRUE) /\ shown.of # Nowhere
    BY <1>5 DEF SettleRow
  <2>2. /\ busy' \in {{r}, busy}
        /\ told' = told \/ told' = (told /\ ~page.catchesWrites)
    BY <1>5 DEF SettleRow
  <2>3. "settle" \in page.writes
    BY <2>1 DEF Begin
  <2>4. told' \in BOOLEAN
    BY <2>2, <1>1 DEF PageTypes
  <2>5. /\ busy' \subseteq Rows \cup {"all", "add"}
        /\ \A b \in busy' : b \in busy \/ b = r
    BY <1>1, <2>2 DEF PageTypes
  <2> HIDE DEF one
  <2> QED
    BY <1>1, <1>2, <1>7, <2>1, <2>2, <2>3, <2>4, <2>5, PageBegins DEF PageTypes
<1>6. ASSUME NEW r \in Rows, Add(c, r)
      PROVE  PageIInv'
  <2>1. Begin(c, "add", "add", selected, one(r), TRUE)
    BY <1>6 DEF Add
  <2>2. busy' = busy \cup {"add"} /\ told' = told
    BY <1>6 DEF Add
  <2>3. "add" \in page.writes
    BY <2>1 DEF Begin
  <2>5. /\ busy' \subseteq Rows \cup {"all", "add"} /\ told' \in BOOLEAN
        /\ \A b \in busy' : b \in busy \/ b = "add"
    BY <1>1, <2>2 DEF PageTypes
  <2> HIDE DEF one
  <2> QED
    BY <1>1, <1>7, <2>1, <2>2, <2>3, <2>5, PageBegins DEF PageTypes
<1> QED
  BY <1>3, <1>4, <1>5, <1>6

LEMMA PageApplies ==
    ASSUME PageIInv, NEW c \in Clicks, NEW r \in Rows, ApplyWrite(c, r)
    PROVE  PageIInv'
<1> DEFINE x == click[c]
           last == x.left = {r}
           s == IF last /\ x.state = "writing" THEN "loading" ELSE x.state
           y == [x EXCEPT !.left = x.left \ {r}, !.state = s]
           asks == last /\ x.state = "writing"
<1>1. /\ PageTypes /\ PageLoads(load, switches, selected) /\ PageBusy(busy, click)
      /\ PageKind(page) /\ PageClickOK(x, page) /\ PagePairOK(load[c], x)
  BY PageFacts DEF PageIInv, PageTypes
<1>2. /\ r \in x.left /\ x.of = x.as
      /\ rows' = [rows EXCEPT ![x.of][r] = x.to]
      /\ click' = [click EXCEPT ![c] = y]
      /\ load' = IF asks THEN [load EXCEPT ![c] = Ask(x.as)] ELSE load
      /\ told' = (told /\ (page.catches \/ ~page.clears \/ ~last))
      /\ UNCHANGED <<page, selected, switches, busy, shown, crossed, others, presses,
                     changes, faults>>
  BY DEF ApplyWrite, Accepted, Continue
<1>3. x \in PageClickRec
  BY <1>1 DEF PageTypes
<1>4. x.state \in {"writing", "failed"} /\ x.as \in Tenants
  BY <1>1, <1>2, <1>3 DEF PageClickOK, PageClickRec
<1>5. x.state = "failed" => x.kind = "all" /\ page.catches
  BY <1>1, <1>2, <1>4 DEF PageClickOK, PageKind
<1> HIDE DEF x
<1>6. last => x.left \ {r} = {}
  OBVIOUS
<1> HIDE DEF last
<1>7. s \in {"writing", "loading", "failed"} /\ (s = "loading" <=> asks) /\ (s = "failed" <=> x.state = "failed")
  BY <1>4
<1> HIDE DEF s
<1>8. /\ y \in PageClickRec /\ y.left = x.left \ {r} /\ y.state = s /\ y.what = x.what
      /\ y.kind = x.kind /\ y.as = x.as
  BY <1>3, <1>7 DEF PageClickRec
<1> HIDE DEF y
<1>9. PageClickOK(y, page)
  BY <1>1, <1>2, <1>4, <1>5, <1>6, <1>7, <1>8 DEF PageClickOK
<1>10. /\ click' \in [Clicks -> PageClickRec]
       /\ \A d \in Clicks : click'[d] = IF d = c THEN y ELSE click[d]
  BY <1>1, <1>2, <1>8 DEF PageTypes
<1>11. Ask(x.as) \in PageLoadRec /\ PageActive(Ask(x.as)) /\ Ask(x.as).of = x.as
       /\ Ask(x.as).state = "asked"
  BY <1>4, PageEmpty
<1> HIDE DEF asks
<1>12. /\ load' \in [Loaders -> PageLoadRec]
       /\ \A l \in Loaders : load'[l] = IF l = c /\ asks THEN Ask(x.as) ELSE load[l]
  BY <1>1, <1>2, <1>11 DEF PageTypes
<1>13. rows' \in [Tenants -> [Rows -> BOOLEAN]]
  <2>1. x.to \in BOOLEAN /\ x.of \in Tenants
    BY <1>2, <1>3, <1>4 DEF PageClickRec
  <2> QED
    BY <2>1, <1>1, <1>2 DEF PageTypes
<1>14. told' \in BOOLEAN
  BY <1>2
<1>15. PageTypes'
  BY <1>1, <1>2, <1>10, <1>12, <1>13, <1>14 DEF PageTypes
<1>16. load[c].state = "idle"
  BY <1>1, <1>4 DEF PagePairOK
<1>17. PagePairOK(load'[c], y)
  <2>1. CASE asks
    BY <2>1, <1>7, <1>8, <1>11, <1>12, PageNames DEF PagePairOK
  <2>2. CASE ~asks
    BY <2>2, <1>12, <1>16, PageNames DEF PagePairOK
  <2> QED
    BY <2>1, <2>2
<1>18. \A d \in Clicks : PageClickOK(click'[d], page') /\ PagePairOK(load'[d], click'[d])
  BY <1>2, <1>9, <1>10, <1>12, <1>17, PageNames DEF PageIInv
<1>19. PageLoads(load', switches', selected')
  BY <1>1, <1>2, <1>4, <1>11, <1>12, PageNames DEF PageLoads, PageTypes
<1>20. PageBusy(busy', click')
  BY <1>1, <1>2, <1>7, <1>8, <1>10 DEF PageBusy, x
<1>21. ~Quiet'
  BY <1>7, <1>8, <1>10 DEF Quiet
<1>22. ShownIsSelected' /\ QuietIsCurrent'
  <2>1. load'[switches] = load[switches]
    BY <1>1, <1>12, PageNames DEF PageTypes
  <2> QED
    BY <2>1, <1>2, <1>21 DEF ShownIsSelected, QuietIsCurrent, PageIInv
<1>23. ASSUME ~crossed
       PROVE  /\ PageOne(load', click', switches', selected')
              /\ PageRead(load', rows'[selected'])
              /\ page.catchesWrites => PageTells(click', told')
  <2>1. /\ PageOne(load, click, switches, selected)
        /\ page.catchesWrites => PageTells(click, told)
    BY <1>23 DEF PageIInv
  <2>2. \A l \in Loaders : ~PageActive(load[l]) /\ load[l].state # "answered"
    BY <1>4, <1>23, PageOnly DEF PageActive, x
  <2>3. PageOne(load', click', switches', selected')
    BY <2>1, <2>2, <1>1, <1>2, <1>4, <1>8, <1>10, <1>12, PageNames DEF PageOne, PageTypes, x
  <2>4. PageRead(load', rows'[selected'])
    BY <2>2, <1>11, <1>12 DEF PageRead
  <2>5. ASSUME page.catchesWrites, NEW d \in Clicks, click'[d].state = "failed"
        PROVE  told'
    <3>1. d = c
      BY <2>1, <2>5, <1>4, <1>10 DEF PageOne, x
    <3>2. x.state = "failed"
      BY <3>1, <2>5, <1>7, <1>8, <1>10
    <3> QED
      BY <3>2, <2>1, <2>5, <1>2, <1>5 DEF PageTells, x
  <2> QED
    BY <2>3, <2>4, <2>5 DEF PageTells
<1> QED
  BY <1>2, <1>15, <1>18, <1>19, <1>20, <1>22, <1>23 DEF PageIInv

\* A write is refused or lost.
LEMMA PageCatches ==
    ASSUME PageIInv, NEW c \in Clicks, NEW r \in Rows, RefuseWrite(c, r) \/ LoseWrite(c, r)
    PROVE  PageIInv'
<1> DEFINE x == click[c]
           y == [x EXCEPT !.state = "failed", !.left = x.left \ {r}]
<1>1. /\ PageTypes /\ PageLoads(load, switches, selected) /\ PageBusy(busy, click)
      /\ PageClickOK(x, page) /\ PagePairOK(load[c], x)
  BY DEF PageIInv
<1>2. /\ r \in x.left
      /\ click' = [click EXCEPT ![c] = y]
      /\ busy' = Released(c)
      /\ told' = (told \/ page.catchesWrites)
      /\ UNCHANGED <<page, selected, switches, load, shown, crossed, others, presses,
                     changes>>
  BY DEF RefuseWrite, LoseWrite, Catch
<1>3. x \in PageClickRec
  BY <1>1 DEF PageTypes
<1>4. x.state \in {"writing", "failed"} /\ x.as \in Tenants
  BY <1>1, <1>2, <1>3 DEF PageClickOK, PageClickRec
<1>5. rows' \in [Tenants -> [Rows -> BOOLEAN]]
  <2>1. x.to \in BOOLEAN
    BY <1>3 DEF PageClickRec
  <2>2. rows' = rows \/ (x.of = x.as /\ rows' = [rows EXCEPT ![x.of][r] = x.to])
    BY DEF RefuseWrite, LoseWrite, Accepted
  <2>3. CASE rows' = rows
    BY <2>3, <1>1 DEF PageTypes
  <2>4. CASE x.of = x.as /\ rows' = [rows EXCEPT ![x.of][r] = x.to]
    <3>1. x.of \in Tenants
      BY <2>4, <1>4
    <3> QED
      BY <3>1, <2>1, <2>4, <1>1 DEF PageTypes
  <2> QED
    BY <2>2, <2>3, <2>4
<1>6. faults' \in Nat
  <2>1. faults' = faults \/ faults' = faults + 1
    BY DEF RefuseWrite, LoseWrite
  <2> QED
    BY <2>1, <1>1 DEF PageTypes
<1>7. busy' \subseteq busy \ {x.what}
  BY <1>2 DEF Released
<1> HIDE DEF x
<1>8. /\ y \in PageClickRec /\ y.left = x.left \ {r} /\ y.state = "failed"
      /\ y.kind = x.kind /\ y.as = x.as
  BY <1>3 DEF PageClickRec
<1> HIDE DEF y
<1>9. PageClickOK(y, page)
  BY <1>1, <1>2, <1>4, <1>8 DEF PageClickOK
<1>10. /\ click' \in [Clicks -> PageClickRec]
       /\ \A d \in Clicks : click'[d] = IF d = c THEN y ELSE click[d]
  BY <1>1, <1>2, <1>8 DEF PageTypes
<1>11. told' \in BOOLEAN
  BY <1>2
<1>12. PageTypes'
  BY <1>1, <1>2, <1>5, <1>6, <1>7, <1>10, <1>11 DEF PageTypes
<1>13. load[c].state = "idle"
  BY <1>1, <1>4 DEF PagePairOK
<1>14. \A d \in Clicks : PageClickOK(click'[d], page') /\ PagePairOK(load'[d], click'[d])
  BY <1>2, <1>9, <1>10, <1>13 DEF PageIInv, PagePairOK
<1>15. PageBusy(busy', click')
  BY <1>1, <1>7, <1>10 DEF PageBusy, x
<1>16. ~Quiet'
  BY <1>8, <1>10 DEF Quiet
<1>17. ShownIsSelected' /\ QuietIsCurrent'
  BY <1>2, <1>16 DEF ShownIsSelected, QuietIsCurrent, PageIInv
<1>18. ASSUME ~crossed
       PROVE  /\ PageOne(load', click', switches', selected')
              /\ PageRead(load', rows'[selected'])
  <2>1. PageOne(load, click, switches, selected)
    BY <1>18 DEF PageIInv
  <2>2. \A l \in Loaders : ~PageActive(load[l]) /\ load[l].state # "answered"
    BY <1>4, <1>18, PageOnly DEF PageActive, x
  <2>3. PageOne(load', click', switches', selected')
    BY <2>1, <2>2, <1>1, <1>2, <1>4, <1>8, <1>10, PageNames DEF PageOne, PageTypes, x
  <2>4. PageRead(load', rows'[selected'])
    BY <2>2, <1>2 DEF PageRead
  <2> QED
    BY <2>3, <2>4
<1>19. page.catchesWrites => PageTells(click', told')
  BY <1>2 DEF PageTells
<1> QED
  BY <1>1, <1>2, <1>12, <1>14, <1>15, <1>17, <1>18, <1>19 DEF PageIInv

LEMMA PageGivesUp ==
    ASSUME PageIInv, NEW c \in Clicks, EndFailed(c)
    PROVE  PageIInv'
<1>1. /\ PageTypes /\ PageBusy(busy, click) /\ PagePairOK(load[c], click[c])
  BY DEF PageIInv
<1>2. /\ click[c].state = "failed"
      /\ click' = [click EXCEPT ![c] = NoClick]
      /\ UNCHANGED <<page, selected, switches, rows, load, busy, shown, told, crossed,
                     others, presses, changes, faults>>
  BY DEF EndFailed
<1>3. /\ click' \in [Clicks -> PageClickRec]
      /\ \A d \in Clicks : click'[d] = IF d = c THEN NoClick ELSE click[d]
  BY <1>1, <1>2, PageEmpty DEF PageTypes
<1>4. PageTypes'
  BY <1>1, <1>2, <1>3 DEF PageTypes
<1>5. load[c].state = "idle"
  BY <1>1, <1>2 DEF PagePairOK
<1>6. \A d \in Clicks : PageClickOK(click'[d], page') /\ PagePairOK(load'[d], click'[d])
  BY <1>2, <1>3, <1>5, PageEmpty DEF PageIInv, PagePairOK
<1>7. PageBusy(busy', click')
  BY <1>1, <1>2, <1>3 DEF PageBusy
<1>8. /\ ~crossed => PageOne(load', click', switches', selected')
      /\ page.catchesWrites /\ ~crossed => PageTells(click', told')
  BY <1>2, <1>3, PageEmpty DEF PageIInv, PageOne, PageTells
<1>9. QuietIsCurrent'
  BY <1>2 DEF PageIInv, PageTells, QuietIsCurrent
<1>10. ShownIsSelected'
  BY <1>2 DEF PageIInv, ShownIsSelected
<1> QED
  BY <1>2, <1>4, <1>6, <1>7, <1>8, <1>9, <1>10 DEF PageIInv

LEMMA PageChanges ==
    ASSUME PageIInv, NEW t \in Tenants, NEW r \in Rows, ChangeRow(t, r)
    PROVE  PageIInv'
<1>1. PageTypes
  BY DEF PageIInv
<1>2. /\ changes' = changes + 1
      /\ rows' = [rows EXCEPT ![t][r] = ~@]
      /\ others' = TRUE
      /\ UNCHANGED <<page, selected, switches, load, click, busy, shown, told, crossed,
                     faults, presses>>
  BY DEF ChangeRow
<1>3. PageTypes'
  BY <1>1, <1>2 DEF PageTypes
<1>4. QuietIsCurrent' /\ ShownIsSelected'
  BY <1>2 DEF PageIInv, QuietIsCurrent, ShownIsSelected
<1> QED
  BY <1>2, <1>3, <1>4 DEF PageIInv

LEMMA PageStays == PageIInv /\ [PageNext]_pageVars => PageIInv'
<1> SUFFICES ASSUME PageIInv, [PageNext]_pageVars PROVE PageIInv'
  OBVIOUS
<1>1. CASE UNCHANGED pageVars
  <2>1. UNCHANGED <<page, selected, switches, rows, load, click, busy, shown, told, crossed,
                    others, presses, changes, faults>>
    BY <1>1 DEF pageVars
  <2>2. PageTypes' /\ ShownIsSelected' /\ QuietIsCurrent'
    BY <2>1 DEF PageIInv, PageTypes, ShownIsSelected, QuietIsCurrent, Quiet
  <2> QED
    BY <2>1, <2>2 DEF PageIInv
<1>2. CASE PageRests
  BY <1>1, <1>2 DEF PageRests
<1> QED
  BY <1>1, <1>2, PageSelects, PageAnswers, PageShows, PageErrs, PagePresses, PageApplies,
     PageCatches, PageGivesUp, PageChanges DEF PageNext

LEMMA PageWritesOwn ==
    ASSUME PageIInv, [PageNext]_pageVars, NEW t \in Tenants, rows'[t] # rows[t]
    PROVE  \/ changes' # changes
           \/ \E c \in Clicks : click[c].as = t /\ click[c].left # {}
<1>1. PageTypes
  BY DEF PageIInv
<1>2. PageNext /\ rows' # rows
  BY DEF pageVars
<1>3. ASSUME NEW u \in Tenants, NEW r \in Rows, ChangeRow(u, r)
      PROVE  changes' # changes
  BY <1>1, <1>3 DEF ChangeRow, PageTypes
<1>4. ASSUME NEW c \in Clicks, NEW r \in Rows, ApplyWrite(c, r) \/ LoseWrite(c, r)
      PROVE  click[c].as = t /\ click[c].left # {}
  <2>1. /\ r \in click[c].left /\ click[c].of = click[c].as
        /\ rows' = [rows EXCEPT ![click[c].of][r] = click[c].to]
    BY <1>2, <1>4 DEF ApplyWrite, LoseWrite, Accepted
  <2>2. \A u \in Tenants : u # click[c].of => rows'[u] = rows[u]
    BY <2>1, <1>1 DEF PageTypes
  <2> QED
    BY <2>1, <2>2
<1>5. \/ \E u \in Tenants, r \in Rows : ChangeRow(u, r)
      \/ \E c \in Clicks, r \in Rows : ApplyWrite(c, r) \/ LoseWrite(c, r)
  BY <1>2 DEF PageNext, SelectTenant, AnswerLoad, FailLoad, ShowLoaded, ShowLoadError,
     AllowAll, EndFailed, Toggle, SettleRow, Add, Begin, RefuseWrite, PageRests, pageVars
<1> QED
  BY <1>3, <1>4, <1>5

\* Of a page that lists, for any number of tenants, rows, handlers and failures:
\* it shows rows of the selected tenant, shows what is stored once it is quiet,
\* and changes rows of no other tenant.
THEOREM ListCorrect == PageSpec => ListRules
<1>1. PageIInv /\ [PageNext]_pageVars =>
        [\A t \in Tenants :
            rows'[t] # rows[t] =>
               \/ changes' # changes
               \/ \E c \in Clicks : click[c].as = t /\ click[c].left # {}]_pageVars
  BY PageWritesOwn
<1>2. PageIInv => PageTypeOK /\ ShownIsSelected /\ QuietIsCurrent
  BY PageInvTypes DEF PageIInv
<1> QED
  BY <1>1, <1>2, PageStart, PageStays, PTL DEF PageSpec, ListRules, OwnTenantOnly

-----------------------------------------------------------------------------
(***************************************************************************)
(* ServerForm.  What a press of the button has written so far is there     *)
(* when it goes on, and every press that ended early is counted.           *)
(***************************************************************************)

FormSteps == {"idle", "app", "list", "server", "secret", "client", "done"}

\* The server has been saved.
Saved == {"secret", "client", "done"}

SaveRec == [step : FormSteps, server : Ids \cup {0}, method : Methods \cup {Nothing},
            link : BOOLEAN, chosen : {"own", "new", "shared"}, entered : SUBSET Kinds,
            known : Methods \cup {Nothing}, knownClient : BOOLEAN]

Present == {i \in Ids : servers[i] # Nothing}

FormTypes ==
    /\ mode \in {"create", "edit"}
    /\ method \in Methods
    /\ choice \in {"own", "new", "shared"}
    /\ selectable \in BOOLEAN
    /\ known \in Methods \cup {Nothing}
    /\ knownClient \in BOOLEAN
    /\ listed \in {"asked", "failed", "none"}
    /\ save \in SaveRec
    /\ servers \in [Ids -> Methods \cup {Nothing}]
    /\ vault \in [Ids \X Kinds -> Kinds \cup {Nothing}]
    /\ apps \in 0..MaxApps
    /\ linked \subseteq Present
    /\ failed \in Nat
    /\ lost \in Nat
    /\ blind \in BOOLEAN
    /\ unlisted \in BOOLEAN
    /\ meddled \in BOOLEAN

\* What the form knows: secrets of the method it shows once they are listed, and
\* the shared app it has chosen unless the apps could not be listed.
FormKnows ==
    /\ mode = "create" => known = Nothing /\ listed = "none"
    /\ mode = "edit" => servers[1] # Nothing
    /\ listed = "none" => known \in {method, Nothing}
    /\ selectable \/ unlisted \/ save.step = "list"

\* What a press goes by.
PressKnows ==
    save.step # "idle" =>
        /\ save.method \in Methods
        /\ save.known \in {save.method, Nothing} \/ blind
        /\ save.chosen = "own" \/ save.link \/ unlisted
        /\ save.step \in {"app", "list", "server"} =>
              save.server = IF mode = "edit" THEN 1 ELSE 0

\* What a press has written.
PressWrote ==
    /\ save.step \in Saved =>
          /\ save.server \in Ids
          /\ servers[save.server] = save.method
          /\ save.chosen = "own" \/ save.server \in linked \/ unlisted
    /\ save.step = "secret" => save.method \in save.entered
    /\ save.step = "client" =>
          save.method = "oauth" /\ "client" \in save.entered /\ ~save.link
    /\ save.step \in {"client", "done"} /\ save.method \in save.entered =>
          vault[<<save.server, save.method>>] = save.method \/ blind \/ meddled
    /\ /\ save.step = "done" /\ save.method = "oauth"
       /\ "client" \in save.entered /\ ~save.link
       => vault[<<save.server, "client">>] = "client" \/ meddled

VaultOK ==
    \A i \in Ids, k \in Kinds :
        /\ vault[<<i, k>>] # Nothing => servers[i] # Nothing
        /\ vault[<<i, k>>] \in {k, Nothing} \/ blind

\* A press that has saved its server, or edits one, has one that no failure
\* accounts for; an app, once it was made, is not made again.
FormCounts ==
    /\ Cardinality(Present) <=
          failed + (IF mode = "edit" \/ save.step \in Saved THEN 1 ELSE 0)
    /\ apps <= 1 + lost
    /\ choice = "new" => apps <= lost
    /\ save.step = "app" => choice = "new"

FormIInv ==
    /\ FormTypes
    /\ FormKnows
    /\ PressKnows
    /\ PressWrote
    /\ VaultOK
    /\ FormCounts

LEMMA FormNumbers ==
    /\ {MaxServers, MaxApps} \subseteq Nat /\ 1 \in Ids /\ Ids \subseteq Nat
    /\ 0 \notin Ids
  BY ServerFormAssumption DEF Ids

LEMMA PresentFinite == IsFiniteSet(Present) /\ Cardinality(Present) \in Nat
<1>1. IsFiniteSet(Ids)
  BY FormNumbers, FS_Interval DEF Ids
<1>2. Present \subseteq Ids
  BY DEF Present
<1>3. IsFiniteSet(Present)
  BY <1>1, <1>2, FS_Subset
<1> QED
  BY <1>3, FS_CardinalityType

LEMMA NoSaveIs ==
    NoSave \in SaveRec /\ NoSave.step = "idle"
  BY DEF NoSave, SaveRec, FormSteps, Kinds

LEMMA FormGood == ASSUME FormIInv PROVE FormRules
<1>1. Cardinality(Present) \in Nat
  BY PresentFinite
<1>2. FormTypeOK
  BY DEF FormIInv, FormTypes, PressWrote, VaultOK, FormTypeOK, SaveRec, FormSteps,
         Saved, Present
<1>3. HoldsItsKind
  BY DEF FormIInv, VaultOK, HoldsItsKind
<1>4. DoneIsStored
  BY DEF FormIInv, PressWrote, Saved, DoneIsStored
<1>5. DoneIsLinked
  BY DEF FormIInv, PressWrote, Saved, DoneIsLinked
<1>6. OneForEachFailure
  <2>1. Cardinality(Present) <= 1 + failed
    BY <1>1 DEF FormIInv, FormCounts, FormTypes
  <2> QED
    BY <2>1 DEF Present, OneForEachFailure, FormIInv, FormCounts
<1> QED
  BY <1>2, <1>3, <1>4, <1>5, <1>6 DEF FormRules

LEMMA FormStart == ASSUME FormInit PROVE FormIInv
<1>1. FormTypes
  <2>1. linked \subseteq Present
    BY FormNumbers DEF FormInit, Present
  <2>2. apps \in 0..MaxApps /\ failed \in Nat /\ lost \in Nat
    <3>1. apps = 0 /\ failed = 0 /\ lost = 0
      BY DEF FormInit
    <3> QED
      BY <3>1, FormNumbers
  <2>3. /\ known \in Methods \cup {Nothing} /\ knownClient \in BOOLEAN
        /\ listed \in {"asked", "failed", "none"} /\ save \in SaveRec
    BY NoSaveIs DEF FormInit
  <2>4. /\ selectable \in BOOLEAN /\ unlisted \in BOOLEAN
        /\ blind \in BOOLEAN /\ meddled \in BOOLEAN
    BY DEF FormInit
  <2> QED
    BY <2>1, <2>2, <2>3, <2>4 DEF FormInit, FormTypes
<1>2. FormKnows
  BY FormNumbers DEF FormInit, FormKnows
<1>3. PressKnows /\ PressWrote
  BY NoSaveIs DEF FormInit, PressKnows, PressWrote, Saved
<1>4. VaultOK
  BY DEF FormInit, VaultOK
<1>5. Cardinality(Present) <= IF mode = "edit" THEN 1 ELSE 0
  <2>1. Present = IF mode = "edit" THEN {1} ELSE {}
    BY FormNumbers DEF FormInit, Present
  <2>2. Cardinality({1}) = 1 /\ Cardinality({}) = 0
    BY FS_Singleton, FS_EmptySet
  <2> QED
    BY <2>1, <2>2
<1>6. FormCounts
  BY <1>5, NoSaveIs DEF FormInit, FormCounts, Saved
<1> QED
  BY <1>1, <1>2, <1>3, <1>4, <1>6 DEF FormIInv

\* Only what the form shows and knows changes.
LEMMA FormShows ==
  ASSUME FormIInv, ChangeMethod \/ AnswerListing \/ FailListing
  PROVE  FormIInv'
<1>1. UNCHANGED <<mode, choice, selectable, save, servers, vault, apps, linked, failed,
                  lost, blind, unlisted, meddled>>
  BY DEF ChangeMethod, AnswerListing, FailListing
<1>2. /\ method' \in Methods /\ known' \in Methods \cup {Nothing}
      /\ knownClient' \in BOOLEAN /\ listed' \in {"asked", "failed", "none"}
      /\ mode = "create" => known' = Nothing /\ listed' = "none"
      /\ listed' = "none" => known' \in {method', Nothing}
  <2>1. CASE ChangeMethod
    BY <2>1 DEF ChangeMethod, FormIInv, FormTypes, FormKnows
  <2>2. CASE AnswerListing
    BY <2>2 DEF AnswerListing, Listed, FormIInv, FormTypes, FormKnows
  <2>3. CASE FailListing
    BY <2>3 DEF FailListing, FormIInv, FormTypes, FormKnows
  <2> QED
    BY <2>1, <2>2, <2>3
<1>3. Present' = Present
  BY <1>1 DEF Present
<1>4. FormTypes'
  BY <1>1, <1>2, <1>3 DEF FormIInv, FormTypes
<1>5. FormKnows'
  BY <1>1, <1>2 DEF FormIInv, FormKnows
<1>6. PressKnows' /\ PressWrote'
  BY <1>1 DEF FormIInv, PressKnows, PressWrote
<1>7. VaultOK' /\ FormCounts'
  BY <1>1, <1>3 DEF FormIInv, VaultOK, FormCounts
<1> QED
  BY <1>4, <1>5, <1>6, <1>7 DEF FormIInv

LEMMA SubmitStays ==
  ASSUME FormIInv, NEW entered \in SUBSET {method, "client"}, Submit(entered)
  PROVE  FormIInv'
<1>1. /\ save.step = "idle"
      /\ mode = "create" /\ method = "api_key" => "api_key" \in entered
      /\ save' = [step |-> IF Chosen = "new" THEN "app" ELSE "server",
                  server |-> IF mode = "edit" THEN 1 ELSE 0, method |-> method,
                  link |-> Chosen = "new" \/ (Chosen = "shared" /\ selectable),
                  chosen |-> Chosen, entered |-> entered,
                  known |-> known, knownClient |-> knownClient]
      /\ blind' = (blind \/ listed # "none")
      /\ UNCHANGED <<mode, method, choice, selectable, known, knownClient, listed,
                     servers, vault, apps, linked, failed, lost, unlisted, meddled>>
  BY DEF Submit
<1>2. Present' = Present
  BY <1>1 DEF Present
<1>3. /\ method \in Methods /\ entered \subseteq Kinds
      /\ Chosen \in {"own", "new", "shared"} /\ (Chosen = "new" => choice = "new")
  BY DEF FormIInv, FormTypes, Chosen, Kinds
<1>4. save' \in SaveRec
  <2> DEFINE link == Chosen = "new" \/ (Chosen = "shared" /\ selectable)
             step == IF Chosen = "new" THEN "app" ELSE "server"
             server == IF mode = "edit" THEN 1 ELSE 0
  <2>1. link \in BOOLEAN /\ step \in FormSteps /\ server \in Ids \cup {0}
    BY FormNumbers DEF FormSteps
  <2>2. known \in Methods \cup {Nothing} /\ knownClient \in BOOLEAN
    BY DEF FormIInv, FormTypes
  <2> HIDE DEF link, step, server
  <2>3. save' = [step |-> step, server |-> server, method |-> method, link |-> link,
                 chosen |-> Chosen, entered |-> entered, known |-> known,
                 knownClient |-> knownClient]
    BY <1>1 DEF link, step, server
  <2> QED
    BY <2>1, <2>2, <2>3, <1>3 DEF SaveRec
<1>5. FormTypes'
  BY <1>1, <1>2, <1>4 DEF FormIInv, FormTypes
<1>6. FormKnows'
  BY <1>1 DEF FormIInv, FormKnows
<1>7. PressKnows'
  BY <1>1, <1>3 DEF FormIInv, FormKnows, PressKnows
<1>8. PressWrote'
  BY <1>1 DEF PressWrote, Saved
<1>9. VaultOK'
  BY <1>1 DEF FormIInv, VaultOK
<1>10. FormCounts'
  BY <1>1, <1>2, <1>3 DEF FormIInv, FormCounts, Saved
<1> QED
  BY <1>5, <1>6, <1>7, <1>8, <1>9, <1>10 DEF FormIInv

LEMMA CreateAppStays == ASSUME FormIInv, CreateApp PROVE FormIInv'
<1>1. /\ save.step = "app" /\ apps < MaxApps /\ apps' = apps + 1
      /\ choice' = "shared" /\ selectable' = FALSE
      /\ save' = [save EXCEPT !.step = "list"]
      /\ UNCHANGED <<mode, method, known, knownClient, listed, servers, vault, linked,
                     failed, lost, blind, unlisted, meddled>>
  BY DEF CreateApp
<1>2. Present' = Present
  BY <1>1 DEF Present
<1>3. save' \in SaveRec /\ save'.step = "list"
  BY <1>1 DEF FormIInv, FormTypes, SaveRec, FormSteps
<1>4. FormTypes'
  <2>1. apps' \in 0..MaxApps
    BY <1>1, FormNumbers DEF FormIInv, FormTypes
  <2> QED
    BY <1>1, <1>2, <1>3, <2>1 DEF FormIInv, FormTypes
<1>5. FormKnows'
  BY <1>1, <1>3 DEF FormIInv, FormKnows
<1>6. PressKnows'
  BY <1>1 DEF FormIInv, PressKnows, FormTypes, SaveRec
<1>7. PressWrote'
  BY <1>3 DEF PressWrote, Saved
<1>8. VaultOK'
  BY <1>1 DEF FormIInv, VaultOK
<1>9. FormCounts'
  BY <1>1, <1>2, <1>3 DEF FormIInv, FormCounts, FormTypes, Saved
<1> QED
  BY <1>4, <1>5, <1>6, <1>7, <1>8, <1>9 DEF FormIInv

\* The shared apps are listed, or are not.
LEMMA ListAppsStays == ASSUME FormIInv, ListApps \/ FailListApps PROVE FormIInv'
<1>1. /\ save.step = "list" /\ save' \in {NoSave, [save EXCEPT !.step = "server"]}
      /\ selectable' \/ unlisted'
      /\ unlisted => unlisted'
      /\ UNCHANGED <<mode, method, choice, known, knownClient, listed, servers, vault,
                     apps, linked, lost, blind, meddled>>
  BY DEF ListApps, FailListApps
<1>2. Present' = Present
  BY <1>1 DEF Present
<1>3. /\ save' \in SaveRec /\ save'.step \in {"idle", "server"}
      /\ save'.step = "server" => save' = [save EXCEPT !.step = "server"]
  BY <1>1, NoSaveIs DEF FormIInv, FormTypes, SaveRec, FormSteps
<1>4. failed' \in Nat /\ failed <= failed'
  BY DEF ListApps, FailListApps, FormIInv, FormTypes
<1>5. selectable' \in BOOLEAN /\ unlisted' \in BOOLEAN
  BY DEF ListApps, FailListApps, FormIInv, FormTypes
<1>6. FormTypes'
  BY <1>1, <1>2, <1>3, <1>4, <1>5 DEF FormIInv, FormTypes
<1>7. FormKnows'
  BY <1>1 DEF FormIInv, FormKnows
<1>8. PressKnows'
  BY <1>1, <1>3 DEF FormIInv, PressKnows, FormTypes, SaveRec
<1>9. PressWrote'
  BY <1>3 DEF PressWrote, Saved
<1>10. VaultOK'
  BY <1>1 DEF FormIInv, VaultOK
<1>11. Cardinality(Present') <= failed' + (IF mode = "edit" THEN 1 ELSE 0)
  BY <1>1, <1>2, <1>4, PresentFinite DEF FormIInv, FormCounts, FormTypes, Saved
<1>12. FormCounts'
  BY <1>1, <1>2, <1>3, <1>11 DEF FormIInv, FormCounts, Saved
<1> QED
  BY <1>6, <1>7, <1>8, <1>9, <1>10, <1>12 DEF FormIInv

LEMMA ServerWritten ==
  ASSUME FormIInv, save.step = "server", NEW i \in Ids, WriteServer(i)
  PROVE  /\ servers' \in [Ids -> Methods \cup {Nothing}]
         /\ servers'[i] = save.method
         /\ \A j \in Ids : servers[j] # Nothing => servers'[j] # Nothing
         /\ linked' \subseteq Present' /\ (save.link => i \in linked')
         /\ Cardinality(Present') \in Nat
         /\ Cardinality(Present') <=
               Cardinality(Present) + (IF mode = "edit" THEN 0 ELSE 1)
<1>1. /\ servers' = [servers EXCEPT ![i] = save.method]
      /\ linked' = IF save.link THEN linked \cup {i} ELSE linked \ {i}
      /\ IF save.server = 0 THEN servers[i] = Nothing ELSE i = save.server
  BY DEF WriteServer
<1>2. save.method \in Methods /\ Nothing \notin Methods
  BY DEF FormIInv, PressKnows, Methods, Nothing
<1>3. /\ servers' \in [Ids -> Methods \cup {Nothing}]
      /\ \A j \in Ids : servers'[j] = IF j = i THEN save.method ELSE servers[j]
  BY <1>1, <1>2 DEF FormIInv, FormTypes
<1>4. Present' = Present \cup {i}
  BY <1>2, <1>3 DEF Present
<1>5. linked' \subseteq Present' /\ (save.link => i \in linked')
  BY <1>1, <1>4 DEF FormIInv, FormTypes
<1>6. mode = "edit" => i \in Present
  <2> SUFFICES ASSUME mode = "edit" PROVE i \in Present
    OBVIOUS
  <2>1. save.server = 1 /\ servers[1] # Nothing
    BY DEF FormIInv, PressKnows, FormKnows
  <2> QED
    BY <1>1, <2>1, FormNumbers DEF Present
<1>7. /\ Cardinality(Present') \in Nat
      /\ Cardinality(Present') = Cardinality(Present) + (IF i \in Present THEN 0 ELSE 1)
  BY <1>4, PresentFinite, FS_AddElement
<1>8. Cardinality(Present') <= Cardinality(Present) + (IF mode = "edit" THEN 0 ELSE 1)
  BY <1>6, <1>7, PresentFinite
<1> QED
  BY <1>2, <1>3, <1>5, <1>7, <1>8

LEMMA SaveServerStays == ASSUME FormIInv, SaveServer PROVE FormIInv'
<1>1. PICK i \in Ids :
         WriteServer(i) /\ save' = [save EXCEPT !.server = i, !.step = AfterServer(save)]
  BY DEF SaveServer
<1>2. /\ save.step = "server"
      /\ UNCHANGED <<mode, method, choice, selectable, known, knownClient, listed,
                     vault, apps, failed, lost, blind, unlisted, meddled>>
  BY DEF SaveServer
<1>3. /\ servers' \in [Ids -> Methods \cup {Nothing}]
      /\ servers'[i] = save.method
      /\ \A j \in Ids : servers[j] # Nothing => servers'[j] # Nothing
      /\ linked' \subseteq Present' /\ (save.link => i \in linked')
      /\ Cardinality(Present') \in Nat
      /\ Cardinality(Present') <=
            Cardinality(Present) + (IF mode = "edit" THEN 0 ELSE 1)
  BY <1>1, <1>2, ServerWritten
<1>4. save \in SaveRec /\ AfterServer(save) \in Saved
  BY DEF FormIInv, FormTypes, AfterServer, Saved
<1>5. /\ save' \in SaveRec /\ save'.step = AfterServer(save) /\ save'.server = i
      /\ save'.method = save.method /\ save'.link = save.link
      /\ save'.chosen = save.chosen /\ save'.entered = save.entered
      /\ save'.known = save.known
  <2> DEFINE step == AfterServer(save)
  <2>1. step \in FormSteps
    BY <1>4 DEF Saved, FormSteps
  <2> HIDE DEF step
  <2>2. save' = [save EXCEPT !.server = i, !.step = step]
    BY <1>1 DEF step
  <2>3. /\ save' \in SaveRec /\ save'.step = step /\ save'.server = i
        /\ save'.method = save.method /\ save'.link = save.link
        /\ save'.chosen = save.chosen /\ save'.entered = save.entered
        /\ save'.known = save.known
    BY <2>1, <2>2, <1>4 DEF SaveRec
  <2> QED
    BY <2>3 DEF step
<1>6. FormTypes'
  BY <1>2, <1>3, <1>5 DEF FormIInv, FormTypes
<1>7. FormKnows'
  BY <1>2, <1>3, FormNumbers DEF FormIInv, FormKnows
<1>8. PressKnows'
  BY <1>2, <1>4, <1>5 DEF FormIInv, PressKnows, Saved
<1>9. PressWrote'
  <2>1. save.chosen = "own" \/ i \in linked' \/ unlisted
    BY <1>2, <1>3 DEF FormIInv, PressKnows
  <2>2. /\ AfterServer(save) = "secret" => save.method \in save.entered
        /\ AfterServer(save) = "client" =>
              save.method = "oauth" /\ "client" \in save.entered /\ ~save.link
        /\ AfterServer(save) \in {"client", "done"} => save.method \notin save.entered
        /\ AfterServer(save) = "done" =>
              ~(save.method = "oauth" /\ ~save.link /\ "client" \in save.entered)
    BY DEF AfterServer
  <2> QED
    BY <1>2, <1>3, <1>5, <2>1, <2>2 DEF PressWrote
<1>10. VaultOK'
  BY <1>2, <1>3 DEF FormIInv, VaultOK
<1>11. FormCounts'
  <2>1. Cardinality(Present) <= failed + (IF mode = "edit" THEN 1 ELSE 0)
    BY <1>2 DEF FormIInv, FormCounts, Saved
  <2>2. Cardinality(Present') <= failed + 1
    BY <1>3, <2>1, PresentFinite DEF FormIInv, FormTypes
  <2> QED
    BY <1>2, <1>4, <1>5, <2>2 DEF FormIInv, FormCounts, Saved
<1> QED
  BY <1>6, <1>7, <1>8, <1>9, <1>10, <1>11 DEF FormIInv

\* A press that ends early has failed once more than before.
LEMMA FailsStays ==
  ASSUME FormIInv, save' = NoSave, failed' = failed + 1, selectable \/ unlisted,
         apps' \in 0..MaxApps, lost' \in Nat, apps' - lost' <= apps - lost,
         servers' \in [Ids -> Methods \cup {Nothing}],
         \A j \in Ids : servers[j] # Nothing => servers'[j] # Nothing,
         linked' \subseteq Present', Cardinality(Present') \in Nat,
         \/ Present' = Present
         \/ /\ save.step = "server"
            /\ Cardinality(Present') <=
                  Cardinality(Present) + (IF mode = "edit" THEN 0 ELSE 1),
         UNCHANGED <<mode, method, choice, selectable, known, knownClient, listed,
                     vault, blind, unlisted, meddled>>
  PROVE  FormIInv'
<1>1. save' \in SaveRec /\ save'.step = "idle" /\ "idle" \notin Saved
  BY NoSaveIs DEF Saved
<1>2. FormTypes'
  BY <1>1 DEF FormIInv, FormTypes
<1>3. FormKnows'
  BY FormNumbers DEF FormIInv, FormKnows
<1>4. PressKnows' /\ PressWrote'
  BY <1>1 DEF PressKnows, PressWrote
<1>5. VaultOK'
  BY DEF FormIInv, VaultOK
<1>6. Cardinality(Present') <= failed' + (IF mode = "edit" THEN 1 ELSE 0)
  BY PresentFinite DEF FormIInv, FormCounts, FormTypes, Saved
<1>7. apps' <= 1 + lost' /\ (choice' = "new" => apps' <= lost')
  <2>1. apps <= 1 + lost /\ (choice = "new" => apps <= lost)
    BY DEF FormIInv, FormCounts
  <2>2. apps \in Int /\ lost \in Int /\ apps' \in Int /\ lost' \in Int
    BY FormNumbers DEF FormIInv, FormTypes
  <2> DEFINE a == apps  b == lost  c == apps'  d == lost'
  <2>3. /\ a \in Int /\ b \in Int /\ c \in Int /\ d \in Int
        /\ c - d <= a - b /\ a <= 1 + b
    BY <2>1, <2>2
  <2> HIDE DEF a, b, c, d
  <2>4. c <= 1 + d /\ (a <= b => c <= d)
    BY <2>3
  <2> QED
    BY <2>1, <2>4 DEF a, b, c, d
<1>8. FormCounts'
  BY <1>1, <1>6, <1>7 DEF FormCounts
<1> QED
  BY <1>2, <1>3, <1>4, <1>5, <1>8 DEF FormIInv

LEMMA FailureStays == ASSUME FormIInv, RefuseSecret \/ LoseRequest PROVE FormIInv'
<1>1. /\ save' = NoSave /\ failed' = failed + 1
      /\ save.step \in {"app", "server", "secret", "client"}
      /\ UNCHANGED <<mode, method, choice, selectable, known, knownClient, listed,
                     vault, blind, unlisted, meddled>>
  BY DEF RefuseSecret, LoseRequest
<1>2. selectable \/ unlisted
  BY <1>1 DEF FormIInv, FormKnows
<1>3. /\ apps \in 0..MaxApps /\ lost \in Nat /\ linked \subseteq Present
      /\ servers \in [Ids -> Methods \cup {Nothing}]
  BY DEF FormIInv, FormTypes
<1>4. CASE UNCHANGED <<apps, servers, linked, lost>>
  <2>1. Present' = Present
    BY <1>4 DEF Present
  <2> QED
    BY <1>1, <1>2, <1>3, <1>4, <2>1, PresentFinite, FailsStays, FormNumbers
<1>5. CASE /\ save.step = "app" /\ apps < MaxApps
           /\ apps' = apps + 1 /\ lost' = lost + 1
           /\ UNCHANGED <<servers, linked>>
  <2>1. Present' = Present
    BY <1>5 DEF Present
  <2>2. apps' \in 0..MaxApps /\ lost' \in Nat /\ apps' - lost' <= apps - lost
    BY <1>3, <1>5, FormNumbers
  <2> QED
    BY <1>1, <1>2, <1>3, <1>5, <2>1, <2>2, PresentFinite, FailsStays
<1>6. CASE save.step = "server" /\ UNCHANGED <<apps, lost>> /\ \E i \in Ids : WriteServer(i)
  <2>1. PICK i \in Ids : WriteServer(i)
    BY <1>6
  <2>2. /\ servers' \in [Ids -> Methods \cup {Nothing}]
        /\ \A j \in Ids : servers[j] # Nothing => servers'[j] # Nothing
        /\ linked' \subseteq Present' /\ Cardinality(Present') \in Nat
        /\ Cardinality(Present') <=
              Cardinality(Present) + (IF mode = "edit" THEN 0 ELSE 1)
    BY <1>6, <2>1, ServerWritten
  <2>3. apps' \in 0..MaxApps /\ lost' \in Nat /\ apps' - lost' <= apps - lost
    BY <1>3, <1>6, FormNumbers
  <2> QED
    BY <1>1, <1>2, <1>6, <2>2, <2>3, FailsStays
<1> QED
  BY <1>4, <1>5, <1>6 DEF RefuseSecret, LoseRequest

\* A secret is stored, in the row of its kind unless the press was blind.
LEMMA SecretStored ==
  ASSUME FormIInv, save.step \in Saved, NEW id \in Kinds \cup {Nothing},
         NEW kind \in Kinds, id \in {kind, Nothing} \/ blind, vault' = Stored(id, kind)
  PROVE  /\ vault' \in [Ids \X Kinds -> Kinds \cup {Nothing}]
         /\ id \in {kind, Nothing} => vault'[<<save.server, kind>>] = kind
         /\ \A i \in Ids, k \in Kinds :
               /\ vault'[<<i, k>>] # Nothing => servers[i] # Nothing
               /\ vault'[<<i, k>>] \in {k, Nothing} \/ blind
         /\ \A k \in Kinds : k # kind /\ k # id =>
               vault'[<<save.server, k>>] = vault[<<save.server, k>>]
<1> DEFINE row == IF id = Nothing THEN kind ELSE id
<1>1. /\ vault' = [vault EXCEPT ![<<save.server, row>>] = kind]
      /\ row \in Kinds /\ Nothing \notin Kinds
  BY DEF Stored, Kinds, Methods, Nothing
<1>2. /\ save.server \in Ids /\ servers[save.server] # Nothing
      /\ vault \in [Ids \X Kinds -> Kinds \cup {Nothing}]
      /\ \A i \in Ids, k \in Kinds :
            /\ vault[<<i, k>>] # Nothing => servers[i] # Nothing
            /\ vault[<<i, k>>] \in {k, Nothing} \/ blind
  <2>1. save.method # Nothing
    BY DEF FormIInv, PressKnows, Methods, Nothing, Saved
  <2> QED
    BY <2>1 DEF FormIInv, PressWrote, VaultOK, FormTypes
<1>3. id \in {kind, Nothing} => row = kind
  OBVIOUS
<1>4. row = kind \/ row = id
  OBVIOUS
<1> HIDE DEF row
<1>5. vault' \in [Ids \X Kinds -> Kinds \cup {Nothing}]
  BY <1>1, <1>2
<1>6. \A i \in Ids, k \in Kinds :
         vault'[<<i, k>>] = IF i = save.server /\ k = row THEN kind ELSE vault[<<i, k>>]
  <2> SUFFICES ASSUME NEW i \in Ids, NEW k \in Kinds
               PROVE  vault'[<<i, k>>] =
                        IF i = save.server /\ k = row THEN kind ELSE vault[<<i, k>>]
    OBVIOUS
  <2>1. <<i, k>> \in Ids \X Kinds
    OBVIOUS
  <2>2. <<i, k>> = <<save.server, row>> <=> i = save.server /\ k = row
    OBVIOUS
  <2> QED
    BY <1>1, <1>2, <2>1, <2>2
<1>7. ASSUME NEW i \in Ids, NEW k \in Kinds
      PROVE  /\ vault'[<<i, k>>] # Nothing => servers[i] # Nothing
             /\ vault'[<<i, k>>] \in {k, Nothing} \/ blind
  <2>1. CASE i = save.server /\ k = row
    BY <1>2, <1>3, <1>6, <2>1
  <2>2. CASE ~(i = save.server /\ k = row)
    <3>1. vault'[<<i, k>>] = vault[<<i, k>>]
      BY <1>6, <2>2
    <3> QED
      BY <1>2, <3>1
  <2> QED
    BY <2>1, <2>2
<1> QED
  BY <1>1, <1>2, <1>3, <1>4, <1>5, <1>6, <1>7

LEMMA UpsertServerSecretStays == ASSUME FormIInv, UpsertServerSecret PROVE FormIInv'
<1>1. /\ save.step = "secret" /\ vault' = Stored(save.known, save.method)
      /\ save' = [save EXCEPT !.step = AfterSecret(save)]
      /\ UNCHANGED <<mode, method, choice, selectable, known, knownClient, listed,
                     servers, apps, linked, failed, lost, blind, unlisted, meddled>>
  BY DEF UpsertServerSecret
<1>2. /\ save \in SaveRec /\ save.method \in Methods
      /\ save.known \in {save.method, Nothing} \/ blind
      /\ save.method \in Kinds /\ save.known \in Kinds \cup {Nothing}
  BY <1>1 DEF FormIInv, FormTypes, PressKnows, SaveRec, Kinds
<1>3. AfterSecret(save) \in {"client", "done"}
  BY DEF AfterSecret
<1>4. /\ save' \in SaveRec /\ save'.step = AfterSecret(save)
      /\ save'.method = save.method /\ save'.link = save.link
      /\ save'.chosen = save.chosen /\ save'.entered = save.entered
      /\ save'.known = save.known /\ save'.server = save.server
  <2> DEFINE step == AfterSecret(save)
  <2>1. step \in FormSteps
    BY <1>3 DEF FormSteps
  <2> HIDE DEF step
  <2>2. save' = [save EXCEPT !.step = step]
    BY <1>1 DEF step
  <2>3. /\ save' \in SaveRec /\ save'.step = step
        /\ save'.method = save.method /\ save'.link = save.link
        /\ save'.chosen = save.chosen /\ save'.entered = save.entered
        /\ save'.known = save.known /\ save'.server = save.server
    BY <2>1, <2>2, <1>2 DEF SaveRec
  <2> QED
    BY <2>3 DEF step
<1>5. /\ vault' \in [Ids \X Kinds -> Kinds \cup {Nothing}]
      /\ vault'[<<save.server, save.method>>] = save.method \/ blind
      /\ \A i \in Ids, k \in Kinds :
            /\ vault'[<<i, k>>] # Nothing => servers[i] # Nothing
            /\ vault'[<<i, k>>] \in {k, Nothing} \/ blind
  <2> DEFINE id == save.known
             kind == save.method
  <2>1. id \in Kinds \cup {Nothing} /\ kind \in Kinds /\ vault' = Stored(id, kind)
    BY <1>1, <1>2
  <2>2. id \in {kind, Nothing} \/ blind
    BY <1>2
  <2>3. save.step \in Saved
    BY <1>1 DEF Saved
  <2> HIDE DEF id, kind
  <2>4. /\ vault' \in [Ids \X Kinds -> Kinds \cup {Nothing}]
        /\ id \in {kind, Nothing} => vault'[<<save.server, kind>>] = kind
        /\ \A i \in Ids, k \in Kinds :
              /\ vault'[<<i, k>>] # Nothing => servers[i] # Nothing
              /\ vault'[<<i, k>>] \in {k, Nothing} \/ blind
    BY <2>1, <2>2, <2>3, SecretStored
  <2> QED
    BY <2>2, <2>4 DEF kind
<1>6. Present' = Present
  BY <1>1 DEF Present
<1>7. FormTypes'
  BY <1>1, <1>4, <1>5, <1>6 DEF FormIInv, FormTypes
<1>8. FormKnows'
  BY <1>1 DEF FormIInv, FormKnows
<1>9. PressKnows'
  BY <1>1, <1>3, <1>4 DEF FormIInv, PressKnows
<1>10. PressWrote'
  <2>1. /\ save.server \in Ids
        /\ servers[save.server] = save.method
        /\ save.chosen = "own" \/ save.server \in linked \/ unlisted
    BY <1>1 DEF FormIInv, PressWrote, Saved
  <2>2. /\ AfterSecret(save) = "client" =>
              save.method = "oauth" /\ "client" \in save.entered /\ ~save.link
        /\ AfterSecret(save) = "done" =>
              ~(save.method = "oauth" /\ ~save.link /\ "client" \in save.entered)
    BY DEF AfterSecret
  <2> QED
    BY <1>1, <1>3, <1>4, <1>5, <2>1, <2>2 DEF PressWrote
<1>11. VaultOK'
  BY <1>1, <1>5 DEF VaultOK
<1>12. FormCounts'
  BY <1>1, <1>3, <1>4, <1>6 DEF FormIInv, FormCounts, Saved
<1> QED
  BY <1>7, <1>8, <1>9, <1>10, <1>11, <1>12 DEF FormIInv

LEMMA UpsertOauthAppSecretStays == ASSUME FormIInv, UpsertOauthAppSecret PROVE FormIInv'
<1>1. PICK id \in {"client", Nothing} : vault' = Stored(id, "client")
  BY DEF UpsertOauthAppSecret
<1>2. /\ save.step = "client" /\ save' = [save EXCEPT !.step = "done"]
      /\ UNCHANGED <<mode, method, choice, selectable, known, knownClient, listed,
                     servers, apps, linked, failed, lost, blind, unlisted, meddled>>
  BY DEF UpsertOauthAppSecret
<1>3. /\ save' \in SaveRec /\ save'.step = "done"
      /\ save'.method = save.method /\ save'.link = save.link
      /\ save'.chosen = save.chosen /\ save'.entered = save.entered
      /\ save'.known = save.known /\ save'.server = save.server
  BY <1>2 DEF FormIInv, FormTypes, SaveRec, FormSteps
<1>4. /\ vault' \in [Ids \X Kinds -> Kinds \cup {Nothing}]
      /\ vault'[<<save.server, "client">>] = "client"
      /\ \A i \in Ids, k \in Kinds :
            /\ vault'[<<i, k>>] # Nothing => servers[i] # Nothing
            /\ vault'[<<i, k>>] \in {k, Nothing} \/ blind
      /\ \A k \in Methods :
            vault'[<<save.server, k>>] = vault[<<save.server, k>>]
  <2>1. /\ save.step \in Saved /\ id \in Kinds \cup {Nothing} /\ "client" \in Kinds
        /\ \A k \in Methods : k \in Kinds /\ k # "client" /\ k # id
    BY <1>2 DEF Saved, Kinds, Methods, Nothing
  <2>2. /\ vault' \in [Ids \X Kinds -> Kinds \cup {Nothing}]
        /\ vault'[<<save.server, "client">>] = "client"
    BY <1>1, <2>1, SecretStored
  <2>3. \A i \in Ids, k \in Kinds :
           /\ vault'[<<i, k>>] # Nothing => servers[i] # Nothing
           /\ vault'[<<i, k>>] \in {k, Nothing} \/ blind
    BY <1>1, <2>1, SecretStored
  <2>4. \A k \in Kinds : k # "client" /\ k # id =>
           vault'[<<save.server, k>>] = vault[<<save.server, k>>]
    BY <1>1, <2>1, SecretStored
  <2> QED
    BY <2>1, <2>2, <2>3, <2>4
<1>5. Present' = Present
  BY <1>2 DEF Present
<1>6. FormTypes'
  BY <1>2, <1>3, <1>4, <1>5 DEF FormIInv, FormTypes
<1>7. FormKnows'
  BY <1>2 DEF FormIInv, FormKnows
<1>8. PressKnows'
  BY <1>2, <1>3 DEF FormIInv, PressKnows
<1>9. PressWrote'
  <2>1. save.method \in Methods
    BY <1>2 DEF FormIInv, PressKnows
  <2>2. save.method \in save.entered =>
           vault[<<save.server, save.method>>] = save.method \/ blind \/ meddled
    BY <1>2 DEF FormIInv, PressWrote
  <2>3. /\ save.server \in Ids
        /\ servers[save.server] = save.method
        /\ save.chosen = "own" \/ save.server \in linked \/ unlisted
    BY <1>2 DEF FormIInv, PressWrote, Saved
  <2> QED
    BY <1>2, <1>3, <1>4, <2>1, <2>2, <2>3 DEF PressWrote
<1>10. VaultOK'
  BY <1>2, <1>4 DEF VaultOK
<1>11. FormCounts'
  BY <1>2, <1>3, <1>5 DEF FormIInv, FormCounts, Saved
<1> QED
  BY <1>6, <1>7, <1>8, <1>9, <1>10, <1>11 DEF FormIInv

LEMMA MeddleStays == ASSUME FormIInv, NEW k \in Kinds, Meddle(k) PROVE FormIInv'
<1>1. /\ meddled' = TRUE /\ servers[1] # Nothing
      /\ vault' = [vault EXCEPT ![<<1, k>>] =
                     IF vault[<<1, k>>] = Nothing THEN k ELSE Nothing]
      /\ UNCHANGED <<mode, method, choice, selectable, known, knownClient, listed, save,
                     servers, apps, linked, failed, lost, blind, unlisted>>
  BY DEF Meddle
<1>2. vault \in [Ids \X Kinds -> Kinds \cup {Nothing}]
  BY DEF FormIInv, FormTypes
<1>3. vault' \in [Ids \X Kinds -> Kinds \cup {Nothing}]
  BY <1>1, <1>2
<1>4. ASSUME NEW i \in Ids, NEW j \in Kinds
      PROVE  /\ vault'[<<i, j>>] # Nothing => servers[i] # Nothing
             /\ vault'[<<i, j>>] \in {j, Nothing} \/ blind
  <2>1. /\ <<i, j>> \in Ids \X Kinds
        /\ <<i, j>> = <<1, k>> <=> i = 1 /\ j = k
    OBVIOUS
  <2>2. CASE i = 1 /\ j = k
    <3>1. vault'[<<i, j>>] \in {k, Nothing}
      BY <1>1, <1>2, <2>1, <2>2
    <3> QED
      BY <1>1, <2>2, <3>1
  <2>3. CASE ~(i = 1 /\ j = k)
    <3>1. vault'[<<i, j>>] = vault[<<i, j>>]
      BY <1>1, <1>2, <2>1, <2>3
    <3> QED
      BY <3>1 DEF FormIInv, VaultOK
  <2> QED
    BY <2>2, <2>3
<1>5. Present' = Present
  BY <1>1 DEF Present
<1>6. FormTypes'
  BY <1>1, <1>3, <1>5 DEF FormIInv, FormTypes
<1>7. FormKnows'
  BY <1>1 DEF FormIInv, FormKnows
<1>8. PressKnows'
  BY <1>1 DEF FormIInv, PressKnows
<1>9. PressWrote'
  BY <1>1 DEF FormIInv, PressWrote
<1>10. VaultOK'
  BY <1>1, <1>4 DEF VaultOK
<1>11. FormCounts'
  BY <1>1, <1>5 DEF FormIInv, FormCounts
<1> QED
  BY <1>6, <1>7, <1>8, <1>9, <1>10, <1>11 DEF FormIInv

LEMMA FormStays == ASSUME FormIInv, [FormNext]_formVars PROVE FormIInv'
<1>1. CASE UNCHANGED formVars
  <2>1. Present' = Present
    BY <1>1 DEF formVars, Present
  <2>2. FormTypes' /\ FormKnows'
    BY <1>1, <2>1 DEF formVars, FormIInv, FormTypes, FormKnows
  <2>3. PressKnows' /\ PressWrote'
    BY <1>1 DEF formVars, FormIInv, PressKnows, PressWrote
  <2>4. VaultOK' /\ FormCounts'
    BY <1>1, <2>1 DEF formVars, FormIInv, VaultOK, FormCounts
  <2> QED
    BY <2>2, <2>3, <2>4 DEF FormIInv
<1>2. CASE ChangeMethod \/ AnswerListing \/ FailListing
  BY <1>2, FormShows
<1>3. CASE \E entered \in SUBSET {method, "client"} : Submit(entered)
  BY <1>3, SubmitStays
<1>4. CASE CreateApp
  BY <1>4, CreateAppStays
<1>5. CASE ListApps \/ FailListApps
  BY <1>5, ListAppsStays
<1>6. CASE SaveServer
  BY <1>6, SaveServerStays
<1>7. CASE UpsertServerSecret
  BY <1>7, UpsertServerSecretStays
<1>8. CASE UpsertOauthAppSecret
  BY <1>8, UpsertOauthAppSecretStays
<1>9. CASE RefuseSecret \/ LoseRequest
  BY <1>9, FailureStays
<1>10. CASE \E k \in Kinds : Meddle(k)
  BY <1>10, MeddleStays
<1> QED
  BY <1>1, <1>2, <1>3, <1>4, <1>5, <1>6, <1>7, <1>8, <1>9, <1>10
     DEF FormNext, FormRests

\* Of the dialog that saves a server (onSubmit of ServersPage.tsx): secrets hold their
\* kind unless the form was blind; when the dialog closes by itself, what was entered
\* is stored and linked; and pressing again duplicates only what had failed.
THEOREM FormCorrect == FormSpec => []FormRules
<1>1. FormIInv => FormRules
  BY FormGood
<1>2. FormInit => FormIInv
  BY FormStart
<1>3. FormIInv /\ [FormNext]_formVars => FormIInv'
  BY FormStays
<1> QED
  BY <1>1, <1>2, <1>3, PTL DEF FormSpec

=============================================================================
