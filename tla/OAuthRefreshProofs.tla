------------------------- MODULE OAuthRefreshProofs -------------------------
(***************************************************************************)
(* Proofs about OAuthRefresh, and about the tool calls that resolve their  *)
(* bearers through it (ToolCall), for every number of processes, callers,  *)
(* tokens, grants, rows and faults.                                        *)
(***************************************************************************)
EXTENDS ToolCall, TLAPS

(***************************************************************************)
(* Type correctness.                                                       *)
(***************************************************************************)

LEMMA TypeInit == Init => TypeOK
<1> SUFFICES ASSUME Init PROVE TypeOK
  OBVIOUS
<1>1. PICK k \in InitKinds, l \in InitLives :
        /\ row = [id |-> 1, kind |-> k, at |-> 1, grant |-> 1,
                  rt |-> IF k = "refreshable" THEN 1 ELSE 0]
        /\ life = [t \in Tokens |-> IF t = 1 THEN l ELSE "fresh"]
  BY DEF Init
<1>2. row \in Row
  BY <1>1, ConstantsAssumption DEF Row, Kinds, Tokens
<1>3. life \in [Tokens -> Life]
  BY <1>1, ConstantsAssumption DEF Life
<1>4. live \subseteq RefreshToken
  BY <1>1, <1>2, ConstantsAssumption, NoRowAssumption
  DEF Init, RefreshTokens, RefreshToken, Tokens, Row
<1>5. connect \in [pc : {"idle", "exchanged", "writing"}, existing : 0..MaxRows,
                   pair : Row \cup {NoRow}]
  BY ConstantsAssumption DEF Init, NoConnect
<1>6. result \in [Callers -> Outcome] /\ pc \in [Callers -> PC]
  BY ConstantsAssumption DEF Init, None, Outcome, PC
<1>7. /\ rows \in 1..MaxRows /\ minted \in Tokens /\ grants \in 1..MaxGrants
      /\ faults \in 0..MaxFaults
  BY ConstantsAssumption DEF Init, Tokens
<1>8. Carrying
  BY ConstantsAssumption DEF Init, Carrying, Ready, Requesting, NoConnect
<1> QED
  BY <1>2, <1>3, <1>4, <1>5, <1>6, <1>7, <1>8 DEF Init, TypeOK

\* Helper facts: what a row contributes to the provider's sets is well typed.
LEMMA RefreshTokensType ==
  ASSUME NEW r \in Row \cup {NoRow}
  PROVE  RefreshTokens(r) \subseteq RefreshToken
BY NoRowAssumption DEF RefreshTokens, RefreshToken, Row, Tokens

LEMMA RefreshedType ==
  ASSUME NEW r \in Row, NEW rotate \in BOOLEAN, minted \in Tokens,
         minted < MaxMint
  PROVE  Refreshed(r, rotate) \in Row
<1>1. minted + 1 \in Tokens /\ minted + 1 \in 0..MaxMint
  BY ConstantsAssumption DEF Tokens
<1>2. (IF rotate /\ r.rt # 0 THEN minted + 1 ELSE r.rt) \in 0..MaxMint
  BY <1>1 DEF Row
<1> QED
  BY <1>1, <1>2 DEF Refreshed, Row

LEMMA EndFlightType ==
  ASSUME TypeOK, NEW c \in Callers, NEW out \in Outcome, ~Ready(c),
         EndFlight(c, out)
  PROVE  /\ pc' \in [Callers -> PC]
         /\ result' \in [Callers -> Outcome]
         /\ cur' \in [Callers -> Row \cup {NoRow}]
         /\ got' \in [Callers -> Row \cup {NoRow}]
         /\ lock' \in Callers \cup {NoCaller}
         /\ UNCHANGED <<rows, snap, force, leader, grants, life, connect>>
         /\ Carrying'
<1>1. ~Ready(c) => snap[c] # NoRow
  BY DEF TypeOK, Carrying
<1> QED
  BY <1>1 DEF TypeOK, EndFlight, PC, Carrying, Ready, Requesting

LEMMA AnswerType ==
  ASSUME TypeOK, NEW c \in Callers, NEW out \in Outcome, Answer(c, out)
  PROVE  TypeOK'
BY DEF TypeOK, Answer, PC, Carrying, Ready, Requesting, storeVars, providerVars

LEMMA OutcomeType ==
  /\ \A t \in Tokens : Ok(t) \in Outcome
  /\ {Reauth, Transient, Config, Missing, None} \subseteq Outcome
  /\ \A c \in Callers, out \in Outcome : Committed(c, out) \in Outcome
BY ConstantsAssumption
DEF Ok, Reauth, Transient, Config, Missing, None, Outcome, Tokens, Committed

\* An action that ends a flight keeps the types if what it stores does.
LEMMA EndFlightKeepsType ==
  ASSUME TypeOK, NEW c \in Callers, NEW out \in Outcome, ~Ready(c),
         EndFlight(c, out),
         row' \in Row \cup {NoRow}, retired' \subseteq RefreshToken,
         live' \subseteq RefreshToken, stray' \subseteq RefreshToken,
         minted' \in Tokens, faults' \in 0..MaxFaults
  PROVE  TypeOK'
BY EndFlightType DEF TypeOK

LEMMA TypeEnter ==
  ASSUME TypeOK, NEW c \in Callers, Begin(c) \/ Enter(c)
  PROVE  TypeOK'
<1> USE DEF TypeOK, PC, Carrying, Ready, Requesting, storeVars, providerVars
<1>1. ASSUME NEW f \in BOOLEAN, LoadSecret(c, f) PROVE TypeOK'
  BY <1>1, OutcomeType DEF LoadSecret
<1>2. CASE LoadMissing(c)
  BY <1>2, OutcomeType DEF LoadMissing
<1>3. CASE ReturnFresh(c) \/ PlainResolve(c)
  <2>1. snap[c].at \in Tokens
    BY <1>3 DEF ReturnFresh, PlainResolve, Row
  <2>2. PICK out \in {Ok(snap[c].at), Reauth} : Answer(c, out)
    BY <1>3 DEF ReturnFresh, PlainResolve
  <2> QED
    BY <2>1, <2>2, AnswerType, OutcomeType
<1>4. CASE JoinInflight(c)
  BY <1>4 DEF JoinInflight, InFlight
<1>5. CASE StartRefresh(c)
  BY <1>5 DEF StartRefresh
<1> QED
  BY <1>1, <1>2, <1>3, <1>4, <1>5 DEF Begin, Enter

LEMMA TypeAcquire ==
  ASSUME TypeOK, NEW c \in Callers, Acquire(c) \/ LockFails(c)
  PROVE  TypeOK'
<1>1. CASE LockGone(c)
  BY <1>1, OutcomeType, EndFlightKeepsType
  DEF LockGone, CanLock, Ready, TypeOK
<1>2. CASE LockReuse(c)
  <2>1. row.at \in Tokens
    BY <1>2 DEF LockReuse, RowThere, TypeOK, Row
  <2> QED
    BY <1>2, <2>1, OutcomeType, EndFlightKeepsType
    DEF LockReuse, CanLock, Ready, TypeOK
<1>3. CASE LockNoPath(c)
  BY <1>3, OutcomeType, EndFlightKeepsType
  DEF LockNoPath, CanLock, Ready, TypeOK
<1>4. CASE SendRefresh(c)
  BY <1>4 DEF SendRefresh, CanLock, RowThere, TypeOK, PC, Carrying, Ready,
              Requesting, providerVars
<1>5. CASE LockFails(c)
  <2>1. faults' \in 0..MaxFaults
    BY <1>5, ConstantsAssumption DEF LockFails, TypeOK
  <2> QED
    BY <1>5, <2>1, OutcomeType, EndFlightKeepsType DEF LockFails, Ready, TypeOK
<1> QED
  BY <1>1, <1>2, <1>3, <1>4, <1>5 DEF Acquire

LEMMA TypeProviderAnswers ==
  ASSUME TypeOK, NEW c \in Callers, ProviderAnswers(c)
  PROVE  TypeOK'
<1>1. CASE Mint(c)
  <2>1. PICK rotate \in Rotations, l \in MintLives :
          /\ got' = [got EXCEPT ![c] = Refreshed(cur[c], rotate)]
          /\ live' = IF rotate
                     THEN (live \ RefreshTokens(cur[c]))
                             \cup RefreshTokens(Refreshed(cur[c], rotate))
                     ELSE live
          /\ life' = [life EXCEPT ![minted + 1] = l]
    BY <1>1 DEF Mint
  <2>2. cur[c] \in Row
    BY <1>1 DEF Mint, TypeOK, Carrying, Requesting
  <2>3. Refreshed(cur[c], rotate) \in Row
    BY <1>1, <2>2, RefreshedType, ConstantsAssumption DEF Mint, TypeOK
  <2>4. live' \subseteq RefreshToken
    BY <2>1, <2>3, RefreshTokensType DEF TypeOK
  <2>5. minted' \in Tokens
    BY <1>1, ConstantsAssumption DEF Mint, TypeOK, Tokens
  <2>6. life' \in [Tokens -> Life]
    BY <2>1, ConstantsAssumption DEF TypeOK, Life
  <2>7. got' \in [Callers -> Row \cup {NoRow}] /\ got'[c] # NoRow
    BY <2>1, <2>3, NoRowAssumption DEF TypeOK
  <2> QED
    BY <1>1, <2>1, <2>4, <2>5, <2>6, <2>7
    DEF Mint, TypeOK, PC, Carrying, Ready, Requesting, storeVars
<1>2. CASE InvalidGrant(c)
  BY <1>2, OutcomeType, EndFlightKeepsType
  DEF InvalidGrant, GrantTokens, Ready, TypeOK
<1>3. CASE InvalidClient(c)
  BY <1>3, OutcomeType, EndFlightKeepsType DEF InvalidClient, Ready, TypeOK
<1>4. AfterTransient(c) \in Outcome \/ pc[c] # "sent"
  <2>1. CASE pc[c] = "sent"
    <3>1. cur[c].at \in Tokens
      BY <2>1 DEF TypeOK, Carrying, Requesting, Row
    <3> QED
      BY <3>1, OutcomeType DEF AfterTransient, Committed
  <2> QED
    BY <2>1
<1>5. CASE TransientFailure(c)
  BY <1>4, <1>5, EndFlightKeepsType DEF TransientFailure, Ready, TypeOK
<1>6. CASE RequestTimesOut(c)
  <2>1. faults' \in 0..MaxFaults
    BY <1>6, ConstantsAssumption DEF RequestTimesOut, TypeOK
  <2>2. stray' \subseteq RefreshToken
    BY <1>6, RefreshTokensType DEF RequestTimesOut, TypeOK
  <2> QED
    BY <1>4, <1>6, <2>1, <2>2, EndFlightKeepsType
    DEF RequestTimesOut, Ready, TypeOK
<1> QED
  BY <1>1, <1>2, <1>3, <1>5, <1>6 DEF ProviderAnswers

LEMMA TypeStore ==
  ASSUME TypeOK, NEW c \in Callers, Store(c)
  PROVE  TypeOK'
<1>1. got[c] \in Row /\ cur[c] \in Row /\ pc[c] = "minted"
  BY DEF Store, SaveRotated, SaveFails, SaveUnanswered, ReplyLost, TypeOK,
         Carrying, Requesting
<1>2. got[c].at \in Tokens /\ cur[c].at \in Tokens
  BY <1>1 DEF Row
<1>3. RefreshTokens(row) \subseteq RefreshToken
  BY RefreshTokensType DEF TypeOK
<1>4. faults < MaxFaults /\ faults' = faults + 1 => faults' \in 0..MaxFaults
  BY ConstantsAssumption DEF TypeOK
<1>5. CASE SaveRotated(c)
  BY <1>1, <1>2, <1>3, <1>5, OutcomeType, EndFlightKeepsType
  DEF SaveRotated, Ready, TypeOK
<1>6. CASE SaveFails(c)
  BY <1>1, <1>4, <1>6, OutcomeType, EndFlightKeepsType
  DEF SaveFails, Ready, TypeOK
<1>7. CASE SaveUnanswered(c)
  BY <1>1, <1>3, <1>4, <1>7, OutcomeType, EndFlightKeepsType
  DEF SaveUnanswered, Ready, TypeOK
<1>8. CASE ReplyLost(c)
  <2>1. AfterTransient(c) \in Outcome
    BY <1>2, OutcomeType DEF AfterTransient
  <2> QED
    BY <1>1, <1>8, <2>1, EndFlightKeepsType DEF ReplyLost, Ready, TypeOK
<1> QED
  BY <1>5, <1>6, <1>7, <1>8 DEF Store

LEMMA TypeSettle ==
  ASSUME TypeOK, NEW c \in Callers, Settle(c)
  PROVE  TypeOK'
BY DEF Settle, TypeOK, PC, Carrying, Ready, Requesting, storeVars, providerVars

LEMMA TypeUser ==
  ASSUME TypeOK, User
  PROVE  TypeOK'
<1> USE ConstantsAssumption
<1> USE DEF TypeOK, Carrying, Ready, Requesting, storeVars, callerVars,
            providerVars
<1>1. CASE ConnectExchange
  <2>1. PICK k \in ConnectKinds, l \in MintLives :
          LET pair == [id |-> 1, kind |-> k, at |-> minted + 1,
                       grant |-> grants + 1,
                       rt |-> IF k = "refreshable" THEN minted + 1 ELSE 0]
          IN  /\ connect' = [pc |-> "exchanged", existing |-> 0, pair |-> pair]
              /\ live' = live \cup RefreshTokens(pair)
              /\ life' = [life EXCEPT ![minted + 1] = l]
    BY <1>1 DEF ConnectExchange
  <2>2. minted' \in Tokens /\ grants' \in 1..MaxGrants
    BY <1>1 DEF ConnectExchange, Tokens
  <2>3. connect'.pair \in Row
    BY <1>1, <2>1, <2>2 DEF ConnectExchange, Row, Kinds, Tokens
  <2>4. live' \subseteq RefreshToken
    BY <2>1, <2>3, RefreshTokensType
  <2>5. life' \in [Tokens -> Life]
    BY <2>1 DEF Life
  <2>6. /\ connect' \in [pc : {"idle", "exchanged", "writing"},
                         existing : 0..MaxRows, pair : Row \cup {NoRow}]
        /\ connect'.pair # NoRow
    BY <2>1, <2>3, NoRowAssumption
  <2> QED
    BY <1>1, <2>2, <2>4, <2>5, <2>6 DEF ConnectExchange
<1>2. CASE ConnectLookup
  <2>1. StoredId \in 0..MaxRows
    BY DEF StoredId, Row
  <2>2. connect' = [pc |-> "writing", existing |-> StoredId,
                    pair |-> connect.pair]
    BY <1>2 DEF ConnectLookup
  <2> QED
    BY <1>2, <2>1, <2>2 DEF ConnectLookup
<1>3. NoConnect \in [pc : {"idle", "exchanged", "writing"},
                    existing : 0..MaxRows, pair : Row \cup {NoRow}]
  BY DEF NoConnect
<1>4. RefreshTokens(row) \subseteq RefreshToken
  BY RefreshTokensType
<1>5. CASE ConnectUpdate
  <2>1. row' \in Row
    BY <1>5 DEF ConnectUpdate, Row
  <2> QED
    BY <1>3, <1>4, <1>5, <2>1 DEF ConnectUpdate, NoConnect
<1>6. CASE ConnectInsert
  <2>1. connect.pair \in Row /\ rows' \in 1..MaxRows
    BY <1>6 DEF ConnectInsert
  <2>2. row' \in Row
    BY <1>6, <2>1 DEF ConnectInsert, Row
  <2> QED
    BY <1>3, <1>6, <2>1, <2>2 DEF ConnectInsert, NoConnect
<1>7. CASE ConnectLost
  BY <1>3, <1>7 DEF ConnectLost, NoConnect
<1>8. CASE Disconnect
  BY <1>4, <1>8 DEF Disconnect
<1> QED
  BY <1>1, <1>2, <1>5, <1>6, <1>7, <1>8 DEF User

LEMMA TypeEnvironment ==
  ASSUME TypeOK, Environment
  PROVE  TypeOK'
<1> USE DEF TypeOK, Carrying, Ready, Requesting, storeVars, callerVars
<1>1. ASSUME NEW t \in Tokens, Age(t) PROVE TypeOK'
  BY <1>1 DEF Age, Life, providerVars
<1>2. ASSUME NEW g \in 1..MaxGrants, RevokeGrant(g) PROVE TypeOK'
  BY <1>2 DEF RevokeGrant, GrantTokens
<1>3. ASSUME NEW t \in RefreshToken, StrayArrives(t) PROVE TypeOK'
  BY <1>3 DEF StrayArrives, GrantTokens
<1> QED
  BY <1>1, <1>2, <1>3 DEF Environment

LEMMA TypeFault ==
  ASSUME TypeOK, \/ \E c \in Callers : LoseConnection(c)
                 \/ \E p \in Procs : Crash(p)
  PROVE  TypeOK'
<1>1. faults < MaxFaults /\ faults' = faults + 1 => faults' \in 0..MaxFaults
  BY ConstantsAssumption DEF TypeOK
<1>2. ASSUME NEW c \in Callers, LoseConnection(c) PROVE TypeOK'
  BY <1>1, <1>2 DEF LoseConnection, TypeOK, Carrying, Ready, Requesting,
                    callerVars, providerVars
<1>3. ASSUME NEW p \in Procs, Crash(p) PROVE TypeOK'
  <2> DEFINE dead == {c \in Callers : ProcOf[c] = p /\ pc[c] # "idle"}
             lost == UNION {RefreshTokens(cur[c]) :
                              c \in {d \in dead : pc[d] = "sent"}}
  <2>1. lost \subseteq RefreshToken
    BY RefreshTokensType DEF TypeOK
  <2>2. stray' \subseteq RefreshToken
    BY <1>3, <2>1 DEF Crash, TypeOK
  <2> QED
    BY <1>1, <1>3, <2>2, OutcomeType
    DEF Crash, TypeOK, PC, Carrying, Ready, Requesting
<1> QED
  BY <1>2, <1>3

LEMMA TypeNext == TypeOK /\ [Next]_vars => TypeOK'
<1> SUFFICES ASSUME TypeOK, [Next]_vars PROVE TypeOK'
  OBVIOUS
<1>1. CASE \E c \in Callers : Begin(c) \/ Resolve(c)
  BY <1>1, TypeEnter, TypeAcquire, TypeProviderAnswers, TypeStore, TypeSettle
  DEF Resolve
<1>2. CASE User
  BY <1>2, TypeUser
<1>3. CASE Environment
  BY <1>3, TypeEnvironment
<1>4. CASE Fault
  BY <1>4, TypeAcquire, TypeFault DEF Fault
<1>5. CASE UNCHANGED vars
  BY <1>5 DEF vars, storeVars, callerVars, providerVars, TypeOK, Carrying,
              Ready, Requesting
<1> QED
  BY <1>1, <1>2, <1>3, <1>4, <1>5 DEF Next

\* Every variable keeps its type and every step finds the secrets it works on,
\* for any number of processes, callers, tokens and faults.
THEOREM TypeCorrect == Spec => []TypeOK
BY TypeInit, TypeNext, PTL DEF Spec

-----------------------------------------------------------------------------
(***************************************************************************)
(* The inductive invariant.  Most actions look alike to it; four kinds of  *)
(* step, and the actions they do not cover, are all it has to survive.     *)
(***************************************************************************)

\* A step that leaves the store, the requests and the Connect alone.
Quiet ==
    /\ UNCHANGED <<row, lock, cur, got, connect, retired, minted, grants, faults>>
    /\ \A c \in Callers : /\ pc'[c] = "sent" <=> pc[c] = "sent"
                          /\ pc'[c] = "minted" <=> pc[c] = "minted"

Ends(c) ==
    /\ pc' = [pc EXCEPT ![c] = "finishing"]
    /\ cur' = [cur EXCEPT ![c] = NoRow]
    /\ got' = [got EXCEPT ![c] = NoRow]
    /\ lock' = IF lock = c THEN NoCaller ELSE lock
    /\ faults' >= faults
    /\ UNCHANGED <<minted, grants, connect>>

\* A flight that ends without having written, and one that has.
Abandons(c) == Ends(c) /\ UNCHANGED <<row, retired>>

Saves(c) ==
    /\ Ends(c)
    /\ pc[c] = "minted"
    /\ lock = c
    /\ row' = got[c]
    /\ retired' = retired \cup (RefreshTokens(row) \ RefreshTokens(got[c]))

LEMMA StepKinds ==
  ASSUME TypeOK, [Next]_vars
  PROVE  \/ Quiet
         \/ \E c \in Callers : \/ Abandons(c) \/ Saves(c)
                              \/ SendRefresh(c) \/ Mint(c)
                              \/ LoseConnection(c)
         \/ User
         \/ \E p \in Procs : Crash(p)
<1>0. faults \in Nat
  BY ConstantsAssumption DEF TypeOK
<1>1. CASE \E c \in Callers : Begin(c) \/ Enter(c)
  BY <1>1 DEF Begin, Enter, LoadSecret, LoadMissing, ReturnFresh, PlainResolve,
              JoinInflight, StartRefresh, Answer, Ready, Quiet, TypeOK, PC,
              storeVars, providerVars
<1>2. ASSUME NEW c \in Callers, Acquire(c) \/ LockFails(c)
      PROVE  Abandons(c) \/ SendRefresh(c)
  BY <1>0, <1>2 DEF Acquire, LockGone, LockReuse, LockNoPath, LockFails,
                    EndFlight, Abandons, Ends
<1>3. ASSUME NEW c \in Callers, ProviderAnswers(c)
      PROVE  Abandons(c) \/ Mint(c)
  BY <1>0, <1>3 DEF ProviderAnswers, InvalidGrant, InvalidClient,
                    TransientFailure, RequestTimesOut, EndFlight, Abandons, Ends
<1>4. ASSUME NEW c \in Callers, Store(c)
      PROVE  Abandons(c) \/ Saves(c)
  BY <1>0, <1>4 DEF Store, SaveRotated, SaveFails, SaveUnanswered, ReplyLost,
                    EndFlight, Abandons, Saves, Ends
<1>5. ASSUME NEW c \in Callers, Settle(c) PROVE Quiet
  BY <1>5 DEF Settle, Quiet, TypeOK, storeVars, providerVars
<1>6. CASE Environment
  BY <1>6 DEF Environment, Age, RevokeGrant, StrayArrives, Quiet, storeVars,
              callerVars, providerVars
<1>7. CASE UNCHANGED vars
  BY <1>7 DEF vars, storeVars, callerVars, providerVars, Quiet
<1> QED
  BY <1>1, <1>2, <1>3, <1>4, <1>5, <1>6, <1>7 DEF Next, Resolve, Fault

LEMMA LockInvNext ==
  ASSUME IInv, [Next]_vars
  PROVE  LockInv'
<1> SUFFICES ASSUME NEW d \in Callers, lock' = d
             PROVE  (Requesting(d) /\ row # NoRow /\ cur[d] = row)'
  BY DEF LockInv
<1> USE ConstantsAssumption DEF IInv, LockInv, TypeOK, Requesting
<1>1. CASE Quiet
  BY <1>1 DEF Quiet
<1>2. ASSUME NEW c \in Callers, Abandons(c) \/ Saves(c)
      PROVE  (Requesting(d) /\ row # NoRow /\ cur[d] = row)'
  BY <1>2 DEF Abandons, Saves, Ends
<1>3. ASSUME NEW c \in Callers, SendRefresh(c)
      PROVE  (Requesting(d) /\ row # NoRow /\ cur[d] = row)'
  BY <1>3 DEF SendRefresh, CanLock, RowThere
<1>4. ASSUME NEW c \in Callers, Mint(c)
      PROVE  (Requesting(d) /\ row # NoRow /\ cur[d] = row)'
  BY <1>4 DEF Mint, storeVars
<1>5. ASSUME NEW c \in Callers, LoseConnection(c) PROVE FALSE
  BY <1>5 DEF LoseConnection
<1>6. CASE User
  BY <1>6 DEF User, ConnectExchange, ConnectLookup, ConnectUpdate,
              ConnectInsert, ConnectLost, Disconnect, storeVars, callerVars
<1>7. ASSUME NEW p \in Procs, Crash(p)
      PROVE  (Requesting(d) /\ row # NoRow /\ cur[d] = row)'
  BY <1>7 DEF Crash
<1> QED
  BY <1>1, <1>2, <1>3, <1>4, <1>5, <1>6, <1>7, StepKinds

\* A freshly minted pair is newer than the one it was refreshed from.
LEMMA RefreshedIsNewer ==
  ASSUME NEW r \in Row, NEW rotate \in BOOLEAN, minted \in Tokens,
         minted < MaxMint, r.at <= minted, r.rt <= minted
  PROVE  LET s == Refreshed(r, rotate)
         IN  /\ s.id = r.id /\ s.grant = r.grant /\ s.at = minted + 1
             /\ s.at > r.at
             /\ s.rt \in {r.rt, minted + 1}
BY ConstantsAssumption DEF Refreshed, Row, Tokens

\* What Mint does, with the pair it builds named.
LEMMA MintEffect ==
  ASSUME IInv, NEW c \in Callers, Mint(c)
  PROVE  /\ pc[c] = "sent" /\ cur[c] \in Row
         /\ minted' = minted + 1
         /\ pc' = [pc EXCEPT ![c] = "minted"]
         /\ \E s \in Row :
               /\ got' = [got EXCEPT ![c] = s]
               /\ s.id = cur[c].id /\ s.grant = cur[c].grant
               /\ s.at = minted + 1 /\ s.at > cur[c].at
               /\ s.rt \in {cur[c].rt, minted + 1}
<1>1. PICK rotate \in Rotations : got' = [got EXCEPT ![c] = Refreshed(cur[c], rotate)]
  BY DEF Mint
<1>2. pc[c] = "sent" /\ cur[c] \in Row /\ minted < MaxMint
  BY DEF Mint, IInv, TypeOK, Carrying, Requesting
<1>3. cur[c].at <= minted /\ cur[c].rt <= minted
  BY <1>2, NoRowAssumption DEF IInv, IssuedInv, Issued
<1>4. minted \in Tokens /\ rotate \in BOOLEAN
  BY ConstantsAssumption DEF IInv, TypeOK
<1>5. Refreshed(cur[c], rotate) \in Row
  BY <1>2, <1>4, RefreshedType
<1> QED
  BY <1>1, <1>2, <1>3, <1>4, <1>5, RefreshedIsNewer DEF Mint

LEMMA FlightInvNext ==
  ASSUME IInv, [Next]_vars
  PROVE  FlightInv'
<1> DEFINE Later(d) == /\ got[d].id = cur[d].id /\ got[d].grant = cur[d].grant
                       /\ got[d].at > cur[d].at
<1> SUFFICES ASSUME NEW d \in Callers, pc'[d] = "minted"
             PROVE  Later(d)'
  BY DEF FlightInv
<1> USE DEF IInv, FlightInv, TypeOK
<1>1. CASE Quiet
  BY <1>1 DEF Quiet
<1>2. ASSUME NEW c \in Callers, Abandons(c) \/ Saves(c) PROVE Later(d)'
  BY <1>2 DEF Abandons, Saves, Ends
<1>3. ASSUME NEW c \in Callers, SendRefresh(c) PROVE Later(d)'
  BY <1>3 DEF SendRefresh, CanLock
<1>4. ASSUME NEW c \in Callers, Mint(c) PROVE Later(d)'
  <2>1. cur' = cur
    BY <1>4 DEF Mint
  <2> QED
    BY <1>4, <2>1, MintEffect
<1>5. ASSUME NEW c \in Callers, LoseConnection(c) PROVE Later(d)'
  BY <1>5 DEF LoseConnection, callerVars
<1>6. CASE User
  BY <1>6 DEF User, ConnectExchange, ConnectLookup, ConnectUpdate,
              ConnectInsert, ConnectLost, Disconnect, storeVars, callerVars
<1>7. ASSUME NEW p \in Procs, Crash(p) PROVE Later(d)'
  BY <1>7 DEF Crash
<1> QED
  BY <1>1, <1>2, <1>3, <1>4, <1>5, <1>6, <1>7, StepKinds

LEMMA HolderInvNext ==
  ASSUME IInv, [Next]_vars
  PROVE  HolderInv'
<1> SUFFICES ASSUME NEW d \in Callers, Requesting(d)', faults' = 0
             PROVE  lock' = d
  BY DEF HolderInv
<1>0. faults \in Nat
  BY ConstantsAssumption DEF IInv, TypeOK
<1> USE DEF IInv, HolderInv, TypeOK, Requesting
<1>1. CASE Quiet
  BY <1>1 DEF Quiet
<1>2. ASSUME NEW c \in Callers, Abandons(c) \/ Saves(c) PROVE lock' = d
  BY <1>0, <1>2 DEF Abandons, Saves, Ends
<1>3. ASSUME NEW c \in Callers, SendRefresh(c) PROVE lock' = d
  BY <1>3, ConstantsAssumption DEF SendRefresh, CanLock
<1>4. ASSUME NEW c \in Callers, Mint(c) PROVE lock' = d
  BY <1>4 DEF Mint, storeVars
<1>5. ASSUME NEW c \in Callers, LoseConnection(c) PROVE FALSE
  BY <1>0, <1>5 DEF LoseConnection
<1>6. CASE User
  BY <1>6 DEF User, ConnectExchange, ConnectLookup, ConnectUpdate,
              ConnectInsert, ConnectLost, Disconnect, storeVars, callerVars
<1>7. ASSUME NEW p \in Procs, Crash(p) PROVE FALSE
  BY <1>0, <1>7 DEF Crash
<1> QED
  BY <1>1, <1>2, <1>3, <1>4, <1>5, <1>6, <1>7, StepKinds

LEMMA LookupKeepsPair ==
  ASSUME TypeOK, ConnectLookup
  PROVE  connect' = [pc |-> "writing", existing |-> StoredId,
                     pair |-> connect.pair]
BY DEF TypeOK, ConnectLookup

\* A row that replaces the stored one is stored at an issued token and grant.
LEMMA IssuedInvNext ==
  ASSUME IInv, [Next]_vars
  PROVE  IssuedInv'
<1>1. minted \in Nat /\ grants \in Nat /\ NoRow \notin Row
  BY ConstantsAssumption, NoRowAssumption DEF IInv, TypeOK, Tokens
<1>2. \A t \in RefreshTokens(row) : t[1] <= grants /\ t[2] <= minted
  BY <1>1 DEF IInv, TypeOK, IssuedInv, Issued, RefreshTokens
<1> USE <1>1 DEF IInv, TypeOK, IssuedInv
<1>3. CASE Quiet
  BY <1>3 DEF Quiet, Issued
<1>4. ASSUME NEW c \in Callers, Abandons(c) PROVE IssuedInv'
  BY <1>4 DEF Abandons, Ends, Issued
<1>5. ASSUME NEW c \in Callers, Saves(c) PROVE IssuedInv'
  BY <1>2, <1>5 DEF Saves, Ends, Issued
<1>6. ASSUME NEW c \in Callers, SendRefresh(c) PROVE IssuedInv'
  BY <1>6 DEF SendRefresh, RowThere, Issued, providerVars
<1>7. ASSUME NEW c \in Callers, Mint(c) PROVE IssuedInv'
  <2>1. PICK s \in Row : /\ got' = [got EXCEPT ![c] = s]
                         /\ s.grant = cur[c].grant /\ s.at = minted + 1
                         /\ s.rt \in {cur[c].rt, minted + 1}
    BY <1>7, MintEffect
  <2>2. cur[c] \in Row /\ minted' = minted + 1
    BY <1>7, MintEffect
  <2>3. Issued(s)'
    BY <1>7, <2>1, <2>2 DEF Mint, Issued, Row, Tokens
  <2>4. \A r \in Row : Issued(r) => Issued(r)'
    <3>1. grants' = grants /\ minted \in Nat
      BY <1>7, ConstantsAssumption DEF Mint, TypeOK
    <3>2. \A r \in Row : r.at \in Nat /\ r.rt \in Nat
      BY DEF Row, Tokens
    <3> QED
      BY <2>2, <3>1, <3>2 DEF Issued
  <2>5. \A t \in retired : t[1] <= grants /\ t[2] <= minted + 1
    BY DEF RefreshToken, Tokens
  <2> QED
    BY <1>7, <2>1, <2>2, <2>3, <2>4, <2>5 DEF Mint, storeVars
<1>8. ASSUME NEW c \in Callers, LoseConnection(c) PROVE IssuedInv'
  BY <1>8 DEF LoseConnection, callerVars, providerVars, Issued
<1>9. CASE User
  <2>1. CASE ConnectExchange
    <3>1. minted' = minted + 1 /\ grants' = grants + 1
      BY <2>1 DEF ConnectExchange
    <3>2. \A r \in Row : Issued(r) => Issued(r)'
      BY <3>1 DEF Issued, Row, Tokens
    <3>3. Issued(connect.pair)'
      BY <2>1, <3>1 DEF ConnectExchange, Issued
    <3>4. \A t \in retired : t[1] <= grants + 1 /\ t[2] <= minted + 1
      BY DEF RefreshToken, Tokens
    <3> QED
      BY <2>1, <3>1, <3>2, <3>3, <3>4 DEF ConnectExchange, storeVars, callerVars
  <2>2. CASE ConnectLookup \/ ConnectLost
    <3>1. connect'.pair \in {connect.pair, NoRow}
      BY <2>2, LookupKeepsPair DEF ConnectLost, NoConnect
    <3> QED
      BY <2>2, <3>1 DEF ConnectLookup, ConnectLost, Issued, storeVars,
                        callerVars, providerVars
  <2>3. CASE ConnectUpdate \/ ConnectInsert
    <3>1. connect.pair \in Row
      BY <2>3 DEF ConnectUpdate, ConnectInsert, Carrying
    <3>2. Issued(row)'
      BY <2>3, <3>1 DEF ConnectUpdate, ConnectInsert, Issued, Row, providerVars
    <3>3. retired' \subseteq retired \cup RefreshTokens(row)
      BY <2>3 DEF ConnectUpdate, ConnectInsert
    <3> QED
      BY <1>2, <2>3, <3>2, <3>3
      DEF ConnectUpdate, ConnectInsert, NoConnect, callerVars, providerVars, Issued
  <2>4. CASE Disconnect
    BY <1>2, <2>4 DEF Disconnect, Issued, callerVars, providerVars
  <2> QED
    BY <1>9, <2>1, <2>2, <2>3, <2>4 DEF User
<1>10. ASSUME NEW p \in Procs, Crash(p) PROVE IssuedInv'
  BY <1>10 DEF Crash, Issued
<1> QED
  BY <1>3, <1>4, <1>5, <1>6, <1>7, <1>8, <1>9, <1>10, StepKinds

LEMMA ConnectInvNext ==
  ASSUME IInv, [Next]_vars
  PROVE  ConnectInv'
<1>1. minted \in Nat /\ grants \in Nat /\ NoRow \notin Row
  BY ConstantsAssumption, NoRowAssumption DEF IInv, TypeOK, Tokens
<1>2. \A t \in RefreshTokens(row) : row # NoRow /\ t[1] = row.grant
  BY DEF RefreshTokens
<1> USE <1>1 DEF IInv, TypeOK, ConnectInv
<1>3. CASE Quiet
  BY <1>3 DEF Quiet
<1>4. ASSUME NEW c \in Callers, Abandons(c) PROVE ConnectInv'
  BY <1>4 DEF Abandons, Ends
<1>5. ASSUME NEW c \in Callers, Saves(c) PROVE ConnectInv'
  <2>1. row = cur[c] /\ row # NoRow /\ row'.grant = row.grant
    BY <1>5 DEF Saves, LockInv, FlightInv
  <2> QED
    BY <1>2, <1>5, <2>1 DEF Saves, Ends
<1>6. ASSUME NEW c \in Callers, SendRefresh(c) \/ Mint(c) \/ LoseConnection(c)
      PROVE  ConnectInv'
  BY <1>6 DEF SendRefresh, Mint, LoseConnection, storeVars
<1>7. CASE ConnectExchange
  <2>1. connect'.pair.grant = grants + 1
    BY <1>7 DEF ConnectExchange
  <2>2. row # NoRow => row.grant < grants + 1
    BY DEF IssuedInv, Issued, Row
  <2>3. \A t \in retired : t[1] < grants + 1
    BY DEF IssuedInv, RefreshToken
  <2> QED
    BY <1>7, <2>1, <2>2, <2>3 DEF ConnectExchange, storeVars
<1>8. CASE ConnectLookup
  BY <1>8, LookupKeepsPair DEF ConnectLookup, storeVars
<1>9. CASE ConnectUpdate \/ ConnectInsert \/ ConnectLost
  BY <1>9 DEF ConnectUpdate, ConnectInsert, ConnectLost, NoConnect
<1>10. CASE Disconnect
  BY <1>2, <1>10 DEF Disconnect
<1>11. ASSUME NEW p \in Procs, Crash(p) PROVE ConnectInv'
  BY <1>11 DEF Crash
<1> QED
  BY <1>3, <1>4, <1>5, <1>6, <1>7, <1>8, <1>9, <1>10, <1>11, StepKinds DEF User

LEMMA RetiredInvNext ==
  ASSUME IInv, [Next]_vars
  PROVE  RetiredInv'
<1>1. minted \in Nat /\ grants \in Nat /\ NoRow \notin Row
  BY ConstantsAssumption, NoRowAssumption DEF IInv, TypeOK, Tokens
<1>2. \A r \in Row : RefreshTokens(r) \subseteq {<<r.grant, r.rt>>}
  BY <1>1 DEF RefreshTokens
<1> USE <1>1 DEF IInv, TypeOK, RetiredInv
<1>3. CASE Quiet
  BY <1>3 DEF Quiet
<1>4. ASSUME NEW c \in Callers, Abandons(c) PROVE RetiredInv'
  BY <1>4, ConstantsAssumption DEF Abandons, Ends
<1>5. ASSUME NEW c \in Callers, Saves(c) PROVE RetiredInv'
  <2>1. RefreshTokens(got[c]) \cap retired = {}
    BY <1>5 DEF Saves
  <2>2. lock' = NoCaller /\ NoCaller \notin Callers
    BY <1>5, ConstantsAssumption DEF Saves, Ends
  <2> QED
    BY <1>5, <2>1, <2>2 DEF Saves, Ends
<1>6. ASSUME NEW c \in Callers, SendRefresh(c) PROVE RetiredInv'
  BY <1>6 DEF SendRefresh
<1>7. ASSUME NEW c \in Callers, Mint(c) PROVE RetiredInv'
  <2>1. PICK s \in Row : /\ got' = [got EXCEPT ![c] = s]
                         /\ s.grant = cur[c].grant
                         /\ s.rt \in {cur[c].rt, minted + 1}
    BY <1>7, MintEffect
  <2>2. UNCHANGED <<row, lock, retired>>
    BY <1>7 DEF Mint, storeVars
  <2>3. ASSUME lock = c PROVE RefreshTokens(s) \cap retired = {}
    <3>1. row = cur[c] /\ row \in Row
      BY <2>3 DEF LockInv
    <3>2. CASE s.rt = cur[c].rt
      BY <2>1, <3>1, <3>2 DEF RefreshTokens
    <3>3. CASE s.rt = minted + 1
      <4>1. <<s.grant, minted + 1>> \notin retired
        BY DEF IssuedInv
      <4> QED
        BY <1>2, <3>3, <4>1
    <3> QED
      BY <2>1, <3>2, <3>3
  <2>4. \A d \in Callers \ {c} : pc'[d] = pc[d] /\ got'[d] = got[d]
    BY <1>7, <2>1, MintEffect
  <2> QED
    BY <2>1, <2>2, <2>3, <2>4
<1>8. ASSUME NEW c \in Callers, LoseConnection(c) PROVE RetiredInv'
  BY <1>8, ConstantsAssumption DEF LoseConnection
<1>9. CASE ConnectExchange \/ ConnectLookup \/ ConnectLost
  BY <1>9 DEF ConnectExchange, ConnectLookup, ConnectLost, storeVars, callerVars
<1>10. CASE ConnectUpdate \/ ConnectInsert
  <2>1. connect.pair \in Row /\ row' \in Row
    <3>1. connect.pair \in Row
      BY <1>10 DEF ConnectUpdate, ConnectInsert, Carrying
    <3>2. ConnectUpdate => row' \in Row
      BY <3>1 DEF ConnectUpdate, Row
    <3>3. ConnectInsert => row' \in Row
      BY <3>1, ConstantsAssumption DEF ConnectInsert, Row
    <3> QED
      BY <1>10, <3>1, <3>2, <3>3
  <2>2. row'.grant = connect.pair.grant
    BY <1>10, <2>1 DEF ConnectUpdate, ConnectInsert, Row
  <2>3. \A t \in retired : t[1] < connect.pair.grant
    BY <1>10 DEF ConnectInv, ConnectUpdate, ConnectInsert
  <2>4. row # NoRow => row.grant < connect.pair.grant
    BY <1>10 DEF ConnectInv, ConnectUpdate, ConnectInsert
  <2>5. \A t \in RefreshTokens(row) : t[1] < connect.pair.grant
    BY <2>4 DEF RefreshTokens
  <2>6. retired' \subseteq retired \cup RefreshTokens(row)
    BY <1>10 DEF ConnectUpdate, ConnectInsert
  <2>7. \A t \in retired' : t[1] < row'.grant
    BY <2>2, <2>3, <2>5, <2>6
  <2>8. \A t \in RefreshTokens(row') : t[1] = row'.grant
    BY <1>2, <2>1
  <2>9. row'.grant \in Int
    BY <2>1 DEF Row
  <2>10. RefreshTokens(row') \cap retired' = {}
    BY <2>7, <2>8, <2>9
  <2>11. lock' \notin Callers
    BY <1>10, ConstantsAssumption DEF ConnectUpdate, ConnectInsert, LockInv
  <2> QED
    BY <2>10, <2>11
<1>11. CASE Disconnect
  BY <1>11, ConstantsAssumption DEF Disconnect, RefreshTokens
<1>12. ASSUME NEW p \in Procs, Crash(p) PROVE RetiredInv'
  BY <1>12, ConstantsAssumption DEF Crash
<1> QED
  BY <1>3, <1>4, <1>5, <1>6, <1>7, <1>8, <1>9, <1>10, <1>11, <1>12, StepKinds
  DEF User

LEMMA IInvInit == Init => IInv
<1> SUFFICES ASSUME Init PROVE IInv
  OBVIOUS
<1>1. TypeOK
  BY TypeInit
<1>2. LockInv /\ FlightInv /\ HolderInv /\ ConnectInv /\ RetiredInv
  BY ConstantsAssumption DEF Init, LockInv, FlightInv, HolderInv, ConnectInv,
                             RetiredInv, Requesting, NoConnect
<1>3. Issued(row)
  BY DEF Init, Issued
<1>4. IssuedInv
  BY <1>3 DEF Init, IssuedInv, NoConnect
<1> QED
  BY <1>1, <1>2, <1>4 DEF IInv

LEMMA IInvNext == IInv /\ [Next]_vars => IInv'
<1> SUFFICES ASSUME IInv, [Next]_vars PROVE IInv'
  OBVIOUS
<1>1. TypeOK'
  BY TypeNext DEF IInv
<1> QED
  BY <1>1, LockInvNext, FlightInvNext, HolderInvNext, IssuedInvNext,
     ConnectInvNext, RetiredInvNext
  DEF IInv

\* The invariant every result below rests on.
THEOREM Inductive == Spec => []IInv
BY IInvInit, IInvNext, PTL DEF Spec

-----------------------------------------------------------------------------
(***************************************************************************)
(* What the invariant shows.                                               *)
(***************************************************************************)

\* Without infrastructure faults at most one token request for the stored
\* secret is outstanding, whatever the number of processes and callers.
THEOREM SpendsExclusively == Spec => []ExclusiveSpend
<1>1. IInv => ExclusiveSpend
  BY DEF IInv, HolderInv, ExclusiveSpend
<1> QED
  BY <1>1, Inductive, PTL

\* No request ever carries a refresh token that has left the store, with any
\* number of crashes, lost connections, reconnects and deletes.
THEOREM SpendsOnlyStored == Spec => NeverSpendsRetired
<1>1. ASSUME IInv, [Next]_vars, NEW c \in Callers, pc[c] # "sent", pc'[c] = "sent"
      PROVE  RefreshTokens(cur'[c]) \cap retired = {}
  <2>1. CASE Quiet
    BY <1>1, <2>1 DEF Quiet
  <2>2. ASSUME NEW d \in Callers, Abandons(d) \/ Saves(d) PROVE FALSE
    BY <1>1, <2>2 DEF Abandons, Saves, Ends, IInv, TypeOK
  <2>3. ASSUME NEW d \in Callers, SendRefresh(d)
        PROVE  RefreshTokens(cur'[c]) \cap retired = {}
    BY <1>1, <2>3 DEF SendRefresh, IInv, TypeOK, RetiredInv
  <2>4. ASSUME NEW d \in Callers, Mint(d) PROVE FALSE
    BY <1>1, <2>4, MintEffect DEF IInv, TypeOK
  <2>5. ASSUME NEW d \in Callers, LoseConnection(d) PROVE FALSE
    BY <1>1, <2>5 DEF LoseConnection, callerVars
  <2>6. CASE User
    BY <1>1, <2>6 DEF User, ConnectExchange, ConnectLookup, ConnectUpdate,
                      ConnectInsert, ConnectLost, Disconnect, callerVars
  <2>7. ASSUME NEW p \in Procs, Crash(p) PROVE FALSE
    BY <1>1, <2>7 DEF Crash
  <2>8. TypeOK
    BY <1>1 DEF IInv
  <2> QED
    BY <1>1, <2>1, <2>2, <2>3, <2>4, <2>5, <2>6, <2>7, <2>8, StepKinds
<1>2. IInv /\ [Next]_vars =>
        [\A c \in Callers :
            pc[c] # "sent" /\ pc'[c] = "sent"
                => RefreshTokens(cur'[c]) \cap retired = {}]_vars
  BY <1>1
<1> QED
  BY <1>2, Inductive, PTL DEF Spec, NeverSpendsRetired

\* Whoever writes the secrets row, the credential in it only becomes newer.
THEOREM WritesMoveForward == Spec => NoLostWrite
<1>1. ASSUME IInv, [Next]_vars, row # row', row # NoRow, row' # NoRow
      PROVE  Newer(row', row)
  <2> USE <1>1 DEF Newer
  <2>1. CASE Quiet
    BY <2>1 DEF Quiet
  <2>2. ASSUME NEW c \in Callers, Saves(c) PROVE Newer(row', row)
    BY <2>2 DEF Saves, IInv, LockInv, FlightInv
  <2>3. ASSUME NEW c \in Callers,
               Abandons(c) \/ SendRefresh(c) \/ Mint(c) \/ LoseConnection(c)
        PROVE  FALSE
    BY <2>3 DEF Abandons, SendRefresh, Mint, LoseConnection, storeVars
  <2>4. CASE ConnectUpdate
    <3>1. connect.pair \in Row /\ row.grant < connect.pair.grant
      BY <2>4 DEF ConnectUpdate, IInv, ConnectInv, TypeOK, Carrying
    <3>2. row'.grant = connect.pair.grant
      BY <2>4, <3>1 DEF ConnectUpdate, Row
    <3> QED
      BY <3>1, <3>2 DEF Row, IInv, TypeOK
  <2>5. CASE User
    BY <2>4, <2>5 DEF User, ConnectExchange, ConnectLookup, ConnectInsert,
                      ConnectLost, Disconnect, storeVars
  <2>6. ASSUME NEW p \in Procs, Crash(p) PROVE FALSE
    BY <2>6 DEF Crash
  <2>7. TypeOK
    BY DEF IInv
  <2> QED
    BY <2>1, <2>2, <2>3, <2>5, <2>6, <2>7, StepKinds
<1>2. IInv /\ [Next]_vars =>
        [row # row' /\ row # NoRow /\ row' # NoRow => Newer(row', row)]_vars
  BY <1>1
<1> QED
  BY <1>2, Inductive, PTL DEF Spec, NoLostWrite

\* A refresh is decided by a step of its own caller: no other caller, user or
\* fault moves it to "finishing".
LEMMA DecidedByItsCaller ==
  ASSUME TypeOK, [Next]_vars, NEW c \in Callers,
         pc[c] \in {"waiting", "sent", "minted"}, pc'[c] = "finishing"
  PROVE  Acquire(c) \/ LockFails(c) \/ ProviderAnswers(c) \/ Store(c)
<1> USE DEF TypeOK
<1>1. CASE \E d \in Callers : Begin(d) \/ Enter(d)
  BY <1>1 DEF Begin, Enter, LoadSecret, LoadMissing, ReturnFresh, PlainResolve,
              JoinInflight, StartRefresh, Answer, Ready
<1>2. ASSUME NEW d \in Callers, d # c, Acquire(d) \/ LockFails(d) PROVE FALSE
  BY <1>2 DEF Acquire, LockGone, LockReuse, LockNoPath, SendRefresh, LockFails,
              EndFlight
<1>3. ASSUME NEW d \in Callers, d # c, ProviderAnswers(d) PROVE FALSE
  BY <1>3 DEF ProviderAnswers, Mint, InvalidGrant, InvalidClient,
              TransientFailure, RequestTimesOut, EndFlight
<1>4. ASSUME NEW d \in Callers, d # c, Store(d) PROVE FALSE
  BY <1>4 DEF Store, SaveRotated, SaveFails, SaveUnanswered, ReplyLost, EndFlight
<1>5. ASSUME NEW d \in Callers, Settle(d) PROVE FALSE
  BY <1>5 DEF Settle
<1>6. CASE User \/ Environment
  BY <1>6 DEF User, ConnectExchange, ConnectLookup, ConnectUpdate,
              ConnectInsert, ConnectLost, Disconnect, Environment, Age,
              RevokeGrant, StrayArrives, callerVars
<1>7. ASSUME NEW d \in Callers, LoseConnection(d) PROVE FALSE
  BY <1>7 DEF LoseConnection, callerVars
<1>8. ASSUME NEW p \in Procs, Crash(p) PROVE FALSE
  BY <1>8 DEF Crash
<1>9. CASE UNCHANGED vars
  BY <1>9 DEF vars, callerVars
<1> QED
  BY <1>1, <1>2, <1>3, <1>4, <1>5, <1>6, <1>7, <1>8, <1>9 DEF Next, Resolve, Fault

\* A refresh that yields a bearer yields the one the row then holds.
LEMMA ReturnedIsStored ==
  ASSUME IInv, [Next]_vars, NEW c \in Callers,
         pc[c] \in {"waiting", "sent", "minted"}, pc'[c] = "finishing",
         result'[c].kind = "ok"
  PROVE  row' # NoRow /\ result'[c].at = row'.at
<1> USE DEF IInv, TypeOK, Ok, Reauth, Transient, Config, Committed,
                 EndFlight, LockInv, Requesting
<1>1. CASE Acquire(c) \/ LockFails(c)
  BY <1>1 DEF Acquire, LockGone, LockReuse, LockNoPath, SendRefresh,
              LockFails, RowThere
<1>2. CASE ProviderAnswers(c)
  BY <1>2 DEF ProviderAnswers, Mint, InvalidGrant, InvalidClient,
              TransientFailure, RequestTimesOut, AfterTransient
<1>3. CASE Store(c)
  BY <1>3 DEF Store, SaveRotated, SaveFails, SaveUnanswered, ReplyLost,
              AfterTransient, Carrying
<1> QED
  BY <1>1, <1>2, <1>3, DecidedByItsCaller

\* Nobody is handed a bearer that is not in the store at that moment: neither
\* an unsaved one, nor the caller's own older copy.
THEOREM ReturnsOnlyStored == Spec => StoredBeforeReturned
<1>1. IInv /\ [Next]_vars =>
        [\A c \in Callers :
            pc[c] \in {"waiting", "sent", "minted"} /\ pc'[c] = "finishing"
                /\ result'[c].kind = "ok"
            => row' # NoRow /\ result'[c].at = row'.at]_vars
  BY ReturnedIsStored
<1> QED
  BY <1>1, Inductive, PTL DEF Spec, StoredBeforeReturned

\* "Reconnect" is the verdict of a refresh only on a stored credential that no
\* refresh could revive, faults included.
THEOREM ReconnectOnlyDeadGrant == Spec => ReauthMeansDeadGrant
<1>1. ASSUME IInv, [Next]_vars, NEW c \in Callers,
             pc[c] \in {"waiting", "sent", "minted"}, pc'[c] = "finishing",
             result'[c] = Reauth
      PROVE  row # NoRow /\ (~HasRefreshPath(row) \/ ~Accepts(row))
  <2> USE <1>1 DEF IInv, TypeOK, Ok, Reauth, Transient, Config, Committed,
                   EndFlight, LockInv, Requesting
  <2>1. CASE Acquire(c) \/ LockFails(c)
    BY <2>1 DEF Acquire, LockGone, LockReuse, LockNoPath, SendRefresh,
                LockFails, RowThere
  <2>2. CASE ProviderAnswers(c)
    BY <2>2 DEF ProviderAnswers, Mint, InvalidGrant, InvalidClient,
                TransientFailure, RequestTimesOut, AfterTransient
  <2>3. CASE Store(c)
    BY <2>3 DEF Store, SaveRotated, SaveFails, SaveUnanswered, ReplyLost,
                AfterTransient
  <2> QED
    BY <2>1, <2>2, <2>3, DecidedByItsCaller
<1>2. IInv /\ [Next]_vars =>
        [\A c \in Callers :
            pc[c] \in {"waiting", "sent", "minted"} /\ pc'[c] = "finishing"
                /\ result'[c] = Reauth
            => row # NoRow /\ (~HasRefreshPath(row) \/ ~Accepts(row))]_vars
  BY <1>1
<1> QED
  BY <1>2, Inductive, PTL DEF Spec, ReauthMeansDeadGrant

\* Every behaviour of the resolver is one of the abstract credential: a refresh
\* is an exclusive read-modify-write of the row, or leaves no trace.
THEOREM Refinement == Spec => ImplementsStoredCredential
<1> DEFINE ref == IF lock \in Callers THEN cur[lock] ELSE NoRow
<1> USE ConstantsAssumption
<1>1. Init => Exclusive!Init
  <2> SUFFICES ASSUME Init PROVE Exclusive!Init
    OBVIOUS
  <2>1. PICK k \in InitKinds :
          row = [id |-> 1, kind |-> k, at |-> 1, grant |-> 1,
                 rt |-> IF k = "refreshable" THEN 1 ELSE 0]
    BY DEF Init
  <2>2. row \in Row
    BY <2>1 DEF Row, Kinds, Tokens
  <2> QED
    BY <2>2 DEF Init, Exclusive!Init
<1>2. ASSUME IInv, [Next]_vars PROVE [Exclusive!Next]_(Exclusive!vars)
  <2> SUFFICES Exclusive!Next \/ (row' = row /\ ref' = ref)
    BY DEF Exclusive!vars
  <2> USE <1>2 DEF Exclusive!Next
  <2>1. TypeOK /\ LockInv /\ FlightInv
    BY DEF IInv
  <2>2. CASE Quiet
    BY <2>2 DEF Quiet
  <2>3. ASSUME NEW c \in Callers, Abandons(c)
        PROVE  Exclusive!Next \/ (row' = row /\ ref' = ref)
    <3>1. CASE lock = c
      <4>1. ref # NoRow /\ ref' = NoRow /\ row' = row
        BY <2>1, <2>3, <3>1 DEF Abandons, Ends, LockInv
      <4> QED
        BY <4>1 DEF Exclusive!AbandonRefresh
    <3>2. CASE lock # c
      BY <2>1, <2>3, <3>2 DEF Abandons, Ends, TypeOK
    <3> QED
      BY <3>1, <3>2
  <2>4. ASSUME NEW c \in Callers, Saves(c) PROVE Exclusive!CompleteRefresh
    <3>1. ref = row /\ row # NoRow /\ ref' = NoRow /\ cur[c] = row
      BY <2>1, <2>4 DEF Saves, Ends, LockInv
    <3>2. row' \in Row
      BY <2>1, <2>4 DEF Saves, TypeOK, Carrying
    <3> QED
      BY <2>1, <2>4, <3>1, <3>2 DEF Saves, FlightInv, Exclusive!CompleteRefresh
  <2>5. ASSUME NEW c \in Callers, SendRefresh(c) PROVE Exclusive!BeginRefresh
    <3>1. ref = NoRow /\ row # NoRow /\ ref' = row /\ row' = row
      BY <2>1, <2>5 DEF SendRefresh, CanLock, RowThere, TypeOK
    <3> QED
      BY <3>1 DEF Exclusive!BeginRefresh
  <2>6. ASSUME NEW c \in Callers, Mint(c) PROVE row' = row /\ ref' = ref
    BY <2>6 DEF Mint, storeVars
  <2>7. ASSUME NEW c \in Callers, LoseConnection(c)
        PROVE  Exclusive!AbandonRefresh
    <3>1. ref # NoRow /\ ref' = NoRow /\ row' = row
      BY <2>1, <2>7 DEF LoseConnection, LockInv
    <3> QED
      BY <3>1 DEF Exclusive!AbandonRefresh
  <2>8. ASSUME NEW p \in Procs, Crash(p)
        PROVE  Exclusive!Next \/ (row' = row /\ ref' = ref)
    <3>1. CASE lock' = lock
      BY <2>1, <2>8, <3>1 DEF Crash, TypeOK
    <3>2. CASE lock' # lock
      <4>1. ref # NoRow /\ ref' = NoRow /\ row' = row
        BY <2>1, <2>8, <3>2 DEF Crash, LockInv, TypeOK
      <4> QED
        BY <4>1 DEF Exclusive!AbandonRefresh
    <3> QED
      BY <3>1, <3>2
  <2>9. CASE ConnectExchange \/ ConnectLookup \/ ConnectLost
    BY <2>9 DEF ConnectExchange, ConnectLookup, ConnectLost, storeVars, callerVars
  <2>10. CASE ConnectUpdate
    <3>1. connect.pair \in Row /\ row \in Row
      BY <2>1, <2>10 DEF ConnectUpdate, TypeOK, Carrying
    <3>2. row' \in Row /\ row'.id = row.id /\ row'.grant = connect.pair.grant
      BY <2>10, <3>1 DEF ConnectUpdate, Row
    <3>3. row'.grant > row.grant
      BY <2>10, <3>1, <3>2 DEF ConnectUpdate, IInv, ConnectInv, Row
    <3>4. ref = NoRow /\ ref' = NoRow
      BY <2>10 DEF ConnectUpdate
    <3> QED
      BY <2>10, <3>2, <3>3, <3>4 DEF ConnectUpdate, Exclusive!Replace
  <2>11. CASE ConnectInsert
    <3>1. connect.pair \in Row /\ rows \in Nat
      BY <2>1, <2>11 DEF ConnectInsert, TypeOK, Carrying
    <3>2. row' \in Row
      BY <2>11, <3>1 DEF ConnectInsert, Row
    <3>3. lock \notin Callers
      BY <2>1, <2>11 DEF ConnectInsert, LockInv
    <3> QED
      BY <2>11, <3>2, <3>3 DEF ConnectInsert, Exclusive!Insert
  <2>12. CASE Disconnect
    BY <2>12 DEF Disconnect, Exclusive!Remove
  <2> QED
    BY <2>1, <2>2, <2>3, <2>4, <2>5, <2>6, <2>7, <2>8, <2>9, <2>10, <2>11,
       <2>12, StepKinds
    DEF User
<1> QED
  BY <1>1, <1>2, Inductive, PTL
  DEF Spec, ImplementsStoredCredential, Exclusive!Spec

(***************************************************************************)
(* Tool calls.  ToolNext composes Next with the calls, so IInv carries     *)
(* over; what a call holds of an earlier resolution is added to it.        *)
(***************************************************************************)

\* What a call is about to send, or has sent, it was given.
Holding ==
    \A c \in Callers :
        stage[c] \in Requests =>
            pc[c] = "done" /\ result[c].kind = "ok" /\ result[c].at = bearer[c]

\* A call that resolves again was rejected.
Retrying ==
    \A c \in Callers :
        stage[c] \in {"resolveAgain", "forcedResolve"} =>
            bearer[c] \in Tokens /\ Rejects(bearer[c])

\* How often a call may have forced a refresh by now.
Forced(s) ==
    IF s \in {"resolve", "open", "request"} THEN 0..0
    ELSE IF s \in {"resolveAgain", "openAgain", "requestAgain", "call"} THEN 0..1
    ELSE 0..2

Sparing == \A c \in Callers : spent[c].forced \in Forced(stage[c])

\* Every bearer in hand was minted.
Handed ==
    \A c \in Callers :
        /\ bearer[c] <= minted
        /\ result[c].kind = "ok" => result[c].at \in Tokens /\ result[c].at <= minted
        /\ snap[c] # NoRow => snap[c].at <= minted

\* Until the user authorises anew, none is newer than the one that is stored.
StoredIsNewest ==
    /\ connect.pc # "idle" => grants > 1
    /\ grants = 1 /\ row # NoRow =>
          \A c \in Callers :
              /\ bearer[c] <= row.at
              /\ result[c].kind = "ok" => result[c].at <= row.at
              /\ snap[c] # NoRow => snap[c].at <= row.at

ToolInv == IInv /\ ToolTypeOK /\ Holding /\ Retrying /\ Sparing /\ Handed
             /\ StoredIsNewest

\* What the resolver does while no call starts or dies.
Resolver ==
    \/ \E c \in Callers : Resolve(c) \/ LockFails(c) \/ LoseConnection(c)
    \/ User
    \/ Environment

LEMMA ToolSteps ==
  ASSUME [ToolNext]_allVars
  PROVE  [Next]_vars
<1>1. ASSUME NEW c \in Callers, NEW f \in BOOLEAN, Load(c, f) PROVE Next
  BY <1>1 DEF Load, Next, Begin
<1>2. ASSUME NEW c \in Callers, NEW r \in Routes, StartCall(c, r) PROVE Next
  BY <1>1, <1>2 DEF StartCall
<1>3. ASSUME NEW c \in Callers, RejectedOnce(c) PROVE Next
  BY <1>1, <1>3 DEF RejectedOnce
<1>4. ASSUME NEW c \in Callers,
             Continue(c) \/ Accepted(c) \/ UpstreamFails(c) \/ RejectedAgain(c)
      PROVE  UNCHANGED vars
  BY <1>4 DEF Continue, Resolved, NotResolved, Accepted, UpstreamFails,
              RejectedAgain
<1>5. ASSUME NEW t \in Tokens, RevokeAccess(t) PROVE UNCHANGED vars
  BY <1>5 DEF RevokeAccess
<1>6. ASSUME NEW p \in Procs, CrashGateway(p) PROVE Next
  BY <1>6 DEF CrashGateway, Next, Fault
<1>7. CASE Resolver
  BY <1>7 DEF Resolver, Next, Fault
<1>8. CASE UNCHANGED allVars
  BY <1>8 DEF allVars
<1> QED
  BY <1>2, <1>3, <1>4, <1>5, <1>6, <1>7, <1>8 DEF ToolNext, UpstreamAnswers,
     Resolver

\* The resolver changes nothing of a call that does not await it.
LEMMA Undisturbed ==
  ASSUME TypeOK, Resolver, NEW c \in Callers, Ready(c)
  PROVE  pc'[c] = pc[c] /\ result'[c] = result[c]
<1> USE DEF TypeOK, Ready
<1>1. ASSUME NEW d \in Callers, Enter(d) PROVE pc'[c] = pc[c] /\ result'[c] = result[c]
  BY <1>1 DEF Enter, ReturnFresh, PlainResolve, JoinInflight, StartRefresh, Answer
<1>2. ASSUME NEW d \in Callers, Acquire(d) \/ LockFails(d)
      PROVE  pc'[c] = pc[c] /\ result'[c] = result[c]
  BY <1>2 DEF Acquire, LockGone, LockReuse, LockNoPath, SendRefresh, LockFails,
              CanLock, EndFlight
<1>3. ASSUME NEW d \in Callers, ProviderAnswers(d)
      PROVE  pc'[c] = pc[c] /\ result'[c] = result[c]
  BY <1>3 DEF ProviderAnswers, Mint, InvalidGrant, InvalidClient,
              TransientFailure, RequestTimesOut, EndFlight
<1>4. ASSUME NEW d \in Callers, Store(d)
      PROVE  pc'[c] = pc[c] /\ result'[c] = result[c]
  BY <1>4 DEF Store, SaveRotated, SaveFails, SaveUnanswered, ReplyLost, EndFlight
<1>5. ASSUME NEW d \in Callers, Settle(d)
      PROVE  pc'[c] = pc[c] /\ result'[c] = result[c]
  BY <1>5 DEF Settle
<1>6. CASE User \/ Environment \/ \E d \in Callers : LoseConnection(d)
  BY <1>6 DEF User, ConnectExchange, ConnectLookup, ConnectUpdate,
              ConnectInsert, ConnectLost, Disconnect, Environment, Age,
              RevokeGrant, StrayArrives, callerVars, LoseConnection
<1> QED
  BY <1>1, <1>2, <1>3, <1>4, <1>5, <1>6 DEF Resolver, Resolve

\* A resolution that starts has no outcome yet, or that nothing is stored.
LEMMA Loads ==
  ASSUME TypeOK, NEW c \in Callers, NEW f \in BOOLEAN, Load(c, f)
  PROVE  /\ Ready(c)
         /\ result'[c].kind # "ok"
         /\ snap'[c] \in {snap[c], row}
         /\ \A d \in Callers \ {c} : /\ pc'[d] = pc[d] /\ result'[d] = result[d]
                                     /\ snap'[d] = snap[d]
         /\ UNCHANGED <<row, minted, grants, life, connect>>
BY DEF TypeOK, Load, LoadSecret, LoadMissing, None, Missing, storeVars, providerVars

\* Tokens and grants are only added, and what has expired stays so.
LEMMA Grows ==
  ASSUME TypeOK, [Next]_vars
  PROVE  /\ minted <= minted' /\ grants <= grants'
         /\ \A t \in Tokens : t <= minted /\ life[t] = "expired" => life'[t] = "expired"
<1> DEFINE U == UNCHANGED <<minted, grants, life>>
           G == /\ minted <= minted' /\ grants <= grants'
                /\ \A t \in Tokens :
                      t <= minted /\ life[t] = "expired" => life'[t] = "expired"
<1>0. U => G
  BY DEF TypeOK, Tokens
<1>1. ASSUME NEW c \in Callers, Begin(c) \/ Enter(c) \/ Settle(c) PROVE U
  BY <1>1 DEF Begin, Enter, LoadSecret, LoadMissing, ReturnFresh, PlainResolve,
              JoinInflight, StartRefresh, Answer, Settle, providerVars
<1>2. ASSUME NEW c \in Callers, Acquire(c) \/ LockFails(c) \/ Store(c) PROVE U
  BY <1>2 DEF Acquire, LockGone, LockReuse, LockNoPath, SendRefresh, LockFails,
              Store, SaveRotated, SaveFails, SaveUnanswered, ReplyLost,
              EndFlight, providerVars
<1>3. ASSUME NEW c \in Callers, Mint(c) PROVE G
  BY <1>3 DEF Mint, TypeOK, Tokens
<1>4. ASSUME NEW c \in Callers, ProviderAnswers(c), ~Mint(c) PROVE U
  BY <1>4 DEF ProviderAnswers, InvalidGrant, InvalidClient, TransientFailure,
              RequestTimesOut, EndFlight
<1>5. ASSUME ConnectExchange PROVE G
  <2>1. PICK l \in MintLives : life' = [life EXCEPT ![minted + 1] = l]
    BY <1>5 DEF ConnectExchange
  <2>2. minted' = minted + 1 /\ grants' = grants + 1
    BY <1>5 DEF ConnectExchange
  <2> QED
    BY <2>1, <2>2 DEF TypeOK, Tokens
<1>6. ASSUME User, ~ConnectExchange PROVE U
  BY <1>6 DEF User, ConnectLookup, ConnectUpdate, ConnectInsert, ConnectLost,
              Disconnect, providerVars
<1>7. ASSUME NEW t \in Tokens, Age(t) PROVE G
  BY <1>7 DEF Age, providerVars, TypeOK, Tokens
<1>8. ASSUME NEW g \in 1..MaxGrants, RevokeGrant(g) PROVE U
  BY <1>8 DEF RevokeGrant
<1>9. ASSUME NEW t \in RefreshToken, StrayArrives(t) PROVE U
  BY <1>9 DEF StrayArrives
<1>10. ASSUME NEW c \in Callers, LoseConnection(c) PROVE U
  BY <1>10 DEF LoseConnection, providerVars
<1>11. ASSUME NEW p \in Procs, Crash(p) PROVE U
  BY <1>11 DEF Crash
<1>12. UNCHANGED vars => U
  BY DEF vars, providerVars
<1> HIDE DEF U, G
<1>13. G
  BY <1>0, <1>1, <1>2, <1>3, <1>4, <1>5, <1>6, <1>7, <1>8, <1>9, <1>10, <1>11,
     <1>12
  DEF Next, Resolve, Environment, Fault
<1> QED
  BY <1>13 DEF G

\* Where a bearer in hand comes from: the caller's copy of the row, another's
\* outcome, or the row itself.
LEMMA Sources ==
  ASSUME IInv, [Next]_vars, NEW c \in Callers
  PROVE  /\ \/ snap'[c] \in {snap[c], NoRow}
            \/ row # NoRow /\ snap'[c] = row /\ row' = row
         /\ \/ result'[c].kind # "ok"
            \/ \E d \in Callers : result'[c] = result[d]
            \/ snap[c] # NoRow /\ result'[c].at = snap[c].at
            \/ row' # NoRow /\ result'[c].at = row'.at
<1> DEFINE G == /\ \/ snap'[c] \in {snap[c], NoRow}
                   \/ row # NoRow /\ snap'[c] = row /\ row' = row
                /\ \/ result'[c].kind # "ok"
                   \/ \E d \in Callers : result'[c] = result[d]
                   \/ snap[c] # NoRow /\ result'[c].at = snap[c].at
                   \/ row' # NoRow /\ result'[c].at = row'.at
<1>0. TypeOK
  BY DEF IInv
<1>1. ASSUME NEW d \in Callers, Begin(d) PROVE G
  BY <1>0, <1>1 DEF TypeOK, Begin, LoadSecret, LoadMissing, None, Missing, storeVars
<1>2. ASSUME NEW d \in Callers, Enter(d) PROVE G
  BY <1>0, <1>2 DEF TypeOK, Carrying, Ready, Enter, ReturnFresh, PlainResolve,
       JoinInflight, StartRefresh, Answer, Ok, Reauth
<1>3. ASSUME NEW d \in Callers, Settle(d) PROVE G
  BY <1>0, <1>3 DEF TypeOK, Settle
<1>4. ASSUME NEW d \in Callers, Acquire(d) \/ LockFails(d) PROVE G
  BY <1>0, <1>4 DEF TypeOK, Acquire, LockGone, LockReuse, LockNoPath, SendRefresh,
       LockFails, RowThere, EndFlight, Ok, Reauth, Transient
<1>5. ASSUME NEW d \in Callers, ProviderAnswers(d) PROVE G
  BY <1>0, <1>5 DEF IInv, TypeOK, LockInv, ProviderAnswers, Mint, InvalidGrant, InvalidClient,
       TransientFailure, RequestTimesOut, AfterTransient, Committed, EndFlight, Ok,
       Reauth, Transient, Config, storeVars
<1>6. ASSUME NEW d \in Callers, Store(d) PROVE G
  BY <1>0, <1>6 DEF IInv, TypeOK, LockInv, Carrying, Store, SaveRotated, SaveFails,
       SaveUnanswered, ReplyLost, AfterTransient, Committed, EndFlight, Ok, Transient
<1>7. CASE User \/ Environment \/ UNCHANGED vars
  BY <1>7 DEF User, ConnectExchange, ConnectLookup, ConnectUpdate,
              ConnectInsert, ConnectLost, Disconnect, Environment, Age,
              RevokeGrant, StrayArrives, vars, callerVars
<1>8. CASE \E d \in Callers : LoseConnection(d)
  BY <1>8 DEF LoseConnection, callerVars
<1>9. ASSUME NEW p \in Procs, Crash(p) PROVE G
  BY <1>0, <1>9 DEF TypeOK, Crash, None
<1> QED
  BY <1>1, <1>2, <1>3, <1>4, <1>5, <1>6, <1>7, <1>8, <1>9 DEF Next, Resolve, Fault

\* While the user has authorised only once, the row is not written but by a
\* refresh, and then with a later token.
LEMMA RowMovesForward ==
  ASSUME IInv, [Next]_vars, grants' = 1, connect.pc = "idle", row' # NoRow
  PROVE  row # NoRow /\ row'.at >= row.at /\ connect'.pc = "idle"
<1> USE DEF IInv, TypeOK
<1>1. CASE Quiet
  BY <1>1 DEF Quiet, Row, Tokens
<1>2. ASSUME NEW c \in Callers, Abandons(c) \/ Saves(c)
      PROVE  row # NoRow /\ row'.at >= row.at /\ connect'.pc = "idle"
  BY <1>2 DEF Abandons, Saves, Ends, LockInv, FlightInv, Row, Tokens
<1>3. ASSUME NEW c \in Callers, SendRefresh(c) \/ Mint(c) \/ LoseConnection(c)
      PROVE  row # NoRow /\ row'.at >= row.at /\ connect'.pc = "idle"
  BY <1>3 DEF SendRefresh, Mint, LoseConnection, storeVars, Row, Tokens
<1>4. CASE User
  BY <1>4 DEF User, ConnectExchange, ConnectLookup, ConnectUpdate,
              ConnectInsert, ConnectLost, Disconnect, storeVars, Row, Tokens
<1>5. ASSUME NEW p \in Procs, Crash(p)
      PROVE  row # NoRow /\ row'.at >= row.at /\ connect'.pc = "idle"
  BY <1>5 DEF Crash, Row, Tokens
<1> QED
  BY <1>1, <1>2, <1>3, <1>4, <1>5, StepKinds

LEMMA ConnectGrants ==
  ASSUME TypeOK, [Next]_vars, connect.pc # "idle" => grants > 1
  PROVE  connect'.pc # "idle" => grants' > 1
<1> DEFINE G == connect'.pc # "idle" => grants' > 1
<1>0. UNCHANGED connect => G
  BY Grows, TypeNext DEF TypeOK
<1>1. ASSUME NEW c \in Callers, Begin(c) \/ Enter(c) \/ Settle(c)
      PROVE  UNCHANGED connect
  BY <1>1 DEF Begin, Enter, LoadSecret, LoadMissing, ReturnFresh, PlainResolve,
              JoinInflight, StartRefresh, Answer, Settle
<1>2. ASSUME NEW c \in Callers, Acquire(c) \/ LockFails(c) \/ Store(c)
      PROVE  UNCHANGED connect
  BY <1>2 DEF Acquire, LockGone, LockReuse, LockNoPath, SendRefresh, LockFails,
              Store, SaveRotated, SaveFails, SaveUnanswered, ReplyLost, EndFlight
<1>3. ASSUME NEW c \in Callers, ProviderAnswers(c) PROVE UNCHANGED connect
  BY <1>3 DEF ProviderAnswers, Mint, InvalidGrant, InvalidClient,
              TransientFailure, RequestTimesOut, EndFlight
<1>4. ASSUME ConnectExchange PROVE G
  BY <1>4 DEF ConnectExchange, TypeOK
<1>5. ASSUME ConnectLookup PROVE G
  BY <1>5 DEF ConnectLookup, providerVars, TypeOK
<1>6. ASSUME ConnectUpdate \/ ConnectInsert \/ ConnectLost PROVE G
  BY <1>6 DEF ConnectUpdate, ConnectInsert, ConnectLost, NoConnect
<1>7. ASSUME Disconnect PROVE UNCHANGED connect
  BY <1>7 DEF Disconnect
<1>8. ASSUME Environment PROVE UNCHANGED connect
  BY <1>8 DEF Environment, Age, RevokeGrant, StrayArrives
<1>9. ASSUME \/ \E c \in Callers : LoseConnection(c)
             \/ \E p \in Procs : Crash(p)
      PROVE  UNCHANGED connect
  BY <1>9 DEF LoseConnection, Crash
<1>10. UNCHANGED vars => UNCHANGED connect
  BY DEF vars
<1> HIDE DEF G
<1>11. G
  BY <1>0, <1>1, <1>2, <1>3, <1>4, <1>5, <1>6, <1>7, <1>8, <1>9, <1>10
  DEF Next, Resolve, User, Fault
<1> QED
  BY <1>11 DEF G

-----------------------------------------------------------------------------
LEMMA ToolInit0 == ToolInit => ToolInv
<1> SUFFICES ASSUME ToolInit PROVE ToolInv
  OBVIOUS
<1>1. IInv /\ Init
  BY IInvInit DEF ToolInit
<1>2. ToolTypeOK
  <2>1. (CHOOSE r \in Routes : TRUE) \in Routes
    BY RoutesAssumption
  <2>2. Unspent \in [forced : 0..2, rejected : SUBSET Tokens]
    BY DEF Unspent
  <2>3. \A c \in Callers : Ready(c)
    BY <1>1 DEF Init, Ready
  <2> QED
    BY <2>1, <2>2, <2>3, ConstantsAssumption DEF ToolInit, ToolTypeOK, Stage, Answers, Requests
<1>3. Holding /\ Retrying /\ Sparing
  BY DEF ToolInit, Holding, Retrying, Sparing, Requests, Forced, Unspent
<1>4. Handed /\ StoredIsNewest
  BY <1>1 DEF ToolInit, Init, Handed, StoredIsNewest, None, NoConnect, IInv, TypeOK,
     Row, Tokens
<1> QED
  BY <1>1, <1>2, <1>3, <1>4 DEF ToolInv

\* A call that was rejected stays so.
LEMMA RejectsForGood ==
  ASSUME ToolInv, [ToolNext]_allVars, NEW t \in Tokens, t <= minted, Rejects(t)
  PROVE  Rejects(t)'
<1>1. revoked \subseteq revoked'
  BY DEF ToolNext, StartCall, Continue, Resolved, NotResolved, UpstreamAnswers, Accepted,
     UpstreamFails, RejectedOnce, RejectedAgain, RevokeAccess, CrashGateway,
     toolVars, allVars
<1> QED
  BY <1>1, ToolSteps, Grows DEF ToolInv, IInv, Rejects

LEMMA RequestAfterIs ==
  ASSUME NEW c \in Callers
  PROVE  /\ stage[c] = "resolve" => RequestAfter(c) \in {"open", "request"}
         /\ stage[c] = "resolveAgain" => RequestAfter(c) \in {"openAgain", "requestAgain"}
         /\ stage[c] = "forcedResolve" => RequestAfter(c) = "forcedOpen"
BY DEF RequestAfter

LEMMA BearerSources ==
  ASSUME ToolTypeOK, [ToolNext]_allVars, NEW c \in Callers
  PROVE  \/ bearer'[c] \in {bearer[c], 0}
         \/ result[c].kind = "ok" /\ bearer'[c] = result[c].at
BY DEF ToolTypeOK, ToolNext, StartCall, Continue, Resolved, NotResolved, UpstreamAnswers,
   Accepted, UpstreamFails, RejectedOnce, RejectedAgain, RevokeAccess, CrashGateway,
   toolVars, allVars

LEMMA HandedNext ==
  ASSUME ToolInv, [ToolNext]_allVars
  PROVE  Handed'
<1>1. [Next]_vars /\ IInv /\ TypeOK
  BY ToolSteps DEF ToolInv, IInv
<1>2. IInv' /\ TypeOK'
  BY <1>1, IInvNext DEF IInv
<1>3. minted <= minted' /\ minted \in Int /\ minted' \in Int /\ 0 <= minted
  BY <1>1, <1>2, Grows DEF TypeOK, Tokens
<1> SUFFICES ASSUME NEW c \in Callers
             PROVE  /\ bearer'[c] <= minted'
                    /\ result'[c].kind = "ok" => result'[c].at \in Tokens /\ result'[c].at <= minted'
                    /\ snap'[c] # NoRow => snap'[c].at <= minted'
  BY DEF Handed
<1>4. bearer'[c] <= minted'
  BY <1>3, BearerSources DEF ToolInv, ToolTypeOK, Handed, Tokens
<1>5. row' # NoRow => row'.at \in Tokens /\ row'.at <= minted'
  BY <1>2 DEF IInv, IssuedInv, Issued, TypeOK, Row
<1>6. snap[c] # NoRow => snap[c].at \in Tokens /\ snap[c].at <= minted
  BY <1>1 DEF ToolInv, Handed, TypeOK, Row
<1>7. snap'[c] # NoRow => snap'[c].at <= minted'
  BY <1>1, <1>3, <1>5, <1>6, Sources DEF Tokens
<1>8. result'[c].kind = "ok" => result'[c].at \in Tokens /\ result'[c].at <= minted'
  <2>1. CASE \E d \in Callers : result'[c] = result[d]
    BY <1>3, <2>1 DEF ToolInv, Handed, Tokens
  <2>2. CASE snap[c] # NoRow /\ result'[c].at = snap[c].at
    BY <1>3, <1>6, <2>2 DEF Tokens
  <2>3. CASE row' # NoRow /\ result'[c].at = row'.at
    BY <1>5, <2>3
  <2> QED
    BY <1>1, <2>1, <2>2, <2>3, Sources
<1> QED
  BY <1>4, <1>7, <1>8

LEMMA StoredIsNewestNext ==
  ASSUME ToolInv, [ToolNext]_allVars
  PROVE  StoredIsNewest'
<1>1. [Next]_vars /\ IInv /\ TypeOK
  BY ToolSteps DEF ToolInv, IInv
<1>2. TypeOK'
  BY <1>1, IInvNext DEF IInv
<1>3. connect'.pc # "idle" => grants' > 1
  BY <1>1, ConnectGrants DEF ToolInv, StoredIsNewest
<1>4. ASSUME grants' = 1, row' # NoRow, NEW c \in Callers
      PROVE  /\ bearer'[c] <= row'.at
             /\ result'[c].kind = "ok" => result'[c].at <= row'.at
             /\ snap'[c] # NoRow => snap'[c].at <= row'.at
  <2>1. grants = 1
    BY <1>1, <1>4, Grows DEF TypeOK
  <2>2. connect.pc = "idle"
    BY <2>1 DEF ToolInv, StoredIsNewest
  <2>3. row # NoRow /\ row'.at >= row.at /\ row.at \in Int /\ row'.at \in Int /\ row'.at >= 0
    BY <1>1, <1>2, <1>4, <2>2, RowMovesForward DEF TypeOK, Row, Tokens
  <2>4. \A d \in Callers : /\ bearer[d] <= row.at /\ bearer[d] \in Int
                           /\ result[d].kind = "ok" => result[d].at <= row.at /\ result[d].at \in Int
                           /\ snap[d] # NoRow => snap[d].at <= row.at /\ snap[d].at \in Int
    BY <1>1, <2>1, <2>3 DEF ToolInv, StoredIsNewest, ToolTypeOK, TypeOK, Outcome, Row, Tokens
  <2>5. bearer'[c] <= row'.at
    BY <2>3, <2>4, BearerSources DEF ToolInv
  <2>6. snap'[c] # NoRow => snap'[c].at <= row'.at
    BY <1>1, <2>3, <2>4, Sources
  <2>7. result'[c].kind = "ok" => result'[c].at <= row'.at
    <3>1. CASE \E d \in Callers : result'[c] = result[d]
      BY <2>3, <2>4, <3>1
    <3>2. CASE snap[c] # NoRow /\ result'[c].at = snap[c].at
      BY <2>3, <2>4, <3>2
    <3>3. CASE row' # NoRow /\ result'[c].at = row'.at
      BY <2>3, <3>3
    <3> QED
      BY <1>1, <3>1, <3>2, <3>3, Sources
  <2> QED
    BY <2>5, <2>6, <2>7
<1> QED
  BY <1>3, <1>4 DEF StoredIsNewest

LEMMA HoldingNext ==
  ASSUME ToolInv, [ToolNext]_allVars
  PROVE  Holding'
<1> SUFFICES ASSUME NEW c \in Callers, stage'[c] \in Requests
             PROVE  pc'[c] = "done" /\ result'[c].kind = "ok" /\ result'[c].at = bearer'[c]
  BY DEF Holding
<1> DEFINE G == pc'[c] = "done" /\ result'[c].kind = "ok" /\ result'[c].at = bearer'[c]
<1>0. TypeOK /\ ToolTypeOK
  BY DEF ToolInv, IInv
<1>1. ASSUME stage[c] \in Requests, pc'[c] = pc[c], result'[c] = result[c],
             bearer'[c] = bearer[c]
      PROVE  G
  BY <1>1 DEF ToolInv, Holding
<1>2. ASSUME NEW d \in Callers, NEW r \in Routes, StartCall(d, r) PROVE G
  <2>1. d # c
    BY <1>0, <1>2 DEF StartCall, ToolTypeOK, Requests
  <2> QED
    BY <1>0, <1>1, <1>2, <2>1, Loads DEF StartCall, ToolTypeOK
<1>3. ASSUME NEW d \in Callers, Resolved(d) PROVE G
  BY <1>0, <1>1, <1>3 DEF Resolved, ToolTypeOK, vars, callerVars
<1>4. ASSUME NEW d \in Callers,
             NotResolved(d) \/ Accepted(d) \/ UpstreamFails(d) \/ RejectedAgain(d)
      PROVE  G
  BY <1>0, <1>1, <1>4 DEF NotResolved, Accepted, UpstreamFails, RejectedAgain,
     Return, ToolTypeOK, Requests, vars, callerVars
<1>5. ASSUME NEW d \in Callers, RejectedOnce(d) PROVE G
  <2>1. d # c
    BY <1>0, <1>5 DEF RejectedOnce, ToolTypeOK, Requests
  <2> QED
    BY <1>0, <1>1, <1>5, <2>1, Loads DEF RejectedOnce, ToolTypeOK
<1>6. ASSUME Resolver, UNCHANGED toolVars PROVE G
  <2>1. stage[c] \in Requests /\ Ready(c) /\ bearer'[c] = bearer[c]
    BY <1>0, <1>6 DEF toolVars, ToolTypeOK, Requests, Resolving
  <2> QED
    BY <1>0, <1>1, <1>6, <2>1, Undisturbed
<1>7. ASSUME NEW t \in Tokens, RevokeAccess(t) PROVE G
  BY <1>1, <1>7 DEF RevokeAccess, vars, callerVars
<1>8. ASSUME NEW p \in Procs, CrashGateway(p) PROVE G
  <2>1. ProcOf[c] # p /\ stage[c] \in Requests /\ bearer'[c] = bearer[c]
    BY <1>8 DEF CrashGateway, Requests
  <2>2. pc'[c] = pc[c] /\ result'[c] = result[c]
    BY <1>0, <1>8, <2>1 DEF CrashGateway, Crash, TypeOK
  <2> QED
    BY <1>1, <2>1, <2>2
<1>9. ASSUME UNCHANGED allVars PROVE G
  BY <1>1, <1>9 DEF allVars, toolVars, vars, callerVars
<1> HIDE DEF G
<1>10. G
  BY <1>2, <1>3, <1>4, <1>5, <1>6, <1>7, <1>8, <1>9
  DEF ToolNext, Continue, UpstreamAnswers, Resolver
<1> QED
  BY <1>10 DEF G

LEMMA RetryingNext ==
  ASSUME ToolInv, [ToolNext]_allVars
  PROVE  Retrying'
<1> SUFFICES ASSUME NEW c \in Callers, stage'[c] \in {"resolveAgain", "forcedResolve"}
             PROVE  /\ bearer'[c] \in Tokens
                    /\ bearer'[c] \in revoked' \/ life'[bearer'[c]] = "expired"
  BY DEF Retrying, Rejects
<1>0. TypeOK /\ ToolTypeOK
  BY DEF ToolInv, IInv
<1>1. bearer'[c] = bearer[c] /\ bearer[c] \in Tokens /\ Rejects(bearer[c])
  <2> DEFINE G == bearer'[c] = bearer[c] /\ bearer[c] \in Tokens /\ Rejects(bearer[c])
  <2>1. ASSUME stage'[c] = stage[c], bearer'[c] = bearer[c] PROVE G
    BY <2>1 DEF ToolInv, Retrying
  <2>2. ASSUME NEW d \in Callers, NEW r \in Routes, StartCall(d, r) PROVE G
    BY <1>0, <2>1, <2>2 DEF StartCall, ToolTypeOK
  <2>3. ASSUME NEW d \in Callers, Resolved(d) PROVE G
    BY <1>0, <2>1, <2>3, RequestAfterIs DEF Resolved, ToolTypeOK, Resolving
  <2>4. ASSUME NEW d \in Callers,
               NotResolved(d) \/ Accepted(d) \/ UpstreamFails(d) \/ RejectedAgain(d)
        PROVE  G
    BY <1>0, <2>1, <2>4 DEF NotResolved, Accepted, UpstreamFails, RejectedAgain,
       Return, ToolTypeOK
  <2>5. ASSUME NEW d \in Callers, RejectedOnce(d) PROVE G
    BY <1>0, <2>1, <2>5 DEF RejectedOnce, ToolTypeOK, Requests
  <2>6. ASSUME \/ UNCHANGED toolVars
               \/ \E t \in Tokens : RevokeAccess(t)
               \/ UNCHANGED allVars
        PROVE  G
    BY <2>1, <2>6 DEF toolVars, RevokeAccess, allVars
  <2>7. ASSUME NEW p \in Procs, CrashGateway(p) PROVE G
    BY <2>1, <2>7 DEF CrashGateway
  <2> HIDE DEF G
  <2>8. G
    BY <2>2, <2>3, <2>4, <2>5, <2>6, <2>7 DEF ToolNext, Continue, UpstreamAnswers
  <2> QED
    BY <2>8 DEF G
<1>2. PICK t \in Tokens : t = bearer[c]
  BY <1>1
<1>3. t <= minted /\ Rejects(t)
  BY <1>1, <1>2 DEF ToolInv, Handed
<1>4. Rejects(t)'
  BY <1>3, RejectsForGood
<1>5. t \in revoked' \/ life'[t] = "expired"
  BY <1>4 DEF Rejects
<1> QED
  BY <1>1, <1>2, <1>5

LEMMA SparingNext ==
  ASSUME ToolInv, [ToolNext]_allVars
  PROVE  Sparing'
<1> SUFFICES ASSUME NEW c \in Callers
             PROVE  spent'[c].forced \in Forced(stage'[c])
  BY DEF Sparing, Forced
<1> DEFINE G == spent'[c].forced \in Forced(stage'[c])
<1>0. ToolTypeOK /\ spent[c].forced \in Forced(stage[c])
  BY DEF ToolInv, Sparing
<1>1. ASSUME stage'[c] = stage[c], spent'[c] = spent[c] PROVE G
  BY <1>0, <1>1
<1>2. ASSUME NEW d \in Callers, NEW r \in Routes, StartCall(d, r) PROVE G
  BY <1>0, <1>1, <1>2 DEF StartCall, ToolTypeOK, Forced, Unspent
<1>3. ASSUME NEW d \in Callers, Resolved(d) PROVE G
  BY <1>0, <1>1, <1>3, RequestAfterIs DEF Resolved, ToolTypeOK, Resolving, Forced
<1>4. ASSUME NEW d \in Callers, NotResolved(d) \/ UpstreamFails(d) PROVE G
  BY <1>0, <1>1, <1>4 DEF NotResolved, UpstreamFails, Return, ToolTypeOK, Forced
<1>5. ASSUME NEW d \in Callers, Accepted(d) PROVE G
  BY <1>0, <1>1, <1>5 DEF Accepted, Return, ToolTypeOK, Forced
<1>6. ASSUME NEW d \in Callers, RejectedOnce(d) PROVE G
  <2>1. CASE d = c
    <3>1. spent'[c].forced = spent[c].forced + 1
      BY <1>0, <1>6, <2>1 DEF RejectedOnce, ToolTypeOK
    <3>2. stage[c] = "call" => stage'[c] = "forcedResolve"
      BY <1>0, <1>6, <2>1 DEF RejectedOnce, ToolTypeOK
    <3>3. stage[c] # "call" =>
            stage[c] \in {"open", "request"} /\ stage'[c] = "resolveAgain"
      BY <1>0, <1>6, <2>1 DEF RejectedOnce, ToolTypeOK
    <3> QED
      BY <1>0, <3>1, <3>2, <3>3 DEF Forced
  <2>2. CASE d # c
    BY <1>0, <1>1, <1>6, <2>2 DEF RejectedOnce, ToolTypeOK
  <2> QED
    BY <2>1, <2>2
<1>7. ASSUME NEW d \in Callers, RejectedAgain(d) PROVE G
  BY <1>0, <1>1, <1>7 DEF RejectedAgain, Return, ToolTypeOK, Forced
<1>8. ASSUME \/ UNCHANGED toolVars
             \/ \E t \in Tokens : RevokeAccess(t)
             \/ UNCHANGED allVars
      PROVE  G
  BY <1>1, <1>8 DEF toolVars, RevokeAccess, allVars
<1>9. ASSUME NEW p \in Procs, CrashGateway(p) PROVE G
  BY <1>0, <1>1, <1>9 DEF CrashGateway, Forced, ToolTypeOK
<1> HIDE DEF G
<1>10. G
  BY <1>2, <1>3, <1>4, <1>5, <1>6, <1>7, <1>8, <1>9
  DEF ToolNext, Continue, UpstreamAnswers
<1> QED
  BY <1>10 DEF G

LEMMA ToolTypeNext ==
  ASSUME ToolInv, [ToolNext]_allVars
  PROVE  ToolTypeOK'
<1> DEFINE Fine == /\ stage' \in [Callers -> Stage]
                   /\ route' \in [Callers -> Routes]
                   /\ bearer' \in [Callers -> 0..MaxMint]
                   /\ answer' \in [Callers -> Answers]
                   /\ spent' \in [Callers -> [forced : 0..2, rejected : SUBSET Tokens]]
                   /\ health' \in {"healthy", "unhealthy"}
                   /\ revoked' \subseteq Tokens
<1>0. TypeOK /\ ToolTypeOK
  BY DEF ToolInv, IInv
<1>1. ASSUME NEW c \in Callers, NEW r \in Routes, StartCall(c, r) PROVE Fine
  <2>1. Unspent \in [forced : 0..2, rejected : SUBSET Tokens]
    BY DEF Unspent
  <2> QED
    BY <1>0, <1>1, <2>1, ConstantsAssumption
    DEF StartCall, ToolTypeOK, Stage, Resolving, Answers
<1>2. ASSUME NEW c \in Callers, Resolved(c) PROVE Fine
  <2>1. RequestAfter(c) \in Stage
    BY <1>2, RequestAfterIs DEF Resolved, Resolving, Stage, Requests
  <2>2. result[c].at \in 0..MaxMint
    BY <1>0 DEF TypeOK, Outcome
  <2> QED
    BY <1>0, <1>2, <2>1, <2>2 DEF Resolved, ToolTypeOK
<1>3. ASSUME NEW c \in Callers, NotResolved(c) \/ UpstreamFails(c) \/ Accepted(c) PROVE Fine
  BY <1>0, <1>3 DEF NotResolved, UpstreamFails, Accepted, Return, ToolTypeOK,
     Stage, Requests, Answers
<1>4. ASSUME NEW c \in Callers, stage[c] \in Requests
      PROVE  RejectedBearers(c) \in SUBSET Tokens
  BY <1>0, <1>4 DEF ToolTypeOK, RejectedBearers
<1>5. ASSUME NEW c \in Callers, RejectedOnce(c) PROVE Fine
  <2>1. [forced |-> spent[c].forced + 1, rejected |-> RejectedBearers(c)]
           \in [forced : 0..2, rejected : SUBSET Tokens]
    <3>1. spent[c].forced + 1 \in 0..2
      BY <1>5 DEF RejectedOnce, ToolInv, Sparing, Forced
    <3>2. RejectedBearers(c) \in SUBSET Tokens
      BY <1>4, <1>5 DEF RejectedOnce, Requests
    <3> QED
      BY <3>1, <3>2
  <2> HIDE DEF Fine
  <2>2. spent' = [spent EXCEPT ![c] = [forced |-> spent[c].forced + 1,
                                       rejected |-> RejectedBearers(c)]]
    BY <1>5 DEF RejectedOnce
  <2>3. spent' \in [Callers -> [forced : 0..2, rejected : SUBSET Tokens]]
    BY <1>0, <2>1, <2>2 DEF ToolTypeOK
  <2> QED
    BY <1>0, <1>5, <2>3 DEF Fine, RejectedOnce, ToolTypeOK, Stage, Resolving
<1>6. ASSUME NEW c \in Callers, RejectedAgain(c) PROVE Fine
  <2>1. RejectedBearers(c) \in SUBSET Tokens
    BY <1>4, <1>6 DEF RejectedAgain, Requests
  <2>2. spent' \in [Callers -> [forced : 0..2, rejected : SUBSET Tokens]]
    BY <1>0, <1>6, <2>1 DEF RejectedAgain, ToolTypeOK
  <2> QED
    BY <1>0, <1>6, <2>2 DEF RejectedAgain, Return, ToolTypeOK, Stage, Answers
<1>7. ASSUME UNCHANGED toolVars \/ UNCHANGED allVars PROVE Fine
  BY <1>0, <1>7 DEF ToolTypeOK, toolVars, allVars
<1>8. ASSUME NEW t \in Tokens, RevokeAccess(t) PROVE Fine
  BY <1>0, <1>8 DEF ToolTypeOK, RevokeAccess
<1>9. ASSUME NEW p \in Procs, CrashGateway(p) PROVE Fine
  BY <1>0, <1>9 DEF ToolTypeOK, CrashGateway, Stage
<1>10. Fine
  <2> HIDE DEF Fine
  <2> QED
    BY <1>1, <1>2, <1>3, <1>5, <1>6, <1>7, <1>8, <1>9
    DEF ToolNext, Continue, UpstreamAnswers
<1>11. ASSUME NEW c \in Callers, stage'[c] \in Requests PROVE bearer'[c] \in Tokens
  BY <1>11, HoldingNext, HandedNext DEF Holding, Handed
<1>12. ASSUME NEW c \in Callers, ~(Ready(c)') PROVE stage'[c] \in Resolving
  <2> DEFINE G == stage'[c] \in Resolving
  <2>1. ASSUME pc'[c] = pc[c] PROVE stage[c] \in Resolving
    BY <1>0, <1>12, <2>1 DEF ToolTypeOK, Ready
  <2>2. ASSUME NEW d \in Callers, NEW r \in Routes, StartCall(d, r) PROVE G
    BY <1>0, <2>1, <2>2, Loads DEF StartCall, ToolTypeOK, Resolving
  <2>3. ASSUME NEW d \in Callers,
               Continue(d) \/ Accepted(d) \/ UpstreamFails(d) \/ RejectedAgain(d)
        PROVE  G
    BY <1>0, <1>12, <2>1, <2>3
    DEF Continue, Resolved, NotResolved, Accepted, UpstreamFails, RejectedAgain,
        Return, ToolTypeOK, Resolving, Requests, Ready, vars, callerVars
  <2>4. ASSUME NEW d \in Callers, RejectedOnce(d) PROVE G
    BY <1>0, <2>1, <2>4, Loads DEF RejectedOnce, ToolTypeOK, Resolving
  <2>5. ASSUME Resolver, UNCHANGED toolVars PROVE G
    <3>1. ~Ready(c)
      BY <1>0, <1>12, <2>5, Undisturbed DEF Ready
    <3> QED
      BY <1>0, <2>5, <3>1 DEF ToolTypeOK, toolVars
  <2>6. ASSUME NEW t \in Tokens, RevokeAccess(t) PROVE G
    BY <2>1, <2>6 DEF RevokeAccess, vars, callerVars
  <2>7. ASSUME NEW p \in Procs, CrashGateway(p) PROVE G
    <3>1. ProcOf[c] # p /\ pc'[c] = pc[c]
      BY <1>0, <1>12, <2>7 DEF CrashGateway, Crash, TypeOK, Ready
    <3> QED
      BY <2>1, <2>7, <3>1 DEF CrashGateway
  <2>8. ASSUME UNCHANGED allVars PROVE G
    BY <2>1, <2>8 DEF allVars, toolVars, vars, callerVars
  <2> HIDE DEF G
  <2>9. G
    BY <2>2, <2>3, <2>4, <2>5, <2>6, <2>7, <2>8 DEF ToolNext, UpstreamAnswers, Resolver
  <2> QED
    BY <2>9 DEF G
<1> QED
  BY <1>10, <1>11, <1>12 DEF ToolTypeOK

LEMMA ToolInvNext ==
  ASSUME ToolInv, [ToolNext]_allVars
  PROVE  ToolInv'
<1>1. IInv'
  BY ToolSteps, IInvNext DEF ToolInv
<1> QED
  BY <1>1, ToolTypeNext, HoldingNext, RetryingNext, SparingNext, HandedNext,
     StoredIsNewestNext DEF ToolInv

LEMMA ToolInductive == ToolSpec => []ToolInv
BY ToolInit0, ToolInvNext, PTL DEF ToolSpec

\* A resolution is under way only for a call that awaits it, and every request
\* to the upstream carries a bearer.
THEOREM ToolTypeCorrect == ToolSpec => []ToolTypeOK
<1>1. ToolInv => ToolTypeOK
  BY DEF ToolInv
<1> QED
  BY <1>1, ToolInductive, PTL

\* proxyToolCall sends the user to reconnect only over a credential that was
\* missing, that no refresh could revive, or whose bearer the upstream rejects.
THEOREM ReconnectDeserved == ToolSpec => ReconnectIsDeserved
<1>1. ASSUME ToolInv, [ToolNext]_allVars, NEW c \in Callers,
             stage[c] # "answered", stage'[c] = "answered",
             answer'[c] = "reconnect"
      PROVE  \/ result[c].kind \in {"missing", "reauth"}
             \/ result[c].kind = "ok" /\ Rejects(result[c].at)
  <2> DEFINE G == \/ result[c].kind \in {"missing", "reauth"}
                  \/ result[c].kind = "ok" /\ Rejects(result[c].at)
  <2>0. ToolTypeOK
    BY <1>1 DEF ToolInv
  <2>1. CASE NotResolved(c)
    BY <1>1, <2>0, <2>1
    DEF NotResolved, Return, SameBearer, ToolTypeOK, ToolInv, Retrying
  <2>2. CASE RejectedAgain(c)
    BY <1>1, <2>2 DEF RejectedAgain, ToolInv, Holding, Requests
  <2>3. ASSUME NEW d \in Callers, d # c, NotResolved(d) \/ RejectedAgain(d)
        PROVE  FALSE
    BY <1>1, <2>0, <2>3 DEF NotResolved, RejectedAgain, Return, ToolTypeOK
  <2>4. ASSUME NEW d \in Callers, Accepted(d) \/ UpstreamFails(d) PROVE FALSE
    BY <1>1, <2>0, <2>4 DEF Accepted, UpstreamFails, Return, ToolTypeOK
  <2>5. ASSUME NEW d \in Callers, Resolved(d) PROVE FALSE
    BY <1>1, <2>0, <2>5, RequestAfterIs DEF Resolved, ToolTypeOK, Resolving
  <2>6. ASSUME NEW d \in Callers, RejectedOnce(d) \/ \E r \in Routes : StartCall(d, r)
        PROVE  FALSE
    BY <1>1, <2>0, <2>6 DEF RejectedOnce, StartCall, ToolTypeOK
  <2>7. ASSUME \/ UNCHANGED toolVars
               \/ \E t \in Tokens : RevokeAccess(t)
               \/ \E p \in Procs : CrashGateway(p)
               \/ UNCHANGED allVars
        PROVE  FALSE
    BY <1>1, <2>7 DEF toolVars, allVars, RevokeAccess, CrashGateway
  <2> QED
    BY <1>1, <2>1, <2>2, <2>3, <2>4, <2>5, <2>6, <2>7
    DEF ToolNext, Continue, UpstreamAnswers
<1>2. ToolInv /\ [ToolNext]_allVars =>
        [\A c \in Callers :
            stage[c] # "answered" /\ stage'[c] = "answered" /\ answer'[c] = "reconnect"
            => \/ result[c].kind \in {"missing", "reauth"}
               \/ result[c].kind = "ok" /\ Rejects(result[c].at)]_allVars
  BY <1>1
<1> QED
  BY <1>2, ToolInductive, PTL DEF ToolSpec, ReconnectIsDeserved

\* Whoever awaits a refresh when it is decided is never sent back to a bearer
\* older than the one it saw rejected, unless the user authorises anew.
THEOREM BearersForward == ToolSpec => BearersMoveForward
<1>1. ASSUME ToolInv, [ToolNext]_allVars, NEW c \in Callers, NEW d \in Callers,
             pc[d] \in {"waiting", "sent", "minted"}, pc'[d] = "finishing",
             result'[d].kind = "ok", grants = 1
      PROVE  result'[d].at >= bearer[c]
  <2>0. IInv /\ TypeOK /\ ToolTypeOK /\ [Next]_vars
    BY <1>1, ToolSteps DEF ToolInv, IInv
  <2>1. row' # NoRow /\ result'[d].at = row'.at
    BY <1>1, <2>0, ReturnedIsStored
  <2>2. ~Ready(d) /\ pc'[d] # pc[d]
    BY <1>1 DEF Ready
  <2>3. grants' = 1
    BY <1>1, <2>0, DecidedByItsCaller
    DEF Acquire, LockGone, LockReuse, LockNoPath, SendRefresh, LockFails,
        ProviderAnswers, Mint, InvalidGrant, InvalidClient, TransientFailure,
        RequestTimesOut, Store, SaveRotated, SaveFails, SaveUnanswered,
        ReplyLost, EndFlight, providerVars
  <2>4. bearer'[c] = bearer[c]
    BY <1>1, <2>0, <2>2
    DEF ToolTypeOK, ToolNext, StartCall, Continue, Resolved, NotResolved,
        UpstreamAnswers, Accepted, UpstreamFails, RejectedOnce, RejectedAgain,
        RevokeAccess, CrashGateway, toolVars, allVars, Load, LoadSecret,
        LoadMissing, TypeOK, vars, callerVars
  <2>5. StoredIsNewest'
    BY <1>1, StoredIsNewestNext
  <2>6. bearer'[c] <= row'.at
    BY <2>1, <2>3, <2>5 DEF StoredIsNewest
  <2>7. bearer[c] \in Int /\ row'.at \in Int
    <3>1. TypeOK'
      BY <2>0, IInvNext DEF IInv
    <3> QED
      BY <2>0, <2>1, <3>1 DEF ToolTypeOK, TypeOK, Row, Tokens
  <2> QED
    BY <2>1, <2>4, <2>6, <2>7
<1>2. ToolInv /\ [ToolNext]_allVars =>
        [\A c, d \in Callers :
            /\ c = d \/ (pc[c] = "joined" /\ leader[c] = d)
            /\ pc[d] \in {"waiting", "sent", "minted"} /\ pc'[d] = "finishing"
            /\ result'[d].kind = "ok" /\ grants = 1
            => result'[d].at >= bearer[c]]_allVars
  BY <1>1
<1> QED
  BY <1>2, ToolInductive, PTL DEF ToolSpec, BearersMoveForward
=============================================================================
