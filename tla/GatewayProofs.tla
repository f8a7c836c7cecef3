---------------------------- MODULE GatewayProofs ----------------------------
(***************************************************************************)
(* Proofs about the database connections that refreshes of upstream tokens *)
(* hold, for any number of processes, requests and connections, about the  *)
(* sessions of the MCP authorization server, for any number of requests,   *)
(* connections, codes and tokens, about the arguments of HTTP tools, for   *)
(* any names, about paged lists, for tables and pages of any size, and     *)
(* about tool syncs, for any documents and any number of handlers.         *)
(***************************************************************************)
EXTENDS RefreshPool, McpSession, HttpTool, KeysetList, ToolSync, SequenceTheorems,
        FiniteSetTheorems, WellFoundedInduction, TLAPS

(***************************************************************************)
(* RefreshPool.  A connection is checked out only while one is free, and   *)
(* the lock of a row names the one refresh that is past it.                *)
(***************************************************************************)

\* Each process may run fewer refreshes at once than its pool has connections.
SparePools == \A p \in Procs : Cardinality(Of(p) \cap Refreshes) < PoolSize

PoolSteps ==
    /\ pc \in [Requests -> RefreshPC]
    /\ \A q \in Queries : pc[q] \in QueryPC
    /\ owner \in [Secrets -> Refreshes \cup {NoRefresh}]

PoolBounded == \A p \in Procs : Free(p) >= 0

LockIsHeld ==
    \A r \in Refreshes :
        pc[r] \in {"overriding", "querying", "token"} <=> owner[SecretOf[r]] = r

\* The requests that hold a connection, and a second one.
OpenAt == {"locking", "overriding", "querying", "token"}

LEMMA PoolFinite ==
  ASSUME NEW p
  PROVE  /\ IsFiniteSet(InTransaction(p)) /\ IsFiniteSet(Querying(p))
         /\ Cardinality(InTransaction(p)) \in Nat /\ Cardinality(Querying(p)) \in Nat
<1>1. InTransaction(p) \subseteq Requests /\ Querying(p) \subseteq Requests
  BY DEF InTransaction, Querying, Of
<1>2. IsFiniteSet(InTransaction(p)) /\ IsFiniteSet(Querying(p))
  BY <1>1, PoolAssumption, FS_Subset
<1> QED
  BY <1>2, FS_CardinalityType

\* How the connections of every process change when one request moves: the ones
\* of other processes stay.
LEMMA MoveElsewhere ==
  ASSUME PoolSteps, NEW r \in Requests, NEW from, NEW to, Move(r, from, to),
         NEW p, ProcOf[r] # p
  PROVE  Free(p)' = Free(p)
<1>1. \A k \in Of(p) : pc'[k] = pc[k]
  BY DEF PoolSteps, Move, Of
<1>2. Of(p)' = Of(p)
  BY DEF Of
<1>3. InTransaction(p)' = InTransaction(p) /\ Querying(p)' = Querying(p)
  BY <1>1, <1>2 DEF InTransaction, Querying
<1> QED
  BY <1>3 DEF Free

LEMMA MoveOpens ==
  ASSUME PoolSteps, NEW r \in Requests, NEW from, NEW to, Move(r, from, to),
         NEW p, ProcOf[r] = p,
         r \in Refreshes => (from \in OpenAt <=> to \in OpenAt)
  PROVE  InTransaction(p)' = InTransaction(p)
<1>1. \A k \in Requests : k # r => pc'[k] = pc[k]
  BY DEF PoolSteps, Move
<1>2. pc[r] = from /\ pc'[r] = to /\ Of(p)' = Of(p)
  BY DEF PoolSteps, Move, Of
<1> QED
  BY <1>1, <1>2 DEF InTransaction, OpenAt, Of

LEMMA MoveQueries ==
  ASSUME PoolSteps, NEW r \in Requests, NEW from, NEW to, Move(r, from, to),
         NEW p, ProcOf[r] = p
  PROVE  /\ from = "querying" => Cardinality(Querying(p)') <= Cardinality(Querying(p))
         /\ to # "querying" => Cardinality(Querying(p)') <= Cardinality(Querying(p))
         /\ Cardinality(Querying(p)') <= Cardinality(Querying(p)) + 1
<1>1. \A k \in Requests : k # r => pc'[k] = pc[k]
  BY DEF PoolSteps, Move
<1>2. pc[r] = from /\ pc'[r] = to /\ Of(p)' = Of(p)
  BY DEF PoolSteps, Move, Of
<1>3. Querying(p)' \subseteq Querying(p) \cup {r}
  BY <1>1, <1>2 DEF Querying, Of
<1>4. IsFiniteSet(Querying(p)) /\ IsFiniteSet(Querying(p) \cup {r})
  BY PoolFinite, FS_AddElement
<1>5. Cardinality(Querying(p) \cup {r}) <= Cardinality(Querying(p)) + 1
  BY <1>4, PoolFinite, FS_AddElement
<1>6. from = "querying" \/ to # "querying" => Querying(p)' \subseteq Querying(p)
  BY <1>1, <1>2 DEF Querying, Of
<1>7. Querying(p)' \subseteq Querying(p)
        => Cardinality(Querying(p)') <= Cardinality(Querying(p))
  BY <1>4, FS_Subset
<1>8. /\ IsFiniteSet(Querying(p)')
      /\ Cardinality(Querying(p)') <= Cardinality(Querying(p) \cup {r})
  BY <1>3, <1>4, FS_Subset
<1>9. Cardinality(Querying(p)') \in Nat /\ Cardinality(Querying(p)) \in Nat
      /\ Cardinality(Querying(p) \cup {r}) \in Nat
  BY <1>4, <1>8, FS_CardinalityType
<1> QED
  BY <1>5, <1>6, <1>7, <1>8, <1>9

LEMMA MoveTransacts ==
  ASSUME PoolSteps, NEW r \in Requests, NEW from, NEW to, Move(r, from, to),
         NEW p, ProcOf[r] = p
  PROVE  Cardinality(InTransaction(p)') <= Cardinality(InTransaction(p)) + 1
<1>1. \A k \in Requests : k # r => pc'[k] = pc[k]
  BY DEF PoolSteps, Move
<1>2. Of(p)' = Of(p)
  BY DEF Of
<1>3. InTransaction(p)' \subseteq InTransaction(p) \cup {r}
  BY <1>1, <1>2 DEF InTransaction, Of
<1>4. /\ IsFiniteSet(InTransaction(p) \cup {r})
      /\ Cardinality(InTransaction(p) \cup {r}) <= Cardinality(InTransaction(p)) + 1
  <2>1. /\ IsFiniteSet(InTransaction(p) \cup {r})
        /\ Cardinality(InTransaction(p) \cup {r}) =
              IF r \in InTransaction(p) THEN Cardinality(InTransaction(p))
              ELSE Cardinality(InTransaction(p)) + 1
    BY PoolFinite, FS_AddElement
  <2> DEFINE i == Cardinality(InTransaction(p))
  <2>2. i \in Nat
    BY PoolFinite
  <2> HIDE DEF i
  <2>3. (IF r \in InTransaction(p) THEN i ELSE i + 1) <= i + 1
    BY <2>2
  <2> QED
    BY <2>1, <2>3 DEF i
<1>5. /\ IsFiniteSet(InTransaction(p)')
      /\ Cardinality(InTransaction(p)') <= Cardinality(InTransaction(p) \cup {r})
  BY <1>3, <1>4, FS_Subset
<1>6. /\ Cardinality(InTransaction(p)') \in Nat /\ Cardinality(InTransaction(p)) \in Nat
      /\ Cardinality(InTransaction(p) \cup {r}) \in Nat
  BY <1>4, <1>5, PoolFinite, FS_CardinalityType
<1> QED
  BY <1>4, <1>5, <1>6

LEMMA MoveReturns ==
  ASSUME PoolSteps, NEW r \in Requests, NEW from, NEW to, Move(r, from, to),
         NEW p, ProcOf[r] = p, r \in Refreshes => (to \in OpenAt => from \in OpenAt)
  PROVE  Cardinality(InTransaction(p)') <= Cardinality(InTransaction(p))
<1>1. \A k \in Requests : k # r => pc'[k] = pc[k]
  BY DEF PoolSteps, Move
<1>2. pc[r] = from /\ pc'[r] = to /\ Of(p)' = Of(p)
  BY DEF PoolSteps, Move, Of
<1>3. InTransaction(p)' \subseteq InTransaction(p)
  BY <1>1, <1>2 DEF InTransaction, OpenAt, Of
<1> QED
  BY <1>3, PoolFinite, FS_Subset

\* No pool is overdrawn by a move that returns a connection, or that takes one
\* when one is free.
LEMMA MoveKeepsBound ==
  ASSUME PoolSteps, PoolBounded, NEW r \in Requests, NEW from, NEW to,
         Move(r, from, to),
         \/ to # "querying" /\ (r \in Refreshes => (to \in OpenAt => from \in OpenAt))
         \/ to # "querying" /\ Free(ProcOf[r]) > 0
         \/ /\ r \in Refreshes => (to \in OpenAt => from \in OpenAt)
            /\ Free(ProcOf[r]) > 0
  PROVE  PoolBounded'
<1> SUFFICES ASSUME NEW p \in Procs PROVE Free(p)' >= 0
  BY DEF PoolBounded
<1>1. CASE ProcOf[r] # p
  BY <1>1, MoveElsewhere DEF PoolBounded
<1>2. CASE ProcOf[r] = p
  <2> DEFINE i == Cardinality(InTransaction(p))
             j == Cardinality(InTransaction(p)')
             m == Cardinality(Querying(p))
             n == Cardinality(Querying(p)')
  <2>1. j <= i + 1 /\ n <= m + 1
    BY <1>2, MoveTransacts, MoveQueries
  <2>2. to # "querying" => n <= m
    BY <1>2, MoveQueries
  <2>3. (r \in Refreshes => (to \in OpenAt => from \in OpenAt)) => j <= i
    BY <1>2, MoveReturns
  <2>4. i \in Nat /\ m \in Nat
    BY PoolFinite
  <2>5. j \in Nat /\ n \in Nat
    <3>1. Of(p)' = Of(p)
      BY DEF Of
    <3>2. InTransaction(p)' \subseteq Requests /\ Querying(p)' \subseteq Requests
      BY <3>1 DEF InTransaction, Querying, Of
    <3> QED
      BY <3>2, PoolAssumption, FS_Subset, FS_CardinalityType
  <2>6. /\ Free(p) = PoolSize - i - m /\ Free(p)' = PoolSize - j - n
        /\ Free(p) >= 0 /\ PoolSize \in Nat
    BY PoolAssumption DEF Free, PoolBounded
  <2>7. \/ to # "querying" /\ j <= i
        \/ to # "querying" /\ Free(p) > 0
        \/ j <= i /\ Free(p) > 0
    BY <1>2, <2>3
  <2> HIDE DEF i, j, m, n
  <2> QED
    BY <2>1, <2>2, <2>4, <2>5, <2>6, <2>7
<1> QED
  BY <1>1, <1>2

\* The types of a move, which each action below applies.
LEMMA MoveTypes ==
  ASSUME PoolSteps, NEW r \in Requests, NEW from, NEW to \in RefreshPC,
         Move(r, from, to), r \in Queries => to \in QueryPC,
         owner' \in [Secrets -> Refreshes \cup {NoRefresh}]
  PROVE  /\ PoolSteps' /\ pc[r] = from /\ pc'[r] = to
         /\ \A k \in Requests \ {r} : pc'[k] = pc[k]
BY DEF PoolSteps, Move, Requests

PoolIInv == PoolSteps /\ PoolBounded /\ LockIsHeld

LEMMA PoolInitially == Init => PoolIInv
<1> SUFFICES ASSUME Init PROVE PoolIInv
  OBVIOUS
<1>1. PoolSteps
  BY DEF Init, PoolSteps, RefreshPC, QueryPC, Requests
<1>2. PoolBounded
  <2> SUFFICES ASSUME NEW p \in Procs PROVE Free(p) >= 0
    BY DEF PoolBounded
  <2>1. InTransaction(p) = {} /\ Querying(p) = {}
    BY DEF Init, InTransaction, Querying, Of
  <2> QED
    BY <2>1, PoolAssumption, FS_EmptySet DEF Free
<1>3. LockIsHeld
  BY PoolAssumption DEF Init, LockIsHeld, Requests
<1> QED
  BY <1>1, <1>2, <1>3 DEF PoolIInv

LEMMA ArriveKeeps ==
  ASSUME PoolIInv, NEW r \in Requests, Arrive(r)
  PROVE  PoolIInv'
<1>1. PoolSteps /\ PoolBounded /\ Move(r, "idle", "waiting") /\ owner' = owner
  BY DEF PoolIInv, Arrive
<1>2. /\ PoolSteps' /\ pc[r] = "idle" /\ pc'[r] = "waiting"
      /\ \A k \in Requests \ {r} : pc'[k] = pc[k]
  BY <1>1, MoveTypes DEF PoolSteps, RefreshPC, QueryPC
<1>3. PoolBounded'
  BY <1>1, MoveKeepsBound DEF OpenAt
<1>4. LockIsHeld'
  BY <1>1, <1>2 DEF PoolIInv, LockIsHeld, Requests
<1> QED
  BY <1>2, <1>3, <1>4 DEF PoolIInv

LEMMA BeginTransactionKeeps ==
  ASSUME PoolIInv, NEW r \in Refreshes, BeginTransaction(r)
  PROVE  PoolIInv'
<1>1. /\ PoolSteps /\ PoolBounded /\ Move(r, "waiting", "locking") /\ owner' = owner
      /\ Free(ProcOf[r]) > 0 /\ r \in Requests /\ r \notin Queries
  BY PoolAssumption DEF PoolIInv, BeginTransaction, Requests
<1>2. /\ PoolSteps' /\ pc[r] = "waiting" /\ pc'[r] = "locking"
      /\ \A k \in Requests \ {r} : pc'[k] = pc[k]
  BY <1>1, MoveTypes DEF PoolSteps, RefreshPC
<1>3. PoolBounded'
  BY <1>1, MoveKeepsBound
<1>4. LockIsHeld'
  BY <1>1, <1>2 DEF PoolIInv, LockIsHeld, Requests
<1> QED
  BY <1>2, <1>3, <1>4 DEF PoolIInv

LEMMA LockRowKeeps ==
  ASSUME PoolIInv, NEW r \in Refreshes, LockRow(r)
  PROVE  PoolIInv'
<1>1. PoolSteps /\ PoolBounded /\ r \in Requests /\ r \notin Queries
  BY PoolAssumption DEF PoolIInv, Requests
<1>2. CASE /\ Move(r, "locking", "overriding")
           /\ owner' = [owner EXCEPT ![SecretOf[r]] = r]
  <2>1. /\ PoolSteps' /\ pc[r] = "locking" /\ pc'[r] = "overriding"
        /\ \A k \in Requests \ {r} : pc'[k] = pc[k]
    <3>1. owner' \in [Secrets -> Refreshes \cup {NoRefresh}]
      BY <1>1, <1>2 DEF PoolSteps
    <3> QED
      BY <1>1, <1>2, <3>1, MoveTypes DEF RefreshPC
  <2>2. PoolBounded'
    BY <1>1, <1>2, MoveKeepsBound DEF OpenAt
  <2>3. LockIsHeld'
    <3>1. /\ owner[SecretOf[r]] = NoRefresh /\ SecretOf[r] \in Secrets
          /\ \A k \in Refreshes : SecretOf[k] \in Secrets
      BY PoolAssumption DEF LockRow
    <3>2. /\ owner'[SecretOf[r]] = r
          /\ \A s \in Secrets \ {SecretOf[r]} : owner'[s] = owner[s]
      BY <1>1, <1>2, <3>1 DEF PoolSteps
    <3> QED
      BY <2>1, <3>1, <3>2, PoolAssumption DEF PoolIInv, LockIsHeld, Requests
  <2> QED
    BY <2>1, <2>2, <2>3 DEF PoolIInv
<1>3. CASE Move(r, "locking", "idle") /\ owner' = owner
  <2>1. /\ PoolSteps' /\ pc[r] = "locking" /\ pc'[r] = "idle"
        /\ \A k \in Requests \ {r} : pc'[k] = pc[k]
    BY <1>1, <1>3, MoveTypes DEF PoolSteps, RefreshPC
  <2>2. PoolBounded'
    BY <1>1, <1>3, MoveKeepsBound DEF OpenAt
  <2>3. LockIsHeld'
    BY <1>3, <2>1 DEF PoolIInv, LockIsHeld, Requests
  <2> QED
    BY <2>1, <2>2, <2>3 DEF PoolIInv
<1> QED
  BY <1>2, <1>3 DEF LockRow

LEMMA QueryOverrideKeeps ==
  ASSUME PoolIInv, NEW r \in Refreshes, QueryOverride(r)
  PROVE  PoolIInv'
<1>1. /\ PoolSteps /\ PoolBounded /\ Move(r, "overriding", "querying")
      /\ owner' = owner /\ Free(ProcOf[r]) > 0 /\ r \in Requests /\ r \notin Queries
  BY PoolAssumption DEF PoolIInv, QueryOverride, Requests
<1>2. /\ PoolSteps' /\ pc[r] = "overriding" /\ pc'[r] = "querying"
      /\ \A k \in Requests \ {r} : pc'[k] = pc[k]
  BY <1>1, MoveTypes DEF PoolSteps, RefreshPC
<1>3. PoolBounded'
  BY <1>1, MoveKeepsBound DEF OpenAt
<1>4. LockIsHeld'
  BY <1>1, <1>2 DEF PoolIInv, LockIsHeld, Requests
<1> QED
  BY <1>2, <1>3, <1>4 DEF PoolIInv

LEMMA ReturnSecondKeeps ==
  ASSUME PoolIInv, NEW r \in Refreshes, ReturnSecond(r)
  PROVE  PoolIInv'
<1>1. /\ PoolSteps /\ PoolBounded /\ Move(r, "querying", "token") /\ owner' = owner
      /\ r \in Requests /\ r \notin Queries
  BY PoolAssumption DEF PoolIInv, ReturnSecond, Requests
<1>2. /\ PoolSteps' /\ pc[r] = "querying" /\ pc'[r] = "token"
      /\ \A k \in Requests \ {r} : pc'[k] = pc[k]
  BY <1>1, MoveTypes DEF PoolSteps, RefreshPC
<1>3. PoolBounded'
  BY <1>1, MoveKeepsBound DEF OpenAt
<1>4. LockIsHeld'
  BY <1>1, <1>2 DEF PoolIInv, LockIsHeld, Requests
<1> QED
  BY <1>2, <1>3, <1>4 DEF PoolIInv

LEMMA EndTransactionKeeps ==
  ASSUME PoolIInv, NEW r \in Refreshes, EndTransaction(r)
  PROVE  PoolIInv'
<1>1. /\ PoolSteps /\ PoolBounded /\ Move(r, "token", "idle")
      /\ owner' = [owner EXCEPT ![SecretOf[r]] = NoRefresh]
      /\ r \in Requests /\ r \notin Queries
  BY PoolAssumption DEF PoolIInv, EndTransaction, Requests
<1>2. owner' \in [Secrets -> Refreshes \cup {NoRefresh}]
  BY <1>1 DEF PoolSteps
<1>3. /\ PoolSteps' /\ pc[r] = "token" /\ pc'[r] = "idle"
      /\ \A k \in Requests \ {r} : pc'[k] = pc[k]
  BY <1>1, <1>2, MoveTypes DEF RefreshPC
<1>4. PoolBounded'
  BY <1>1, MoveKeepsBound DEF OpenAt
<1>5. LockIsHeld'
  <2>1. /\ SecretOf[r] \in Secrets /\ owner[SecretOf[r]] = r
        /\ \A k \in Refreshes : SecretOf[k] \in Secrets
    BY <1>3, PoolAssumption DEF PoolIInv, LockIsHeld
  <2>2. /\ owner'[SecretOf[r]] = NoRefresh
        /\ \A s \in Secrets \ {SecretOf[r]} : owner'[s] = owner[s]
    BY <1>1, <2>1 DEF PoolSteps
  <2> QED
    BY <1>3, <2>1, <2>2, PoolAssumption DEF PoolIInv, LockIsHeld, Requests
<1> QED
  BY <1>3, <1>4, <1>5 DEF PoolIInv

LEMMA QueryKeeps ==
  ASSUME PoolIInv, NEW q \in Queries, Query(q)
  PROVE  PoolIInv'
<1>1. PoolSteps /\ PoolBounded /\ q \in Requests /\ q \notin Refreshes /\ owner' = owner
  BY PoolAssumption DEF PoolIInv, Query, RunQuery, EndQuery, Requests
<1>2. CASE RunQuery(q)
  <2>1. Move(q, "waiting", "querying") /\ Free(ProcOf[q]) > 0
    BY <1>2 DEF RunQuery
  <2>2. PoolSteps' /\ \A k \in Requests \ {q} : pc'[k] = pc[k]
    BY <1>1, <2>1, MoveTypes DEF PoolSteps, RefreshPC, QueryPC
  <2>3. PoolBounded'
    BY <1>1, <2>1, MoveKeepsBound
  <2> QED
    BY <1>1, <2>2, <2>3 DEF PoolIInv, LockIsHeld, Requests
<1>3. CASE EndQuery(q)
  <2>1. Move(q, "querying", "idle")
    BY <1>3 DEF EndQuery
  <2>2. PoolSteps' /\ \A k \in Requests \ {q} : pc'[k] = pc[k]
    BY <1>1, <2>1, MoveTypes DEF PoolSteps, RefreshPC, QueryPC
  <2>3. PoolBounded'
    BY <1>1, <2>1, MoveKeepsBound
  <2> QED
    BY <1>1, <2>2, <2>3 DEF PoolIInv, LockIsHeld, Requests
<1> QED
  BY <1>2, <1>3 DEF Query

LEMMA PoolStepKeeps == PoolIInv /\ [Next]_vars => PoolIInv'
<1> SUFFICES ASSUME PoolIInv, [Next]_vars PROVE PoolIInv'
  OBVIOUS
<1>1. ASSUME NEW r \in Requests, Arrive(r) PROVE PoolIInv'
  BY <1>1, ArriveKeeps
<1>2. ASSUME NEW r \in Refreshes, Refresh(r) PROVE PoolIInv'
  BY <1>2, BeginTransactionKeeps, LockRowKeeps, QueryOverrideKeeps, ReturnSecondKeeps,
     EndTransactionKeeps DEF Refresh
<1>3. ASSUME NEW q \in Queries, Query(q) PROVE PoolIInv'
  BY <1>3, QueryKeeps
<1>4. CASE UNCHANGED vars
  <2>1. pc' = pc /\ owner' = owner
    BY <1>4 DEF vars
  <2>2. \A p : Free(p)' = Free(p)
    BY <2>1 DEF Free, InTransaction, Querying, Of
  <2> QED
    BY <2>1, <2>2 DEF PoolIInv, PoolSteps, PoolBounded, LockIsHeld
<1> QED
  BY <1>1, <1>2, <1>3, <1>4 DEF Next

\* A pool with nothing free holds a request that is about to return what it has:
\* the transactions alone are fewer than its connections.
LEMMA SpareReturns ==
  ASSUME PoolIInv, SparePools
  PROVE  SomeConnectionReturns
<1> SUFFICES ASSUME NEW p \in Procs, Free(p) = 0
             PROVE  \E r \in Of(p) : pc[r] \in {"querying", "token"}
  BY DEF SomeConnectionReturns
<1>1. InTransaction(p) \subseteq Of(p) \cap Refreshes /\ Of(p) \cap Refreshes \subseteq Requests
  BY DEF InTransaction, Of
<1>2. IsFiniteSet(Of(p) \cap Refreshes)
  BY <1>1, PoolAssumption, FS_Subset
<1>3. /\ Cardinality(InTransaction(p)) <= Cardinality(Of(p) \cap Refreshes)
      /\ Cardinality(Of(p) \cap Refreshes) \in Nat
  BY <1>1, <1>2, FS_Subset, FS_CardinalityType
<1>4. Cardinality(Querying(p)) # 0
  <2> DEFINE i == Cardinality(InTransaction(p))
             m == Cardinality(Querying(p))
             o == Cardinality(Of(p) \cap Refreshes)
  <2>1. /\ i \in Nat /\ m \in Nat /\ o \in Nat /\ PoolSize \in Nat
        /\ i <= o /\ o < PoolSize /\ PoolSize - i - m = 0
    BY <1>3, PoolFinite, PoolAssumption DEF SparePools, Free
  <2> HIDE DEF i, m, o
  <2>2. m # 0
    BY <2>1
  <2> QED
    BY <2>2 DEF m
<1>5. PICK r \in Querying(p) : TRUE
  BY <1>4, FS_EmptySet
<1> QED
  BY <1>5 DEF Querying

LEMMA PoolIInvSuffices == PoolIInv => TypeOK
BY DEF PoolIInv, PoolSteps, PoolBounded, LockIsHeld, TypeOK

\* Whatever the processes, requests, rows and pool size: no pool hands out more
\* connections than it has, and a row is locked by the refresh that is past it.
THEOREM PoolTypeCorrect == Spec => []TypeOK
<1>1. Spec => []PoolIInv
  BY PoolInitially, PoolStepKeeps, PTL DEF Spec
<1> QED
  BY <1>1, PoolIInvSuffices, PTL

\* And where a process runs fewer refreshes at once than its pool has connections,
\* one that is taken comes back: the transactions never hold them all while each
\* waits for a second.
THEOREM PoolCorrect ==
  ASSUME SparePools
  PROVE  Spec => []PoolRules
<1>1. Spec => []PoolIInv
  BY PoolInitially, PoolStepKeeps, PTL DEF Spec
<1>2. PoolIInv => PoolRules
  BY SpareReturns, PoolIInvSuffices DEF PoolRules
<1> QED
  BY <1>1, <1>2, PTL

-----------------------------------------------------------------------------

(***************************************************************************)
(* McpSession.  What each stage of a request implies of the rows it read:  *)
(* the connection it has was there after the request began, a code that is *)
(* being exchanged has no session yet, and a refresh token that is revoked *)
(* has at most one child unless its exchanges overlapped.                  *)
(***************************************************************************)

Stages(h, where) == stage[h] \in where

KnownType == known \in [codes : SUBSET (1..MaxCodes), tokens : SUBSET (1..MaxTokens)]

\* The connections row there is was the last one inserted.
NewestStands == row.id \in {None, inserted}

CodesConn == \A c \in DOMAIN codes : codes[c].conn <= inserted

\* What a handler has read.
ReadsAt(h) ==
    /\ req[h].code \in DOMAIN codes \cup {None}
    /\ req[h].token \in DOMAIN tokens \cup {None}
    /\ req[h].conn <= inserted
    /\ req[h].since <= Deleted
    /\ Stages(h, {"check", "revoke"}) => req[h].token # None
    /\ Stages(h, {"idle", "ensure", "activate", "insert", "reselect", "store", "mark"})
          => req[h].token = None
    /\ Stages(h, {"issue"}) => req[h].code # None \/ req[h].token # None
    /\ req[h].token # None =>
          req[h].code = None /\ req[h].conn = tokens[req[h].token].conn
    /\ Stages(h, {"activate"}) => req[h].conn # None
    /\ Stages(h, {"activate", "store"}) => req[h].since < req[h].conn
    /\ Stages(h, {"reselect"}) => req[h].since < inserted

Reads == \A h \in Handlers : ReadsAt(h)

\* The exchange of code c, past the point where it marked it.
Granting(h, c) ==
    req[h].code = c /\ Stages(h, {"ensure", "activate", "insert", "reselect", "issue"})

CodesOnce ==
    /\ \A t \in DOMAIN tokens : /\ tokens[t].code \in DOMAIN codes
                                /\ codes[tokens[t].code].used
    /\ \A h \in Handlers, c \in DOMAIN codes : Granting(h, c) =>
          /\ codes[c].used
          /\ \A k \in Handlers : Granting(k, c) => k = h
          /\ \A t \in DOMAIN tokens : tokens[t].code # c

\* One connection for all rows of a session, and one row it began with.
SessionsTogether ==
    \A s, t \in DOMAIN tokens : tokens[s].code = tokens[t].code =>
        /\ tokens[s].conn = tokens[t].conn
        /\ tokens[s].parent = None /\ tokens[t].parent = None => s = t

\* Handlers that have read t, and where a second one excludes the first.
Holds(h, t) == req[h].token = t /\ Stages(h, {"check", "revoke", "issue"})

ForksOverlap ==
    /\ \A h, k \in Handlers, t \in DOMAIN tokens :
          Holds(h, t) /\ Holds(k, t) /\ h # k => t \in overlap
    /\ \A h \in Handlers, t \in DOMAIN tokens :
          Holds(h, t) /\ Stages(h, {"issue"}) => tokens[t].state # "live"
    /\ \A s \in DOMAIN tokens :
          /\ tokens[s].parent \in DOMAIN tokens \cup {None}
          /\ tokens[s].parent # None =>
                /\ tokens[tokens[s].parent].state # "live"
                /\ \A h \in Handlers :
                      Holds(h, tokens[s].parent) => tokens[s].parent \in overlap

AllDelivered == faults = 0 => known.tokens = DOMAIN tokens

SessionIInv ==
    /\ SessionTypeOK
    /\ KnownType
    /\ NewestStands
    /\ CodesConn
    /\ Reads
    /\ CodesOnce
    /\ SessionsTogether
    /\ ForksOverlap
    /\ ForksOnlyByOverlap
    /\ TokensHaveConnection
    /\ AllDelivered
    /\ SessionSurvives

CodeRow == [conn : 0..MaxConns, used : BOOLEAN, expired : BOOLEAN]
TokenRow == [conn : 1..MaxConns, state : TokenState, code : 1..MaxCodes,
             parent : 0..MaxTokens]
Request == [code : 0..MaxCodes, token : 0..MaxTokens, conn : 0..MaxConns,
            since : 0..MaxConns]

LEMMA SessionInitially == SessionInit => SessionIInv
<1> SUFFICES ASSUME SessionInit PROVE SessionIInv
  OBVIOUS
<1>1. /\ MaxConns \in Nat /\ MaxCodes \in Nat /\ MaxTokens \in Nat /\ MaxFaults \in Nat
      /\ codes \in Seq(CodeRow) /\ tokens \in Seq(TokenRow)
      /\ DOMAIN codes = {} /\ DOMAIN tokens = {} /\ Len(codes) = 0 /\ Len(tokens) = 0
  BY SessionAssumption DEF SessionInit
<1>2. SessionTypeOK
  BY <1>1 DEF SessionInit, SessionTypeOK, NoRow, NoRequest, None, ConnStatus, SessionPC,
     CodeRow, TokenRow
<1>3. KnownType /\ NewestStands /\ Reads
  BY <1>1 DEF SessionInit, KnownType, NewestStands, Reads, ReadsAt, NoRow, NoRequest, None,
     Stages, Deleted
<1>4. CodesConn /\ CodesOnce /\ SessionsTogether /\ ForksOverlap
  BY <1>1 DEF SessionInit, CodesConn, CodesOnce, SessionsTogether, ForksOverlap
<1>5. ForksOnlyByOverlap /\ TokensHaveConnection /\ AllDelivered /\ SessionSurvives
  BY <1>1 DEF SessionInit, ForksOnlyByOverlap, TokensHaveConnection, AllDelivered,
     SessionSurvives
<1> QED
  BY <1>2, <1>3, <1>4, <1>5 DEF SessionIInv

\* What changes of the connections row while no session is affected: its status, or
\* that it is inserted.
RowGrows ==
    /\ row' \in [id : 0..MaxConns, status : ConnStatus]
    /\ \/ row'.id = row.id /\ inserted' = inserted
       \/ /\ row.id = None /\ inserted' = inserted + 1 /\ inserted < MaxConns
          /\ row'.id = inserted + 1

Stands(k) == stage'[k] = stage[k] /\ req'[k] = req[k]

\* A handler goes on to what needs no new right: it has read what it says, exchanges
\* the code or token it exchanged before, and abandons no session.
GoesOn(k) ==
    /\ ReadsAt(k)'
    /\ Stages(k, {"store", "issue", "check", "revoke"})' => req'[k].conn # None
    /\ Stages(k, {"mark"})' => req'[k].code # None
    /\ \A c \in DOMAIN codes : Granting(k, c)' => Granting(k, c)
    /\ \A t \in DOMAIN tokens :
          Holds(k, t)' => Holds(k, t) /\ ~Stages(k, {"issue"})'
    /\ \/ faults' # 0
       \/ ~Stages(k, {"issue"})
       \/ req[k].token = None
       \/ row.id # req[k].conn

\* The answer, or the statement that goes on, of one handler.
LEMMA OneMoves ==
  ASSUME SessionIInv, NEW h \in Handlers, NEW to \in SessionPC, NEW r \in Request,
         stage' = [stage EXCEPT ![h] = to], req' = [req EXCEPT ![h] = r]
  PROVE  /\ stage' \in [Handlers -> SessionPC] /\ req' \in [Handlers -> Request]
         /\ stage'[h] = to /\ req'[h] = r
         /\ \A k \in Handlers : k = h \/ Stands(k)
<1>1. stage \in [Handlers -> SessionPC] /\ req \in [Handlers -> Request]
  BY DEF SessionIInv, SessionTypeOK, Request
<1> QED
  BY <1>1 DEF Stands

LEMMA RequestType ==
  ASSUME SessionIInv, NEW h \in Handlers
  PROVE  /\ req[h] \in Request /\ NoRequest \in Request /\ stage[h] \in SessionPC
         /\ MaxConns \in Nat /\ MaxCodes \in Nat /\ MaxTokens \in Nat /\ MaxFaults \in Nat
         /\ req \in [Handlers -> Request] /\ stage \in [Handlers -> SessionPC]
BY SessionAssumption DEF SessionIInv, SessionTypeOK, Request, NoRequest, None

\* Deleted rows are counted, and what was deleted stays so.
LEMMA DeletedGrows ==
  ASSUME SessionIInv, RowGrows
  PROVE  /\ Deleted \in 0..MaxConns /\ Deleted' \in 0..MaxConns
         /\ Deleted <= Deleted' /\ inserted <= inserted' /\ inserted' \in 0..MaxConns
         /\ NewestStands'
<1>1. /\ inserted \in 0..MaxConns /\ row.id \in 0..MaxConns /\ row.id \in {0, inserted}
      /\ MaxConns \in Nat
  BY SessionAssumption DEF SessionIInv, SessionTypeOK, NewestStands, None
<1>2. CASE row'.id = row.id /\ inserted' = inserted
  BY <1>1, <1>2 DEF NewestStands, Deleted, None
<1>3. CASE row.id = 0 /\ inserted' = inserted + 1 /\ inserted < MaxConns /\ row'.id = inserted + 1
  BY <1>1, <1>3 DEF NewestStands, Deleted, None
<1> QED
  BY <1>2, <1>3 DEF RowGrows, None

LEMMA SessionBounds ==
  /\ MaxConns \in Nat /\ MaxCodes \in Nat /\ MaxTokens \in Nat /\ MaxFaults \in Nat
  /\ 0 \in 0..MaxConns
BY SessionAssumption

LEMMA RowsAre ==
  ASSUME SessionIInv
  PROVE  /\ codes \in Seq(CodeRow) /\ Len(codes) \in Nat /\ DOMAIN codes = 1..Len(codes)
         /\ \A c \in DOMAIN codes : codes[c] \in CodeRow
         /\ tokens \in Seq(TokenRow) /\ Len(tokens) \in Nat
         /\ DOMAIN tokens = 1..Len(tokens)
         /\ \A t \in DOMAIN tokens : tokens[t] \in TokenRow /\ tokens[t].conn # None
         /\ DOMAIN codes \subseteq 1..MaxCodes /\ DOMAIN tokens \subseteq 1..MaxTokens
<1>1. codes \in Seq(CodeRow) /\ tokens \in Seq(TokenRow)
  BY DEF SessionIInv, SessionTypeOK, CodeRow, TokenRow
<1>2. /\ Len(codes) \in Nat /\ DOMAIN codes = 1..Len(codes)
      /\ Len(tokens) \in Nat /\ DOMAIN tokens = 1..Len(tokens)
  BY <1>1, LenProperties
<1>3. \A c \in DOMAIN codes : codes[c] \in CodeRow
  BY <1>1, <1>2, ElementOfSeq
<1>4. \A t \in DOMAIN tokens : tokens[t] \in TokenRow
  BY <1>1, <1>2, ElementOfSeq
<1>5. \A t \in DOMAIN tokens : tokens[t].conn # None
  BY <1>4, SessionAssumption DEF TokenRow, None
<1>6. DOMAIN codes \subseteq 1..MaxCodes /\ DOMAIN tokens \subseteq 1..MaxTokens
  BY <1>2, SessionAssumption DEF SessionIInv, SessionTypeOK
<1> QED
  BY <1>1, <1>2, <1>3, <1>4, <1>5, <1>6

LEMMA HandlersGoOn ==
  ASSUME SessionIInv, stage' \in [Handlers -> SessionPC], req' \in [Handlers -> Request],
         RowGrows, UNCHANGED <<codes, tokens, known, overlap>>,
         faults' \in 0..MaxFaults, faults <= faults',
         \A k \in Handlers : Stands(k) \/ GoesOn(k)
  PROVE  SessionIInv'
<1>1. SessionTypeOK'
  <2>1. /\ row' \in [id : 0..MaxConns, status : ConnStatus]
        /\ inserted' \in 0..MaxConns /\ row'.id <= inserted'
    BY SMTT(30), DeletedGrows, SessionAssumption
    DEF SessionIInv, SessionTypeOK, RowGrows, NewestStands, None
  <2>2. \A h \in Handlers :
          /\ stage'[h] \in {"store", "issue", "check", "revoke"} => req'[h].conn # None
          /\ stage'[h] = "mark" => req'[h].code # None
    BY DEF SessionIInv, SessionTypeOK, Stands, GoesOn, Stages
  <2> QED
    BY <2>1, <2>2 DEF SessionIInv, SessionTypeOK, Request
<1>2. KnownType' /\ NewestStands' /\ SessionsTogether' /\ ForksOnlyByOverlap'
  BY DeletedGrows DEF SessionIInv, KnownType, SessionsTogether, ForksOnlyByOverlap
<1>3. Reads'
  <2> SUFFICES ASSUME NEW h \in Handlers, Stands(h) PROVE ReadsAt(h)'
    BY DEF Reads, GoesOn
  <2>1. ReadsAt(h) /\ req[h] \in Request
    BY RequestType DEF SessionIInv, Reads
  <2>2. inserted \in Nat
    BY DEF SessionIInv, SessionTypeOK
  <2> QED
    BY <2>1, <2>2, DeletedGrows DEF ReadsAt, Stands, Stages, Request
<1>4. CodesOnce'
  <2>1. \A h \in Handlers, c \in DOMAIN codes : Granting(h, c)' => Granting(h, c)
    BY DEF Stands, GoesOn, Granting, Stages
  <2> QED
    BY <2>1 DEF SessionIInv, CodesOnce
<1>5. ForksOverlap'
  <2>1. \A h \in Handlers, t \in DOMAIN tokens :
           /\ Holds(h, t)' => Holds(h, t)
           /\ Holds(h, t)' /\ Stages(h, {"issue"})' => Stages(h, {"issue"})
    BY DEF Stands, GoesOn, Holds, Stages
  <2> QED
    BY <2>1 DEF SessionIInv, ForksOverlap, None
<1>6. TokensHaveConnection'
  <2>1. \A t \in DOMAIN tokens : tokens[t].conn # None
    BY RowsAre
  <2> QED
    BY <2>1 DEF SessionIInv, TokensHaveConnection, RowGrows
<1>7. AllDelivered'
  BY DEF SessionIInv, SessionTypeOK, AllDelivered
<1>9. CodesConn'
  <2>1. inserted <= inserted' /\ inserted \in Nat /\ inserted' \in Nat
    BY DeletedGrows DEF SessionIInv, SessionTypeOK
  <2>2. \A c \in DOMAIN codes : codes[c].conn \in Nat
    BY RowsAre, SessionAssumption DEF CodeRow
  <2> QED
    BY <2>1, <2>2 DEF SessionIInv, CodesConn
<1>8. SessionSurvives'
  <2> SUFFICES ASSUME faults' = 0, NEW t \in known.tokens, tokens[t].state # "deleted"
               PROVE  (LiveTokens(tokens[t].code) \cup BeingIssued(tokens[t].code))' # {}
    BY DEF SessionSurvives
  <2>1. faults = 0 /\ known.tokens \subseteq DOMAIN tokens
    BY SessionAssumption DEF SessionIInv, SessionTypeOK
  <2>2. LiveTokens(tokens[t].code) \cup BeingIssued(tokens[t].code) # {}
    BY <2>1 DEF SessionIInv, SessionSurvives
  <2>3. LiveTokens(tokens[t].code)' = LiveTokens(tokens[t].code)
    BY DEF LiveTokens
  <2>4. ASSUME NEW h \in BeingIssued(tokens[t].code)
        PROVE  h \in BeingIssued(tokens[t].code)'
    <3>1. /\ h \in Handlers /\ Stages(h, {"issue"}) /\ req[h].token # None
          /\ req[h].token \in DOMAIN tokens
          /\ tokens[req[h].token].code = tokens[t].code
          /\ req[h].conn = tokens[req[h].token].conn
      BY <2>4 DEF BeingIssued, Stages, SessionIInv, Reads, ReadsAt
    <3>2. req[h].conn = row.id
      BY <2>1, <3>1 DEF SessionIInv, SessionsTogether, TokensHaveConnection
    <3>3. Stands(h)
      BY <3>1, <3>2 DEF GoesOn
    <3> QED
      BY <3>1, <3>3 DEF BeingIssued, Stands, Stages
  <2> QED
    BY <2>2, <2>3, <2>4
<1> QED
  BY <1>1, <1>2, <1>3, <1>4, <1>5, <1>6, <1>7, <1>8, <1>9 DEF SessionIInv

\* A request is over: with an answer, an error, a failed statement or the process.
LEMMA AnswerKeeps ==
  ASSUME SessionIInv, NEW h \in Handlers, NEW from, Answer(h, from),
         UNCHANGED <<row, inserted, codes, tokens, known, overlap>>,
         faults' \in 0..MaxFaults, faults <= faults',
         faults' = 0 => from # "issue" \/ row.id # req[h].conn
  PROVE  SessionIInv'
<1>1. /\ stage[h] = from /\ stage' = [stage EXCEPT ![h] = "idle"]
      /\ req' = [req EXCEPT ![h] = NoRequest]
  BY DEF Answer, Advance
<1>2. /\ stage' \in [Handlers -> SessionPC] /\ req' \in [Handlers -> Request]
      /\ stage'[h] = "idle" /\ req'[h] = NoRequest
      /\ \A k \in Handlers : k = h \/ Stands(k)
  BY <1>1, RequestType, OneMoves DEF SessionPC
<1>3. RowGrows
  BY DEF RowGrows, SessionIInv, SessionTypeOK
<1>4. GoesOn(h)
  <2>1. ReadsAt(h)'
    <3>1. 0 <= inserted' /\ 0 <= Deleted'
      BY <1>3, DeletedGrows
    <3> QED
      BY <1>2, <3>1 DEF ReadsAt, NoRequest, None, Stages
  <2>2. \A c \in DOMAIN codes : ~Granting(h, c)'
    BY <1>2 DEF Granting, Stages
  <2>3. \A t \in DOMAIN tokens : ~Holds(h, t)'
    BY <1>2 DEF Holds, Stages
  <2> QED
    BY <1>1, <1>2, <2>1, <2>2, <2>3 DEF GoesOn, Stages
<1> QED
  BY <1>2, <1>3, <1>4, HandlersGoOn

LEMMA StartConsentKeeps ==
  ASSUME SessionIInv, NEW h \in Handlers, StartConsent(h)
  PROVE  SessionIInv'
<1> DEFINE r == [NoRequest EXCEPT !.since = Deleted]
<1>1. /\ stage[h] = "idle" /\ stage' = [stage EXCEPT ![h] = "ensure"]
      /\ req' = [req EXCEPT ![h] = r]
      /\ UNCHANGED <<row, inserted, codes, tokens, known, overlap, faults>>
  BY DEF StartConsent, Advance, NewRequest
<1>2. RowGrows
  BY <1>1 DEF RowGrows, SessionIInv, SessionTypeOK
<1>3. /\ r \in Request /\ r.code = None /\ r.token = None /\ r.conn = None
      /\ r.since = Deleted
  <2>1. Deleted \in 0..MaxConns
    BY <1>2, DeletedGrows
  <2> QED
    BY <2>1, SessionAssumption DEF Request, NoRequest, None
<1> HIDE DEF r
<1>4. /\ stage' \in [Handlers -> SessionPC] /\ req' \in [Handlers -> Request]
      /\ stage'[h] = "ensure" /\ req'[h] = r
      /\ \A k \in Handlers : k = h \/ Stands(k)
  BY <1>1, <1>3, OneMoves DEF SessionPC
<1>5. GoesOn(h)
  <2>1. ReadsAt(h)'
    <3>1. 0 <= inserted' /\ Deleted' = Deleted /\ Deleted \in Nat
      BY <1>1, <1>2, DeletedGrows DEF Deleted
    <3> QED
      BY <1>3, <1>4, <3>1 DEF ReadsAt, None, Stages
  <2>2. \A c \in DOMAIN codes : c # None
    BY RowsAre DEF None
  <2> QED
    BY <1>1, <1>3, <1>4, <2>1, <2>2 DEF GoesOn, Stages, Granting, Holds
<1>6. faults' \in 0..MaxFaults /\ faults <= faults'
  BY <1>1 DEF SessionIInv, SessionTypeOK
<1> QED
  BY <1>1, <1>2, <1>4, <1>5, <1>6, HandlersGoOn

\* A handler that looks for the connection has one that stands: it goes on to the
\* code or the tokens.
LEMMA EnsuredGoesOn ==
  ASSUME SessionIInv, NEW h \in Handlers,
         NEW from \in {"ensure", "activate", "insert", "reselect"},
         NEW id, Ensured(h, from, id), RowGrows, id = row'.id, id # None,
         UNCHANGED <<codes, tokens, known, overlap, faults>>
  PROVE  SessionIInv'
<1> DEFINE to == IF req[h].code = None THEN "store" ELSE "issue"
           r == [req[h] EXCEPT !.conn = id]
<1>1. /\ stage[h] = from /\ stage' = [stage EXCEPT ![h] = to]
      /\ req' = [req EXCEPT ![h] = r]
  BY DEF Ensured, Advance
<1>2. /\ to \in SessionPC /\ r \in Request /\ r.code = req[h].code /\ r.token = req[h].token
      /\ r.since = req[h].since /\ r.conn = id
  <2>1. id \in 0..MaxConns
    BY DEF RowGrows
  <2> QED
    BY <2>1, RequestType DEF Request, SessionPC
<1>3. to \in {"store", "issue"} /\ (to = "issue" => req[h].code # None)
  OBVIOUS
<1> HIDE DEF to, r
<1>4. /\ stage' \in [Handlers -> SessionPC] /\ req' \in [Handlers -> Request]
      /\ stage'[h] = to /\ req'[h] = r
      /\ \A k \in Handlers : k = h \/ Stands(k)
  BY <1>1, <1>2, OneMoves
<1>5. GoesOn(h)
  <2>1. ReadsAt(h) /\ req[h].token = None
    BY <1>1 DEF SessionIInv, Reads, ReadsAt, Stages
  <2>2. /\ id = inserted' /\ Deleted' = id - 1 /\ Deleted <= Deleted'
        /\ Deleted \in Nat /\ inserted' \in Nat
    BY DeletedGrows DEF NewestStands, Deleted
  <2>3. req[h].since <= Deleted /\ req[h].since \in Nat
    BY <2>1, RequestType DEF ReadsAt, Request
  <2>4. ReadsAt(h)'
    <3>1. /\ r.since <= Deleted' /\ r.since < r.conn /\ r.conn <= inserted'
      BY <1>2, <2>2, <2>3
    <3>2. r.code \in DOMAIN codes \cup {None} /\ r.token = None
      BY <1>2, <2>1 DEF ReadsAt
    <3> QED
      BY <1>2, <1>3, <1>4, <3>1, <3>2 DEF ReadsAt, Stages
  <2>5. \A t \in DOMAIN tokens : t # None
    BY RowsAre DEF None
  <2> QED
    BY <1>1, <1>2, <1>3, <1>4, <2>1, <2>4, <2>5 DEF GoesOn, Stages, Granting, Holds
<1>6. faults' \in 0..MaxFaults /\ faults <= faults'
  BY DEF SessionIInv, SessionTypeOK
<1> QED
  BY <1>4, <1>5, <1>6, HandlersGoOn

LEMMA RowStands ==
  ASSUME SessionIInv, row' = row, inserted' = inserted
  PROVE  RowGrows
BY DEF RowGrows, SessionIInv, SessionTypeOK

\* A step of one handler that only changes where it is, or also what it read.
LEMMA EnsureSelectKeeps ==
  ASSUME SessionIInv, NEW h \in Handlers, EnsureSelect(h)
  PROVE  SessionIInv'
<1>1. UNCHANGED <<row, inserted, codes, tokens, known, overlap, faults>> /\ RowGrows
  BY RowStands DEF EnsureSelect
<1>2. CASE row.id # None /\ Ensured(h, "ensure", row.id)
  BY <1>1, <1>2, EnsuredGoesOn
<1>3. CASE \/ /\ row.id # None /\ row.status # "active"
              /\ Advance(h, "ensure", "activate")
              /\ req' = [req EXCEPT ![h].conn = row.id]
           \/ /\ row.id = None
              /\ Advance(h, "ensure", "insert")
              /\ UNCHANGED req
  <2> DEFINE to == IF row.id = None THEN "insert" ELSE "activate"
             r == IF row.id = None THEN req[h] ELSE [req[h] EXCEPT !.conn = row.id]
  <2>1. /\ stage[h] = "ensure" /\ stage' = [stage EXCEPT ![h] = to]
        /\ req' = [req EXCEPT ![h] = r]
    BY <1>3, RequestType DEF Advance
  <2>2. /\ to \in SessionPC /\ r \in Request /\ r.code = req[h].code
        /\ r.token = req[h].token /\ r.since = req[h].since
        /\ \/ to = "insert" /\ r.conn = req[h].conn
           \/ to = "activate" /\ r.conn = row.id /\ row.id # None
    <3>1. row.id \in 0..MaxConns
      BY DEF SessionIInv, SessionTypeOK
    <3> QED
      BY <3>1, RequestType DEF Request, SessionPC
  <2> HIDE DEF to, r
  <2>3. /\ stage' \in [Handlers -> SessionPC] /\ req' \in [Handlers -> Request]
        /\ stage'[h] = to /\ req'[h] = r
        /\ \A k \in Handlers : k = h \/ Stands(k)
    BY <2>1, <2>2, OneMoves
  <2>4. GoesOn(h)
    <3>1. ReadsAt(h) /\ req[h].token = None
      BY <2>1 DEF SessionIInv, Reads, ReadsAt, Stages
    <3>2. req[h].since <= Deleted /\ req[h].since \in Nat /\ Deleted \in Nat /\ Deleted' = Deleted
      BY <1>1, <3>1, RequestType, DeletedGrows DEF ReadsAt, Request, Deleted
    <3>3. row.id # None => row.id = inserted /\ Deleted = row.id - 1 /\ inserted \in Nat
      BY DEF SessionIInv, SessionTypeOK, NewestStands, Deleted
    <3>4. ReadsAt(h)'
      BY <1>1, <2>2, <2>3, <3>1, <3>2, <3>3 DEF ReadsAt, Stages
    <3>5. \A t \in DOMAIN tokens : t # None
      BY RowsAre DEF None
    <3> QED
      BY <2>1, <2>2, <2>3, <3>1, <3>4, <3>5 DEF GoesOn, Stages, Granting, Holds
  <2>5. faults' \in 0..MaxFaults /\ faults <= faults'
    BY <1>1 DEF SessionIInv, SessionTypeOK
  <2> QED
    BY <1>1, <2>3, <2>4, <2>5, HandlersGoOn
<1> QED
  BY <1>2, <1>3 DEF EnsureSelect

LEMMA EnsureActivateKeeps ==
  ASSUME SessionIInv, NEW h \in Handlers, EnsureActivate(h)
  PROVE  SessionIInv'
<1>1. UNCHANGED <<inserted, codes, tokens, known, overlap, faults>>
  BY DEF EnsureActivate
<1>2. CASE /\ row.id = req[h].conn /\ row' = [row EXCEPT !.status = "active"]
           /\ Ensured(h, "activate", row.id)
  <2>1. RowGrows /\ row'.id = row.id
    BY <1>1, <1>2 DEF RowGrows, SessionIInv, SessionTypeOK, ConnStatus
  <2>2. req[h].conn # None
    BY <1>2 DEF Ensured, Advance, SessionIInv, Reads, ReadsAt, Stages
  <2> QED
    BY <1>1, <1>2, <2>1, <2>2, EnsuredGoesOn
<1>3. CASE Answer(h, "activate") /\ row' = row
  <2>1. faults' \in 0..MaxFaults /\ faults <= faults'
    BY <1>1 DEF SessionIInv, SessionTypeOK
  <2> QED
    BY <1>1, <1>3, <2>1, AnswerKeeps
<1> QED
  BY <1>2, <1>3 DEF EnsureActivate

LEMMA InsertRowGrows ==
  ASSUME SessionIInv, NEW status \in ConnStatus, InsertRow(status)
  PROVE  RowGrows /\ row'.id = inserted + 1 /\ inserted + 1 # None
<1>1. inserted \in Nat /\ inserted < MaxConns /\ MaxConns \in Nat
  BY SessionAssumption DEF SessionIInv, SessionTypeOK, InsertRow
<1> QED
  BY <1>1 DEF InsertRow, RowGrows, None

LEMMA EnsureInsertKeeps ==
  ASSUME SessionIInv, NEW h \in Handlers, EnsureInsert(h)
  PROVE  SessionIInv'
<1>1. UNCHANGED <<codes, tokens, known, overlap, faults>>
  BY DEF EnsureInsert
<1>2. CASE InsertRow("active") /\ Ensured(h, "insert", inserted + 1)
  <2>1. RowGrows /\ row'.id = inserted + 1 /\ inserted + 1 # None
    BY <1>2, InsertRowGrows DEF ConnStatus
  <2> QED
    BY <1>1, <1>2, <2>1, EnsuredGoesOn
<1>3. CASE /\ row.id # None /\ Advance(h, "insert", "reselect")
           /\ UNCHANGED <<row, inserted, req>>
  <2>1. RowGrows
    BY <1>3, RowStands
  <2>2. /\ stage[h] = "insert" /\ stage' = [stage EXCEPT ![h] = "reselect"]
        /\ req' = [req EXCEPT ![h] = req[h]]
    BY <1>3, RequestType DEF Advance
  <2>3. /\ stage' \in [Handlers -> SessionPC] /\ req' \in [Handlers -> Request]
        /\ stage'[h] = "reselect" /\ req'[h] = req[h]
        /\ \A k \in Handlers : k = h \/ Stands(k)
    BY <2>2, RequestType, OneMoves DEF SessionPC
  <2>4. GoesOn(h)
    <3>1. ReadsAt(h) /\ req[h].token = None
      BY <2>2 DEF SessionIInv, Reads, ReadsAt, Stages
    <3>2. /\ req[h].since <= Deleted /\ req[h].since \in Nat /\ Deleted' = Deleted
          /\ Deleted = inserted - 1 /\ inserted \in Nat
      BY <1>3, <3>1, RequestType DEF ReadsAt, Request, Deleted, SessionIInv, SessionTypeOK
    <3>3. ReadsAt(h)'
      BY <1>1, <1>3, <2>3, <3>1, <3>2 DEF ReadsAt, Stages
    <3>4. \A t \in DOMAIN tokens : t # None
      BY RowsAre DEF None
    <3> QED
      BY <2>2, <2>3, <3>1, <3>3, <3>4 DEF GoesOn, Stages, Granting, Holds
  <2>5. faults' \in 0..MaxFaults /\ faults <= faults'
    BY <1>1 DEF SessionIInv, SessionTypeOK
  <2> QED
    BY <1>1, <2>1, <2>3, <2>4, <2>5, HandlersGoOn
<1> QED
  BY <1>2, <1>3 DEF EnsureInsert

LEMMA EnsureReselectKeeps ==
  ASSUME SessionIInv, NEW h \in Handlers, EnsureReselect(h)
  PROVE  SessionIInv'
<1>1. UNCHANGED <<row, inserted, codes, tokens, known, overlap, faults>> /\ RowGrows
  BY RowStands DEF EnsureReselect
<1>2. CASE row.id # None /\ Ensured(h, "reselect", row.id)
  BY <1>1, <1>2, EnsuredGoesOn
<1>3. CASE Answer(h, "reselect")
  <2>1. faults' \in 0..MaxFaults /\ faults <= faults'
    BY <1>1 DEF SessionIInv, SessionTypeOK
  <2> QED
    BY <1>1, <1>3, <2>1, AnswerKeeps
<1> QED
  BY <1>2, <1>3 DEF EnsureReselect

LEMMA FailKeeps ==
  ASSUME SessionIInv, NEW h \in Handlers, Fail(h)
  PROVE  SessionIInv'
<1>1. /\ Answer(h, stage[h]) /\ UNCHANGED <<row, inserted, codes, tokens, known, overlap>>
      /\ faults < MaxFaults /\ faults' = faults + 1
  BY DEF Fail
<1>2. faults' \in 0..MaxFaults /\ faults <= faults' /\ faults' # 0
  BY <1>1, SessionAssumption DEF SessionIInv, SessionTypeOK
<1> QED
  BY <1>1, <1>2, AnswerKeeps

\* An answer that reaches the client, or is lost.
LEMMA CodeDelivered ==
  ASSUME SessionIInv, NEW id \in 1..MaxCodes, Delivered("codes", id)
  PROVE  /\ KnownType' /\ faults' \in 0..MaxFaults /\ faults <= faults'
         /\ known'.codes \subseteq known.codes \cup {id}
         /\ known'.tokens = known.tokens
<1>1. known \in [codes : SUBSET (1..MaxCodes), tokens : SUBSET (1..MaxTokens)]
      /\ faults \in 0..MaxFaults /\ MaxFaults \in Nat
  BY SessionAssumption DEF SessionIInv, KnownType, SessionTypeOK
<1>2. CASE known' = [known EXCEPT !["codes"] = @ \cup {id}] /\ faults' = faults
  BY <1>1, <1>2 DEF KnownType
<1>3. CASE faults < MaxFaults /\ faults' = faults + 1 /\ known' = known
  BY <1>1, <1>3 DEF KnownType
<1> QED
  BY <1>2, <1>3 DEF Delivered

LEMMA TokenDelivered ==
  ASSUME SessionIInv, NEW id \in 1..MaxTokens, Delivered("tokens", id)
  PROVE  /\ KnownType' /\ faults' \in 0..MaxFaults /\ faults <= faults'
         /\ known'.codes = known.codes
         /\ known'.tokens \subseteq known.tokens \cup {id}
         /\ faults' = 0 => faults = 0 /\ known'.tokens = known.tokens \cup {id}
<1>1. known \in [codes : SUBSET (1..MaxCodes), tokens : SUBSET (1..MaxTokens)]
      /\ faults \in 0..MaxFaults /\ MaxFaults \in Nat
  BY SessionAssumption DEF SessionIInv, KnownType, SessionTypeOK
<1>2. CASE known' = [known EXCEPT !["tokens"] = @ \cup {id}] /\ faults' = faults
  BY <1>1, <1>2 DEF KnownType
<1>3. CASE faults < MaxFaults /\ faults' = faults + 1 /\ known' = known
  BY <1>1, <1>3 DEF KnownType
<1> QED
  BY <1>2, <1>3 DEF Delivered

\* The parts of the invariant that a longer list of codes leaves alone.
LEMMA StoreCodeKeeps ==
  ASSUME SessionIInv, NEW h \in Handlers, StoreCode(h)
  PROVE  SessionIInv'
<1> DEFINE n == Len(codes) + 1
           new == [conn |-> row.id, used |-> FALSE, expired |-> FALSE]
<1>1. CASE ForeignKeyFails(h, "store")
  <2>1. faults' \in 0..MaxFaults /\ faults <= faults'
    BY <1>1 DEF ForeignKeyFails, SessionIInv, SessionTypeOK
  <2> QED
    BY <1>1, <2>1, AnswerKeeps DEF ForeignKeyFails
<1>2. CASE /\ Len(codes) < MaxCodes
           /\ codes' = Append(codes, new)
           /\ Delivered("codes", n)
           /\ Answer(h, "store")
           /\ UNCHANGED <<row, inserted, tokens, overlap>>
  <2>1. new \in CodeRow
    BY DEF SessionIInv, SessionTypeOK, CodeRow
  <2> HIDE DEF new
  <2>2. /\ codes' \in Seq(CodeRow) /\ Len(codes') = n /\ n \in 1..MaxCodes
        /\ DOMAIN codes' = DOMAIN codes \cup {n} /\ n \notin DOMAIN codes /\ n # None
        /\ \A c \in DOMAIN codes : codes'[c] = codes[c]
    BY <1>2, <2>1, RowsAre, SessionAssumption DEF None
  <2> HIDE DEF n
  <2>3. /\ KnownType' /\ faults' \in 0..MaxFaults /\ faults <= faults'
        /\ known'.codes \subseteq known.codes \cup {n}
        /\ known'.tokens = known.tokens
    BY <1>2, <2>2, CodeDelivered
  <2>4. /\ stage[h] = "store" /\ stage' = [stage EXCEPT ![h] = "idle"]
        /\ req' = [req EXCEPT ![h] = NoRequest]
    BY <1>2 DEF Answer, Advance
  <2>5. /\ stage' \in [Handlers -> SessionPC] /\ req' \in [Handlers -> Request]
        /\ stage'[h] = "idle" /\ req'[h] = NoRequest
        /\ \A k \in Handlers : k = h \/ Stands(k)
    BY <2>4, RequestType, OneMoves DEF SessionPC
  <2>6. RowGrows
    BY <1>2, RowStands
  <2>7. SessionTypeOK'
    <3>1. \A k \in Handlers :
            /\ stage'[k] \in {"store", "issue", "check", "revoke"} => req'[k].conn # None
            /\ stage'[k] = "mark" => req'[k].code # None
      BY <2>5 DEF SessionIInv, SessionTypeOK, Stands
    <3>2. codes' \in Seq([conn : 0..MaxConns, used : BOOLEAN, expired : BOOLEAN])
          /\ Len(codes') <= MaxCodes
      BY <2>2, SessionAssumption DEF CodeRow
    <3>3. known'.codes \subseteq DOMAIN codes' /\ known'.tokens \subseteq DOMAIN tokens'
      BY <1>2, <2>2, <2>3 DEF SessionIInv, SessionTypeOK
    <3> QED
      BY <1>2, <2>3, <2>5, <3>1, <3>2, <3>3 DEF SessionIInv, SessionTypeOK, Request
  <2>8. Reads'
    <3>1. Deleted' = Deleted /\ Deleted \in Nat /\ inserted \in Nat
      BY <1>2, <2>6, DeletedGrows DEF Deleted, SessionIInv, SessionTypeOK
    <3>2. ReadsAt(h)'
      BY <1>2, <2>5, <3>1 DEF ReadsAt, NoRequest, None, Stages
    <3>3. ASSUME NEW k \in Handlers, Stands(k) PROVE ReadsAt(k)'
      <4>1. ReadsAt(k)
        BY DEF SessionIInv, Reads
      <4> QED
        BY <1>2, <2>2, <3>1, <3>3, <4>1 DEF ReadsAt, Stands, Stages
    <3> QED
      BY <2>5, <3>2, <3>3 DEF Reads
  <2>9. CodesOnce'
    <3>1. \A k \in Handlers, c \in DOMAIN codes' :
             Granting(k, c)' => Granting(k, c) /\ c \in DOMAIN codes
      BY <2>2, <2>5 DEF Granting, Stages, Stands, SessionIInv, Reads, ReadsAt
    <3> QED
      BY <1>2, <2>2, <3>1 DEF SessionIInv, CodesOnce
  <2>10. ForksOverlap'
    <3>1. \A k \in Handlers, t \in DOMAIN tokens :
             /\ Holds(k, t)' => Holds(k, t)
             /\ Holds(k, t)' /\ Stages(k, {"issue"})' => Stages(k, {"issue"})
      BY <2>5 DEF Stands, Holds, Stages
    <3> QED
      BY <1>2, <3>1 DEF SessionIInv, ForksOverlap, None
  <2>11. SessionSurvives'
    <3>1. faults' = 0 => faults = 0
      BY <2>3 DEF SessionIInv, SessionTypeOK
    <3>2. \A c : LiveTokens(c)' = LiveTokens(c)
      BY <1>2, <2>3 DEF LiveTokens
    <3>3. \A c : BeingIssued(c) \subseteq BeingIssued(c)'
      BY <1>2, <2>4, <2>5 DEF BeingIssued, Stands
    <3> QED
      BY <1>2, <2>3, <3>1, <3>2, <3>3 DEF SessionIInv, SessionSurvives
  <2>12. NewestStands' /\ SessionsTogether' /\ ForksOnlyByOverlap' /\ TokensHaveConnection'
    BY <1>2 DEF SessionIInv, NewestStands, SessionsTogether, ForksOnlyByOverlap,
                TokensHaveConnection
  <2>13. AllDelivered'
    BY <1>2, <2>3 DEF SessionIInv, SessionTypeOK, AllDelivered
  <2>14. CodesConn'
    <3>1. codes'[n].conn = row.id /\ row.id <= inserted
      BY <1>2, RowsAre, <2>1 DEF n, new, SessionIInv, SessionTypeOK
    <3> QED
      BY <1>2, <2>2, <3>1 DEF SessionIInv, CodesConn
  <2> QED
    BY <2>14, <2>3, <2>7, <2>8, <2>9, <2>10, <2>11, <2>12, <2>13 DEF SessionIInv
<1> QED
  BY <1>1, <1>2 DEF StoreCode

LEMMA ReadCodeKeeps ==
  ASSUME SessionIInv, NEW h \in Handlers, NEW c \in DOMAIN codes, ReadCode(h, c)
  PROVE  SessionIInv'
<1> DEFINE r == [NoRequest EXCEPT !.code = c, !.conn = codes[c].conn]
<1>1. /\ stage[h] = "idle" /\ stage' = [stage EXCEPT ![h] = "mark"]
      /\ req' = [req EXCEPT ![h] = r]
      /\ UNCHANGED <<row, inserted, codes, tokens, known, overlap, faults>>
  BY DEF ReadCode, Advance, NewRequest
<1>2. RowGrows
  BY <1>1, RowStands
<1>3. /\ r \in Request /\ r.code = c /\ r.token = None /\ r.conn = codes[c].conn
      /\ r.since = None
  <2>1. codes[c].conn \in 0..MaxConns /\ c \in 0..MaxCodes
    BY RowsAre DEF CodeRow
  <2>2. NoRequest \in Request /\ NoRequest.token = None /\ NoRequest.since = None
    BY RequestType DEF NoRequest, None
  <2> QED
    BY <2>1, <2>2 DEF Request
<1> HIDE DEF r
<1>4. /\ stage' \in [Handlers -> SessionPC] /\ req' \in [Handlers -> Request]
      /\ stage'[h] = "mark" /\ req'[h] = r
      /\ \A k \in Handlers : k = h \/ Stands(k)
  BY <1>1, <1>3, OneMoves DEF SessionPC
<1>5. GoesOn(h)
  <2>1. c # None /\ \A t \in DOMAIN tokens : t # None
    BY RowsAre DEF None
  <2>2. Deleted' \in Nat
    BY <1>2, DeletedGrows
  <2>3. codes[c].conn <= inserted
    BY DEF SessionIInv, CodesConn
  <2>4. ReadsAt(h)'
    BY <1>1, <1>3, <1>4, <2>2, <2>3 DEF ReadsAt, None, Stages
  <2> QED
    BY <1>1, <1>3, <1>4, <2>1, <2>4 DEF GoesOn, Stages, Granting, Holds
<1>6. faults' \in 0..MaxFaults /\ faults <= faults'
  BY <1>1 DEF SessionIInv, SessionTypeOK
<1> QED
  BY <1>1, <1>2, <1>4, <1>5, <1>6, HandlersGoOn

LEMMA CheckConnectionKeeps ==
  ASSUME SessionIInv, NEW h \in Handlers, CheckConnection(h)
  PROVE  SessionIInv'
<1>1. /\ UNCHANGED <<row, inserted, codes, tokens, known, overlap, faults>> /\ RowGrows
      /\ faults' \in 0..MaxFaults /\ faults <= faults'
  BY RowStands DEF CheckConnection, SessionIInv, SessionTypeOK
<1>2. CASE Answer(h, "check")
  BY <1>1, <1>2, AnswerKeeps
<1>3. CASE Advance(h, "check", "revoke") /\ UNCHANGED req
  <2>1. /\ stage[h] = "check" /\ stage' = [stage EXCEPT ![h] = "revoke"]
        /\ req' = [req EXCEPT ![h] = req[h]]
    BY <1>3, RequestType DEF Advance
  <2>2. /\ stage' \in [Handlers -> SessionPC] /\ req' \in [Handlers -> Request]
        /\ stage'[h] = "revoke" /\ req'[h] = req[h]
        /\ \A k \in Handlers : k = h \/ Stands(k)
    BY <2>1, RequestType, OneMoves DEF SessionPC
  <2>3. GoesOn(h)
    <3>1. ReadsAt(h) /\ req[h].conn # None
      BY <2>1 DEF SessionIInv, SessionTypeOK, Reads
    <3>2. Deleted' = Deleted
      BY <1>1 DEF Deleted
    <3>3. ReadsAt(h)'
      BY <1>1, <2>1, <2>2, <3>1, <3>2 DEF ReadsAt, Stages
    <3> QED
      BY <2>1, <2>2, <3>1, <3>3 DEF GoesOn, Stages, Granting, Holds
  <2> QED
    BY <1>1, <2>2, <2>3, HandlersGoOn
<1> QED
  BY <1>2, <1>3 DEF CheckConnection

LEMMA MarkCodeKeeps ==
  ASSUME SessionIInv, NEW h \in Handlers, MarkCode(h)
  PROVE  SessionIInv'
<1> DEFINE c == req[h].code
           to == IF req[h].conn = None THEN "ensure" ELSE "issue"
<1>1. /\ stage[h] = "mark" /\ UNCHANGED <<row, inserted, tokens, known, overlap, faults>>
      /\ RowGrows
  BY RowStands DEF MarkCode
<1>2. faults' \in 0..MaxFaults /\ faults <= faults'
  BY <1>1 DEF SessionIInv, SessionTypeOK
<1>3. CASE codes[c].used /\ Answer(h, "mark") /\ UNCHANGED codes
  BY <1>1, <1>2, <1>3, AnswerKeeps
<1>4. CASE /\ ~codes[c].used /\ codes' = [codes EXCEPT ![c].used = TRUE]
           /\ Advance(h, "mark", to) /\ UNCHANGED req
  <2>1. ReadsAt(h) /\ c \in DOMAIN codes /\ c # None /\ req[h].token = None
    BY <1>1 DEF SessionIInv, SessionTypeOK, Reads, ReadsAt, Stages
  <2>2. /\ codes' \in Seq(CodeRow) /\ Len(codes') = Len(codes)
        /\ DOMAIN codes' = DOMAIN codes
        /\ codes'[c].used
        /\ \A d \in DOMAIN codes : /\ codes'[d].conn = codes[d].conn
                                   /\ codes[d].used => codes'[d].used
    <3> DEFINE new == [codes[c] EXCEPT !.used = TRUE]
    <3>1. new \in CodeRow /\ new.used /\ new.conn = codes[c].conn
      BY <2>1, RowsAre DEF CodeRow
    <3>2. codes' = [codes EXCEPT ![c] = new]
      BY <1>4
    <3> HIDE DEF new
    <3> QED
      BY <2>1, <3>1, <3>2, RowsAre, ExceptSeq
  <2>3. /\ stage[h] = "mark" /\ stage' = [stage EXCEPT ![h] = to]
        /\ req' = [req EXCEPT ![h] = req[h]] /\ to \in SessionPC
        /\ to \in {"ensure", "issue"} /\ (to = "issue" => req[h].conn # None)
    BY <1>4, RequestType DEF Advance, SessionPC
  <2> HIDE DEF to
  <2>4. /\ stage' \in [Handlers -> SessionPC] /\ req' \in [Handlers -> Request]
        /\ stage'[h] = to /\ req'[h] = req[h]
        /\ \A k \in Handlers : k = h \/ Stands(k)
    BY <2>3, RequestType, OneMoves
  <2> HIDE DEF c
  <2>5. SessionTypeOK'
    <3>1. \A k \in Handlers :
            /\ stage'[k] \in {"store", "issue", "check", "revoke"} => req'[k].conn # None
            /\ stage'[k] = "mark" => req'[k].code # None
      BY <2>3, <2>4 DEF SessionIInv, SessionTypeOK, Stands
    <3>2. codes' \in Seq([conn : 0..MaxConns, used : BOOLEAN, expired : BOOLEAN])
          /\ Len(codes') <= MaxCodes
      BY <2>2 DEF CodeRow, SessionIInv, SessionTypeOK
    <3> QED
      BY <1>1, <2>2, <2>4, <3>1, <3>2 DEF SessionIInv, SessionTypeOK, Request
  <2>6. CodesConn' /\ NewestStands' /\ KnownType'
    BY <1>1, <2>2 DEF SessionIInv, CodesConn, NewestStands, KnownType
  <2>7. Reads'
    <3>1. Deleted' = Deleted
      BY <1>1 DEF Deleted
    <3>2. ReadsAt(h)'
      BY <1>1, <2>1, <2>2, <2>3, <2>4, <3>1 DEF ReadsAt, Stages, c
    <3>3. ASSUME NEW k \in Handlers, Stands(k) PROVE ReadsAt(k)'
      BY <1>1, <2>2, <3>1, <3>3 DEF SessionIInv, Reads, ReadsAt, Stands, Stages
    <3> QED
      BY <2>4, <3>2, <3>3 DEF Reads
  <2>8. CodesOnce'
    <3>1. /\ \A k \in Handlers : ~Granting(k, c)
          /\ \A t \in DOMAIN tokens : tokens[t].code # c
      BY <1>4, <2>1 DEF SessionIInv, CodesOnce, c
    <3>2. \A k \in Handlers, d \in DOMAIN codes :
             Granting(k, d)' => Granting(k, d) \/ (k = h /\ d = c)
      BY <2>4 DEF Granting, Stands, Stages, c
    <3> QED
      BY <1>1, <2>2, <3>1, <3>2 DEF SessionIInv, CodesOnce
  <2>9. ForksOverlap'
    <3>1. \A k \in Handlers, t \in DOMAIN tokens :
             /\ Holds(k, t)' => Holds(k, t)
             /\ Holds(k, t)' /\ Stages(k, {"issue"})' => Stages(k, {"issue"})
      BY <2>1, <2>4, RowsAre DEF Stands, Holds, Stages, None
    <3> QED
      BY <1>1, <3>1 DEF SessionIInv, ForksOverlap, None
  <2>10. SessionSurvives'
    <3>1. \A d : LiveTokens(d)' = LiveTokens(d)
      BY <1>1 DEF LiveTokens
    <3>2. \A d : BeingIssued(d) \subseteq BeingIssued(d)'
      BY <1>1, <2>1, <2>4 DEF BeingIssued, Stands
    <3> QED
      BY <1>1, <3>1, <3>2 DEF SessionIInv, SessionSurvives
  <2>11. SessionsTogether' /\ ForksOnlyByOverlap' /\ TokensHaveConnection' /\ AllDelivered'
    BY <1>1 DEF SessionIInv, SessionsTogether, ForksOnlyByOverlap, TokensHaveConnection,
                AllDelivered
  <2> QED
    BY <2>5, <2>6, <2>7, <2>8, <2>9, <2>10, <2>11 DEF SessionIInv
<1> QED
  BY <1>3, <1>4 DEF MarkCode

LEMMA ReadTokenKeeps ==
  ASSUME SessionIInv, NEW h \in Handlers, NEW t \in DOMAIN tokens, ReadToken(h, t)
  PROVE  SessionIInv'
<1> DEFINE r == [NoRequest EXCEPT !.token = t, !.conn = tokens[t].conn]
<1>1. /\ stage[h] = "idle" /\ stage' = [stage EXCEPT ![h] = "check"]
      /\ req' = [req EXCEPT ![h] = r] /\ tokens[t].state = "live"
      /\ UNCHANGED <<row, inserted, codes, tokens, known, faults>>
      /\ overlap' = IF Exchanging(t) # {} THEN overlap \cup {t} ELSE overlap
  BY DEF ReadToken, Advance, NewRequest, NowExchanging
<1>2. RowGrows
  BY <1>1, RowStands
<1>3. /\ r \in Request /\ r.code = None /\ r.token = t /\ r.conn = tokens[t].conn
      /\ r.since = None
  <2>1. tokens[t].conn \in 0..MaxConns /\ t \in 0..MaxTokens
    BY RowsAre DEF TokenRow
  <2>2. NoRequest \in Request /\ NoRequest.code = None /\ NoRequest.since = None
    BY RequestType DEF NoRequest, None
  <2> QED
    BY <2>1, <2>2 DEF Request
<1> HIDE DEF r
<1>4. /\ stage' \in [Handlers -> SessionPC] /\ req' \in [Handlers -> Request]
      /\ stage'[h] = "check" /\ req'[h] = r
      /\ \A k \in Handlers : k = h \/ Stands(k)
  BY <1>1, <1>3, OneMoves DEF SessionPC
<1>5. tokens[t].conn # None /\ t # None /\ tokens[t].conn <= inserted
  <2>1. tokens[t].conn # None /\ t # None
    BY RowsAre DEF None
  <2>2. tokens[t].conn = row.id /\ row.id <= inserted
    BY <1>1 DEF SessionIInv, SessionTypeOK, TokensHaveConnection
  <2> QED
    BY <2>1, <2>2
<1>6. SessionTypeOK'
  <2>1. \A k \in Handlers :
          /\ stage'[k] \in {"store", "issue", "check", "revoke"} => req'[k].conn # None
          /\ stage'[k] = "mark" => req'[k].code # None
    BY <1>3, <1>4, <1>5 DEF SessionIInv, SessionTypeOK, Stands
  <2> QED
    BY <1>1, <1>4, <2>1 DEF SessionIInv, SessionTypeOK, Request
<1>7. Reads'
  <2>1. Deleted' = Deleted /\ Deleted \in Nat
    BY <1>1, <1>2, DeletedGrows DEF Deleted
  <2>2. ReadsAt(h)'
    BY <1>1, <1>3, <1>4, <1>5, <2>1 DEF ReadsAt, Stages, None
  <2>3. ASSUME NEW k \in Handlers, Stands(k) PROVE ReadsAt(k)'
    BY <1>1, <2>1, <2>3 DEF SessionIInv, Reads, ReadsAt, Stands, Stages
  <2> QED
    BY <1>4, <2>2, <2>3 DEF Reads
<1>8. CodesOnce'
  <2>1. \A k \in Handlers, c \in DOMAIN codes : Granting(k, c)' => Granting(k, c)
    BY <1>4 DEF Granting, Stands, Stages
  <2> QED
    BY <1>1, <2>1 DEF SessionIInv, CodesOnce
<1>9. ForksOverlap'
  <2>1. /\ \A k \in Handlers, s \in DOMAIN tokens :
              Holds(k, s)' => Holds(k, s) \/ (k = h /\ s = t)
        /\ ~Stages(h, {"issue"})'
        /\ \A k \in Handlers, s \in DOMAIN tokens :
              Holds(k, s)' /\ Stages(k, {"issue"})' => Holds(k, s) /\ Stages(k, {"issue"})
    BY <1>3, <1>4 DEF Stands, Holds, Stages
  <2>2. \A k \in Handlers : Holds(k, t) => t \in overlap'
    BY <1>1 DEF SessionIInv, ForksOverlap, Holds, Stages, Exchanging
  <2>3. overlap \subseteq overlap'
    BY <1>1
  <2>4. \A s \in DOMAIN tokens : tokens[s].parent # t
    BY <1>1, <1>5 DEF SessionIInv, ForksOverlap
  <2> QED
    BY <1>1, <2>1, <2>2, <2>3, <2>4 DEF SessionIInv, ForksOverlap, None
<1>10. SessionSurvives'
  <2>1. \A d : LiveTokens(d)' = LiveTokens(d)
    BY <1>1 DEF LiveTokens
  <2>2. \A d : BeingIssued(d) \subseteq BeingIssued(d)'
    BY <1>1, <1>4 DEF BeingIssued, Stands
  <2> QED
    BY <1>1, <2>1, <2>2 DEF SessionIInv, SessionSurvives
<1>11. ForksOnlyByOverlap'
  BY <1>1 DEF SessionIInv, ForksOnlyByOverlap
<1>12. /\ KnownType' /\ NewestStands' /\ CodesConn' /\ SessionsTogether'
       /\ TokensHaveConnection' /\ AllDelivered'
  BY <1>1 DEF SessionIInv, KnownType, NewestStands, CodesConn, SessionsTogether,
              TokensHaveConnection, AllDelivered
<1> QED
  BY <1>6, <1>7, <1>8, <1>9, <1>10, <1>11, <1>12 DEF SessionIInv

LEMMA RevokeKeeps ==
  ASSUME SessionIInv, NEW h \in Handlers, Revoke(h)
  PROVE  SessionIInv'
<1> DEFINE t == req[h].token
<1>1. /\ stage[h] = "revoke" /\ stage' = [stage EXCEPT ![h] = "issue"]
      /\ req' = [req EXCEPT ![h] = req[h]]
      /\ tokens' = IF tokens[t].state = "live"
                   THEN [tokens EXCEPT ![t].state = "revoked"] ELSE tokens
      /\ UNCHANGED <<row, inserted, codes, known, overlap, faults>>
  BY RequestType DEF Revoke, Advance, RevokeRow
<1>2. ReadsAt(h) /\ t \in DOMAIN tokens /\ t # None /\ req[h].code = None
      /\ req[h].conn # None
  BY <1>1 DEF SessionIInv, SessionTypeOK, Reads, ReadsAt, Stages
<1>3. /\ stage' \in [Handlers -> SessionPC] /\ req' \in [Handlers -> Request]
      /\ stage'[h] = "issue" /\ req'[h] = req[h]
      /\ \A k \in Handlers : k = h \/ Stands(k)
  BY <1>1, RequestType, OneMoves DEF SessionPC
<1>4. /\ tokens' \in Seq(TokenRow) /\ Len(tokens') = Len(tokens)
      /\ DOMAIN tokens' = DOMAIN tokens
      /\ tokens'[t].state # "live"
      /\ \A s \in DOMAIN tokens :
            /\ tokens'[s].conn = tokens[s].conn /\ tokens'[s].code = tokens[s].code
            /\ tokens'[s].parent = tokens[s].parent
            /\ tokens'[s].state = "deleted" <=> tokens[s].state = "deleted"
            /\ tokens'[s].state = "live" => tokens[s].state = "live"
            /\ s # t => tokens'[s].state = tokens[s].state
  <2>1. CASE tokens[t].state # "live"
    BY <1>1, <2>1, RowsAre
  <2>2. CASE tokens[t].state = "live"
    <3> DEFINE new == [tokens[t] EXCEPT !.state = "revoked"]
    <3>1. /\ new \in TokenRow /\ new.state = "revoked" /\ new.conn = tokens[t].conn
          /\ new.code = tokens[t].code /\ new.parent = tokens[t].parent
      BY <1>2, RowsAre DEF TokenRow, TokenState
    <3>2. tokens' = [tokens EXCEPT ![t] = new]
      BY <1>1, <2>2
    <3> HIDE DEF new
    <3>3. /\ tokens' \in Seq(TokenRow) /\ Len(tokens') = Len(tokens)
          /\ DOMAIN tokens' = DOMAIN tokens
          /\ tokens'[t] = new /\ \A s \in DOMAIN tokens : s # t => tokens'[s] = tokens[s]
      BY <1>2, <3>1, <3>2, RowsAre, ExceptSeq
    <3> QED
      BY <2>2, <3>1, <3>3
  <2> QED
    BY <2>1, <2>2
<1> HIDE DEF t
<1>5. SessionTypeOK'
  <2>1. \A k \in Handlers :
          /\ stage'[k] \in {"store", "issue", "check", "revoke"} => req'[k].conn # None
          /\ stage'[k] = "mark" => req'[k].code # None
    BY <1>2, <1>3 DEF SessionIInv, SessionTypeOK, Stands
  <2>2. /\ tokens' \in Seq([conn : 1..MaxConns, state : TokenState,
                            code : 1..MaxCodes, parent : 0..MaxTokens])
        /\ Len(tokens') <= MaxTokens
    BY <1>4 DEF TokenRow, SessionIInv, SessionTypeOK
  <2> QED
    BY <1>1, <1>3, <1>4, <2>1, <2>2 DEF SessionIInv, SessionTypeOK, Request
<1>6. Reads'
  <2>1. Deleted' = Deleted
    BY <1>1 DEF Deleted
  <2>2. ReadsAt(h)'
    BY <1>1, <1>2, <1>3, <1>4, <2>1 DEF ReadsAt, Stages, t
  <2>3. ASSUME NEW k \in Handlers, Stands(k) PROVE ReadsAt(k)'
    <3>1. ReadsAt(k) /\ (req[k].token # None => req[k].token \in DOMAIN tokens)
      BY DEF SessionIInv, Reads, ReadsAt
    <3> QED
      BY <1>1, <1>4, <2>1, <2>3, <3>1 DEF ReadsAt, Stands, Stages
  <2> QED
    BY <1>3, <2>2, <2>3 DEF Reads
<1>7. CodesOnce'
  <2>1. \A k \in Handlers, c \in DOMAIN codes : Granting(k, c)' => Granting(k, c)
    BY <1>2, <1>3, RowsAre DEF Granting, Stands, Stages, None
  <2> QED
    BY <1>1, <1>4, <2>1 DEF SessionIInv, CodesOnce
<1>8. SessionsTogether' /\ TokensHaveConnection' /\ ForksOnlyByOverlap' /\ AllDelivered'
  BY <1>1, <1>4 DEF SessionIInv, SessionsTogether, TokensHaveConnection,
                    ForksOnlyByOverlap, AllDelivered
<1>9. ForksOverlap'
  <2>1. /\ \A k \in Handlers, s \in DOMAIN tokens :
              Holds(k, s)' => Holds(k, s)
        /\ \A k \in Handlers, s \in DOMAIN tokens :
              Holds(k, s)' /\ Stages(k, {"issue"})' => Stages(k, {"issue"}) \/ s = t
    BY <1>1, <1>3 DEF Stands, Holds, Stages, t
  <2>2. \A s \in DOMAIN tokens : tokens[s].parent \in DOMAIN tokens \cup {None}
    BY DEF SessionIInv, ForksOverlap
  <2> QED
    BY <1>1, <1>4, <2>1, <2>2 DEF SessionIInv, ForksOverlap
<1>10. SessionSurvives'
  <2> SUFFICES ASSUME faults = 0, NEW s \in known.tokens, tokens[s].state # "deleted",
                      s \in DOMAIN tokens
               PROVE  (LiveTokens(tokens[s].code) \cup BeingIssued(tokens[s].code))' # {}
    <3>1. known.tokens \subseteq DOMAIN tokens
      BY DEF SessionIInv, SessionTypeOK
    <3> QED
      BY <1>1, <1>4, <3>1 DEF SessionSurvives, LiveTokens, BeingIssued
  <2> DEFINE d == tokens[s].code
  <2>1. LiveTokens(d) \cup BeingIssued(d) # {}
    BY DEF SessionIInv, SessionSurvives
  <2>2. ASSUME NEW x \in LiveTokens(d), x # t PROVE x \in LiveTokens(d)'
    <3>1. x \in DOMAIN tokens
      BY DEF LiveTokens, SessionIInv, SessionTypeOK
    <3> QED
      BY <1>1, <1>4, <2>2, <3>1 DEF LiveTokens
  <2>3. ASSUME t \in LiveTokens(d) PROVE h \in BeingIssued(d)'
    BY <1>2, <1>3, <1>4, <2>3 DEF LiveTokens, BeingIssued, t
  <2>4. ASSUME NEW k \in BeingIssued(d) PROVE k \in BeingIssued(d)'
    <3>1. /\ k \in Handlers /\ stage[k] = "issue" /\ req[k].token # None
          /\ req[k].token \in DOMAIN tokens /\ tokens[req[k].token].code = d
      BY <2>4 DEF BeingIssued, SessionIInv, Reads, ReadsAt
    <3>2. Stands(k)
      BY <1>1, <1>3, <3>1
    <3> QED
      BY <1>4, <3>1, <3>2 DEF BeingIssued, Stands
  <2> QED
    BY <2>1, <2>2, <2>3, <2>4
<1>11. KnownType' /\ NewestStands' /\ CodesConn'
  BY <1>1 DEF SessionIInv, KnownType, NewestStands, CodesConn
<1> QED
  BY <1>5, <1>6, <1>7, <1>8, <1>9, <1>10, <1>11 DEF SessionIInv

LEMMA InsertTokenKeeps ==
  ASSUME SessionIInv, NEW h \in Handlers, row.id = req[h].conn, stage[h] = "issue",
         InsertToken(h)
  PROVE  SessionIInv'
<1> DEFINE n == Len(tokens) + 1
           p == req[h].token
           c == IF p = None THEN req[h].code ELSE tokens[p].code
           new == NewToken(h)
<1>1. /\ stage' = [stage EXCEPT ![h] = "idle"] /\ req' = [req EXCEPT ![h] = NoRequest]
      /\ Len(tokens) < MaxTokens /\ tokens' = Append(tokens, new)
      /\ Delivered("tokens", n)
      /\ UNCHANGED <<row, inserted, codes, overlap>>
  BY DEF InsertToken, Answer, Advance
<1>2. /\ ReadsAt(h) /\ req[h].conn # None
      /\ req[h].code # None \/ p # None
      /\ p \in DOMAIN tokens \cup {None} /\ req[h].code \in DOMAIN codes \cup {None}
  BY DEF SessionIInv, SessionTypeOK, Reads, ReadsAt, Stages
<1>3. /\ c \in DOMAIN codes /\ codes[c].used
      /\ \/ p = None /\ Granting(h, c)
         \/ p \in DOMAIN tokens /\ p # None /\ Holds(h, p) /\ tokens[p].code = c
            /\ tokens[p].conn = req[h].conn /\ req[h].code = None
  <2>1. CASE p = None
    <3>1. c \in DOMAIN codes /\ Granting(h, c)
      BY <1>2, <2>1 DEF Granting, Stages
    <3> QED
      BY <2>1, <3>1 DEF SessionIInv, CodesOnce
  <2>2. CASE p # None
    BY <1>2, <2>2 DEF Holds, Stages, ReadsAt, SessionIInv, CodesOnce
  <2> QED
    BY <2>1, <2>2
<1>4. /\ new \in TokenRow /\ new.conn = row.id /\ new.state = "live"
      /\ new.parent = p /\ new.code = c
  <2>1. c \in 1..MaxCodes /\ p \in 0..MaxTokens /\ req[h].conn \in 1..MaxConns
    <3>1. req[h] \in Request /\ MaxConns \in Nat /\ DOMAIN codes \subseteq 1..MaxCodes
      BY RequestType, RowsAre
    <3>2. c \in 1..MaxCodes
      BY <1>3, <3>1
    <3> QED
      BY <1>2, <3>1, <3>2 DEF Request, None
  <2>2. new = [conn |-> req[h].conn, state |-> "live", parent |-> p, code |-> c]
    BY DEF NewToken
  <2> HIDE DEF new, c, p
  <2> QED
    BY <2>1, <2>2 DEF TokenRow, TokenState
<1> HIDE DEF new, c
<1>5. /\ tokens' \in Seq(TokenRow) /\ Len(tokens') = n /\ n \in 1..MaxTokens
      /\ DOMAIN tokens' = DOMAIN tokens \cup {n} /\ n \notin DOMAIN tokens /\ n # None
      /\ tokens'[n] = new
      /\ \A t \in DOMAIN tokens : tokens'[t] = tokens[t]
  BY <1>1, <1>4, RowsAre, SessionAssumption DEF None
<1> HIDE DEF n
<1>6. /\ KnownType' /\ faults' \in 0..MaxFaults /\ faults <= faults'
      /\ known'.codes = known.codes
      /\ known'.tokens \subseteq known.tokens \cup {n}
      /\ faults' = 0 => faults = 0 /\ known'.tokens = known.tokens \cup {n}
  BY <1>1, <1>5, TokenDelivered
<1>7. /\ stage' \in [Handlers -> SessionPC] /\ req' \in [Handlers -> Request]
      /\ stage'[h] = "idle" /\ req'[h] = NoRequest
      /\ \A k \in Handlers : k = h \/ Stands(k)
  BY <1>1, RequestType, OneMoves DEF SessionPC
<1>8. RowGrows
  BY <1>1, RowStands
<1>9. SessionTypeOK'
  <2>1. \A k \in Handlers :
          /\ stage'[k] \in {"store", "issue", "check", "revoke"} => req'[k].conn # None
          /\ stage'[k] = "mark" => req'[k].code # None
    BY <1>7 DEF SessionIInv, SessionTypeOK, Stands
  <2>2. /\ tokens' \in Seq([conn : 1..MaxConns, state : TokenState,
                            code : 1..MaxCodes, parent : 0..MaxTokens])
        /\ Len(tokens') <= MaxTokens
    BY <1>5, SessionAssumption DEF TokenRow
  <2>3. /\ known'.codes \subseteq DOMAIN codes' /\ known'.tokens \subseteq DOMAIN tokens'
        /\ overlap' \subseteq DOMAIN tokens'
    BY <1>1, <1>5, <1>6 DEF SessionIInv, SessionTypeOK
  <2> QED
    BY <1>1, <1>6, <1>7, <2>1, <2>2, <2>3 DEF SessionIInv, SessionTypeOK, Request
<1>10. Reads'
  <2>1. Deleted' = Deleted /\ Deleted \in Nat /\ inserted \in Nat
    BY <1>1, <1>8, DeletedGrows DEF Deleted, SessionIInv, SessionTypeOK
  <2>2. ReadsAt(h)'
    BY <1>1, <1>7, <2>1 DEF ReadsAt, NoRequest, None, Stages
  <2>3. ASSUME NEW k \in Handlers, Stands(k) PROVE ReadsAt(k)'
    <3>1. ReadsAt(k) /\ (req[k].token # None => req[k].token \in DOMAIN tokens)
      BY DEF SessionIInv, Reads, ReadsAt
    <3> QED
      BY <1>1, <1>5, <2>1, <2>3, <3>1 DEF ReadsAt, Stands, Stages
  <2> QED
    BY <1>7, <2>2, <2>3 DEF Reads
<1>11. \A k \in Handlers :
          /\ \A d \in DOMAIN codes : Granting(k, d)' => Granting(k, d) /\ k # h
          /\ \A t \in DOMAIN tokens' :
                Holds(k, t)' => /\ Holds(k, t) /\ k # h /\ t \in DOMAIN tokens
                                /\ (Stages(k, {"issue"})' => Stages(k, {"issue"}))
  <2>1. \A k \in Handlers : req[k].token \in DOMAIN tokens \cup {None}
    BY DEF SessionIInv, Reads, ReadsAt
  <2> QED
    BY <1>5, <1>7, <2>1 DEF Granting, Holds, Stages, Stands
<1>12. CodesOnce'
  <2>1. \A t \in DOMAIN tokens' : /\ tokens'[t].code \in DOMAIN codes
                                  /\ codes[tokens'[t].code].used
    BY <1>3, <1>4, <1>5 DEF SessionIInv, CodesOnce
  <2>2. ASSUME NEW k \in Handlers, NEW d \in DOMAIN codes, Granting(k, d)'
        PROVE  \A t \in DOMAIN tokens' : tokens'[t].code # d
    <3>1. Granting(k, d) /\ k # h /\ \A t \in DOMAIN tokens : tokens[t].code # d
      BY <1>11, <2>2 DEF SessionIInv, CodesOnce
    <3>2. c # d
      BY <1>3, <3>1 DEF SessionIInv, CodesOnce
    <3> QED
      BY <1>4, <1>5, <3>1, <3>2
  <2> QED
    BY <1>1, <1>11, <2>1, <2>2 DEF SessionIInv, CodesOnce
<1>13. \A t \in DOMAIN tokens : tokens[t].code = c => p # None /\ tokens[t].conn = row.id
  BY <1>3 DEF SessionIInv, CodesOnce, SessionsTogether
<1>14. SessionsTogether'
  BY <1>4, <1>5, <1>13 DEF SessionIInv, SessionsTogether
<1>15. \A s \in DOMAIN tokens : tokens[s].parent = p /\ p # None => p \in overlap
  BY <1>3 DEF SessionIInv, ForksOverlap
<1>16. ForksOverlap'
  <2>1. ASSUME NEW s \in DOMAIN tokens', NEW q, tokens'[s].parent = q
        PROVE  /\ q \in DOMAIN tokens' \cup {None}
               /\ q # None => /\ tokens'[q].state # "live"
                              /\ \A k \in Handlers : Holds(k, q)' => q \in overlap
    <3>1. CASE s \in DOMAIN tokens
      <4>1. q = tokens[s].parent /\ q \in DOMAIN tokens \cup {None}
        BY <1>5, <2>1, <3>1 DEF SessionIInv, ForksOverlap
      <4> QED
        BY <1>5, <1>11, <3>1, <4>1 DEF SessionIInv, ForksOverlap
    <3>2. CASE s = n
      <4>1. q = p
        BY <1>4, <1>5, <2>1, <3>2
      <4>2. q # None => Holds(h, q) /\ tokens[q].state # "live" /\ q \in DOMAIN tokens
        BY <1>3, <4>1 DEF SessionIInv, ForksOverlap, Stages
      <4>3. q # None => \A k \in Handlers : Holds(k, q)' => Holds(k, q) /\ k # h
        BY <1>5, <1>11, <4>2
      <4> QED
        BY <1>5, <4>2, <4>3 DEF SessionIInv, ForksOverlap
    <3> QED
      BY <1>5, <3>1, <3>2
  <2>2. \A k, l \in Handlers, t \in DOMAIN tokens' :
           Holds(k, t)' /\ Holds(l, t)' /\ k # l => t \in overlap
    BY <1>11 DEF SessionIInv, ForksOverlap
  <2>3. \A k \in Handlers, t \in DOMAIN tokens' :
           Holds(k, t)' /\ Stages(k, {"issue"})' => tokens'[t].state # "live"
    BY <1>5, <1>11 DEF SessionIInv, ForksOverlap
  <2> HIDE DEF p
  <2> QED
    BY <1>1, <2>1, <2>2, <2>3 DEF ForksOverlap
<1>17. ForksOnlyByOverlap'
  BY <1>1, <1>4, <1>5, <1>15 DEF SessionIInv, ForksOnlyByOverlap
<1>18. TokensHaveConnection'
  BY <1>1, <1>4, <1>5 DEF SessionIInv, TokensHaveConnection
<1>19. AllDelivered'
  BY <1>5, <1>6 DEF SessionIInv, AllDelivered
<1>20. SessionSurvives'
  <2> SUFFICES ASSUME faults' = 0, NEW t \in known'.tokens, NEW d,
                      tokens'[t].code = d, tokens'[t].state # "deleted"
               PROVE  \/ \E x \in known'.tokens :
                            tokens'[x].code = d /\ tokens'[x].state = "live"
                      \/ \E k \in Handlers : /\ stage'[k] = "issue" /\ req'[k].token # None
                                             /\ tokens'[req'[k].token].code = d
    BY DEF SessionSurvives, LiveTokens, BeingIssued
  <2>1. /\ faults = 0 /\ known'.tokens = known.tokens \cup {n}
        /\ known.tokens \subseteq DOMAIN tokens
    BY <1>6 DEF SessionIInv, SessionTypeOK
  <2>2. CASE d = c
    BY <1>4, <1>5, <2>1, <2>2
  <2>3. CASE d # c
    <3>1. t \in known.tokens /\ t \in DOMAIN tokens /\ tokens[t].code = d
          /\ tokens[t].state # "deleted"
      BY <1>4, <1>5, <2>1, <2>3
    <3>2. \/ \E x \in known.tokens : tokens[x].code = d /\ tokens[x].state = "live"
          \/ \E k \in Handlers : /\ stage[k] = "issue" /\ req[k].token # None
                                 /\ tokens[req[k].token].code = d
      BY <2>1, <3>1 DEF SessionIInv, SessionSurvives, LiveTokens, BeingIssued
    <3>3. ASSUME NEW k \in Handlers, stage[k] = "issue", req[k].token # None,
                 tokens[req[k].token].code = d
          PROVE  /\ stage'[k] = "issue" /\ req'[k].token # None
                 /\ tokens'[req'[k].token].code = d
      <4>1. req[k].token \in DOMAIN tokens
        BY <3>3 DEF SessionIInv, Reads, ReadsAt
      <4>2. k # h
        BY <1>3, <2>3, <3>3
      <4> QED
        BY <1>5, <1>7, <3>3, <4>1, <4>2 DEF Stands
    <3>4. ASSUME NEW x \in known.tokens
          PROVE  x \in known'.tokens /\ tokens'[x] = tokens[x]
      BY <1>5, <2>1
    <3> QED
      BY <3>2, <3>3, <3>4
  <2> QED
    BY <2>2, <2>3
<1>21. NewestStands' /\ CodesConn'
  BY <1>1 DEF SessionIInv, NewestStands, CodesConn
<1> QED
  BY <1>6, <1>9, <1>10, <1>12, <1>14, <1>16, <1>17, <1>18, <1>19, <1>20, <1>21
  DEF SessionIInv

LEMMA IssueKeeps ==
  ASSUME SessionIInv, NEW h \in Handlers, Issue(h)
  PROVE  SessionIInv'
<1>1. CASE ForeignKeyFails(h, "issue")
  <2>1. faults' \in 0..MaxFaults /\ faults <= faults'
    BY <1>1 DEF ForeignKeyFails, SessionIInv, SessionTypeOK
  <2> QED
    BY <1>1, <2>1, AnswerKeeps DEF ForeignKeyFails
<1>2. CASE row.id = req[h].conn /\ InsertToken(h)
  BY <1>2, InsertTokenKeeps DEF InsertToken, Answer, Advance
<1> QED
  BY <1>1, <1>2 DEF Issue

\* An administrator inserts the row, or changes its status.
LEMMA RowChangeKeeps ==
  ASSUME SessionIInv, NEW s \in ConnStatus, CreateConnection(s) \/ UpdateConnection(s)
  PROVE  SessionIInv'
<1>1. UNCHANGED <<codes, tokens, known, stage, req, overlap, faults>>
  BY DEF CreateConnection, UpdateConnection
<1>2. RowGrows
  <2>1. CASE CreateConnection(s)
    BY <2>1, InsertRowGrows DEF CreateConnection
  <2>2. CASE UpdateConnection(s)
    BY <2>2 DEF UpdateConnection, RowGrows, SessionIInv, SessionTypeOK
  <2> QED
    BY <2>1, <2>2
<1>3. /\ stage' \in [Handlers -> SessionPC] /\ req' \in [Handlers -> Request]
      /\ faults' \in 0..MaxFaults /\ faults <= faults'
      /\ \A k \in Handlers : Stands(k)
  BY <1>1 DEF SessionIInv, SessionTypeOK, Request, Stands
<1> QED
  BY <1>1, <1>2, <1>3, HandlersGoOn

LEMMA RemoveConnectionKeeps ==
  ASSUME SessionIInv, RemoveConnection
  PROVE  SessionIInv'
<1>1. /\ row.id # None /\ row' = NoRow
      /\ codes' = [c \in DOMAIN codes |-> [codes[c] EXCEPT !.conn = None]]
      /\ tokens' = [t \in DOMAIN tokens |-> [tokens[t] EXCEPT !.state = "deleted"]]
      /\ UNCHANGED <<inserted, known, stage, req, overlap, faults>>
  BY DEF RemoveConnection
<1>2. /\ codes' \in Seq(CodeRow) /\ Len(codes') = Len(codes)
      /\ DOMAIN codes' = DOMAIN codes
      /\ \A c \in DOMAIN codes : codes'[c].conn = None /\ codes'[c].used = codes[c].used
  <2>1. \A c \in DOMAIN codes :
           /\ [codes[c] EXCEPT !.conn = None] \in CodeRow
           /\ [codes[c] EXCEPT !.conn = None].conn = None
           /\ [codes[c] EXCEPT !.conn = None].used = codes[c].used
    BY RowsAre, SessionBounds DEF CodeRow, None
  <2>2. codes' \in [1..Len(codes) -> CodeRow] /\ Len(codes) \in Nat
    BY <1>1, <2>1, RowsAre
  <2>3. codes' \in Seq(CodeRow)
    BY <2>2, SeqDef
  <2>4. DOMAIN codes' = 1..Len(codes) /\ DOMAIN codes' = 1..Len(codes') /\ Len(codes') \in Nat
    BY <2>2, <2>3, LenProperties
  <2>5. Len(codes') = Len(codes)
    BY <2>2, <2>4
  <2> QED
    BY <1>1, <2>1, <2>3, <2>5, RowsAre
<1>3. /\ tokens' \in Seq(TokenRow) /\ Len(tokens') = Len(tokens)
      /\ DOMAIN tokens' = DOMAIN tokens
      /\ \A t \in DOMAIN tokens :
            /\ tokens'[t].conn = tokens[t].conn /\ tokens'[t].state = "deleted"
            /\ tokens'[t].code = tokens[t].code /\ tokens'[t].parent = tokens[t].parent
  <2>1. \A t \in DOMAIN tokens :
           LET new == [tokens[t] EXCEPT !.state = "deleted"]
           IN  /\ new \in TokenRow /\ new.conn = tokens[t].conn /\ new.state = "deleted"
               /\ new.code = tokens[t].code /\ new.parent = tokens[t].parent
    BY RowsAre DEF TokenRow, TokenState
  <2>2. tokens' \in [1..Len(tokens) -> TokenRow] /\ Len(tokens) \in Nat
    BY <1>1, <2>1, RowsAre
  <2>3. tokens' \in Seq(TokenRow)
    BY <2>2, SeqDef
  <2>4. /\ DOMAIN tokens' = 1..Len(tokens) /\ DOMAIN tokens' = 1..Len(tokens')
        /\ Len(tokens') \in Nat
    BY <2>2, <2>3, LenProperties
  <2>5. Len(tokens') = Len(tokens)
    BY <2>2, <2>4
  <2> QED
    BY <1>1, <2>1, <2>3, <2>5, RowsAre
<1>4. /\ Deleted <= Deleted' /\ Deleted' \in Nat /\ Deleted \in Nat
      /\ inserted \in Nat /\ row'.id = None /\ row' \in [id : 0..MaxConns, status : ConnStatus]
  BY <1>1, SessionAssumption
  DEF SessionIInv, SessionTypeOK, NewestStands, Deleted, NoRow, None, ConnStatus
<1>5. SessionTypeOK'
  <2>1. /\ codes' \in Seq([conn : 0..MaxConns, used : BOOLEAN, expired : BOOLEAN])
        /\ Len(codes') <= MaxCodes
        /\ tokens' \in Seq([conn : 1..MaxConns, state : TokenState,
                            code : 1..MaxCodes, parent : 0..MaxTokens])
        /\ Len(tokens') <= MaxTokens
    BY <1>2, <1>3 DEF CodeRow, TokenRow, SessionIInv, SessionTypeOK
  <2>2. row'.id <= inserted'
    BY <1>1, <1>4 DEF None
  <2> QED
    BY <1>1, <1>2, <1>3, <1>4, <2>1, <2>2 DEF SessionIInv, SessionTypeOK
<1>6. KnownType' /\ NewestStands' /\ CodesConn' /\ AllDelivered' /\ TokensHaveConnection'
  <2>1. KnownType' /\ AllDelivered'
    BY <1>1, <1>3 DEF SessionIInv, KnownType, AllDelivered
  <2>2. NewestStands' /\ CodesConn'
    BY <1>1, <1>2, <1>4 DEF NewestStands, CodesConn, None
  <2>3. TokensHaveConnection'
    BY <1>3 DEF TokensHaveConnection
  <2> QED
    BY <2>1, <2>2, <2>3
<1>7. Reads'
  <2> SUFFICES ASSUME NEW h \in Handlers PROVE ReadsAt(h)'
    BY DEF Reads
  <2>1. /\ ReadsAt(h) /\ req[h].since \in Nat
        /\ req[h].token # None => req[h].token \in DOMAIN tokens
    BY RequestType DEF SessionIInv, Reads, ReadsAt, Request
  <2>2. req'[h].since <= Deleted'
    BY <1>1, <1>4, <2>1 DEF ReadsAt
  <2> QED
    BY <1>1, <1>2, <1>3, <2>1, <2>2 DEF ReadsAt, Stages
<1>8. CodesOnce' /\ SessionsTogether' /\ ForksOverlap' /\ ForksOnlyByOverlap'
  <2>1. /\ \A h \in Handlers, c \in DOMAIN codes : Granting(h, c)' <=> Granting(h, c)
        /\ \A h \in Handlers, t \in DOMAIN tokens : Holds(h, t)' <=> Holds(h, t)
    BY <1>1 DEF Granting, Holds, Stages
  <2>2. CodesOnce'
    BY <1>1, <1>2, <1>3, <2>1 DEF SessionIInv, CodesOnce
  <2>3. SessionsTogether' /\ ForksOnlyByOverlap'
    BY <1>1, <1>3 DEF SessionIInv, SessionsTogether, ForksOnlyByOverlap
  <2>4. ForksOverlap'
    BY <1>1, <1>3, <2>1 DEF SessionIInv, ForksOverlap
  <2> QED
    BY <2>2, <2>3, <2>4
<1>9. SessionSurvives'
  BY <1>1, <1>3 DEF SessionSurvives, SessionIInv, SessionTypeOK
<1> QED
  BY <1>5, <1>6, <1>7, <1>8, <1>9 DEF SessionIInv

LEMMA ExpireKeeps ==
  ASSUME SessionIInv, NEW c \in DOMAIN codes, Expire(c)
  PROVE  SessionIInv'
<1>1. /\ codes' = [codes EXCEPT ![c].expired = TRUE]
      /\ UNCHANGED <<row, inserted, tokens, known, stage, req, overlap, faults>>
  BY DEF Expire
<1>2. /\ codes' \in Seq(CodeRow) /\ Len(codes') = Len(codes)
      /\ DOMAIN codes' = DOMAIN codes
      /\ \A d \in DOMAIN codes : /\ codes'[d].conn = codes[d].conn
                                 /\ codes'[d].used = codes[d].used
  <2> DEFINE new == [codes[c] EXCEPT !.expired = TRUE]
  <2>1. new \in CodeRow /\ new.used = codes[c].used /\ new.conn = codes[c].conn
    BY RowsAre DEF CodeRow
  <2>2. codes' = [codes EXCEPT ![c] = new]
    BY <1>1
  <2> HIDE DEF new
  <2> QED
    BY <2>1, <2>2, RowsAre, ExceptSeq
<1>3. SessionTypeOK'
  <2>1. /\ codes' \in Seq([conn : 0..MaxConns, used : BOOLEAN, expired : BOOLEAN])
        /\ Len(codes') <= MaxCodes
    BY <1>2 DEF CodeRow, SessionIInv, SessionTypeOK
  <2> QED
    BY <1>1, <1>2, <2>1 DEF SessionIInv, SessionTypeOK
<1>4. Reads'
  BY <1>1, <1>2 DEF SessionIInv, Reads, ReadsAt, Stages, Deleted
<1>5. CodesOnce' /\ CodesConn'
  BY <1>1, <1>2 DEF SessionIInv, CodesOnce, CodesConn, Granting, Stages
<1>6. /\ KnownType' /\ NewestStands' /\ SessionsTogether' /\ ForksOverlap'
      /\ ForksOnlyByOverlap' /\ TokensHaveConnection' /\ AllDelivered' /\ SessionSurvives'
  BY <1>1 DEF SessionIInv, KnownType, NewestStands, SessionsTogether, ForksOverlap,
     ForksOnlyByOverlap, TokensHaveConnection, AllDelivered, SessionSurvives,
     LiveTokens, BeingIssued, Holds, Stages
<1> QED
  BY <1>3, <1>4, <1>5, <1>6 DEF SessionIInv

LEMMA SessionStepKeeps == SessionIInv /\ [SessionNext]_sessionVars => SessionIInv'
<1> SUFFICES ASSUME SessionIInv, [SessionNext]_sessionVars PROVE SessionIInv'
  OBVIOUS
<1>1. ASSUME NEW h \in Handlers,
             \/ StartConsent(h) \/ Ensure(h) \/ StoreCode(h) \/ MarkCode(h)
             \/ CheckConnection(h) \/ Revoke(h) \/ Issue(h) \/ Fail(h)
      PROVE  SessionIInv'
  BY <1>1, StartConsentKeeps, EnsureSelectKeeps, EnsureActivateKeeps, EnsureInsertKeeps,
     EnsureReselectKeeps, StoreCodeKeeps, MarkCodeKeeps, CheckConnectionKeeps,
     RevokeKeeps, IssueKeeps, FailKeeps DEF Ensure
<1>2. ASSUME NEW h \in Handlers, NEW c \in DOMAIN codes, ReadCode(h, c) PROVE SessionIInv'
  BY <1>2, ReadCodeKeeps
<1>3. ASSUME NEW h \in Handlers, NEW t \in DOMAIN tokens, ReadToken(h, t) PROVE SessionIInv'
  BY <1>3, ReadTokenKeeps
<1>4. ASSUME NEW s \in ConnStatus, CreateConnection(s) \/ UpdateConnection(s)
      PROVE  SessionIInv'
  BY <1>4, RowChangeKeeps
<1>5. CASE RemoveConnection
  BY <1>5, RemoveConnectionKeeps
<1>6. ASSUME NEW c \in DOMAIN codes, Expire(c) PROVE SessionIInv'
  BY <1>6, ExpireKeeps
<1>7. CASE UNCHANGED sessionVars
  <2>1. UNCHANGED <<row, inserted, codes, tokens, known, stage, req, overlap, faults>>
    BY <1>7 DEF sessionVars
  <2>2. /\ stage' \in [Handlers -> SessionPC] /\ req' \in [Handlers -> Request]
        /\ faults' \in 0..MaxFaults /\ faults <= faults'
        /\ \A k \in Handlers : Stands(k)
    BY <2>1 DEF SessionIInv, SessionTypeOK, Request, Stands
  <2> QED
    BY <2>1, <2>2, RowStands, HandlersGoOn
<1> QED
  BY <1>1, <1>2, <1>3, <1>4, <1>5, <1>6, <1>7 DEF SessionNext

\* A consent that ends stores its code, meets a fault, or finds that a connection was
\* deleted since it began: of one it had read, or of one that kept it from inserting.
LEMMA ConsentStep ==
  ASSUME SessionIInv, [SessionNext]_sessionVars, NEW h \in Handlers,
         stage[h] # "idle", stage'[h] = "idle", req[h].code = None, req[h].token = None
  PROVE  \/ Len(codes') > Len(codes) \/ faults' > faults \/ Deleted > req[h].since
<1>1. /\ ReadsAt(h) /\ req[h] \in Request /\ stage \in [Handlers -> SessionPC]
      /\ req[h].since \in Nat /\ req[h].conn \in Nat /\ inserted \in Nat
      /\ Len(codes) \in Nat /\ faults \in Nat
  <2>1. ReadsAt(h) /\ inserted \in Nat /\ faults \in Nat
    BY DEF SessionIInv, SessionTypeOK, Reads
  <2>2. req[h] \in Request /\ stage \in [Handlers -> SessionPC]
    BY RequestType
  <2>3. req[h].since \in Nat /\ req[h].conn \in Nat
    BY <2>2, SessionBounds DEF Request
  <2> QED
    BY <2>1, <2>2, <2>3, RowsAre
<1>2. stage'[h] # stage[h]
  OBVIOUS
<1>3. ASSUME NEW k \in Handlers, NEW from, NEW to, Advance(k, from, to)
      PROVE  k = h /\ stage[h] = from /\ to = "idle"
  BY <1>1, <1>2, <1>3 DEF Advance
<1>4. row.id # req[h].conn /\ stage[h] \in {"activate", "store"} => Deleted > req[h].since
  BY <1>1 DEF ReadsAt, Stages, SessionIInv, SessionTypeOK, NewestStands, Deleted, None
<1>5. row.id = None /\ stage[h] = "reselect" => Deleted > req[h].since
  BY <1>1 DEF ReadsAt, Stages, Deleted
<1>6. ASSUME NEW k \in Handlers, StartConsent(k) PROVE FALSE
  BY <1>3, <1>6 DEF StartConsent
<1>7. ASSUME NEW k \in Handlers, Ensure(k) PROVE Deleted > req[h].since
  <2>1. CASE EnsureSelect(k)
    BY <1>3, <2>1 DEF EnsureSelect, Ensured
  <2>2. CASE EnsureActivate(k)
    BY <1>3, <1>4, <2>2 DEF EnsureActivate, Ensured, Answer
  <2>3. CASE EnsureInsert(k)
    BY <1>3, <2>3 DEF EnsureInsert, Ensured
  <2>4. CASE EnsureReselect(k)
    BY <1>3, <1>5, <2>4 DEF EnsureReselect, Ensured, Answer
  <2> QED
    BY <1>7, <2>1, <2>2, <2>3, <2>4 DEF Ensure
<1>8. ASSUME NEW k \in Handlers, StoreCode(k)
      PROVE  Len(codes') > Len(codes) \/ Deleted > req[h].since
  <2>1. CASE ForeignKeyFails(k, "store")
    BY <1>3, <1>4, <2>1 DEF ForeignKeyFails, Answer
  <2>2. CASE codes' = Append(codes, [conn |-> row.id, used |-> FALSE, expired |-> FALSE])
    BY <1>1, <2>2, RowsAre
  <2> QED
    BY <1>8, <2>1, <2>2 DEF StoreCode
<1>9. ASSUME NEW k \in Handlers,
             \/ \E c \in DOMAIN codes : ReadCode(k, c)
             \/ \E t \in DOMAIN tokens : ReadToken(k, t)
      PROVE  FALSE
  BY <1>3, <1>9 DEF ReadCode, ReadToken
<1>10. ASSUME NEW k \in Handlers, MarkCode(k) PROVE FALSE
  <2>1. k = h /\ stage[h] = "mark"
    BY <1>3, <1>10 DEF MarkCode, Answer, Advance
  <2> QED
    BY <2>1 DEF SessionIInv, SessionTypeOK
<1>11. ASSUME NEW k \in Handlers, CheckConnection(k) \/ Revoke(k) PROVE FALSE
  <2>1. k = h /\ stage[h] \in {"check", "revoke"}
    BY <1>3, <1>11 DEF CheckConnection, Revoke, Answer
  <2> QED
    BY <1>1, <2>1 DEF ReadsAt, Stages
<1>12. ASSUME NEW k \in Handlers, Issue(k) PROVE FALSE
  <2>1. k = h /\ stage[h] = "issue"
    BY <1>3, <1>12 DEF Issue, ForeignKeyFails, InsertToken, Answer
  <2> QED
    BY <1>1, <2>1 DEF ReadsAt, Stages
<1>13. ASSUME NEW k \in Handlers, Fail(k) PROVE faults' > faults
  BY <1>1, <1>13 DEF Fail
<1>14. ASSUME \/ \E s \in ConnStatus : CreateConnection(s) \/ UpdateConnection(s)
              \/ RemoveConnection
              \/ \E c \in DOMAIN codes : Expire(c)
              \/ UNCHANGED sessionVars
       PROVE  FALSE
  BY <1>2, <1>14 DEF CreateConnection, UpdateConnection, RemoveConnection, Expire,
                     sessionVars
<1> QED
  BY <1>6, <1>7, <1>8, <1>9, <1>10, <1>11, <1>12, <1>13, <1>14 DEF SessionNext

\* A code has at most one session to its name: its rows that began one are the same.
LEMMA SessionIInvSuffices ==
  SessionIInv => /\ SessionTypeOK /\ CodeGrantsOnce /\ ForksOnlyByOverlap
                 /\ SessionSurvives /\ TokensHaveConnection
BY DEF SessionIInv, SessionsTogether, CodeGrantsOnce

\* However many requests, connections, codes, tokens and faults: a code yields one
\* session, it forks only when refreshes of it overlap, it is not lost while nothing
\* fails, its tokens go with the connection, and a consent is refused only because of
\* a fault or a deletion.
THEOREM SessionCorrect == SessionSpec => SessionRules
<1>1. SessionSpec => []SessionIInv
  BY SessionInitially, SessionStepKeeps, PTL DEF SessionSpec
<1>2. SessionIInv /\ [SessionNext]_sessionVars =>
         [\A h \in Handlers :
             /\ stage[h] # "idle" /\ stage'[h] = "idle"
             /\ req[h].code = None /\ req[h].token = None
             => \/ Len(codes') > Len(codes)
                \/ faults' > faults
                \/ Deleted > req[h].since]_sessionVars
  BY ConsentStep
<1>3. SessionSpec => ConsentFailsOnlyByDelete
  BY <1>1, <1>2, PTL DEF SessionSpec, ConsentFailsOnlyByDelete
<1> QED
  BY <1>1, <1>3, SessionIInvSuffices, PTL DEF SessionRules

-----------------------------------------------------------------------------
(***************************************************************************)
(* HttpTool.  The schema of a tool that may be called is the one of its    *)
(* operation, and what is sent are the arguments, placed.                  *)
(***************************************************************************)

SendingType ==
    [state : {"none", "imported", "called", "sent", "refused"},
     args : SUBSET Keys, sent : SUBSET (Keys \X Places)]

HttpTypes ==
    /\ operation \in Operations
    /\ schema \in [properties : SUBSET Keys, required : SUBSET Keys]
    /\ sending \in SendingType

OfItsOperation ==
    IF sending.state = "none" THEN sending.args = {} ELSE schema = InputSchema(operation)

Placed ==
    (operation.path \X {"path"})
        \cup PlaceRest(operation.method, RemainingArgs(sending.args, operation.path))

HttpIInv ==
    /\ HttpTypes
    /\ OfItsOperation
    /\ sending.args \subseteq schema.properties
    /\ sending.state = "refused" => ~(operation.path \subseteq sending.args)
    /\ IF sending.state = "sent"
       THEN operation.path \subseteq sending.args /\ sending.sent = Placed
       ELSE sending.sent = {}

LEMMA OperationFields ==
    ASSUME NEW o \in Operations
    PROVE  /\ o.method \in {"GET", "POST", "DELETE"}
           /\ o.path \subseteq Keys /\ o.query \subseteq Keys /\ o.path \cap o.query = {}
           /\ o.needed \subseteq o.query
           /\ o.body.keys \subseteq Keys /\ o.body.required \subseteq o.body.keys
           /\ \/ o.body.type = "none" /\ o.body.keys = {}
              \/ o.body.type = "other" /\ o.body.keys = {WholeBody}
              \/ o.body.type = "object"
<1>1. o \in [method : {"GET", "POST", "DELETE"}, path : SUBSET Keys, query : SUBSET Keys,
             needed : SUBSET Keys, body : Bodies]
      /\ o.path \cap o.query = {} /\ o.needed \subseteq o.query
  BY Zenon DEF Operations, Methods
<1>2. o.body \in Bodies
  BY <1>1
<1>3. /\ o.body.keys \subseteq Keys /\ o.body.required \subseteq o.body.keys
      /\ \/ o.body.type = "none" /\ o.body.keys = {}
         \/ o.body.type = "other" /\ o.body.keys = {WholeBody}
         \/ o.body.type = "object"
  BY <1>2, KeysAssumption DEF Bodies
<1> QED
  BY <1>1, <1>3

LEMMA SchemaFields ==
    ASSUME NEW o \in Operations
    PROVE  /\ InputSchema(o) \in [properties : SUBSET Keys, required : SUBSET Keys]
           /\ InputSchema(o).properties = o.path \cup o.query \cup o.body.keys
           /\ o.path \subseteq InputSchema(o).required
BY OperationFields DEF InputSchema

\* What is not in the path goes to one place.
LEMMA RestPlaced ==
    ASSUME NEW m \in {"GET", "POST", "DELETE"}, NEW rest \in SUBSET Keys
    PROVE  \E place \in {"query", "body", "wholeBody"} :
              /\ PlaceRest(m, rest) = rest \X {place}
              /\ place = "query" <=> m \in {"GET", "DELETE"}
              /\ place = "wholeBody" => rest = {WholeBody}
              /\ place = "body" => rest # {WholeBody}
<1>1. CASE m \in {"GET", "DELETE"}
  BY <1>1 DEF PlaceRest
<1>2. CASE m = "POST" /\ rest = {WholeBody}
  BY <1>2 DEF PlaceRest
<1>3. CASE m = "POST" /\ rest # {WholeBody}
  BY <1>3 DEF PlaceRest
<1> QED
  BY <1>1, <1>2, <1>3

LEMMA HttpStays == HttpIInv /\ [HttpNext]_httpVars => HttpIInv'
<1> SUFFICES ASSUME HttpIInv, [HttpNext]_httpVars PROVE HttpIInv'
  OBVIOUS
<1>1. /\ operation \in Operations
      /\ schema \in [properties : SUBSET Keys, required : SUBSET Keys]
      /\ sending \in SendingType
      /\ sending.args \subseteq Keys
  BY DEF HttpIInv, HttpTypes, SendingType
<1>2. CASE ImportOperation
  <2>1. /\ sending.state = "none" /\ schema' = InputSchema(operation)
        /\ operation' = operation
        /\ sending' = [sending EXCEPT !.state = "imported"]
    BY <1>2 DEF ImportOperation
  <2>2. /\ sending' \in SendingType /\ sending'.state = "imported"
        /\ sending'.args = {} /\ sending'.sent = {}
    <3>1. sending.args = {} /\ sending.sent = {}
      BY <2>1 DEF HttpIInv, OfItsOperation
    <3> QED
      BY <1>1, <2>1, <3>1 DEF SendingType
  <2> QED
    BY <1>1, <2>1, <2>2, SchemaFields DEF HttpIInv, HttpTypes, OfItsOperation
<1>3. ASSUME NEW args \in SUBSET schema.properties, CallTool(args)
      PROVE  HttpIInv'
  <2>1. /\ sending.state # "none" /\ operation' = operation /\ schema' = schema
        /\ sending' = [state |-> "called", args |-> args, sent |-> {}]
    BY <1>3 DEF CallTool
  <2>2. /\ sending' \in SendingType /\ sending'.state = "called"
        /\ sending'.args = args /\ sending'.sent = {}
    BY <1>1, <2>1 DEF SendingType
  <2> QED
    BY <1>1, <2>1, <2>2 DEF HttpIInv, HttpTypes, OfItsOperation
<1>4. CASE MissPathParam
  <2>1. /\ sending.state = "called" /\ operation' = operation /\ schema' = schema
        /\ ~(operation.path \subseteq sending.args)
        /\ sending' = [sending EXCEPT !.state = "refused"]
    BY <1>4 DEF MissPathParam
  <2>2. /\ sending' \in SendingType /\ sending'.state = "refused"
        /\ sending'.args = sending.args /\ sending'.sent = {}
    <3>1. sending.sent = {}
      BY <2>1 DEF HttpIInv
    <3> QED
      BY <1>1, <2>1, <3>1 DEF SendingType
  <2> QED
    BY <1>1, <2>1, <2>2 DEF HttpIInv, HttpTypes, OfItsOperation
<1>5. CASE SendRequest
  <2>1. /\ sending.state = "called" /\ operation' = operation /\ schema' = schema
        /\ operation.path \subseteq sending.args
        /\ sending' = [sending EXCEPT !.state = "sent", !.sent = Placed]
    BY <1>5 DEF SendRequest, Placed
  <2>2. Placed \in SUBSET (Keys \X Places)
    <3>1. PICK place \in {"query", "body", "wholeBody"} :
              PlaceRest(operation.method, RemainingArgs(sending.args, operation.path))
                = RemainingArgs(sending.args, operation.path) \X {place}
      BY <1>1, OperationFields, RestPlaced DEF RemainingArgs
    <3>2. RemainingArgs(sending.args, operation.path) \subseteq Keys /\ operation.path \subseteq Keys
      BY <1>1, OperationFields DEF RemainingArgs
    <3> QED
      BY <3>1, <3>2 DEF Placed, Places
  <2>3. /\ sending' \in SendingType /\ sending'.state = "sent"
        /\ sending'.args = sending.args /\ sending'.sent = Placed
    <3> DEFINE w == Placed
    <3>1. w \in SUBSET (Keys \X Places) /\ sending' = [sending EXCEPT !.state = "sent", !.sent = w]
      BY <2>1, <2>2
    <3> HIDE DEF w
    <3>2. /\ sending' \in SendingType /\ sending'.state = "sent"
          /\ sending'.args = sending.args /\ sending'.sent = w
      BY <1>1, <3>1 DEF SendingType
    <3> QED
      BY <3>2 DEF w
  <2>4. Placed' = Placed
    BY <2>1, <2>3 DEF Placed
  <2> QED
    BY <1>1, <2>1, <2>3, <2>4 DEF HttpIInv, HttpTypes, OfItsOperation
<1>6. CASE UNCHANGED httpVars
  BY <1>6 DEF httpVars, HttpIInv, HttpTypes, OfItsOperation, Placed
<1> QED
  BY <1>2, <1>3, <1>4, <1>5, <1>6 DEF HttpNext

LEMMA HttpKeeps == HttpIInv => HttpRules
<1> SUFFICES ASSUME HttpIInv PROVE HttpRules
  OBVIOUS
<1> DEFINE rest == RemainingArgs(sending.args, operation.path)
<1>1. /\ operation \in Operations
      /\ schema \in [properties : SUBSET Keys, required : SUBSET Keys]
      /\ sending \in SendingType /\ sending.args \subseteq Keys
      /\ sending.sent \subseteq Keys \X Places
      /\ sending.args \subseteq schema.properties
  BY DEF HttpIInv, HttpTypes, SendingType
<1>2. /\ operation.method \in {"GET", "POST", "DELETE"}
      /\ operation.path \subseteq Keys
      /\ \/ operation.body.type = "none" /\ operation.body.keys = {}
         \/ operation.body.type = "other" /\ operation.body.keys = {WholeBody}
         \/ operation.body.type = "object"
  BY <1>1, OperationFields
<1>3. rest \subseteq Keys /\ rest = sending.args \ operation.path
  BY <1>1 DEF RemainingArgs
<1> HIDE DEF rest
<1>4. PICK place \in {"query", "body", "wholeBody"} :
          /\ PlaceRest(operation.method, rest) = rest \X {place}
          /\ place = "query" <=> operation.method \in {"GET", "DELETE"}
          /\ place = "wholeBody" => rest = {WholeBody}
          /\ place = "body" => rest # {WholeBody}
  BY <1>2, <1>3, RestPlaced
<1>5. \A s \in sending.sent :
          /\ sending.state = "sent"
          /\ \/ s[1] \in operation.path /\ s = <<s[1], "path">>
             \/ s[1] \in rest /\ s = <<s[1], place>>
  BY <1>4 DEF HttpIInv, Placed, rest
<1>6. HttpTypeOK
  <2>1. ASSUME sending.state = "sent"
        PROVE  {s[1] : s \in sending.sent} = sending.args
    <3>1. /\ sending.sent = (operation.path \X {"path"}) \cup (rest \X {place})
          /\ operation.path \subseteq sending.args
      BY <1>4, <2>1 DEF HttpIInv, Placed, rest
    <3>2. \A k \in sending.args : \E s \in sending.sent : s[1] = k
      <4> TAKE k \in sending.args
      <4>1. CASE k \in operation.path
        <5>1. <<k, "path">> \in sending.sent
          BY <4>1, <3>1
        <5> QED
          BY <5>1
      <4>2. CASE k \in rest
        <5>1. <<k, place>> \in sending.sent
          BY <4>2, <3>1
        <5> QED
          BY <5>1
      <4> QED
        BY <4>1, <4>2, <1>3
    <3>3. \A s \in sending.sent : s[1] \in sending.args
      BY <3>1, <1>3, <1>5
    <3> QED
      BY <3>2, <3>3
  <2>2. sending.state \in {"none", "imported", "called", "sent", "refused"}
    BY <1>1 DEF SendingType
  <2> QED
    BY <1>1, <2>1, <2>2 DEF HttpTypeOK
<1>7. SchemaSuffices
  <2> SUFFICES ASSUME schema.required \subseteq sending.args, sending.state = "refused"
               PROVE  FALSE
    BY DEF SchemaSuffices
  <2>1. schema = InputSchema(operation) /\ ~(operation.path \subseteq sending.args)
    BY DEF HttpIInv, OfItsOperation
  <2> QED
    BY <1>1, <2>1, SchemaFields
<1>8. SentOnce
  <2> SUFFICES ASSUME NEW s \in sending.sent, NEW t \in sending.sent, s[1] = t[1]
               PROVE  s = t
    BY DEF SentOnce
  <2> QED
    BY <1>3, <1>5
<1>9. UsualArgumentsPlaced
  <2> SUFFICES ASSUME UsualShape, NEW s \in sending.sent
               PROVE  s[2] \in Declared(s[1])
    BY DEF UsualArgumentsPlaced
  <2>1. CASE s[1] \in operation.path /\ s = <<s[1], "path">>
    <3>1. s[2] = "path"
      BY <2>1
    <3> QED
      BY <2>1, <3>1 DEF Declared, Places
  <2>2. CASE s[1] \in rest /\ s = <<s[1], place>>
    <3>1. s[2] = place
      BY <2>2
    <3>2. \A k \in rest : k \in operation.query \/ k \in operation.body.keys
      <4>1. schema = InputSchema(operation)
        BY <1>5 DEF HttpIInv, OfItsOperation
      <4> QED
        BY <4>1, <1>1, <1>3, SchemaFields
    <3>3. CASE place = "query"
      <4>1. operation.body.type = "none"
        BY <3>3, <1>4 DEF UsualShape
      <4> QED
        BY <4>1, <3>1, <3>2, <3>3, <2>2, <1>2 DEF Declared, Places
    <3>4. CASE place = "wholeBody"
      <4>1. operation.method = "POST" /\ s[1] = WholeBody
        BY <3>4, <2>2, <1>2, <1>4
      <4>2. WholeBody \in operation.body.keys
        BY <4>1, <3>2, <2>2 DEF UsualShape
      <4>3. operation.body.type = "other"
        BY <4>1, <4>2, <1>2 DEF UsualShape
      <4> QED
        BY <4>1, <4>3, <3>1, <3>4 DEF Declared, Places
    <3>5. CASE place = "body"
      <4>1. operation.method = "POST" /\ rest # {WholeBody}
        BY <3>5, <1>2, <1>4
      <4>2. rest \subseteq operation.body.keys /\ rest # {}
        BY <4>1, <3>2, <2>2 DEF UsualShape
      <4>3. operation.body.type = "object"
        BY <4>1, <4>2, <1>2
      <4> QED
        BY <4>2, <4>3, <3>1, <3>5, <2>2 DEF Declared, Places
    <3> QED
      BY <3>3, <3>4, <3>5
  <2> QED
    BY <2>1, <2>2, <1>5
<1> QED
  BY <1>6, <1>7, <1>8, <1>9 DEF HttpRules

\* Whatever names the parameters and properties of a document have: a call with all
\* that the imported schema requires is sent, every argument goes to one place, and
\* in a document of the usual shape that is the place the document declares.
THEOREM HttpCorrect == HttpSpec => []HttpRules
<1>1. HttpInit => HttpIInv
  <2> SUFFICES ASSUME HttpInit PROVE HttpIInv
    OBVIOUS
  <2>1. /\ operation \in Operations
        /\ schema = [properties |-> {}, required |-> {}]
        /\ sending = [state |-> "none", args |-> {}, sent |-> {}]
    BY DEF HttpInit, NoSchema, NoSend
  <2> QED
    BY <2>1 DEF HttpIInv, HttpTypes, SendingType, OfItsOperation
<1>2. HttpIInv /\ [HttpNext]_httpVars => HttpIInv'
  BY HttpStays
<1>3. HttpIInv => HttpRules
  BY HttpKeeps
<1> QED
  BY <1>1, <1>2, <1>3, PTL DEF HttpSpec

-----------------------------------------------------------------------------
(***************************************************************************)
(* KeysetList.  What was seen is before the cursor, which a page moves to  *)
(* the millisecond of its last row: what lies between is of that           *)
(* millisecond.                                                            *)
(***************************************************************************)

\* What a list and its filter let through.
InList(q, r) ==
    \/ q.list \in {"servers", "roles"}
    \/ ~q.narrow
    \/ r.group = "ours"
    \/ q.list = "clients" /\ r.group = "none"

ListingType ==
    [query : ListQuery, cursor : Cursor, ended : SUBSET (0..MaxTime), seen : SUBSET RowIds,
     steady : SUBSET RowIds, again : BOOLEAN, state : {"open", "closed"}]

OneRowEach(R) == \A r, s \in R : r.id = s.id => r = s

\* What was seen is not after the cursor, and what was in the list all the time
\* still is.
Reading ==
    listing.state = "open" =>
        /\ listing.cursor = Beginning => listing.seen = {}
        /\ \A r \in rows : r.id \in listing.seen => ~AfterCursor(listing.cursor, r)
        /\ \A i \in listing.steady : \E r \in rows : r.id = i /\ InList(listing.query, r)

KeysetIInv ==
    /\ rows \subseteq ListRow /\ IsFiniteSet(rows) /\ OneRowEach(rows)
    /\ clock \in 0..MaxTime /\ deletes \in 0..MaxDeletes
    /\ listing \in ListingType
    /\ Reading
    /\ NoRowTwice
    /\ OnlyTiesPassedOver

-----------------------------------------------------------------------------
LEMMA LeastNat ==
    ASSUME NEW T \in SUBSET Nat, T # {}
    PROVE  \E n \in T : \A m \in T : n <= m
<1> DEFINE R == OpToRel(<, Nat)
<1>1. \A m, n \in Nat : m < n => <<m, n>> \in R
  BY DEF OpToRel
<1>2. IsWellFoundedOn(R, Nat)
  BY NatLessThanWellFounded
<1> HIDE DEF R
<1>3. PICK n \in T : \A m \in T : ~(<<m, n>> \in R)
  BY <1>2, WFMin
<1>4. \A m \in T : ~(m < n)
  BY <1>1, <1>3
<1> QED
  BY <1>4

LEMMA MillisBelow ==
    ASSUME NEW t \in Nat
    PROVE  Millis(t) \in Nat /\ Millis(t) <= t /\ t < Millis(t) + PerMilli
<1>1. PerMilli \in Nat \ {0}
  BY KeysetAssumption DEF KeysetAssumption
<1>2. t \div PerMilli \in Nat
  BY <1>1
<1>3. t = PerMilli * (t \div PerMilli) + (t % PerMilli) /\ t % PerMilli \in 0..(PerMilli - 1)
  BY <1>1
<1> QED
  BY <1>1, <1>2, <1>3 DEF Millis

\* Between a time and its millisecond all is of that millisecond.
LEMMA MillisSame ==
    ASSUME NEW r \in Nat, NEW t \in Nat, Millis(t) <= r, r <= t
    PROVE  Millis(r) = Millis(t)
<1> DEFINE a == r \div PerMilli
           b == t \div PerMilli
<1>1. PerMilli \in Nat \ {0}
  BY KeysetAssumption DEF KeysetAssumption
<1>2. /\ a \in Nat /\ b \in Nat /\ r < a * PerMilli + PerMilli /\ a * PerMilli <= r
      /\ t < b * PerMilli + PerMilli /\ b * PerMilli <= r
  BY <1>1, MillisBelow DEF Millis
<1> HIDE DEF a, b
<1>3. ~(a < b)
  <2> SUFFICES ASSUME a < b PROVE FALSE
    OBVIOUS
  <2>1. (a + 1) * PerMilli <= b * PerMilli
    BY <1>1, <1>2
  <2>2. a * PerMilli + PerMilli <= b * PerMilli
    BY <1>1, <1>2, <2>1
  <2> QED
    BY <2>2, <1>1, <1>2
<1>4. ~(b < a)
  <2> SUFFICES ASSUME b < a PROVE FALSE
    OBVIOUS
  <2>1. (b + 1) * PerMilli <= a * PerMilli
    BY <1>1, <1>2
  <2>2. b * PerMilli + PerMilli <= a * PerMilli
    BY <1>1, <1>2, <2>1
  <2> QED
    BY <2>2, <1>1, <1>2
<1>5. a = b
  BY <1>2, <1>3, <1>4
<1> QED
  BY <1>5 DEF a, b, Millis

LEMMA KeysetNumbers ==
    /\ MaxTime \in Nat
    /\ \A t \in 0..MaxTime : t \in Nat
    /\ \A i \in RowIds : i \in Nat
<1>1. MaxTime \in Nat /\ RowIds \subseteq Nat
  BY KeysetAssumption DEF KeysetAssumption
<1>2. \A t \in 0..MaxTime : t \in Nat
  OBVIOUS
<1> QED
  BY <1>1, <1>2

LEMMA RowFields ==
    ASSUME NEW r \in ListRow
    PROVE  /\ r.id \in RowIds /\ r.id \in Nat /\ r.at \in 0..MaxTime /\ r.at \in Nat
           /\ MaxTime \in Nat
<1>1. r.id \in RowIds /\ r.at \in 0..MaxTime
  BY DEF ListRow
<1> QED
  BY <1>1, KeysetNumbers

LEMMA RowOrder ==
    ASSUME NEW R \in SUBSET ListRow, OneRowEach(R)
    PROVE  /\ \A r, s, t \in R : Precedes(r, s) /\ Precedes(s, t) => Precedes(r, t)
           /\ \A r, s \in R : Precedes(r, s) => ~Precedes(s, r)
           /\ \A r, s \in R : r # s => Precedes(r, s) \/ Precedes(s, r)
<1>1. \A r \in R : r.id \in Nat /\ r.at \in Nat
  BY RowFields
<1>2. \A r, s, t \in R : Precedes(r, s) /\ Precedes(s, t) => Precedes(r, t)
  BY <1>1 DEF Precedes
<1>3. \A r, s \in R : Precedes(r, s) => ~Precedes(s, r)
  BY <1>1 DEF Precedes
<1>4. \A r, s \in R : r # s => Precedes(r, s) \/ Precedes(s, r)
  BY <1>1 DEF Precedes, OneRowEach
<1> QED
  BY <1>2, <1>3, <1>4

\* Of a set with a strict subset for each of its members but one.
LEMMA LastExists ==
    ASSUME NEW R \in SUBSET ListRow, IsFiniteSet(R), OneRowEach(R), R # {}
    PROVE  Last(R) \in R /\ \A s \in R : s = Last(R) \/ Precedes(s, Last(R))
<1> DEFINE After(r) == {s \in R : Precedes(r, s)}
           Counts == {Cardinality(After(r)) : r \in R}
<1>1. \A r \in R : IsFiniteSet(After(r)) /\ Cardinality(After(r)) \in Nat
  BY FS_Subset, FS_CardinalityType
<1>2. Counts \subseteq Nat /\ Counts # {}
  BY <1>1
<1>3. PICK n \in Counts : \A k \in Counts : n <= k
  <2> HIDE DEF Counts
  <2> QED
    BY <1>2, LeastNat
<1>4. PICK m \in R : n = Cardinality(After(m))
  BY <1>3
<1>5. ASSUME NEW s \in R, s # m
      PROVE  Precedes(s, m)
  <2> SUFFICES ASSUME Precedes(m, s) PROVE FALSE
    BY <1>5, RowOrder
  <2>1. After(s) \subseteq After(m) /\ s \in After(m) /\ s \notin After(s)
    BY <1>5, RowOrder
  <2>2. /\ Cardinality(After(s)) <= Cardinality(After(m))
        /\ Cardinality(After(s)) # Cardinality(After(m))
    <3> DEFINE A == After(m)
               B == After(s)
    <3>1. IsFiniteSet(A) /\ B \in SUBSET A /\ A # B
      BY <1>1, <2>1
    <3> HIDE DEF A, B
    <3>2. Cardinality(B) <= Cardinality(A) /\ Cardinality(A) # Cardinality(B)
      BY <3>1, FS_Subset
    <3> QED
      BY <3>2 DEF A, B
  <2>3. n <= Cardinality(After(s))
    BY <1>3
  <2> QED
    BY <2>2, <2>3, <1>1, <1>4
<1>6. \E r \in R : \A s \in R : s = r \/ Precedes(s, r)
  BY <1>5
<1> QED
  BY <1>6 DEF Last

LEMMA FrontNotEmpty ==
    ASSUME NEW R \in SUBSET ListRow, IsFiniteSet(R), OneRowEach(R), R # {}, NEW k \in Nat \ {0}
    PROVE  Front(R, k) # {}
<1> DEFINE Ahead(r) == {s \in R : Precedes(s, r)}
           Counts == {Cardinality(Ahead(r)) : r \in R}
<1>1. \A r \in R : IsFiniteSet(Ahead(r)) /\ Cardinality(Ahead(r)) \in Nat
  BY FS_Subset, FS_CardinalityType
<1>2. Counts \subseteq Nat /\ Counts # {}
  BY <1>1
<1>3. PICK n \in Counts : \A j \in Counts : n <= j
  <2> HIDE DEF Counts
  <2> QED
    BY <1>2, LeastNat
<1>4. PICK m \in R : n = Cardinality(Ahead(m))
  BY <1>3
<1>5. ASSUME NEW s \in Ahead(m)
      PROVE  FALSE
  <2>1. Ahead(s) \subseteq Ahead(m) /\ s \in Ahead(m) /\ s \notin Ahead(s)
    BY <1>5, RowOrder
  <2>2. /\ Cardinality(Ahead(s)) <= Cardinality(Ahead(m))
        /\ Cardinality(Ahead(s)) # Cardinality(Ahead(m))
    <3> DEFINE A == Ahead(m)
               B == Ahead(s)
    <3>1. IsFiniteSet(A) /\ B \in SUBSET A /\ A # B
      BY <1>1, <2>1
    <3> HIDE DEF A, B
    <3>2. Cardinality(B) <= Cardinality(A) /\ Cardinality(A) # Cardinality(B)
      BY <3>1, FS_Subset
    <3> QED
      BY <3>2 DEF A, B
  <2>3. n <= Cardinality(Ahead(s))
    BY <1>3
  <2> QED
    BY <2>2, <2>3, <1>1, <1>4
<1>6. Cardinality(Ahead(m)) = 0
  BY <1>5, FS_EmptySet
<1>7. m \in Front(R, k)
  BY <1>6 DEF Front
<1> QED
  BY <1>7

\* A page takes what comes first.
LEMMA FrontIsFirst ==
    ASSUME NEW R \in SUBSET ListRow, IsFiniteSet(R), OneRowEach(R), NEW k \in Nat,
           NEW r \in R, NEW l \in Front(R, k), Precedes(r, l)
    PROVE  r \in Front(R, k)
<1> DEFINE A == {s \in R : Precedes(s, l)}
           B == {s \in R : Precedes(s, r)}
<1>1. IsFiniteSet(A) /\ B \in SUBSET A /\ Cardinality(A) < k
  BY FS_Subset, RowOrder DEF Front
<1>2. Cardinality(B) \in Nat /\ Cardinality(A) \in Nat /\ Cardinality(B) <= Cardinality(A)
  <2> HIDE DEF A, B
  <2>1. IsFiniteSet(B) /\ Cardinality(B) <= Cardinality(A)
    BY <1>1, FS_Subset
  <2> QED
    BY <1>1, <2>1, FS_CardinalityType
<1>3. Cardinality(B) < k
  BY <1>1, <1>2
<1> QED
  BY <1>3 DEF Front

LEMMA PageOf ==
    ASSUME NEW R \in SUBSET ListRow, IsFiniteSet(R), OneRowEach(R),
           NEW fetched, fetched = Front(R, Limit + 1),
           NEW items, items = Front(fetched, Limit)
    PROVE  /\ items \subseteq R
           /\ \A r \in R, l \in items : Precedes(r, l) => r \in items
           /\ fetched # items =>
                 Last(items) \in items /\ \A s \in items : s = Last(items) \/ Precedes(s, Last(items))
<1>1. Limit \in Nat \ {0} /\ Limit + 1 \in Nat
  BY KeysetAssumption DEF KeysetAssumption
<1>2. fetched \subseteq R /\ items \subseteq fetched
  BY DEF Front
<1>3. /\ fetched \in SUBSET ListRow /\ IsFiniteSet(fetched) /\ OneRowEach(fetched)
      /\ items \in SUBSET ListRow /\ IsFiniteSet(items) /\ OneRowEach(items)
  BY <1>2, FS_Subset DEF OneRowEach
<1>4. ASSUME NEW r \in R, NEW l \in items, Precedes(r, l)
      PROVE  r \in items
  <2>1. r \in fetched
    BY <1>1, <1>2, <1>4, FrontIsFirst
  <2> QED
    BY <1>1, <1>3, <1>4, <2>1, FrontIsFirst
<1>5. fetched # items => items # {}
  BY <1>1, <1>2, <1>3, FrontNotEmpty
<1> QED
  BY <1>2, <1>3, <1>4, <1>5, LastExists

\* The next page starts after what was before the cursor, and after its own.
LEMMA CursorMoves ==
    ASSUME NEW c \in Cursor, NEW l \in ListRow, AfterCursor(c, l), NEW r \in ListRow
    PROVE  /\ EncodeCursor(l) \in Cursor /\ EncodeCursor(l) # Beginning
           /\ ~AfterCursor(c, r) => ~AfterCursor(EncodeCursor(l), r)
           /\ r = l \/ Precedes(r, l) => ~AfterCursor(EncodeCursor(l), r)
           /\ Precedes(l, r) /\ ~AfterCursor(EncodeCursor(l), r) => Millis(r.at) = Millis(l.at)
<1>1. /\ r.id \in Nat /\ r.at \in Nat /\ l.id \in RowIds /\ l.id \in Nat /\ l.at \in 0..MaxTime
      /\ l.at \in Nat /\ MaxTime \in Nat
  BY RowFields
<1>2. Millis(l.at) \in Nat /\ Millis(l.at) <= l.at
  BY <1>1, MillisBelow
<1> DEFINE m == Millis(l.at)
           d == EncodeCursor(l)
<1>3. d = [at |-> m, id |-> l.id] /\ d.at = m /\ d.id = l.id
  BY DEF EncodeCursor
<1>4. m \in 0..MaxTime
  BY <1>1, <1>2
<1>5. d \in Cursor /\ d # Beginning
  <2>1. Beginning.at = -1
    BY DEF Beginning
  <2> QED
    BY <1>1, <1>2, <1>3, <1>4, <2>1 DEF Cursor
<1>6. c # Beginning => c.at \in Nat /\ c.id \in Nat
  <2> SUFFICES ASSUME c # Beginning PROVE c.at \in Nat /\ c.id \in Nat
    OBVIOUS
  <2>1. c \in [at : 0..MaxTime, id : RowIds]
    BY DEF Cursor
  <2>2. c.at \in 0..MaxTime /\ c.id \in RowIds
    BY <2>1
  <2> QED
    BY <2>2, KeysetNumbers
<1> HIDE DEF d, m
<1>7. ~AfterCursor(c, r) => ~AfterCursor(d, r)
  BY <1>1, <1>2, <1>3, <1>5, <1>6 DEF AfterCursor, m
<1>8. r = l \/ Precedes(r, l) => ~AfterCursor(d, r)
  BY <1>1, <1>2, <1>3, <1>5 DEF AfterCursor, Precedes, m
<1>9. Precedes(l, r) /\ ~AfterCursor(d, r) => m <= r.at /\ r.at <= l.at
  BY <1>1, <1>2, <1>3, <1>5 DEF AfterCursor, Precedes, m
<1>10. Precedes(l, r) /\ ~AfterCursor(d, r) => Millis(r.at) = Millis(l.at)
  BY <1>1, <1>9, MillisSame DEF m
<1> QED
  BY <1>5, <1>7, <1>8, <1>10 DEF d

LEMMA SelectedRows ==
    ASSUME NEW q \in ListQuery
    PROVE  Selected(q) = {r \in rows : InList(q, r)}
<1>1. q.list \in Lists /\ q.narrow \in BOOLEAN
  BY DEF ListQuery
<1>2. CASE q.list \in {"servers", "roles"}
  BY <1>2 DEF Selected, InList, ListServers, ListRoles
<1>3. CASE q.list = "clients"
  BY <1>1, <1>3 DEF Selected, InList, ListClients
<1>4. CASE q.list \in {"users", "connections", "tools", "secrets", "audit"}
  BY <1>1, <1>4 DEF Selected, InList, ListUsers, ListConnections, ListTools, ListSecrets,
                    ListAudit, Ours
<1> QED
  BY <1>1, <1>2, <1>3, <1>4 DEF Lists

LEMMA ClosedListing ==
    ASSUME NEW missed \in SUBSET RowIds, NEW again \in BOOLEAN
    PROVE  /\ Closed(missed, again) \in ListingType
           /\ Closed(missed, again).state = "closed" /\ Closed(missed, again).again = again
<1>1. [list |-> "servers", narrow |-> FALSE] \in ListQuery
  BY DEF ListQuery, Lists
<1> QED
  BY <1>1 DEF Closed, ListingType, Cursor

\* A page.
LEMMA ReadPageStays ==
    ASSUME KeysetIInv, ReadPage
    PROVE  KeysetIInv'
<1> DEFINE q == listing.query
           c == listing.cursor
           seen == listing.seen
           found == {r \in Selected(q) : AfterCursor(c, r)}
           fetched == Front(found, Limit + 1)
           items == Front(fetched, Limit)
           ids == {r.id : r \in items}
           again == ids \cap seen # {}
           l == Last(items)
<1>1. /\ rows \subseteq ListRow /\ IsFiniteSet(rows) /\ OneRowEach(rows)
      /\ clock \in 0..MaxTime /\ deletes \in 0..MaxDeletes
      /\ listing \in ListingType /\ listing.state = "open"
      /\ UNCHANGED <<rows, clock, deletes>>
      /\ q \in ListQuery /\ c \in Cursor /\ seen \in SUBSET RowIds
      /\ listing.steady \in SUBSET RowIds /\ listing.ended \in SUBSET (0..MaxTime)
  BY DEF KeysetIInv, ReadPage, ListingType
<1>2. /\ c = Beginning => seen = {}
      /\ \A r \in rows : r.id \in seen => ~AfterCursor(c, r)
      /\ \A i \in listing.steady : \E r \in rows : r.id = i /\ InList(q, r)
  BY <1>1 DEF KeysetIInv, Reading
<1>3. listing' =
          IF fetched = items THEN Closed(listing.steady \ (seen \cup ids), again)
          ELSE [listing EXCEPT !.seen = seen \cup ids, !.cursor = EncodeCursor(l),
                               !.ended = listing.ended \cup {Millis(l.at)}, !.again = again]
  BY DEF ReadPage
<1>4. Selected(q) = {r \in rows : InList(q, r)}
  BY <1>1, SelectedRows
<1>5. /\ found \in SUBSET ListRow /\ IsFiniteSet(found) /\ OneRowEach(found)
      /\ found \subseteq rows
      /\ \A r \in rows : InList(q, r) /\ AfterCursor(c, r) => r \in found
      /\ \A r \in found : AfterCursor(c, r)
  BY <1>1, <1>4, FS_Subset DEF OneRowEach
<1> HIDE DEF found
<1>6. /\ items \subseteq found
      /\ \A r \in found, k \in items : Precedes(r, k) => r \in items
      /\ fetched # items => l \in items /\ \A s \in items : s = l \/ Precedes(s, l)
  <2> HIDE DEF items, fetched, l
  <2>1. fetched = Front(found, Limit + 1) /\ items = Front(fetched, Limit) /\ l = Last(items)
    BY DEF items, fetched, l
  <2> QED
    BY <2>1, <1>5, PageOf
<1> HIDE DEF items, fetched, l
<1>7. ids \subseteq RowIds
  BY <1>5, <1>6, RowFields
<1>8. again = FALSE
  <2> SUFFICES ASSUME NEW i \in ids \cap seen PROVE FALSE
    OBVIOUS
  <2>1. PICK r \in items : r.id = i
    OBVIOUS
  <2>2. r \in rows /\ AfterCursor(c, r)
    BY <1>5, <1>6
  <2> QED
    BY <1>2, <2>1, <2>2
<1>9. CASE fetched = items
  <2>1. /\ listing' \in ListingType /\ listing'.state = "closed" /\ listing'.again = FALSE
    <3> HIDE DEF ids, again, seen
    <3>1. listing.steady \ (seen \cup ids) \in SUBSET RowIds
      BY <1>1
    <3> QED
      BY <3>1, <1>3, <1>8, <1>9, ClosedListing
  <2> QED
    BY <1>1, <2>1 DEF KeysetIInv, Reading, NoRowTwice, OnlyTiesPassedOver
<1>10. CASE fetched # items
  <2> DEFINE d == EncodeCursor(l)
  <2>1. l \in ListRow /\ l \in rows /\ AfterCursor(c, l) /\ l \in found
    BY <1>5, <1>6, <1>10
  <2>2. /\ d \in Cursor /\ d # Beginning
        /\ \A r \in rows :
              /\ ~AfterCursor(c, r) => ~AfterCursor(d, r)
              /\ r = l \/ Precedes(r, l) => ~AfterCursor(d, r)
              /\ Precedes(l, r) /\ ~AfterCursor(d, r) => Millis(r.at) = Millis(l.at)
    BY <1>1, <2>1, CursorMoves
  <2>3. Millis(l.at) \in 0..MaxTime
    BY <2>1, RowFields, MillisBelow
  <2> HIDE DEF d
  <2>4. /\ listing' \in ListingType /\ listing'.state = "open" /\ listing'.again = FALSE
        /\ listing'.query = q /\ listing'.steady = listing.steady
        /\ listing'.seen = seen \cup ids /\ listing'.cursor = d
        /\ listing'.ended = listing.ended \cup {Millis(l.at)}
    <3> DEFINE e == listing.ended \cup {Millis(l.at)}
               u == seen \cup ids
    <3>1. listing' = [listing EXCEPT !.seen = u, !.cursor = d, !.ended = e, !.again = FALSE]
      BY <1>3, <1>8, <1>10 DEF d
    <3>2. u \in SUBSET RowIds /\ e \in SUBSET (0..MaxTime)
      BY <1>1, <1>7, <2>3
    <3> HIDE DEF u, e, ids, seen
    <3>3. /\ listing' \in ListingType /\ listing'.state = "open" /\ listing'.again = FALSE
          /\ listing'.query = q /\ listing'.steady = listing.steady
          /\ listing'.seen = u /\ listing'.cursor = d /\ listing'.ended = e
      BY <1>1, <2>2, <3>1, <3>2 DEF ListingType
    <3> QED
      BY <3>3 DEF u, e
  <2>5. ASSUME NEW r \in rows, r.id \in seen \cup ids
        PROVE  ~AfterCursor(d, r)
    <3>1. CASE r.id \in seen
      BY <3>1, <1>2, <2>2
    <3>2. CASE r.id \in ids
      <4>1. r \in items
        BY <3>2, <1>1, <1>5, <1>6 DEF OneRowEach
      <4> QED
        BY <4>1, <1>6, <1>10, <2>2
    <3> QED
      BY <2>5, <3>1, <3>2
  <2>6. Reading'
    BY <1>1, <1>2, <2>2, <2>4, <2>5 DEF Reading
  <2>7. ASSUME NEW r \in rows, r.id \in listing.steady, r.id \notin seen \cup ids,
               ~AfterCursor(d, r)
        PROVE  Millis(r.at) \in listing.ended \cup {Millis(l.at)}
    <3>1. CASE ~AfterCursor(c, r)
      BY <3>1, <2>7, <1>1 DEF KeysetIInv, OnlyTiesPassedOver
    <3>2. CASE AfterCursor(c, r)
      <4>1. InList(q, r)
        BY <1>1, <1>2, <2>7 DEF OneRowEach
      <4>2. r \in found /\ r \notin items
        BY <4>1, <3>2, <1>5, <2>7
      <4>3. Precedes(l, r)
        BY <4>2, <1>5, <1>6, <1>10, <2>1, RowOrder
      <4> QED
        BY <4>3, <2>2, <2>7
    <3> QED
      BY <3>1, <3>2
  <2>8. OnlyTiesPassedOver'
    BY <1>1, <2>4, <2>7 DEF OnlyTiesPassedOver
  <2> QED
    BY <1>1, <2>4, <2>6, <2>8 DEF KeysetIInv, NoRowTwice
<1> QED
  BY <1>9, <1>10

LEMMA OpenListStays ==
    ASSUME KeysetIInv, NEW q \in ListQuery, OpenList(q)
    PROVE  KeysetIInv'
<1> DEFINE s == {r.id : r \in Selected(q)}
<1>1. /\ rows \subseteq ListRow /\ IsFiniteSet(rows) /\ OneRowEach(rows)
      /\ clock \in 0..MaxTime /\ deletes \in 0..MaxDeletes
      /\ UNCHANGED <<rows, clock, deletes>>
      /\ listing' = [query |-> q, cursor |-> Beginning, ended |-> {}, seen |-> {},
                     steady |-> s, again |-> FALSE, state |-> "open"]
  BY DEF KeysetIInv, OpenList
<1>2. /\ s \in SUBSET RowIds
      /\ \A i \in s : \E r \in rows : r.id = i /\ InList(q, r)
  BY <1>1, SelectedRows, RowFields
<1> HIDE DEF s
<1>3. /\ listing' \in ListingType /\ listing'.state = "open" /\ listing'.again = FALSE
      /\ listing'.query = q /\ listing'.steady = s /\ listing'.seen = {}
      /\ listing'.cursor = Beginning
  BY <1>1, <1>2 DEF ListingType, Cursor
<1>4. Reading'
  BY <1>1, <1>2, <1>3 DEF Reading
<1>5. OnlyTiesPassedOver'
  BY <1>3 DEF OnlyTiesPassedOver, AfterCursor
<1> QED
  BY <1>1, <1>3, <1>4, <1>5 DEF KeysetIInv, NoRowTwice

LEMMA CreateRowStays ==
    ASSUME KeysetIInv, NEW id \in RowIds, NEW g \in Groups, CreateRow(id, g)
    PROVE  KeysetIInv'
<1> DEFINE n == [id |-> id, at |-> clock, group |-> g]
<1>1. /\ rows \subseteq ListRow /\ IsFiniteSet(rows) /\ OneRowEach(rows)
      /\ clock \in 0..MaxTime /\ deletes \in 0..MaxDeletes
      /\ UNCHANGED <<clock, listing, deletes>>
      /\ id \notin {r.id : r \in rows} /\ id \notin listing.seen
      /\ rows' = rows \cup {n}
  BY DEF KeysetIInv, CreateRow
<1>2. n \in ListRow /\ n.id = id
  BY <1>1 DEF ListRow
<1> HIDE DEF n
<1>3. rows' \subseteq ListRow /\ IsFiniteSet(rows') /\ OneRowEach(rows')
  <2>1. IsFiniteSet(rows')
    BY <1>1, FS_AddElement
  <2>2. OneRowEach(rows')
    BY <1>1, <1>2 DEF OneRowEach
  <2> QED
    BY <1>1, <1>2, <2>1, <2>2
<1>4. Reading'
  BY <1>1, <1>2 DEF KeysetIInv, Reading
<1>5. OnlyTiesPassedOver'
  <2>1. listing.state = "open" => n.id \notin listing.steady
    BY <1>1, <1>2 DEF KeysetIInv, Reading
  <2> QED
    BY <1>1, <2>1 DEF KeysetIInv, OnlyTiesPassedOver
<1> QED
  BY <1>1, <1>3, <1>4, <1>5 DEF KeysetIInv, NoRowTwice

LEMMA DeleteRowStays ==
    ASSUME KeysetIInv, NEW r \in rows, DeleteRow(r)
    PROVE  KeysetIInv'
<1> DEFINE s == listing.steady \ {r.id}
<1>1. /\ rows \subseteq ListRow /\ IsFiniteSet(rows) /\ OneRowEach(rows)
      /\ clock \in 0..MaxTime /\ deletes \in 0..MaxDeletes
      /\ listing \in ListingType
      /\ clock' = clock /\ deletes' = deletes + 1 /\ deletes < MaxDeletes
      /\ rows' = rows \ {r}
      /\ listing' = [listing EXCEPT !.steady = s]
  BY DEF KeysetIInv, DeleteRow
<1>2. rows' \subseteq ListRow /\ IsFiniteSet(rows') /\ OneRowEach(rows')
  BY <1>1, FS_RemoveElement DEF OneRowEach
<1>3. deletes' \in 0..MaxDeletes
  BY <1>1, KeysetAssumption DEF KeysetAssumption
<1>4. /\ listing' \in ListingType /\ listing'.steady = s
      /\ listing'.state = listing.state /\ listing'.again = listing.again
      /\ listing'.query = listing.query /\ listing'.seen = listing.seen
      /\ listing'.cursor = listing.cursor /\ listing'.ended = listing.ended
  BY <1>1 DEF ListingType
<1>5. Reading'
  BY <1>1, <1>4 DEF KeysetIInv, Reading
<1>6. OnlyTiesPassedOver'
  BY <1>1, <1>4 DEF KeysetIInv, OnlyTiesPassedOver
<1> QED
  BY <1>1, <1>2, <1>3, <1>4, <1>5, <1>6 DEF KeysetIInv, NoRowTwice

\* A client that reads a list page by page, of whatever length and page size: no
\* row is on two pages, and what no page has is of one millisecond with the last
\* row of a page.
THEOREM KeysetCorrect == KeysetSpec => []KeysetRules
<1>1. KeysetInit => KeysetIInv
  <2> SUFFICES ASSUME KeysetInit PROVE KeysetIInv
    OBVIOUS
  <2>1. rows = {} /\ clock = 0 /\ deletes = 0 /\ listing = Closed({}, FALSE)
    BY DEF KeysetInit
  <2>2. listing \in ListingType /\ listing.state = "closed" /\ listing.again = FALSE
    BY <2>1, ClosedListing
  <2>3. clock \in 0..MaxTime /\ deletes \in 0..MaxDeletes
    BY <2>1, KeysetAssumption DEF KeysetAssumption
  <2> QED
    BY <2>1, <2>2, <2>3, FS_EmptySet
       DEF KeysetIInv, OneRowEach, Reading, NoRowTwice, OnlyTiesPassedOver
<1>2. KeysetIInv /\ [KeysetNext]_keysetVars => KeysetIInv'
  <2> SUFFICES ASSUME KeysetIInv, [KeysetNext]_keysetVars PROVE KeysetIInv'
    OBVIOUS
  <2>1. CASE PassTime
    <3>1. clock' \in 0..MaxTime
      BY <2>1, KeysetAssumption DEF KeysetAssumption, PassTime, KeysetIInv
    <3> QED
      BY <2>1, <3>1
         DEF PassTime, KeysetIInv, OneRowEach, Reading, NoRowTwice, OnlyTiesPassedOver
  <2>2. CASE UNCHANGED keysetVars
    BY <2>2 DEF keysetVars, KeysetIInv, OneRowEach, Reading, NoRowTwice, OnlyTiesPassedOver
  <2> QED
    BY <2>1, <2>2, OpenListStays, ReadPageStays, CreateRowStays, DeleteRowStays DEF KeysetNext
<1>3. KeysetIInv => KeysetRules
  BY DEF KeysetIInv, KeysetRules, KeysetTypeOK, OneRowEach, ListingType
<1> QED
  BY <1>1, <1>2, <1>3, PTL DEF KeysetSpec

-----------------------------------------------------------------------------
(***************************************************************************)
(* ToolSync.  The names of a document differ, so that a sync that nothing  *)
(* crosses meets only what it found or what it has written.                *)
(***************************************************************************)

\* One more name: uniqueName of the next operation's id.
NameNext(ids, n, before) ==
    Append(before, UniqueName(ids[n], {before[k] : k \in 1..(n - 1)}))

NamesUpTo(ids, L, f) ==
    f = [n \in 0..L |-> IF n = 0 THEN <<>> ELSE NameNext(ids, n, f[n - 1])]

LEMMA NamesExist ==
    ASSUME NEW ids, NEW L \in Nat
    PROVE  \E f : NamesUpTo(ids, L, f)
<1> DEFINE T == {m \in Nat : ~\E f : NamesUpTo(ids, m, f)}
<1> SUFFICES ASSUME T # {} PROVE FALSE
  OBVIOUS
<1>1. PICK m \in T : \A j \in T : m <= j
  <2>1. T \in SUBSET Nat
    OBVIOUS
  <2> HIDE DEF T
  <2> QED
    BY <2>1, LeastNat
<1>2. m \in Nat /\ ~\E f : NamesUpTo(ids, m, f)
  OBVIOUS
<1>3. CASE m = 0
  <2> DEFINE f == [n \in 0..0 |-> <<>>]
  <2>1. NamesUpTo(ids, 0, f)
    BY DEF NamesUpTo
  <2> QED
    BY <1>2, <1>3, <2>1
<1>4. CASE m # 0
  <2>1. m - 1 \in Nat /\ m - 1 \notin T
    BY <1>1, <1>2, <1>4
  <2>2. PICK g : NamesUpTo(ids, m - 1, g)
    BY <2>1
  <2> DEFINE f == [n \in 0..m |-> IF n < m THEN g[n] ELSE NameNext(ids, m, g[m - 1])]
             e == [n \in 0..m |-> IF n = 0 THEN <<>> ELSE NameNext(ids, n, f[n - 1])]
  <2>3. ASSUME NEW n \in 0..m
        PROVE  f[n] = e[n]
    <3>1. CASE n = 0
      <4>1. 0 \in 0..(m - 1) /\ f[0] = g[0]
        BY <1>2, <1>4
      <4>2. g[0] = <<>>
        BY <4>1, <2>2 DEF NamesUpTo
      <4> QED
        BY <3>1, <4>1, <4>2
    <3>2. CASE n # 0 /\ n < m
      <4>1. n \in 0..(m - 1) /\ n - 1 \in 0..(m - 1) /\ n - 1 \in 0..m /\ n - 1 < m
        BY <3>2, <1>2
      <4>2. g[n] = NameNext(ids, n, g[n - 1])
        BY <3>2, <4>1, <2>2 DEF NamesUpTo
      <4>3. f[n - 1] = g[n - 1] /\ f[n] = g[n]
        BY <3>2, <4>1
      <4> QED
        BY <3>2, <4>2, <4>3
    <3>3. CASE n = m
      <4>1. m - 1 \in 0..m /\ f[m - 1] = g[m - 1]
        BY <1>2, <1>4
      <4> QED
        BY <3>3, <1>4, <4>1
    <3> QED
      BY <3>1, <3>2, <3>3
  <2>4. f = e
    BY <2>3
  <2>5. NamesUpTo(ids, m, f)
    BY <2>4 DEF NamesUpTo
  <2> QED
    BY <1>2, <2>5
<1> QED
  BY <1>3, <1>4

LEMMA ImportNamesAre ==
    ASSUME NEW ids, Len(ids) \in Nat
    PROVE  \E f : NamesUpTo(ids, Len(ids), f) /\ ImportNames(ids) = f[Len(ids)]
<1> DEFINE f == CHOOSE names : NamesUpTo(ids, Len(ids), names)
<1>1. ImportNames(ids) = f[Len(ids)]
  BY DEF ImportNames, NamesUpTo, NameNext
<1>2. NamesUpTo(ids, Len(ids), f)
  BY NamesExist
<1> QED
  BY <1>1, <1>2

\* Of the numbers uniqueName may append one is free.
LEMMA UniqueNameIsNew ==
    ASSUME NEW B, NEW base \in Seq(B), Nat \subseteq B, NEW used, IsFiniteSet(used)
    PROVE  UniqueName(base, used) \in Seq(B) /\ UniqueName(base, used) \notin used
<1> DEFINE c == Cardinality(used)
           S == 2..(c + 2)
           free == {i \in S : Append(base, i) \notin used}
           least(i) == i \in free /\ \A j \in free : i <= j
<1>1. c \in Nat
  BY FS_CardinalityType
<1>2. IsFiniteSet(S) /\ Cardinality(S) = c + 1 /\ S \subseteq Nat
  <2> HIDE DEF c
  <2>1. 2 \in Int /\ c + 2 \in Int /\ ~(2 > c + 2) /\ (c + 2) - 2 + 1 = c + 1
    BY <1>1
  <2>2. \A a, b \in Int : /\ IsFiniteSet(a..b)
                        /\ Cardinality(a..b) = IF a > b THEN 0 ELSE b - a + 1
    BY FS_Interval
  <2> QED
    BY <1>1, <2>1, <2>2
<1> HIDE DEF c
<1>3. \A i \in S : Append(base, i) \in Seq(B)
  BY <1>2
<1>4. \A i, j \in S : Append(base, i) = Append(base, j) => i = j
  <2> SUFFICES ASSUME NEW i \in S, NEW j \in S, Append(base, i) = Append(base, j)
               PROVE  i = j
    OBVIOUS
  <2>1. i \in B /\ j \in B
    BY <1>2
  <2>2. Append(base, i)[Len(base) + 1] = i /\ Append(base, j)[Len(base) + 1] = j
    BY <2>1
  <2> QED
    BY <2>2
<1> HIDE DEF S
<1>5. free # {}
  <2> SUFFICES ASSUME \A i \in S : Append(base, i) \in used PROVE FALSE
    OBVIOUS
  <2> DEFINE f == [i \in S |-> Append(base, i)]
  <2>1. f \in [S -> used]
    OBVIOUS
  <2>2. \A i, j \in S : f[i] = f[j] => i = j
    BY <1>4
  <2> HIDE DEF f
  <2>3. Cardinality(used) < Cardinality(S)
    BY <1>1, <1>2 DEF c
  <2>4. \E i, j \in S : i # j /\ f[i] = f[j]
    BY <1>2, <2>1, <2>3, FS_PigeonHole
  <2> QED
    BY <2>2, <2>4
<1>6. \E i : least(i)
  <2>1. free \in SUBSET Nat
    BY <1>2
  <2> HIDE DEF free
  <2> QED
    BY <1>5, <2>1, LeastNat
<1>7. CASE base \in used
  <2> DEFINE i == CHOOSE i \in free : \A j \in free : i <= j
  <2>1. UniqueName(base, used) = Append(base, i)
    BY <1>7 DEF UniqueName, S, c
  <2>2. i \in free
    BY <1>6
  <2> HIDE DEF i
  <2> QED
    BY <2>1, <2>2, <1>3
<1>8. CASE base \notin used
  BY <1>8 DEF UniqueName
<1> QED
  BY <1>7, <1>8

\* importToolsFromOpenApi names no two tools alike.
LEMMA NamesDiffer ==
    ASSUME NEW B, Nat \subseteq B, NEW ids, Len(ids) \in Nat,
           \A k \in 1..Len(ids) : ids[k] \in Seq(B)
    PROVE  \A j, k \in 1..Len(ids) : ImportNames(ids)[j] = ImportNames(ids)[k] => j = k
<1> DEFINE L == Len(ids)
<1>1. PICK f : NamesUpTo(ids, L, f) /\ ImportNames(ids) = f[L]
  BY ImportNamesAre
<1> DEFINE Good(n) == /\ f[n] \in Seq(Seq(B)) /\ Len(f[n]) = n
                      /\ \A j, k \in 1..n : f[n][j] = f[n][k] => j = k
           T == {n \in 0..L : ~Good(n)}
<1>2. f[0] = <<>> /\ \A n \in 1..L : f[n] = NameNext(ids, n, f[n - 1])
  BY <1>1 DEF NamesUpTo
<1>3. Good(0)
  BY <1>2
<1>4. ASSUME NEW n \in 1..L, Good(n - 1)
      PROVE  Good(n)
  <2> DEFINE s == f[n - 1]
             used == {s[k] : k \in 1..(n - 1)}
             u == UniqueName(ids[n], used)
  <2>1. s \in Seq(Seq(B)) /\ Len(s) = n - 1 /\ n - 1 \in Nat
    BY <1>4
  <2>2. IsFiniteSet(used)
    <3> DEFINE g == [k \in 1..(n - 1) |-> s[k]]
    <3>1. g \in Surjection(1..(n - 1), used)
      BY DEF Surjection
    <3>2. IsFiniteSet(1..(n - 1))
      BY <2>1, FS_Interval
    <3> HIDE DEF g, used
    <3> QED
      BY <3>1, <3>2, FS_Surjection
  <2>3. u \in Seq(B) /\ u \notin used
    <3>1. ids[n] \in Seq(B)
      OBVIOUS
    <3> HIDE DEF used
    <3> QED
      BY <2>2, <3>1, UniqueNameIsNew
  <2>4. f[n] = Append(s, u)
    BY <1>2 DEF NameNext
  <2>5. \A k \in 1..(n - 1) : s[k] # u
    BY <2>3
  <2>6. \A j, k \in 1..(n - 1) : s[j] = s[k] => j = k
    BY <1>4
  <2> HIDE DEF u, s, used
  <2>7. /\ f[n] \in Seq(Seq(B)) /\ Len(f[n]) = n /\ f[n][n] = u
        /\ \A k \in 1..(n - 1) : f[n][k] = s[k]
    BY <2>1, <2>3, <2>4
  <2>8. ASSUME NEW j \in 1..n, NEW k \in 1..n, f[n][j] = f[n][k]
        PROVE  j = k
    <3>1. (j = n \/ j \in 1..(n - 1)) /\ (k = n \/ k \in 1..(n - 1))
      OBVIOUS
    <3>2. CASE j = n /\ k \in 1..(n - 1)
      <4>1. f[n][k] = u
        BY <3>2, <2>7, <2>8
      <4>2. f[n][k] = s[k]
        BY <3>2, <2>7
      <4> QED
        BY <3>2, <4>1, <4>2, <2>5
    <3>3. CASE j \in 1..(n - 1) /\ k = n
      <4>1. f[n][j] = u
        BY <3>3, <2>7, <2>8
      <4>2. f[n][j] = s[j]
        BY <3>3, <2>7
      <4> QED
        BY <3>3, <4>1, <4>2, <2>5
    <3>4. CASE j \in 1..(n - 1) /\ k \in 1..(n - 1)
      <4>1. s[j] = s[k]
        BY <3>4, <2>7, <2>8
      <4> QED
        BY <3>4, <4>1, <2>6
    <3> QED
      BY <3>1, <3>2, <3>3, <3>4
  <2> QED
    BY <2>7, <2>8
<1> HIDE DEF Good
<1>5. T = {}
  <2> SUFFICES ASSUME T # {} PROVE FALSE
    OBVIOUS
  <2>1. T \in SUBSET Nat
    OBVIOUS
  <2>2. PICK n \in T : \A j \in T : n <= j
    <3> HIDE DEF T
    <3> QED
      BY <2>1, LeastNat
  <2>3. n \in 1..L /\ n - 1 \in 0..L
    BY <1>3, <2>2
  <2>4. n - 1 \notin T
    BY <2>2, <2>3
  <2> QED
    BY <1>4, <2>2, <2>3, <2>4
<1>6. Good(L)
  BY <1>5
<1> QED
  BY <1>1, <1>6 DEF Good

SyncItem == [name : ToolNames, op : SyncOps]

SyncDistinct(found) ==
    \A j, k \in 1..Len(found) : found[j].name = found[k].name => j = k

\* What a document turns into: as many tools as it has operations, each with a
\* name of its own.
LEMMA ImportedFacts ==
    ASSUME NEW d \in Documents
    PROVE  Imported(d) \in Seq(SyncItem) /\ SyncDistinct(Imported(d))
<1> DEFINE L == Len(d)
           ids == IdsOf(d)
           names == ImportNames(ids)
           B == Nat \cup UNION {{d[k].id[i] : i \in 1..Len(d[k].id)} : k \in 1..L}
<1>1. L \in Nat
  BY SyncAssumption
<1>2. ids \in Seq({d[k].id : k \in 1..L}) /\ Len(ids) = L
  BY <1>1 DEF IdsOf
<1>3. \A k \in 1..L : ids[k] = d[k].id
  BY DEF IdsOf
<1>4. ASSUME NEW k \in 1..L
      PROVE  ids[k] \in Seq(B)
  <2> DEFINE id == d[k].id
  <2>1. Len(id) \in Nat /\ id = [i \in 1..Len(id) |-> id[i]]
    BY SyncAssumption
  <2>2. \A i \in 1..Len(id) : id[i] \in B
    OBVIOUS
  <2> HIDE DEF id, B
  <2>3. id \in Seq(B)
    BY <2>1, <2>2
  <2> QED
    BY <2>3, <1>3 DEF id
<1>5. \A j, k \in 1..L : names[j] = names[k] => j = k
  <2>1. Nat \subseteq B
    OBVIOUS
  <2> HIDE DEF B, ids
  <2> QED
    BY <1>1, <1>2, <1>4, <2>1, NamesDiffer
<1>6. Imported(d) = [k \in 1..L |-> [name |-> names[k], op |-> d[k].op]]
  BY DEF Imported
<1> HIDE DEF names, ids
<1>7. ASSUME NEW k \in 1..L
      PROVE  Imported(d)[k] \in SyncItem
  <2>1. Imported(d)[k] = [name |-> names[k], op |-> d[k].op]
    BY <1>6
  <2>2. d[k].op \in SyncOps
    BY DEF SyncOps
  <2>3. names[k] \in ToolNames
    BY <2>1 DEF ToolNames
  <2> QED
    BY <2>1, <2>2, <2>3 DEF SyncItem
<1> DEFINE I == Imported(d)
<1>8. I = [k \in 1..L |-> I[k]]
  BY <1>6
<1>9. \A k \in 1..L : I[k].name = names[k]
  BY <1>6
<1> HIDE DEF L, I
<1>10. I \in Seq(SyncItem) /\ Len(I) = L
  BY <1>1, <1>7, <1>8 DEF I
<1>11. \A j, k \in 1..Len(I) : I[j].name = I[k].name => j = k
  BY <1>5, <1>9, <1>10
<1> QED
  BY <1>10, <1>11 DEF I, SyncDistinct

SyncPc == {"idle", "started", "fetch", "fetched", "upsert", "ok", "failed"}

SyncRec == [pc : SyncPc, items : Seq(SyncItem), found : Seq(SyncItem),
            existing : SUBSET ToolNames, alone : BOOLEAN]

SyncServer == [present : BOOLEAN, kind : {"mcp", "api"},
               health : {"unknown", "healthy", "unhealthy"}]

SyncTypes ==
    /\ catalog \in [ToolNames -> ToolRow]
    /\ server \in SyncServer
    /\ upstream \in Documents
    /\ credentials \subseteq {"personal", "shared"}
    /\ sync \in [Handlers -> SyncRec]
    /\ reviewed \subseteq ToolNames
    /\ spent \in [changes : Nat, reviews : Nat, faults : Nat]

SyncGone ==
    ~server.present => credentials = {} /\ \A n \in ToolNames : catalog[n] = NoTool

SyncRuns(x) == x.pc \notin {"idle", "ok", "failed"}

SyncDone(x) == Len(x.found) - Len(x.items)

\* What is left to do is the end of what was found.
SyncRest(x) ==
    /\ SyncDistinct(x.found)
    /\ SyncDone(x) \in Nat
    /\ \A k \in 1..Len(x.items) : x.items[k] = x.found[SyncDone(x) + k]

\* What a sync that nothing crossed read is still there, what it has done is
\* there as it was found, and nothing else is.
SyncAlone(x, C) ==
    /\ \A n \in x.existing : C[n] # NoTool
    /\ \A n \in ToolNames : C[n] # NoTool =>
          \/ n \in x.existing
          \/ \E k \in 1..SyncDone(x) : x.found[k].name = n
    /\ \A k \in 1..SyncDone(x) :
          /\ C[x.found[k].name] # NoTool
          /\ C[x.found[k].name].op = x.found[k].op

SyncOK(x, C, P) ==
    /\ SyncRuns(x) /\ x.alone => P
    /\ x.pc = "fetched" => x.items = x.found /\ SyncDistinct(x.found)
    /\ x.pc = "upsert" => SyncRest(x)
    /\ x.pc = "upsert" /\ x.alone => SyncAlone(x, C)

\* Nothing runs beside a sync that nothing crossed.
SyncExclusive(S) ==
    \A g, h \in Handlers : g # h /\ SyncRuns(S[g]) /\ SyncRuns(S[h]) => ~S[g].alone

SyncIInv ==
    /\ SyncTypes
    /\ SyncGone
    /\ ActiveWasReviewed
    /\ SyncExclusive(sync)
    /\ \A h \in Handlers : SyncOK(sync[h], catalog, server.present)

LEMMA SyncInvTypes == SyncIInv => SyncTypeOK
<1> SUFFICES ASSUME SyncIInv PROVE SyncTypeOK
  OBVIOUS
<1>1. SyncTypes /\ SyncGone
  BY DEF SyncIInv
<1>2. ASSUME NEW h \in Handlers
      PROVE  /\ sync[h].pc \in SyncPc
             /\ sync[h].existing \subseteq ToolNames
             /\ \A k \in 1..Len(sync[h].items) : sync[h].items[k].name \in ToolNames
  <2>1. sync[h] \in SyncRec
    BY <1>1 DEF SyncTypes
  <2>2. sync[h].items \in Seq(SyncItem)
    BY <2>1 DEF SyncRec
  <2>3. \A k \in 1..Len(sync[h].items) : sync[h].items[k] \in SyncItem
    BY <2>2
  <2> QED
    BY <2>1, <2>3 DEF SyncRec, SyncItem
<1> QED
  BY <1>1, <1>2 DEF SyncTypes, SyncGone, SyncTypeOK, SyncPc, SyncServer

LEMMA SyncIdle ==
    ASSUME NEW p \in {"ok", "failed", "idle"}
    PROVE  /\ [IdleSync EXCEPT !.pc = p] \in SyncRec
           /\ [IdleSync EXCEPT !.pc = p].pc = p
<1>1. <<>> \in Seq(SyncItem)
  OBVIOUS
<1> QED
  BY <1>1 DEF IdleSync, SyncRec, SyncPc

LEMMA SyncIdleOK ==
    ASSUME NEW p \in {"ok", "failed", "idle"}, NEW C, NEW P
    PROVE  SyncOK([IdleSync EXCEPT !.pc = p], C, P) /\ ~SyncRuns([IdleSync EXCEPT !.pc = p])
<1> DEFINE y == [IdleSync EXCEPT !.pc = p]
<1>1. y.pc = p
  BY SyncIdle
<1> HIDE DEF y
<1>2. SyncOK(y, C, P) /\ ~SyncRuns(y)
  BY <1>1 DEF SyncOK, SyncRuns
<1> QED
  BY <1>2 DEF y

LEMMA SyncStart == SyncInit => SyncIInv
<1> SUFFICES ASSUME SyncInit PROVE SyncIInv
  OBVIOUS
<1>1. IdleSync = [IdleSync EXCEPT !.pc = "idle"]
  BY DEF IdleSync
<1>2. \A h \in Handlers : sync[h] = IdleSync
  BY DEF SyncInit
<1>3. IdleSync \in SyncRec /\ ~SyncRuns(IdleSync) /\ SyncOK(IdleSync, catalog, server.present)
  BY <1>1, SyncIdle, SyncIdleOK
<1>4. SyncTypes
  <2>1. sync \in [Handlers -> SyncRec]
    BY <1>3 DEF SyncInit
  <2>2. catalog \in [ToolNames -> ToolRow]
    BY DEF SyncInit, ToolRow
  <2>3. upstream \in Documents
    BY DEF SyncInit, OfferedBy
  <2> QED
    BY <2>1, <2>2, <2>3 DEF SyncInit, SyncTypes, SyncServer
<1>5. SyncGone /\ ActiveWasReviewed
  BY DEF SyncInit, SyncGone, ActiveWasReviewed, NoTool
<1> QED
  BY <1>2, <1>3, <1>4, <1>5 DEF SyncIInv, SyncExclusive

\* A handler moves, and neither the catalog nor the server's being there does.
LEMMA SyncMoves ==
    ASSUME SyncIInv, NEW h \in Handlers, NEW y \in SyncRec,
           sync' = [sync EXCEPT ![h] = y],
           UNCHANGED <<catalog, upstream, credentials, reviewed>>,
           server' \in SyncServer, server'.present = server.present,
           spent' \in [changes : Nat, reviews : Nat, faults : Nat],
           SyncOK(y, catalog, server.present),
           SyncRuns(y) => SyncRuns(sync[h]) /\ y.alone = sync[h].alone
    PROVE  SyncIInv'
<1>1. sync'[h] = y /\ \A g \in Handlers \ {h} : sync'[g] = sync[g]
  BY DEF SyncIInv, SyncTypes
<1>2. SyncTypes'
  BY DEF SyncIInv, SyncTypes
<1>3. SyncGone' /\ ActiveWasReviewed'
  BY DEF SyncIInv, SyncGone, ActiveWasReviewed
<1>4. SyncExclusive(sync')
  BY <1>1 DEF SyncIInv, SyncExclusive
<1>5. \A g \in Handlers : SyncOK(sync'[g], catalog', server'.present)
  BY <1>1 DEF SyncIInv
<1> QED
  BY <1>2, <1>3, <1>4, <1>5 DEF SyncIInv

LEMMA SyncEnds ==
    ASSUME SyncIInv, NEW h \in Handlers, NEW p \in {"ok", "failed"}, EndSync(h, p),
           UNCHANGED <<catalog, upstream, credentials, reviewed>>,
           server' \in SyncServer, server'.present = server.present,
           spent' \in [changes : Nat, reviews : Nat, faults : Nat]
    PROVE  SyncIInv'
<1> DEFINE y == [IdleSync EXCEPT !.pc = p]
<1>1. y \in SyncRec /\ SyncOK(y, catalog, server.present) /\ ~SyncRuns(y)
  BY SyncIdle, SyncIdleOK
<1>2. sync' = [sync EXCEPT ![h] = y]
  BY DEF EndSync
<1> HIDE DEF y
<1> QED
  BY <1>1, <1>2, SyncMoves

\* Something crosses the syncs: none that runs is alone any more.
LEMMA SyncOverlaps ==
    ASSUME SyncIInv
    PROVE  /\ Overlap(sync) \in [Handlers -> SyncRec]
           /\ \A g \in Handlers : /\ SyncRuns(Overlap(sync)[g]) => ~Overlap(sync)[g].alone
                                  /\ Overlap(sync)[g].pc = sync[g].pc
                                  /\ \A C, P : SyncOK(Overlap(sync)[g], C, P)
<1>1. sync \in [Handlers -> SyncRec]
  BY DEF SyncIInv, SyncTypes
<1>2. ASSUME NEW g \in Handlers
      PROVE  /\ Overlap(sync)[g] \in SyncRec
             /\ SyncRuns(Overlap(sync)[g]) => ~Overlap(sync)[g].alone
             /\ Overlap(sync)[g].pc = sync[g].pc
             /\ \A C, P : SyncOK(Overlap(sync)[g], C, P)
  <2> DEFINE x == sync[g]
             y == Overlap(sync)[g]
  <2>1. x \in SyncRec
    BY <1>1
  <2>2. y = [x EXCEPT !.alone = x.alone /\ ~SyncRuns(x)]
    BY DEF Overlap, Running, SyncRuns
  <2>3. SyncOK(x, catalog, server.present)
    BY DEF SyncIInv
  <2> HIDE DEF x, y
  <2>4. (x.alone /\ ~SyncRuns(x)) \in BOOLEAN
    BY <2>1 DEF SyncRec
  <2>5. y \in SyncRec /\ y.pc = x.pc /\ y.items = x.items /\ y.found = x.found
    BY <2>1, <2>2, <2>4 DEF SyncRec
  <2>6. y.alone = (x.alone /\ ~SyncRuns(x))
    BY <2>1, <2>2 DEF SyncRec
  <2>7. SyncRuns(y) => ~y.alone
    BY <2>5, <2>6 DEF SyncRuns
  <2>8. ASSUME NEW C, NEW P
        PROVE  SyncOK(y, C, P)
    BY <2>3, <2>5, <2>7 DEF SyncOK, SyncRest, SyncDone, SyncRuns
  <2> QED
    BY <2>5, <2>7, <2>8 DEF x, y
<1>3. Overlap(sync) \in [Handlers -> SyncRec]
  <2>1. Overlap(sync) = [g \in Handlers |-> Overlap(sync)[g]]
    BY DEF Overlap
  <2> QED
    BY <1>2, <2>1
<1> QED
  BY <1>2, <1>3

LEMMA SyncFresh ==
    ASSUME NEW a \in BOOLEAN
    PROVE  /\ [IdleSync EXCEPT !.pc = "started", !.alone = a] \in SyncRec
           /\ [IdleSync EXCEPT !.pc = "started", !.alone = a].pc = "started"
           /\ [IdleSync EXCEPT !.pc = "started", !.alone = a].alone = a
<1>1. <<>> \in Seq(SyncItem)
  OBVIOUS
<1> QED
  BY <1>1 DEF IdleSync, SyncRec, SyncPc

LEMMA SyncStarts ==
    ASSUME SyncIInv, NEW h \in Handlers, StartSync(h)
    PROVE  SyncIInv'
<1>1. CASE ~server.present
  <2> DEFINE y == [IdleSync EXCEPT !.pc = "failed"]
  <2>1. y \in SyncRec /\ SyncOK(y, catalog, server.present) /\ ~SyncRuns(y)
    BY SyncIdle, SyncIdleOK
  <2>2. sync' = [sync EXCEPT ![h] = y]
    BY <1>1 DEF StartSync
  <2>3. UNCHANGED <<catalog, server, upstream, credentials, reviewed, spent>>
    BY DEF StartSync
  <2>4. SyncTypes
    BY DEF SyncIInv
  <2> HIDE DEF y
  <2> QED
    BY <2>1, <2>2, <2>3, <2>4, SyncMoves DEF SyncTypes
<1>2. CASE server.present
  <2> DEFINE a == \A g \in Handlers : ~Running(g)
             y == [IdleSync EXCEPT !.pc = "started", !.alone = a]
             S == Overlap(sync)
  <2>1. a \in BOOLEAN
    OBVIOUS
  <2>2. a => \A g \in Handlers : ~SyncRuns(sync[g])
    BY DEF Running, SyncRuns
  <2>3. UNCHANGED <<catalog, server, upstream, credentials, reviewed, spent>>
    BY DEF StartSync
  <2>4. sync' = [S EXCEPT ![h] = y]
    BY <1>2 DEF StartSync
  <2>5. /\ S \in [Handlers -> SyncRec]
        /\ \A g \in Handlers : /\ SyncRuns(S[g]) => ~S[g].alone
                               /\ S[g].pc = sync[g].pc
                               /\ \A C, P : SyncOK(S[g], C, P)
    BY SyncOverlaps
  <2> HIDE DEF a, S
  <2>6. y \in SyncRec /\ y.pc = "started" /\ y.alone = a
    BY <2>1, SyncFresh
  <2>7. SyncOK(y, catalog, server.present)
    BY <1>2, <2>6 DEF SyncOK
  <2> HIDE DEF y
  <2>8. sync'[h] = y /\ \A g \in Handlers \ {h} : sync'[g] = S[g]
    BY <2>4, <2>5
  <2>9. SyncTypes'
    BY <2>3, <2>4, <2>5, <2>6 DEF SyncIInv, SyncTypes
  <2>10. SyncGone' /\ ActiveWasReviewed'
    BY <2>3 DEF SyncIInv, SyncGone, ActiveWasReviewed
  <2>11. \A g \in Handlers : SyncOK(sync'[g], catalog', server'.present)
    BY <2>3, <2>5, <2>7, <2>8
  <2>12. SyncExclusive(sync')
    <3> SUFFICES ASSUME NEW g \in Handlers, NEW k \in Handlers, g # k,
                        SyncRuns(sync'[g]), SyncRuns(sync'[k])
                 PROVE  ~sync'[g].alone
      BY DEF SyncExclusive
    <3>1. CASE g = h
      <4>1. SyncRuns(sync[k])
        BY <3>1, <2>5, <2>8 DEF SyncRuns
      <4> QED
        BY <4>1, <3>1, <2>2, <2>6, <2>8
    <3>2. CASE g # h
      BY <3>2, <2>5, <2>8
    <3> QED
      BY <3>1, <3>2
  <2> QED
    BY <2>9, <2>10, <2>11, <2>12 DEF SyncIInv
<1> QED
  BY <1>1, <1>2

LEMMA SyncLoads ==
    ASSUME SyncIInv, NEW h \in Handlers, LoadSyncSecret(h)
    PROVE  SyncIInv'
<1>1. SyncTypes /\ SyncOK(sync[h], catalog, server.present)
  BY DEF SyncIInv
<1>2. UNCHANGED <<catalog, server, upstream, credentials, reviewed, spent>>
  BY DEF LoadSyncSecret
<1>3. CASE server.kind = "mcp" /\ credentials = {}
  <2>1. EndSync(h, "failed")
    BY <1>3 DEF LoadSyncSecret
  <2> QED
    BY <1>1, <1>2, <2>1, SyncEnds DEF SyncTypes
<1>4. CASE ~(server.kind = "mcp" /\ credentials = {})
  <2> DEFINE x == sync[h]
             y == [x EXCEPT !.pc = "fetch"]
  <2>1. sync' = [sync EXCEPT ![h] = y]
    BY <1>4 DEF LoadSyncSecret
  <2>2. x \in SyncRec /\ x.pc = "started"
    BY <1>1 DEF SyncTypes, LoadSyncSecret
  <2> HIDE DEF x
  <2>3. y \in SyncRec /\ y.pc = "fetch" /\ y.alone = x.alone
    BY <2>2 DEF SyncRec, SyncPc
  <2> HIDE DEF y
  <2>4. SyncRuns(x) /\ SyncOK(y, catalog, server.present)
    BY <1>1, <2>2, <2>3 DEF SyncOK, SyncRuns, x
  <2> QED
    BY <1>1, <1>2, <2>1, <2>3, <2>4, SyncMoves DEF SyncTypes, x
<1> QED
  BY <1>3, <1>4

LEMMA SyncFetches ==
    ASSUME SyncIInv, NEW h \in Handlers, FetchTools(h)
    PROVE  SyncIInv'
<1>1. SyncTypes /\ SyncOK(sync[h], catalog, server.present)
  BY DEF SyncIInv
<1>2. UNCHANGED <<catalog, server, upstream, credentials, reviewed, spent>>
  BY DEF FetchTools
<1> DEFINE x == sync[h]
           i == Imported(upstream)
           y == [x EXCEPT !.pc = "fetched", !.items = i, !.found = i]
<1>3. sync' = [sync EXCEPT ![h] = y]
  BY DEF FetchTools
<1>4. x \in SyncRec /\ x.pc = "fetch"
  BY <1>1 DEF SyncTypes, FetchTools
<1>5. i \in Seq(SyncItem) /\ SyncDistinct(i)
  BY <1>1, ImportedFacts DEF SyncTypes
<1> HIDE DEF x, i
<1>6. /\ y \in SyncRec /\ y.pc = "fetched" /\ y.alone = x.alone
      /\ y.items = i /\ y.found = i
  BY <1>4, <1>5 DEF SyncRec, SyncPc
<1> HIDE DEF y
<1>7. SyncRuns(x) /\ SyncOK(y, catalog, server.present)
  BY <1>1, <1>4, <1>5, <1>6 DEF SyncOK, SyncRuns, x
<1> QED
  BY <1>1, <1>2, <1>3, <1>6, <1>7, SyncMoves DEF SyncTypes, x

LEMMA SyncReads ==
    ASSUME SyncIInv, NEW h \in Handlers, ReadCatalog(h)
    PROVE  SyncIInv'
<1>1. SyncTypes /\ SyncOK(sync[h], catalog, server.present)
  BY DEF SyncIInv
<1>2. UNCHANGED <<catalog, server, upstream, credentials, reviewed, spent>>
  BY DEF ReadCatalog
<1> DEFINE x == sync[h]
           e == {n \in ToolNames : catalog[n] # NoTool}
           y == [x EXCEPT !.pc = "upsert", !.existing = e]
<1>3. sync' = [sync EXCEPT ![h] = y]
  BY DEF ReadCatalog
<1>4. x \in SyncRec /\ x.pc = "fetched"
  BY <1>1 DEF SyncTypes, ReadCatalog
<1>5. e \in SUBSET ToolNames
  OBVIOUS
<1>6. (\A n \in e : catalog[n] # NoTool) /\ \A n \in ToolNames : catalog[n] # NoTool => n \in e
  OBVIOUS
<1> HIDE DEF x, e
<1>7. /\ y \in SyncRec /\ y.pc = "upsert" /\ y.alone = x.alone
      /\ y.items = x.items /\ y.found = x.found /\ y.existing = e
  BY <1>4, <1>5 DEF SyncRec, SyncPc
<1> HIDE DEF y
<1>8. x.items = x.found /\ SyncDistinct(x.found) /\ Len(x.found) \in Nat
  BY <1>1, <1>4 DEF SyncOK, SyncRec, x
<1>9. SyncDone(y) = 0 /\ SyncRest(y)
  BY <1>7, <1>8 DEF SyncDone, SyncRest
<1>10. SyncAlone(y, catalog)
  BY <1>6, <1>7, <1>9 DEF SyncAlone
<1>11. SyncRuns(x) /\ SyncOK(y, catalog, server.present)
  BY <1>1, <1>4, <1>7, <1>9, <1>10 DEF SyncOK, SyncRuns, x
<1> QED
  BY <1>1, <1>2, <1>3, <1>7, <1>11, SyncMoves DEF SyncTypes, x

\* One of the rows an item names is written, and h goes on with the next item.
LEMMA SyncWrites ==
    ASSUME SyncIInv, NEW h \in Handlers, sync[h].pc = "upsert", sync[h].items # <<>>,
           NEW r \in ToolRow,
           UNCHANGED <<server, upstream, credentials, reviewed, spent>>,
           catalog' = [catalog EXCEPT ![Item(h).name] = r],
           r.status = "active" => catalog[Item(h).name].status = "active",
           r = NoTool => catalog[Item(h).name] = NoTool,
           ~server.present => r = NoTool,
           r # NoTool => r.op = Item(h).op,
           sync[h].alone => r # NoTool,
           NextItem(h)
    PROVE  SyncIInv'
<1> DEFINE x == sync[h]
           m == Item(h).name
           y == [x EXCEPT !.items = Tail(x.items)]
<1>1. SyncTypes /\ SyncOK(x, catalog, server.present)
  BY DEF SyncIInv
<1>2. x \in SyncRec /\ x.pc = "upsert" /\ x.items # <<>>
  BY <1>1 DEF SyncTypes
<1>3. sync' = [sync EXCEPT ![h] = y]
  BY DEF NextItem
<1>4. Item(h) = Head(x.items)
  BY DEF Item
<1> HIDE DEF x
<1>5. /\ x.items \in Seq(SyncItem) /\ x.found \in Seq(SyncItem)
      /\ Len(x.items) \in Nat /\ Len(x.items) > 0 /\ Len(x.found) \in Nat
  BY <1>2 DEF SyncRec
<1>6. /\ Tail(x.items) \in Seq(SyncItem) /\ Len(Tail(x.items)) = Len(x.items) - 1
      /\ \A k \in 1..(Len(x.items) - 1) : Tail(x.items)[k] = x.items[k + 1]
      /\ Head(x.items) = x.items[1] /\ Head(x.items) \in SyncItem
  BY <1>2, <1>5
<1>7. m \in ToolNames
  BY <1>4, <1>6 DEF SyncItem
<1>8. /\ y \in SyncRec /\ y.pc = "upsert" /\ y.alone = x.alone
      /\ y.items = Tail(x.items) /\ y.found = x.found /\ y.existing = x.existing
  BY <1>2, <1>6 DEF SyncRec, SyncPc
<1> HIDE DEF y
<1>9. SyncRest(x)
  BY <1>1, <1>2 DEF SyncOK
<1>10. SyncDone(y) = SyncDone(x) + 1 /\ SyncDone(x) \in Nat
  <2>1. SyncDone(x) \in Nat
    BY <1>9 DEF SyncRest
  <2>2. Len(y.items) = Len(x.items) - 1 /\ Len(y.found) = Len(x.found)
    BY <1>6, <1>8
  <2> QED
    BY <2>1, <2>2, <1>5 DEF SyncDone
<1>11. SyncDone(y) <= Len(y.found) /\ x.found[SyncDone(y)] = Item(h)
  <2>1. 1 \in 1..Len(x.items)
    BY <1>5
  <2>2. x.items[1] = x.found[SyncDone(x) + 1]
    BY <2>1, <1>9 DEF SyncRest
  <2>3. SyncDone(x) + 1 <= Len(x.found)
    BY <1>5 DEF SyncDone
  <2> QED
    BY <2>2, <2>3, <1>4, <1>6, <1>8, <1>10
<1>12. SyncRest(y)
  <2>1. ASSUME NEW k \in 1..Len(y.items)
        PROVE  y.items[k] = y.found[SyncDone(y) + k]
    <3>1. k \in 1..(Len(x.items) - 1) /\ k + 1 \in 1..Len(x.items)
      BY <1>5, <1>6, <1>8
    <3>2. y.items[k] = x.items[k + 1]
      BY <1>6, <1>8, <3>1
    <3>3. x.items[k + 1] = x.found[SyncDone(x) + (k + 1)]
      BY <1>9, <3>1 DEF SyncRest
    <3>4. SyncDone(x) + (k + 1) = SyncDone(y) + k
      BY <1>10, <3>1
    <3> QED
      BY <3>2, <3>3, <3>4, <1>8
  <2> QED
    BY <1>8, <1>9, <1>10, <2>1 DEF SyncRest
<1>13. /\ catalog' \in [ToolNames -> ToolRow] /\ catalog'[m] = r
       /\ \A n \in ToolNames \ {m} : catalog'[n] = catalog[n]
  BY <1>1, <1>7 DEF SyncTypes
<1>14. sync'[h] = y /\ \A g \in Handlers \ {h} : sync'[g] = sync[g]
  BY <1>1, <1>3 DEF SyncTypes
<1>15. SyncTypes'
  BY <1>1, <1>3, <1>8, <1>13 DEF SyncTypes
<1>16. SyncGone' /\ ActiveWasReviewed'
  BY <1>7, <1>13 DEF SyncIInv, SyncGone, ActiveWasReviewed
<1>17. SyncExclusive(sync')
  BY <1>2, <1>8, <1>14 DEF SyncIInv, SyncExclusive, SyncRuns, x
<1>18. ASSUME x.alone
       PROVE  SyncAlone(y, catalog')
  <2>1. SyncAlone(x, catalog) /\ r # NoTool /\ r.op = Item(h).op
    BY <1>1, <1>2, <1>18 DEF SyncOK, x
  <2>2. \A n \in y.existing : catalog'[n] # NoTool
    BY <2>1, <1>2, <1>8, <1>13 DEF SyncAlone, SyncRec
  <2>3. ASSUME NEW n \in ToolNames, catalog'[n] # NoTool, n \notin y.existing
        PROVE  \E k \in 1..SyncDone(y) : y.found[k].name = n
    <3>1. CASE n = m
      BY <3>1, <1>8, <1>10, <1>11
    <3>2. CASE n # m
      BY <3>2, <2>1, <2>3, <1>8, <1>10, <1>13 DEF SyncAlone
    <3> QED
      BY <3>1, <3>2
  <2>4. ASSUME NEW k \in 1..SyncDone(y)
        PROVE  /\ catalog'[y.found[k].name] # NoTool
               /\ catalog'[y.found[k].name].op = y.found[k].op
    <3>1. CASE k = SyncDone(y)
      BY <3>1, <2>1, <1>8, <1>11, <1>13
    <3>2. CASE k # SyncDone(y)
      <4>1. k \in 1..SyncDone(x) /\ k \in 1..Len(x.found) /\ SyncDone(y) \in 1..Len(x.found)
        BY <3>2, <1>5, <1>8, <1>10, <1>11
      <4>2. x.found[k].name # m
        BY <3>2, <4>1, <1>9, <1>11 DEF SyncRest, SyncDistinct
      <4>3. x.found[k].name \in ToolNames
        <5>1. x.found[k] \in SyncItem
          BY <4>1, <1>5
        <5> QED
          BY <5>1 DEF SyncItem
      <4>4. catalog[x.found[k].name] # NoTool /\ catalog[x.found[k].name].op = x.found[k].op
        BY <4>1, <2>1 DEF SyncAlone
      <4> QED
        BY <4>2, <4>3, <4>4, <1>8, <1>13
    <3> QED
      BY <3>1, <3>2
  <2> QED
    BY <2>2, <2>3, <2>4 DEF SyncAlone
<1>19. SyncOK(y, catalog', server.present)
  BY <1>1, <1>2, <1>8, <1>12, <1>18 DEF SyncOK, SyncRuns
<1>20. ASSUME NEW g \in Handlers, g # h
       PROVE  SyncOK(sync[g], catalog', server.present)
  <2>1. SyncOK(sync[g], catalog, server.present)
    BY DEF SyncIInv
  <2>2. SyncRuns(sync[g]) => ~sync[g].alone
    BY <1>2, <1>20 DEF SyncIInv, SyncExclusive, SyncRuns, x
  <2> QED
    BY <2>1, <2>2 DEF SyncOK, SyncRuns
<1>21. \A g \in Handlers : SyncOK(sync'[g], catalog', server'.present)
  BY <1>14, <1>19, <1>20
<1> QED
  BY <1>15, <1>16, <1>17, <1>21 DEF SyncIInv

LEMMA SyncInserts ==
    ASSUME SyncIInv, NEW h \in Handlers, InsertTool(h)
    PROVE  SyncIInv'
<1> DEFINE x == sync[h]
<1>1. SyncTypes /\ SyncOK(x, catalog, server.present)
  BY DEF SyncIInv
<1>2. UNCHANGED <<server, upstream, credentials, reviewed, spent>>
  BY DEF InsertTool
<1>3. CASE server.present /\ catalog[Item(h).name] = NoTool
  <2> DEFINE r == [status |-> "needs_review", op |-> Item(h).op]
  <2>1. catalog' = [catalog EXCEPT ![Item(h).name] = r] /\ NextItem(h)
    BY <1>3 DEF InsertTool
  <2>2. x.items \in Seq(SyncItem) /\ x.items # <<>> /\ x.pc = "upsert"
    BY <1>1 DEF SyncTypes, SyncRec, InsertTool
  <2>3. Item(h) \in SyncItem
    BY <2>2 DEF Item
  <2>4. r \in ToolRow /\ r # NoTool /\ r.status # "active" /\ r.op = Item(h).op
    BY <2>3 DEF ToolRow, SyncItem, NoTool
  <2> HIDE DEF r
  <2> QED
    BY <1>2, <1>3, <2>1, <2>2, <2>4, SyncWrites
<1>4. CASE ~(server.present /\ catalog[Item(h).name] = NoTool)
  <2>1. EndSync(h, "failed") /\ UNCHANGED catalog
    BY <1>4 DEF InsertTool
  <2> QED
    BY <1>1, <1>2, <2>1, SyncEnds DEF SyncTypes
<1> QED
  BY <1>3, <1>4

LEMMA SyncUpdates ==
    ASSUME SyncIInv, NEW h \in Handlers, UpdateTool(h)
    PROVE  SyncIInv'
<1> DEFINE x == sync[h]
           m == Item(h).name
           old == catalog[m]
           r == IF old = NoTool THEN NoTool ELSE [old EXCEPT !.op = Item(h).op]
<1>1. SyncTypes /\ SyncGone /\ SyncOK(x, catalog, server.present)
  BY DEF SyncIInv
<1>2. UNCHANGED <<server, upstream, credentials, reviewed, spent>> /\ NextItem(h)
  BY DEF UpdateTool
<1>3. x.items \in Seq(SyncItem) /\ x.items # <<>> /\ x.pc = "upsert" /\ m \in x.existing
  BY <1>1 DEF SyncTypes, SyncRec, UpdateTool
<1>4. Item(h) \in SyncItem
  BY <1>3 DEF Item
<1>5. m \in ToolNames /\ old \in ToolRow /\ Item(h).op \in SyncOps
  BY <1>1, <1>4 DEF SyncTypes, SyncItem
<1>6. catalog' = [catalog EXCEPT ![m] = r]
  BY <1>1, <1>5 DEF UpdateTool, SyncTypes
<1>7. x.alone => old # NoTool
  BY <1>1, <1>3 DEF SyncOK, SyncAlone
<1>8. ~server.present => old = NoTool
  BY <1>1, <1>5 DEF SyncGone
<1> HIDE DEF m, old, x
<1>9. /\ r \in ToolRow
      /\ r.status = "active" => old.status = "active"
      /\ r = NoTool <=> old = NoTool
      /\ r # NoTool => r.op = Item(h).op
  BY <1>5 DEF ToolRow, NoTool
<1> HIDE DEF r
<1>10. catalog' = [catalog EXCEPT ![Item(h).name] = r]
  BY <1>6 DEF m
<1> QED
  BY <1>2, <1>3, <1>7, <1>8, <1>9, <1>10, SyncWrites DEF x, old, m

LEMMA SyncFinishes ==
    ASSUME SyncIInv, NEW h \in Handlers, FinishSync(h)
    PROVE  SyncIInv'
<1>1. SyncTypes
  BY DEF SyncIInv
<1>2. /\ server' = IF server.present THEN [server EXCEPT !.health = "healthy"] ELSE server
      /\ EndSync(h, "ok")
      /\ UNCHANGED <<catalog, upstream, credentials, reviewed, spent>>
  BY DEF FinishSync
<1>3. server' \in SyncServer /\ server'.present = server.present
  BY <1>1, <1>2 DEF SyncTypes, SyncServer
<1> QED
  BY <1>1, <1>2, <1>3, SyncEnds DEF SyncTypes

LEMMA SyncSpends ==
    ASSUME SyncTypes, NEW f \in {"changes", "reviews", "faults"},
           spent' = [spent EXCEPT ![f] = @ + 1]
    PROVE  spent' \in [changes : Nat, reviews : Nat, faults : Nat]
  BY DEF SyncTypes

LEMMA SyncFails ==
    ASSUME SyncIInv, NEW h \in Handlers, FetchFails(h) \/ FailSync(h)
    PROVE  SyncIInv'
<1>1. SyncTypes
  BY DEF SyncIInv
<1>2. spent' = [spent EXCEPT !["faults"] = @ + 1] /\ EndSync(h, "failed")
  BY DEF FetchFails, FailSync
<1>3. spent' \in [changes : Nat, reviews : Nat, faults : Nat]
  BY <1>1, <1>2, SyncSpends
<1>4. UNCHANGED <<catalog, upstream, credentials, reviewed>>
  BY DEF FetchFails, FailSync
<1>5. server' \in SyncServer /\ server'.present = server.present
  BY <1>1 DEF FetchFails, FailSync, SyncTypes, SyncServer
<1> QED
  BY <1>2, <1>3, <1>4, <1>5, SyncEnds

LEMMA SyncReviews ==
    ASSUME SyncIInv, NEW n \in ToolNames, NEW s \in {"active", "disabled"}, ReviewTool(n, s)
    PROVE  SyncIInv'
<1>1. SyncTypes
  BY DEF SyncIInv
<1>2. /\ spent' = [spent EXCEPT !["reviews"] = @ + 1]
      /\ catalog[n].status # "none"
      /\ catalog' = [catalog EXCEPT ![n].status = s]
      /\ reviewed' = IF s = "active" THEN reviewed \cup {n} ELSE reviewed
      /\ UNCHANGED <<server, upstream, credentials, sync>>
  BY DEF ReviewTool, Spend
<1>3. spent' \in [changes : Nat, reviews : Nat, faults : Nat]
  BY <1>1, <1>2, SyncSpends
<1> DEFINE old == catalog[n]
           r == [old EXCEPT !.status = s]
<1>4. old \in ToolRow /\ old.status # "none"
  BY <1>1, <1>2 DEF SyncTypes
<1>5. catalog' = [catalog EXCEPT ![n] = r]
  BY <1>1, <1>2 DEF SyncTypes
<1> HIDE DEF old
<1>6. /\ r \in ToolRow /\ r.status = s /\ r.op = old.op
      /\ r # NoTool /\ old # NoTool
  BY <1>4 DEF ToolRow, NoTool
<1> HIDE DEF r
<1>7. /\ catalog' \in [ToolNames -> ToolRow] /\ catalog'[n] = r
      /\ \A m \in ToolNames \ {n} : catalog'[m] = catalog[m]
  BY <1>1, <1>5, <1>6 DEF SyncTypes
<1>8. \A m \in ToolNames : catalog'[m] = NoTool <=> catalog[m] = NoTool
  BY <1>6, <1>7 DEF old
<1>9. \A m \in ToolNames : catalog'[m].op = catalog[m].op
  BY <1>6, <1>7 DEF old
<1>10. SyncTypes'
  BY <1>1, <1>2, <1>3, <1>7 DEF SyncTypes
<1>11. SyncGone' /\ SyncExclusive(sync')
  BY <1>2, <1>8 DEF SyncIInv, SyncGone
<1>12. ActiveWasReviewed'
  BY <1>2, <1>6, <1>7 DEF SyncIInv, ActiveWasReviewed
<1>13. ASSUME NEW h \in Handlers
       PROVE  SyncOK(sync[h], catalog', server.present)
  <2> DEFINE x == sync[h]
  <2>1. SyncOK(x, catalog, server.present) /\ x \in SyncRec
    BY <1>1 DEF SyncIInv, SyncTypes
  <2> HIDE DEF x
  <2>2. ASSUME x.pc = "upsert", SyncAlone(x, catalog)
        PROVE  SyncAlone(x, catalog')
    <3>1. SyncRest(x)
      BY <2>1, <2>2 DEF SyncOK
    <3>2. \A k \in 1..SyncDone(x) : x.found[k].name \in ToolNames
      <4> SUFFICES ASSUME NEW k \in 1..SyncDone(x) PROVE x.found[k].name \in ToolNames
        OBVIOUS
      <4>1. x.found \in Seq(SyncItem) /\ Len(x.items) \in Nat
        BY <2>1 DEF SyncRec
      <4>2. k \in 1..Len(x.found)
        BY <3>1, <4>1 DEF SyncRest, SyncDone
      <4>3. x.found[k] \in SyncItem
        BY <4>1, <4>2
      <4> QED
        BY <4>3 DEF SyncItem
    <3>3. x.existing \subseteq ToolNames
      BY <2>1 DEF SyncRec
    <3> QED
      BY <1>8, <1>9, <2>2, <3>2, <3>3 DEF SyncAlone
  <2>3. SyncOK(x, catalog', server.present)
    BY <2>1, <2>2 DEF SyncOK
  <2> QED
    BY <2>3 DEF x
<1> QED
  BY <1>2, <1>10, <1>11, <1>12, <1>13 DEF SyncIInv

\* What deletions have in common: they cross every sync that runs.
LEMMA SyncCrossed ==
    ASSUME SyncIInv, SyncTypes', SyncGone', ActiveWasReviewed', sync' = Overlap(sync)
    PROVE  SyncIInv'
<1>1. \A g \in Handlers : /\ SyncRuns(sync'[g]) => ~sync'[g].alone
                          /\ \A C, P : SyncOK(sync'[g], C, P)
  BY SyncOverlaps
<1> QED
  BY <1>1 DEF SyncIInv, SyncExclusive

LEMMA SyncDeletesTool ==
    ASSUME SyncIInv, NEW n \in ToolNames, DeleteTool(n)
    PROVE  SyncIInv'
<1>1. SyncTypes
  BY DEF SyncIInv
<1>2. /\ spent' = [spent EXCEPT !["reviews"] = @ + 1]
      /\ catalog' = [catalog EXCEPT ![n] = NoTool]
      /\ reviewed' = reviewed \ {n}
      /\ sync' = Overlap(sync)
      /\ UNCHANGED <<server, upstream, credentials>>
  BY DEF DeleteTool, Spend
<1>3. spent' \in [changes : Nat, reviews : Nat, faults : Nat]
  BY <1>1, <1>2, SyncSpends
<1>4. sync' \in [Handlers -> SyncRec]
  BY <1>2, SyncOverlaps
<1>5. SyncTypes'
  BY <1>1, <1>2, <1>3, <1>4 DEF SyncTypes, ToolRow
<1>6. SyncGone'
  BY <1>1, <1>2 DEF SyncIInv, SyncTypes, SyncGone
<1>7. ActiveWasReviewed'
  BY <1>1, <1>2 DEF SyncIInv, SyncTypes, ActiveWasReviewed, NoTool
<1> QED
  BY <1>2, <1>5, <1>6, <1>7, SyncCrossed

LEMMA SyncDeletesServer ==
    ASSUME SyncIInv, DeleteServer
    PROVE  SyncIInv'
<1>1. SyncTypes
  BY DEF SyncIInv
<1>2. /\ spent' = [spent EXCEPT !["changes"] = @ + 1]
      /\ server' = [server EXCEPT !.present = FALSE]
      /\ catalog' = [n \in ToolNames |-> NoTool]
      /\ credentials' = {} /\ reviewed' = {}
      /\ sync' = Overlap(sync)
      /\ UNCHANGED upstream
  BY DEF DeleteServer, Spend
<1>3. spent' \in [changes : Nat, reviews : Nat, faults : Nat]
  BY <1>1, <1>2, SyncSpends
<1>4. sync' \in [Handlers -> SyncRec]
  BY <1>2, SyncOverlaps
<1>5. server' \in SyncServer
  BY <1>1, <1>2 DEF SyncTypes, SyncServer
<1>6. SyncTypes'
  BY <1>1, <1>2, <1>3, <1>4, <1>5 DEF SyncTypes, ToolRow
<1>7. SyncGone' /\ ActiveWasReviewed'
  BY <1>2 DEF SyncGone, ActiveWasReviewed, NoTool
<1> QED
  BY <1>2, <1>6, <1>7, SyncCrossed

LEMMA SyncChanges ==
    ASSUME SyncIInv,
           \/ \E d \in Documents : ChangeUpstream(d)
           \/ \E k \in {"personal", "shared"} : DropCredential(k)
    PROVE  SyncIInv'
<1>1. SyncTypes
  BY DEF SyncIInv
<1>2. /\ spent' = [spent EXCEPT !["changes"] = @ + 1]
      /\ UNCHANGED <<catalog, server, sync, reviewed>>
      /\ upstream' \in Documents /\ credentials' \subseteq credentials
  BY <1>1 DEF ChangeUpstream, DropCredential, Spend, SyncTypes
<1>3. spent' \in [changes : Nat, reviews : Nat, faults : Nat]
  BY <1>1, <1>2, SyncSpends
<1>4. SyncTypes'
  BY <1>1, <1>2, <1>3 DEF SyncTypes
<1> QED
  BY <1>2, <1>4 DEF SyncIInv, SyncGone, ActiveWasReviewed, SyncExclusive

LEMMA SyncStays == SyncIInv /\ [SyncNext]_syncVars => SyncIInv'
<1> SUFFICES ASSUME SyncIInv, [SyncNext]_syncVars PROVE SyncIInv'
  OBVIOUS
<1>1. CASE UNCHANGED syncVars
  BY <1>1 DEF syncVars, SyncIInv, SyncTypes, SyncGone, ActiveWasReviewed, SyncExclusive
<1>2. ASSUME NEW h \in Handlers,
             \/ StartSync(h) \/ LoadSyncSecret(h) \/ FetchTools(h) \/ FetchFails(h)
             \/ ReadCatalog(h) \/ InsertTool(h) \/ UpdateTool(h) \/ FinishSync(h)
             \/ FailSync(h)
      PROVE  SyncIInv'
  BY <1>2, SyncStarts, SyncLoads, SyncFetches, SyncReads, SyncInserts, SyncUpdates,
     SyncFinishes, SyncFails
<1>3. ASSUME NEW n \in ToolNames,
             \/ DeleteTool(n)
             \/ \E s \in {"active", "disabled"} : ReviewTool(n, s)
      PROVE  SyncIInv'
  BY <1>3, SyncReviews, SyncDeletesTool
<1> QED
  BY <1>1, <1>2, <1>3, SyncDeletesServer, SyncChanges DEF SyncNext

LEMMA SyncAloneSucceedsStep ==
    ASSUME SyncIInv, [SyncNext]_syncVars, NEW h \in Handlers,
           sync[h].pc = "upsert", sync'[h].pc = "failed", spent'.faults = spent.faults
    PROVE  ~sync[h].alone
<1>1. SyncTypes /\ SyncOK(sync[h], catalog, server.present)
  BY DEF SyncIInv
<1>2. sync \in [Handlers -> SyncRec] /\ spent.faults \in Nat
  BY <1>1 DEF SyncTypes
<1>3. \A g \in Handlers : Overlap(sync)[g].pc = sync[g].pc
  BY SyncOverlaps
<1>4. ~UNCHANGED sync
  OBVIOUS
<1>5. SyncNext
  BY <1>4 DEF syncVars
<1>6. sync' # Overlap(sync)
  BY <1>3
<1>7. PICK g \in Handlers :
        \/ StartSync(g) \/ LoadSyncSecret(g) \/ FetchTools(g) \/ FetchFails(g)
        \/ ReadCatalog(g) \/ InsertTool(g) \/ UpdateTool(g) \/ FinishSync(g)
        \/ FailSync(g)
  BY <1>4, <1>5, <1>6 DEF SyncNext, DeleteTool, ReviewTool, DeleteServer, ChangeUpstream,
     DropCredential
<1>8. ~FetchFails(g) /\ ~FailSync(g)
  BY <1>1, <1>2 DEF FetchFails, FailSync, SyncTypes
<1>9. ~StartSync(g)
  <2> SUFFICES ASSUME StartSync(g) PROVE FALSE
    OBVIOUS
  <2>1. g # h
    BY DEF StartSync, Running
  <2>2. Overlap(sync) \in [Handlers -> SyncRec]
    BY SyncOverlaps
  <2>3. sync'[h] = sync[h] \/ sync'[h] = Overlap(sync)[h]
    BY <2>1, <2>2, <1>2 DEF StartSync
  <2> QED
    BY <2>3, <1>3
<1>10. g = h /\ InsertTool(h)
  <2>1. ASSUME g # h
        PROVE  sync'[h] = sync[h]
    BY <1>2, <1>7, <1>8, <1>9, <2>1 DEF LoadSyncSecret, FetchTools, ReadCatalog, InsertTool,
       UpdateTool, FinishSync, EndSync, NextItem
  <2>2. g = h
    BY <2>1
  <2>3. ~LoadSyncSecret(h) /\ ~FetchTools(h) /\ ~ReadCatalog(h)
    BY DEF LoadSyncSecret, FetchTools, ReadCatalog
  <2>4. ~FinishSync(h)
    <3> SUFFICES ASSUME FinishSync(h) PROVE FALSE
      OBVIOUS
    <3>1. sync'[h].pc = "ok"
      BY <1>2, SyncIdle DEF FinishSync, EndSync
    <3> QED
      BY <3>1
  <2>5. ~UpdateTool(h)
    <3> SUFFICES ASSUME UpdateTool(h) PROVE FALSE
      OBVIOUS
    <3>1. sync'[h].pc = sync[h].pc
      BY <1>2 DEF UpdateTool, NextItem, SyncRec
    <3> QED
      BY <3>1
  <2> QED
    BY <2>2, <2>3, <2>4, <2>5, <1>7, <1>8, <1>9
<1>11. ~(server.present /\ catalog[Item(h).name] = NoTool)
  <2> SUFFICES ASSUME NextItem(h) PROVE FALSE
    BY <1>10 DEF InsertTool
  <2>1. sync'[h].pc = sync[h].pc
    BY <1>2 DEF NextItem, SyncRec
  <2> QED
    BY <2>1
<1> SUFFICES ASSUME sync[h].alone PROVE FALSE
  OBVIOUS
<1> DEFINE x == sync[h]
<1>12. /\ x \in SyncRec /\ x.items # <<>>
       /\ Item(h).name \notin x.existing
  BY <1>2, <1>10 DEF InsertTool
<1>13. server.present /\ SyncRest(x) /\ SyncAlone(x, catalog)
  BY <1>1 DEF SyncOK, SyncRuns
<1>14. Item(h) = Head(x.items)
  BY DEF Item
<1> HIDE DEF x
<1>15. /\ x.items \in Seq(SyncItem) /\ x.found \in Seq(SyncItem)
       /\ Len(x.items) \in Nat /\ Len(x.items) > 0 /\ Len(x.found) \in Nat
  BY <1>12 DEF SyncRec
<1>16. Item(h) = x.items[1] /\ Item(h) \in SyncItem
  BY <1>12, <1>14, <1>15
<1>17. Item(h).name \in ToolNames
  BY <1>16 DEF SyncItem
<1>18. PICK k \in 1..SyncDone(x) : x.found[k].name = Item(h).name
  BY <1>11, <1>12, <1>13, <1>17 DEF SyncAlone
<1>19. 1 \in 1..Len(x.items) /\ Item(h) = x.found[SyncDone(x) + 1]
  BY <1>13, <1>15, <1>16 DEF SyncRest
<1>20. /\ SyncDone(x) \in Nat /\ k \in 1..Len(x.found)
       /\ SyncDone(x) + 1 \in 1..Len(x.found) /\ k # SyncDone(x) + 1
  <2>1. SyncDone(x) \in Nat
    BY <1>13 DEF SyncRest
  <2>2. SyncDone(x) + Len(x.items) = Len(x.found)
    BY <1>15 DEF SyncDone
  <2> HIDE DEF x
  <2> QED
    BY <2>1, <2>2, <1>15
<1> QED
  BY <1>13, <1>18, <1>19, <1>20 DEF SyncRest, SyncDistinct

LEMMA SyncAloneCompleteStep ==
    ASSUME SyncIInv, NEW h \in Handlers, [SyncNext]_syncVars,
           sync[h].pc = "upsert", sync'[h].pc = "ok", sync[h].alone
    PROVE  \A k \in 1..Len(sync[h].found) :
              catalog[sync[h].found[k].name].op = sync[h].found[k].op
<1>1. SyncTypes /\ SyncOK(sync[h], catalog, server.present)
  BY DEF SyncIInv
<1>2. sync \in [Handlers -> SyncRec]
  BY <1>1 DEF SyncTypes
<1>3. \A g \in Handlers : Overlap(sync)[g].pc = sync[g].pc
  BY SyncOverlaps
<1>4. ~UNCHANGED sync
  OBVIOUS
<1>5. SyncNext
  BY <1>4 DEF syncVars
<1>6. sync' # Overlap(sync)
  BY <1>3
<1>7. PICK g \in Handlers :
        \/ StartSync(g) \/ LoadSyncSecret(g) \/ FetchTools(g) \/ FetchFails(g)
        \/ ReadCatalog(g) \/ InsertTool(g) \/ UpdateTool(g) \/ FinishSync(g)
        \/ FailSync(g)
  BY <1>4, <1>5, <1>6 DEF SyncNext, DeleteTool, ReviewTool, DeleteServer, ChangeUpstream,
     DropCredential
<1>8. g = h
  <2> SUFFICES ASSUME g # h PROVE FALSE
    OBVIOUS
  <2>1. Overlap(sync) \in [Handlers -> SyncRec]
    BY SyncOverlaps
  <2>2. sync'[h] = sync[h] \/ sync'[h] = Overlap(sync)[h]
    BY <1>2, <1>7, <2>1 DEF StartSync, LoadSyncSecret, FetchTools, FetchFails, ReadCatalog,
       InsertTool, UpdateTool, FinishSync, FailSync, EndSync, NextItem
  <2> QED
    BY <2>2, <1>3
<1>9. ~EndSync(h, "failed")
  <2> SUFFICES ASSUME EndSync(h, "failed") PROVE FALSE
    OBVIOUS
  <2>1. sync'[h].pc = "failed"
    BY <1>2, SyncIdle DEF EndSync
  <2> QED
    BY <2>1
<1>10. ~NextItem(h)
  <2> SUFFICES ASSUME NextItem(h) PROVE FALSE
    OBVIOUS
  <2>1. sync'[h].pc = sync[h].pc
    BY <1>2 DEF NextItem, SyncRec
  <2> QED
    BY <2>1
<1>11. FinishSync(h)
  BY <1>7, <1>8, <1>9, <1>10 DEF StartSync, Running, LoadSyncSecret, FetchTools, FetchFails,
     ReadCatalog, InsertTool, UpdateTool, FailSync
<1>12. sync[h].items = <<>> /\ SyncAlone(sync[h], catalog)
  BY <1>1, <1>11 DEF FinishSync, SyncOK
<1>13. Len(sync[h].found) \in Nat
  BY <1>2 DEF SyncRec
<1>14. SyncDone(sync[h]) = Len(sync[h].found)
  BY <1>12, <1>13 DEF SyncDone
<1> QED
  BY <1>12, <1>14 DEF SyncAlone

\* No tool is active that was not reviewed; a sync of the catalog that no other
\* sync, deletion or failure crosses succeeds and is complete, whatever ids the
\* document gives its operations (syncToolsFromUpstream, upsertImportedTools).
THEOREM SyncCorrect == SyncSpec => SyncRules
<1>1. SyncIInv /\ [SyncNext]_syncVars =>
        [\A h \in Handlers :
            sync[h].pc = "upsert" /\ sync'[h].pc = "failed" /\ spent'.faults = spent.faults
               => ~sync[h].alone]_syncVars
  BY SyncAloneSucceedsStep
<1>2. SyncIInv /\ [SyncNext]_syncVars =>
        [\A h \in Handlers :
            sync[h].pc = "upsert" /\ sync'[h].pc = "ok" /\ sync[h].alone =>
               \A k \in 1..Len(sync[h].found) :
                  catalog[sync[h].found[k].name].op = sync[h].found[k].op]_syncVars
  BY SyncAloneCompleteStep
<1>3. SyncIInv => SyncTypeOK /\ ActiveWasReviewed
  BY SyncInvTypes DEF SyncIInv
<1> QED
  BY <1>1, <1>2, <1>3, SyncStart, SyncStays, PTL
     DEF SyncSpec, SyncRules, SyncAloneSucceeds, SyncAloneComplete

=============================================================================
