----------------------------- MODULE RefreshPool -----------------------------
(***************************************************************************)
(* The database connections a credential refresh needs.                    *)
(*                                                                         *)
(* Each process has one pg Pool (packages/db/src/client.ts): a fixed number *)
(* of connections, and no limit on how long a request waits for one.       *)
(* lockSecretRow runs the refresh inside db.transaction, which holds a     *)
(* connection from BEGIN to COMMIT; within it the linked OAuth app is read *)
(* through db again, which takes a second connection from the same pool.   *)
(* Every other query of the process takes one connection and returns it.   *)
(*                                                                         *)
(* The refresh is the one OAuthRefresh describes; here only what it holds  *)
(* and waits for is kept.                                                  *)
(***************************************************************************)
EXTENDS Integers, FiniteSets

CONSTANTS
    Procs,          \* processes, each with its own pool
    Refreshes,      \* refreshes that can be in flight
    Queries,        \* ordinary requests that run one query at a time
    ProcOf,         \* the process of each
    Secrets,        \* secrets rows
    SecretOf,       \* the row each refresh locks
    NoRefresh,      \* the row is not locked
    PoolSize        \* connections per pool (pg's default is 10)

Requests == Refreshes \cup Queries

ASSUME PoolAssumption ==
    /\ Refreshes \cap Queries = {}
    /\ ProcOf \in [Requests -> Procs]
    /\ SecretOf \in [Refreshes -> Secrets]
    /\ NoRefresh \notin Refreshes
    /\ PoolSize \in Nat \ {0}
    /\ IsFiniteSet(Requests)

\* A process refreshes a row at most once at a time (inflightRefreshes).
ASSUME SingleFlightAssumption ==
    \A r, s \in Refreshes :
        ProcOf[r] = ProcOf[s] /\ SecretOf[r] = SecretOf[s] => r = s

VARIABLES
    pc,         \* where each request is
    owner       \* the refresh whose transaction holds each row's lock

vars == <<pc, owner>>

RefreshPC == {"idle", "waiting", "locking", "overriding", "querying", "token"}
QueryPC   == {"idle", "waiting", "querying"}

Of(p) == {r \in Requests : ProcOf[r] = p}

\* Requests of p with a transaction open, and with a query running beside it
\* or on its own: each is one connection checked out.
InTransaction(p) ==
    {r \in Of(p) \cap Refreshes :
        pc[r] \in {"locking", "overriding", "querying", "token"}}

Querying(p) == {r \in Of(p) : pc[r] = "querying"}

\* Mutant: one connection of the pool is never given back.
FreeAfterLeak(p) ==
    PoolSize - 1 - Cardinality(InTransaction(p)) - Cardinality(Querying(p))

Free(p) == PoolSize - Cardinality(InTransaction(p)) - Cardinality(Querying(p))

Init ==
    /\ pc = [r \in Requests |-> "idle"]
    /\ owner = [s \in Secrets |-> NoRefresh]

Move(r, from, to) ==
    /\ pc[r] = from
    /\ pc' = [pc EXCEPT ![r] = to]

\* pool.connect() is called: the request waits for a connection.
Arrive(r) ==
    /\ Move(r, "idle", "waiting")
    /\ UNCHANGED owner

\* BEGIN on a connection of the pool.
BeginTransaction(r) ==
    /\ Free(ProcOf[r]) > 0
    /\ Move(r, "waiting", "locking")
    /\ UNCHANGED owner

\* SELECT ... FOR UPDATE; a token somebody else stored meanwhile is reused
\* and the transaction ends.
LockRow(r) ==
    /\ owner[SecretOf[r]] = NoRefresh
    /\ \/ /\ Move(r, "locking", "overriding")
          /\ owner' = [owner EXCEPT ![SecretOf[r]] = r]
       \/ /\ Move(r, "locking", "idle")
          /\ UNCHANGED owner

\* clientOverride(): the query on the linked app asks for a second connection.
QueryOverride(r) ==
    /\ Free(ProcOf[r]) > 0
    /\ Move(r, "overriding", "querying")
    /\ UNCHANGED owner

ReturnSecond(r) ==
    /\ Move(r, "querying", "token")
    /\ UNCHANGED owner

\* Mutant: a failed token request is retried inside the transaction.
RetryInTransaction(r) ==
    /\ Move(r, "token", "overriding")
    /\ UNCHANGED owner

\* The token request ends (15 s at most), the pair is saved, COMMIT.
EndTransaction(r) ==
    /\ Move(r, "token", "idle")
    /\ owner' = [owner EXCEPT ![SecretOf[r]] = NoRefresh]

RunQuery(q) ==
    /\ Free(ProcOf[q]) > 0
    /\ Move(q, "waiting", "querying")
    /\ UNCHANGED owner

EndQuery(q) ==
    /\ Move(q, "querying", "idle")
    /\ UNCHANGED owner

Refresh(r) == BeginTransaction(r) \/ LockRow(r) \/ QueryOverride(r)
                 \/ ReturnSecond(r) \/ EndTransaction(r)

Query(q) == RunQuery(q) \/ EndQuery(q)

Next ==
    \/ \E r \in Requests : Arrive(r)
    \/ \E r \in Refreshes : Refresh(r)
    \/ \E q \in Queries : Query(q)

Spec == Init /\ [][Next]_vars

\* The pool serves its queue in order, so does a row lock, and no query or
\* token request lasts forever.
PoolFairness ==
    /\ \A r \in Refreshes :
          /\ SF_vars(BeginTransaction(r)) /\ SF_vars(LockRow(r))
          /\ SF_vars(QueryOverride(r))
          /\ WF_vars(ReturnSecond(r)) /\ WF_vars(EndTransaction(r))
    /\ \A q \in Queries : SF_vars(RunQuery(q)) /\ WF_vars(EndQuery(q))

FairSpec == Spec /\ PoolFairness

-----------------------------------------------------------------------------
\* Types, and: no pool hands out more connections than it has, and a row is
\* locked exactly by the refresh that is past the lock.
TypeOK ==
    /\ pc \in [Requests -> RefreshPC]
    /\ \A q \in Queries : pc[q] \in QueryPC
    /\ owner \in [Secrets -> Refreshes \cup {NoRefresh}]
    /\ \A p \in Procs : Free(p) >= 0
    /\ \A r \in Refreshes :
          pc[r] \in {"overriding", "querying", "token"}
              <=> owner[SecretOf[r]] = r

\* A pool is never empty with every connection held by a refresh that waits
\* for another connection of the same pool.
SomeConnectionReturns ==
    \A p \in Procs :
        Free(p) = 0 => \E r \in Of(p) : pc[r] \in {"querying", "token"}

\* harness-reauth.mdx: with a refresh token "the gateway refreshes silently
\* and persists the new secret": a refresh that asked for a connection ends.
RefreshCompletes ==
    \A r \in Refreshes : pc[r] = "waiting" ~> pc[r] = "idle"

\* Every request that asked the pool for a connection ends, refresh or not.
RequestCompletes ==
    \A r \in Requests : pc[r] = "waiting" ~> pc[r] = "idle"

-----------------------------------------------------------------------------
\* Of connections and row locks: none is given twice, and those a refresh holds
\* while it waits for a second one are never all there are.
PoolRules ==
    /\ TypeOK
    /\ SomeConnectionReturns
=============================================================================
