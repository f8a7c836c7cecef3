---------------------------- MODULE OAuthRefresh ----------------------------
(***************************************************************************)
(* Refresh of one stored upstream OAuth credential.                        *)
(*                                                                         *)
(* Gateway replicas and the API resolve a bearer for the same secrets row  *)
(* at the same time (resolveStoredOAuthAccessToken).  A refresh is         *)
(* single-flight per process, serialised between processes by              *)
(* SELECT ... FOR UPDATE (lockSecretRow), and spends a refresh token the   *)
(* provider may rotate.  Meanwhile a user may reconnect or delete the      *)
(* credential, tokens age, replies get lost, database connections drop     *)
(* and processes crash.                                                    *)
(*                                                                         *)
(* Tokens are numbered in the order the provider mints them; 0 is "no      *)
(* refresh token".  A grant is one authorisation by the user: every pair   *)
(* refreshed from it carries its number.                                   *)
(***************************************************************************)
EXTENDS Integers, FiniteSets

CONSTANTS
    Procs,          \* operating-system processes: gateway replicas, the API
    Callers,        \* requests that resolve a bearer
    ProcOf,         \* the process each caller runs in
    NoCaller,       \* nobody holds the row lock
    NoRow,          \* there is no stored credential
    InitKinds,      \* kinds of secret the row may start as
    InitLives,      \* lifetimes its access token may start with
    ConnectKinds,   \* kinds of secret a Connect may store
    MintLives,      \* lifetimes the provider gives a new access token
    Rotations,      \* TRUE: the provider rotates refresh tokens, FALSE: keeps
    MaxMint,        \* bound: tokens the provider ever mints
    MaxGrants,      \* bound: authorisations by the user
    MaxRows,        \* bound: times a secrets row is inserted
    MaxFaults       \* bound: crashes, lost connections, failed writes, timeouts

ASSUME ConstantsAssumption ==
    /\ ProcOf \in [Callers -> Procs]
    /\ NoCaller \notin Callers
    /\ MaxMint \in Nat \ {0}
    /\ MaxGrants \in Nat \ {0}
    /\ MaxRows \in Nat \ {0}
    /\ MaxFaults \in Nat
    /\ Rotations \subseteq BOOLEAN
    /\ InitLives \subseteq {"fresh", "near", "expired"}
    /\ MintLives \subseteq {"fresh", "near"}
    /\ InitKinds \subseteq {"refreshable", "client_credentials",
                             "access_token", "bare"}
    /\ ConnectKinds \subseteq {"refreshable", "access_token", "bare"}

\* "bare" is an access token stored as a plain string: its expiry is unknown,
\* so it is used, forced or not, until somebody replaces it.
Kinds == {"refreshable", "client_credentials", "access_token", "bare"}

\* isFresh at the two skews that matter: outside the 120 s window, inside it
\* but not yet expired, expired.
Life == {"fresh", "near", "expired"}

Tokens == 1..MaxMint

\* A decrypted secret together with the id of the row it is stored in.
Row == [id : 1..MaxRows, kind : Kinds, at : Tokens, rt : 0..MaxMint,
        grant : 1..MaxGrants]

ASSUME NoRowAssumption == NoRow \notin Row

\* A refresh token as the provider knows it: which grant, which number.
RefreshToken == (1..MaxGrants) \X Tokens

VARIABLES
    row,        \* the stored secret, or NoRow
    lock,       \* the caller whose transaction holds the row lock
    rows,       \* row ids handed out so far
    pc,         \* where each caller is
    snap,       \* the secret a caller loaded, possibly stale by now
    force,      \* the caller asked for a forced refresh
    leader,     \* whose in-flight refresh a joined caller awaits
    cur,        \* the secret a lock holder read under the lock
    got,        \* the secret a lock holder is about to save
    result,     \* the outcome of the call
    live,       \* refresh tokens the provider accepts
    minted,     \* tokens minted so far
    grants,     \* grants handed out so far
    life,       \* lifetime state of every access token
    stray,      \* refresh tokens in requests whose sender is gone
    connect,    \* the Connect handler
    retired,    \* history: refresh tokens that have left the store
    faults      \* faults injected so far

storeVars    == <<row, lock, rows, retired>>
callerVars   == <<pc, snap, force, leader, cur, got, result>>
providerVars == <<live, minted, grants, stray>>
vars == <<storeVars, callerVars, providerVars, life, connect, faults>>

(***************************************************************************)
(* Outcomes: what bearerFromPlaintext does with the classified result.     *)
(***************************************************************************)
Ok(at)    == [kind |-> "ok", at |-> at]
Reauth    == [kind |-> "reauth", at |-> 0]
Transient == [kind |-> "transient", at |-> 0]
Config    == [kind |-> "config", at |-> 0]
Missing   == [kind |-> "missing", at |-> 0]
None      == [kind |-> "none", at |-> 0]

Outcome == [kind : {"ok", "reauth", "transient", "config", "missing", "none"},
            at : 0..MaxMint]

PC == {"idle", "loaded", "waiting", "sent", "minted", "finishing", "joined",
       "done"}

NoConnect == [pc |-> "idle", existing |-> 0, pair |-> NoRow]

HasRefreshPath(r) == r.kind \in {"refreshable", "client_credentials"}

\* The rotated-away token of a row; a row without one retires nothing.
RefreshTokens(r) == IF r = NoRow \/ r.rt = 0 THEN {} ELSE {<<r.grant, r.rt>>}

\* inflightRefreshes: the caller that runs the refresh of row id in process p.
InFlight(p, id) ==
    {d \in Callers : /\ ProcOf[d] = p
                     /\ pc[d] \in {"waiting", "sent", "minted", "finishing"}
                     /\ snap[d].id = id}

Requesting(c) == pc[c] \in {"sent", "minted"}

Init ==
    /\ \E k \in InitKinds, l \in InitLives :
          /\ row = [id |-> 1, kind |-> k, at |-> 1, grant |-> 1,
                    rt |-> IF k = "refreshable" THEN 1 ELSE 0]
          /\ life = [t \in Tokens |-> IF t = 1 THEN l ELSE "fresh"]
    /\ lock = NoCaller
    /\ rows = 1
    /\ pc = [c \in Callers |-> "idle"]
    /\ snap = [c \in Callers |-> NoRow]
    /\ force = [c \in Callers |-> FALSE]
    /\ leader = [c \in Callers |-> NoCaller]
    /\ cur = [c \in Callers |-> NoRow]
    /\ got = [c \in Callers |-> NoRow]
    /\ result = [c \in Callers |-> None]
    /\ live = RefreshTokens(row)
    /\ minted = 1
    /\ grants = 1
    /\ stray = {}
    /\ connect = NoConnect
    /\ retired = {}
    /\ faults = 0

-----------------------------------------------------------------------------
(***************************************************************************)
(* The caller, up to its first await.                                      *)
(***************************************************************************)

\* A request starts; the caller's previous one, if any, has been answered.
Ready(c) == pc[c] \in {"idle", "done"}

\* The secrets row is read and decrypted outside any lock.
LoadSecret(c, forced) ==
    /\ Ready(c)
    /\ row # NoRow
    /\ pc' = [pc EXCEPT ![c] = "loaded"]
    /\ snap' = [snap EXCEPT ![c] = row]
    /\ force' = [force EXCEPT ![c] = forced]
    /\ result' = [result EXCEPT ![c] = None]
    /\ UNCHANGED <<storeVars, leader, cur, got, providerVars, life, connect,
                   faults>>

LoadMissing(c) ==
    /\ Ready(c)
    /\ row = NoRow
    /\ pc' = [pc EXCEPT ![c] = "done"]
    /\ result' = [result EXCEPT ![c] = Missing]
    /\ UNCHANGED <<storeVars, snap, force, leader, cur, got, providerVars,
                   life, connect, faults>>

Answer(c, out) ==
    /\ pc' = [pc EXCEPT ![c] = "done"]
    /\ result' = [result EXCEPT ![c] = out]
    /\ snap' = [snap EXCEPT ![c] = NoRow]
    /\ force' = [force EXCEPT ![c] = FALSE]
    /\ UNCHANGED <<storeVars, leader, cur, got, providerVars, life, connect,
                   faults>>

IsUsable(c) ==
    \/ snap[c].kind = "bare"
    \/ ~force[c] /\ life[snap[c].at] = "fresh"

ReturnFresh(c) ==
    /\ pc[c] = "loaded"
    /\ IsUsable(c)
    /\ Answer(c, Ok(snap[c].at))

\* Nothing to refresh with: the access token serves until it expires.
PlainResolve(c) ==
    /\ pc[c] = "loaded"
    /\ ~IsUsable(c)
    /\ ~HasRefreshPath(snap[c])
    /\ Answer(c, IF ~force[c] /\ life[snap[c].at] # "expired"
                 THEN Ok(snap[c].at) ELSE Reauth)

\* Whatever the refresh in flight was asked to do, its promise is awaited.
JoinInflight(c) ==
    /\ pc[c] = "loaded"
    /\ ~IsUsable(c)
    /\ HasRefreshPath(snap[c])
    /\ \E d \in InFlight(ProcOf[c], snap[c].id) :
          leader' = [leader EXCEPT ![c] = d]
    /\ pc' = [pc EXCEPT ![c] = "joined"]
    /\ UNCHANGED <<storeVars, snap, force, cur, got, result, providerVars,
                   life, connect, faults>>

StartRefresh(c) ==
    /\ pc[c] = "loaded"
    /\ ~IsUsable(c)
    /\ HasRefreshPath(snap[c])
    /\ InFlight(ProcOf[c], snap[c].id) = {}
    /\ pc' = [pc EXCEPT ![c] = "waiting"]
    /\ UNCHANGED <<storeVars, snap, force, leader, cur, got, result,
                   providerVars, life, connect, faults>>

-----------------------------------------------------------------------------
(***************************************************************************)
(* Under the row lock.                                                     *)
(***************************************************************************)

\* The transaction ends, with it the lock; callers are answered by Settle.
EndFlight(c, out) ==
    /\ pc' = [pc EXCEPT ![c] = "finishing"]
    /\ result' = [result EXCEPT ![c] = out]
    /\ cur' = [cur EXCEPT ![c] = NoRow]
    /\ got' = [got EXCEPT ![c] = NoRow]
    /\ lock' = IF lock = c THEN NoCaller ELSE lock
    /\ UNCHANGED <<rows, snap, force, leader, grants, life, connect>>

\* COMMIT on a lost connection throws: the lock wrapper reports transient.
Committed(c, out) == IF lock = c THEN out ELSE Transient

\* Mutant: SELECT without FOR UPDATE.
CanReadUnlocked(c) == pc[c] = "waiting"

CanLock(c) == pc[c] = "waiting" /\ lock = NoCaller

RowThere(c) == row # NoRow /\ row.id = snap[c].id

LockGone(c) ==
    /\ CanLock(c)
    /\ ~RowThere(c)
    /\ EndFlight(c, Transient)
    /\ UNCHANGED <<row, retired, live, minted, stray, faults>>

\* Somebody refreshed, or reconnected, while this caller waited.
StoredIsUsable(c) ==
    \/ row.kind = "bare"
    \/ life[row.at] = "fresh" /\ (row.at # snap[c].at \/ ~force[c])

LockReuse(c) ==
    /\ CanLock(c)
    /\ RowThere(c)
    /\ StoredIsUsable(c)
    /\ EndFlight(c, Ok(row.at))
    /\ UNCHANGED <<row, retired, live, minted, stray, faults>>

\* The stored secret no longer has a refresh path (reconnected without one).
LockNoPath(c) ==
    /\ CanLock(c)
    /\ RowThere(c)
    /\ ~StoredIsUsable(c)
    /\ ~HasRefreshPath(row)
    /\ EndFlight(c, Reauth)
    /\ UNCHANGED <<row, retired, live, minted, stray, faults>>

\* Mutant: the caller's own copy is refreshed, not the one read under the lock.
SendStale(c) ==
    /\ CanLock(c)
    /\ RowThere(c)
    /\ ~StoredIsUsable(c)
    /\ HasRefreshPath(row)
    /\ lock' = c
    /\ cur' = [cur EXCEPT ![c] = snap[c]]
    /\ pc' = [pc EXCEPT ![c] = "sent"]
    /\ UNCHANGED <<row, rows, retired, snap, force, leader, got, result,
                   providerVars, life, connect, faults>>

SendRefresh(c) ==
    /\ CanLock(c)
    /\ RowThere(c)
    /\ ~StoredIsUsable(c)
    /\ HasRefreshPath(row)
    /\ lock' = c
    /\ cur' = [cur EXCEPT ![c] = row]
    /\ pc' = [pc EXCEPT ![c] = "sent"]
    /\ UNCHANGED <<row, rows, retired, snap, force, leader, got, result,
                   providerVars, life, connect, faults>>

\* BEGIN or SELECT ... FOR UPDATE fails.
LockFails(c) ==
    /\ pc[c] = "waiting"
    /\ faults < MaxFaults
    /\ faults' = faults + 1
    /\ EndFlight(c, Transient)
    /\ UNCHANGED <<row, retired, live, minted, stray>>

-----------------------------------------------------------------------------
(***************************************************************************)
(* The token endpoint.                                                     *)
(***************************************************************************)

Accepts(r) == r.kind = "client_credentials" \/ RefreshTokens(r) \cap live # {}

\* The secret refreshedPlaintext builds: a rotated refresh token or the old.
Refreshed(r, rotate) ==
    [r EXCEPT !.at = minted + 1,
              !.rt = IF rotate /\ r.rt # 0 THEN minted + 1 ELSE r.rt]

Mint(c) ==
    /\ pc[c] = "sent"
    /\ Accepts(cur[c])
    /\ minted < MaxMint
    /\ minted' = minted + 1
    /\ \E rotate \in Rotations, l \in MintLives :
          /\ got' = [got EXCEPT ![c] = Refreshed(cur[c], rotate)]
          /\ live' = IF rotate
                     THEN (live \ RefreshTokens(cur[c]))
                             \cup RefreshTokens(Refreshed(cur[c], rotate))
                     ELSE live
          /\ life' = [life EXCEPT ![minted + 1] = l]
    /\ pc' = [pc EXCEPT ![c] = "minted"]
    /\ UNCHANGED <<storeVars, snap, force, leader, cur, result, grants, stray,
                   connect, faults>>

\* Providers with reuse detection revoke the whole grant.
GrantTokens(g) == {t \in live : t[1] = g}

InvalidGrant(c) ==
    /\ pc[c] = "sent"
    /\ ~Accepts(cur[c])
    /\ \/ live' = live
       \/ live' = live \ GrantTokens(cur[c].grant)
    /\ EndFlight(c, Committed(c, Reauth))
    /\ UNCHANGED <<row, retired, minted, stray, faults>>

InvalidClient(c) ==
    /\ pc[c] = "sent"
    /\ EndFlight(c, Committed(c, Config))
    /\ UNCHANGED <<row, retired, live, minted, stray, faults>>

\* Mutant: the caller's own token is kept, not the one stored by now.
KeepsOwnToken(c) ==
    Committed(c, IF ~force[c] /\ life[cur[c].at] # "expired"
                 THEN Ok(snap[c].at) ELSE Transient)

\* A proactive refresh that fails transiently keeps a token not yet expired.
AfterTransient(c) ==
    Committed(c, IF ~force[c] /\ life[cur[c].at] # "expired"
                 THEN Ok(cur[c].at) ELSE Transient)

\* Refused connection, 5xx, 429: the request had no effect.
TransientFailure(c) ==
    /\ pc[c] = "sent"
    /\ EndFlight(c, AfterTransient(c))
    /\ UNCHANGED <<row, retired, live, minted, stray, faults>>

\* The 15 s timeout: the provider may still process the request later.
RequestTimesOut(c) ==
    /\ pc[c] = "sent"
    /\ faults < MaxFaults
    /\ faults' = faults + 1
    /\ stray' = stray \cup RefreshTokens(cur[c])
    /\ EndFlight(c, AfterTransient(c))
    /\ UNCHANGED <<row, retired, live, minted>>

\* The provider processed the request but its answer is lost or unreadable.
ReplyLost(c) ==
    /\ pc[c] = "minted"
    /\ EndFlight(c, AfterTransient(c))
    /\ UNCHANGED <<row, retired, live, minted, stray, faults>>

\* Mutants: the pair is not saved, or saved outside the locking transaction.
ReturnUnsaved(c) ==
    /\ pc[c] = "minted"
    /\ lock = c
    /\ EndFlight(c, Ok(got[c].at))
    /\ UNCHANGED <<row, retired, live, minted, stray, faults>>

SaveOutsideTransaction(c) ==
    /\ pc[c] = "minted"
    /\ row' = got[c]
    /\ retired' = retired \cup (RefreshTokens(row) \ RefreshTokens(got[c]))
    /\ EndFlight(c, Ok(got[c].at))
    /\ UNCHANGED <<live, minted, stray, faults>>

\* The rotated pair is written and committed before the lock is released.
SaveRotated(c) ==
    /\ pc[c] = "minted"
    /\ lock = c
    /\ row' = got[c]
    /\ retired' = retired \cup (RefreshTokens(row) \ RefreshTokens(got[c]))
    /\ EndFlight(c, Ok(got[c].at))
    /\ UNCHANGED <<live, minted, stray, faults>>

\* The UPDATE or the COMMIT fails; it always does once the connection is lost.
SaveFails(c) ==
    /\ pc[c] = "minted"
    /\ \/ lock # c /\ faults' = faults
       \/ lock = c /\ faults < MaxFaults /\ faults' = faults + 1
    /\ EndFlight(c, Transient)
    /\ UNCHANGED <<row, retired, live, minted, stray>>

\* The COMMIT takes effect but its acknowledgement is lost.
SaveUnanswered(c) ==
    /\ pc[c] = "minted"
    /\ lock = c
    /\ faults < MaxFaults
    /\ faults' = faults + 1
    /\ row' = got[c]
    /\ retired' = retired \cup (RefreshTokens(row) \ RefreshTokens(got[c]))
    /\ EndFlight(c, Transient)
    /\ UNCHANGED <<live, minted, stray>>

\* Mutant: the callers that joined are not answered.
SettleLeaderOnly(c) ==
    /\ pc[c] = "finishing"
    /\ pc' = [pc EXCEPT ![c] = "done"]
    /\ snap' = [snap EXCEPT ![c] = NoRow]
    /\ force' = [force EXCEPT ![c] = FALSE]
    /\ UNCHANGED <<storeVars, leader, cur, got, result, providerVars, life,
                   connect, faults>>

\* The promise settles: the entry leaves the map, every joined caller answers.
Settle(c) ==
    /\ pc[c] = "finishing"
    /\ LET ended      == {c} \cup {d \in Callers : pc[d] = "joined"
                                                     /\ leader[d] = c}
           For(f, v)  == [d \in Callers |-> IF d \in ended THEN v ELSE f[d]]
       IN  /\ pc' = For(pc, "done")
           /\ result' = For(result, result[c])
           /\ snap' = For(snap, NoRow)
           /\ force' = For(force, FALSE)
           /\ leader' = For(leader, NoCaller)
    /\ UNCHANGED <<storeVars, cur, got, providerVars, life, connect, faults>>

-----------------------------------------------------------------------------
(***************************************************************************)
(* The user: Connect (oauth callback) and delete of a personal credential. *)
(***************************************************************************)

\* The authorisation code is exchanged for a pair of a new grant.
ConnectExchange ==
    /\ connect.pc = "idle"
    /\ minted < MaxMint
    /\ grants < MaxGrants
    /\ minted' = minted + 1
    /\ grants' = grants + 1
    /\ \E k \in ConnectKinds, l \in MintLives :
          LET pair == [id |-> 1, kind |-> k, at |-> minted + 1,
                       grant |-> grants + 1,
                       rt |-> IF k = "refreshable" THEN minted + 1 ELSE 0]
          IN  /\ connect' = [pc |-> "exchanged", existing |-> 0, pair |-> pair]
              /\ live' = live \cup RefreshTokens(pair)
              /\ life' = [life EXCEPT ![minted + 1] = l]
    /\ UNCHANGED <<storeVars, callerVars, stray, faults>>

\* The id of the row to overwrite is read; 0 is "none, insert one".
StoredId == IF row = NoRow THEN 0 ELSE row.id

ConnectLookup ==
    /\ connect.pc = "exchanged"
    /\ connect' = [connect EXCEPT !.pc = "writing", !.existing = StoredId]
    /\ UNCHANGED <<storeVars, callerVars, providerVars, life, faults>>

\* Mutant: the refresh does not block a plain UPDATE (an advisory lock).
UpdateUnserialised ==
    /\ connect.pc = "writing"
    /\ row # NoRow
    /\ connect.existing = StoredId
    /\ row' = [connect.pair EXCEPT !.id = row.id]
    /\ retired' = retired \cup RefreshTokens(row)
    /\ connect' = NoConnect
    /\ UNCHANGED <<lock, rows, callerVars, providerVars, life, faults>>

\* UPDATE ... WHERE id = existing waits for the row lock.
ConnectUpdate ==
    /\ connect.pc = "writing"
    /\ row # NoRow
    /\ connect.existing = StoredId
    /\ lock = NoCaller
    /\ row' = [connect.pair EXCEPT !.id = row.id]
    /\ retired' = retired \cup RefreshTokens(row)
    /\ connect' = NoConnect
    /\ UNCHANGED <<lock, rows, callerVars, providerVars, life, faults>>

ConnectInsert ==
    /\ connect.pc = "writing"
    /\ connect.existing = 0
    /\ row = NoRow
    /\ rows < MaxRows
    /\ rows' = rows + 1
    /\ row' = [connect.pair EXCEPT !.id = rows + 1]
    /\ connect' = NoConnect
    /\ UNCHANGED <<lock, retired, callerVars, providerVars, life, faults>>

\* The row read above was deleted: the UPDATE matches nothing, and the user
\* is still sent back with connected=1.
ConnectLost ==
    /\ connect.pc = "writing"
    /\ connect.existing # 0
    /\ connect.existing # StoredId
    /\ connect' = NoConnect
    /\ UNCHANGED <<storeVars, callerVars, providerVars, life, faults>>

\* Deleting the row waits for the row lock.
Disconnect ==
    /\ row # NoRow
    /\ lock = NoCaller
    /\ rows < MaxRows
    /\ row' = NoRow
    /\ retired' = retired \cup RefreshTokens(row)
    /\ UNCHANGED <<lock, rows, callerVars, providerVars, life, connect, faults>>

-----------------------------------------------------------------------------
(***************************************************************************)
(* Time, the provider's own decisions, and faults.                         *)
(***************************************************************************)

Age(t) ==
    /\ t <= minted
    /\ life[t] # "expired"
    /\ life' = [life EXCEPT ![t] = IF @ = "fresh" THEN "near" ELSE "expired"]
    /\ UNCHANGED <<storeVars, callerVars, providerVars, connect, faults>>

\* The user withdraws consent at the provider.
RevokeGrant(g) ==
    /\ GrantTokens(g) # {}
    /\ live' = live \ GrantTokens(g)
    /\ UNCHANGED <<storeVars, callerVars, minted, grants, stray, life, connect,
                   faults>>

\* A request whose sender gave up or died reaches the provider.
StrayArrives(t) ==
    /\ t \in stray
    /\ stray' = stray \ {t}
    /\ \/ live' = live
       \/ TRUE \in Rotations /\ live' = live \ {t}
       \/ t \notin live /\ live' = live \ GrantTokens(t[1])
    /\ UNCHANGED <<storeVars, callerVars, minted, grants, life, connect, faults>>

\* The database drops the holder's connection: its transaction is rolled back
\* and the row lock released, while the token request goes on.
LoseConnection(c) ==
    /\ lock = c
    /\ c # NoCaller
    /\ faults < MaxFaults
    /\ faults' = faults + 1
    /\ lock' = NoCaller
    /\ UNCHANGED <<row, rows, retired, callerVars, providerVars, life, connect>>

\* A process dies: its memory, its transaction and its clients' requests go.
Crash(p) ==
    LET dead == {c \in Callers : ProcOf[c] = p /\ pc[c] # "idle"}
        Wipe(f, v) == [c \in Callers |-> IF c \in dead THEN v ELSE f[c]]
    IN  /\ dead # {}
        /\ faults < MaxFaults
        /\ faults' = faults + 1
        /\ stray' = stray \cup UNION {RefreshTokens(cur[c]) :
                                        c \in {d \in dead : pc[d] = "sent"}}
        /\ lock' = IF lock \in dead THEN NoCaller ELSE lock
        /\ pc' = Wipe(pc, "idle")
        /\ snap' = Wipe(snap, NoRow)
        /\ force' = Wipe(force, FALSE)
        /\ leader' = Wipe(leader, NoCaller)
        /\ cur' = Wipe(cur, NoRow)
        /\ got' = Wipe(got, NoRow)
        /\ result' = Wipe(result, None)
        /\ UNCHANGED <<row, rows, retired, live, minted, grants, life, connect>>

-----------------------------------------------------------------------------
Begin(c) == (\E forced \in BOOLEAN : LoadSecret(c, forced)) \/ LoadMissing(c)

Enter(c) == ReturnFresh(c) \/ PlainResolve(c) \/ JoinInflight(c)
                \/ StartRefresh(c)

Acquire(c) == LockGone(c) \/ LockReuse(c) \/ LockNoPath(c) \/ SendRefresh(c)

ProviderAnswers(c) == Mint(c) \/ InvalidGrant(c) \/ InvalidClient(c)
                          \/ TransientFailure(c) \/ RequestTimesOut(c)

Store(c) == SaveRotated(c) \/ SaveFails(c) \/ SaveUnanswered(c) \/ ReplyLost(c)

\* Everything a call does between loading the secret and its answer.
Resolve(c) == Enter(c) \/ Acquire(c) \/ ProviderAnswers(c) \/ Store(c)
                  \/ Settle(c)

User == ConnectExchange \/ ConnectLookup \/ ConnectUpdate \/ ConnectInsert
            \/ ConnectLost \/ Disconnect

Environment ==
    \/ \E t \in Tokens : Age(t)
    \/ \E g \in 1..MaxGrants : RevokeGrant(g)
    \/ \E t \in RefreshToken : StrayArrives(t)

Fault ==
    \/ \E c \in Callers : LockFails(c) \/ LoseConnection(c)
    \/ \E p \in Procs : Crash(p)

Next ==
    \/ \E c \in Callers : Begin(c) \/ Resolve(c)
    \/ User
    \/ Environment
    \/ Fault

Spec == Init /\ [][Next]_vars

\* A process runs its own steps; a token request ends within its timeout; the
\* database grants a row lock to its waiters in turn.
Fairness ==
    \A c \in Callers :
        /\ WF_vars(Enter(c))
        /\ SF_vars(Acquire(c))
        /\ WF_vars(ProviderAnswers(c))
        /\ WF_vars(Store(c))
        /\ WF_vars(Settle(c))

-----------------------------------------------------------------------------
(***************************************************************************)
(* Properties.                                                             *)
(***************************************************************************)

\* A caller, or the Connect handler, has the secrets its step works on.
Carrying ==
    /\ \A c \in Callers :
          /\ ~Ready(c) => snap[c] # NoRow
          /\ Requesting(c) => cur[c] # NoRow
          /\ pc[c] = "minted" => got[c] # NoRow
    /\ connect.pc # "idle" => connect.pair # NoRow

\* Every variable holds a value of its type, and every step has its secrets.
TypeOK ==
    /\ row \in Row \cup {NoRow}
    /\ lock \in Callers \cup {NoCaller}
    /\ rows \in 1..MaxRows
    /\ pc \in [Callers -> PC]
    /\ snap \in [Callers -> Row \cup {NoRow}]
    /\ force \in [Callers -> BOOLEAN]
    /\ leader \in [Callers -> Callers \cup {NoCaller}]
    /\ cur \in [Callers -> Row \cup {NoRow}]
    /\ got \in [Callers -> Row \cup {NoRow}]
    /\ result \in [Callers -> Outcome]
    /\ live \subseteq RefreshToken
    /\ minted \in Tokens
    /\ grants \in 1..MaxGrants
    /\ life \in [Tokens -> Life]
    /\ stray \subseteq RefreshToken
    /\ connect \in [pc : {"idle", "exchanged", "writing"}, existing : 0..MaxRows,
                    pair : Row \cup {NoRow}]
    /\ retired \subseteq RefreshToken
    /\ faults \in 0..MaxFaults
    /\ Carrying

\* While the infrastructure behaves, two token requests for the stored secret
\* are never outstanding at once, in one process or in several: "concurrent
\* callers never spend the same rotating refresh token twice".
ExclusiveSpend ==
    \A c, d \in Callers :
        Requesting(c) /\ Requesting(d) /\ faults = 0 => c = d

\* A request never carries a refresh token that has left the store: not one
\* rotated away by another process, not one of a replaced or deleted
\* credential -- crashes and lost connections included.
NeverSpendsRetired ==
    [][\A c \in Callers :
          pc[c] # "sent" /\ pc'[c] = "sent"
              => RefreshTokens(cur'[c]) \cap retired = {}]_vars

\* A refresh never undoes a newer write: the stored secret moves to a later
\* grant, or to a later token of the same grant, whoever writes it.
Newer(r, s) == r.grant > s.grant \/ (r.grant = s.grant /\ r.at > s.at)

NoLostWrite ==
    [][row # row' /\ row # NoRow /\ row' # NoRow => Newer(row', row)]_vars

\* A refresh tells its callers to reconnect only when the credential stored at
\* that moment can no longer be refreshed.
ReauthMeansDeadGrant ==
    [][\A c \in Callers :
          pc[c] \in {"waiting", "sent", "minted"} /\ pc'[c] = "finishing"
              /\ result'[c] = Reauth
          => row # NoRow /\ (~HasRefreshPath(row) \/ ~Accepts(row))]_vars

\* A bearer a refresh hands out is the stored one at the moment it is decided:
\* the rotated pair is persisted before anybody uses it, and a caller that
\* reuses or keeps a token gets the one in the store, not its own older copy.
StoredBeforeReturned ==
    [][\A c \in Callers :
          pc[c] \in {"waiting", "sent", "minted"} /\ pc'[c] = "finishing"
              /\ result'[c].kind = "ok"
          => row' # NoRow /\ result'[c].at = row'.at]_vars

\* oauth.ts: "on a transient refresh failure, keeps using a not-yet-expired
\* token".  A caller that did not force a refresh and whose token has not
\* expired is not failed by a transient provider error.
TransientKeepsValidToken ==
    [][\A c \in Callers :
          ~Ready(c) /\ pc'[c] = "done" /\ result'[c] = Transient
              /\ ~force[c] /\ faults = 0
          => life[snap[c].at] = "expired"]_vars

-----------------------------------------------------------------------------
(***************************************************************************)
(* The abstract specification this one implements.                         *)
(***************************************************************************)
Exclusive == INSTANCE StoredCredential
    WITH Credential <- Row, Nothing <- NoRow, stored <- row,
         refreshing <- IF lock \in Callers THEN cur[lock] ELSE NoRow

\* A refresh, however many processes race for it and whatever breaks, looks to
\* the store like one exclusive read-modify-write of the row.
ImplementsStoredCredential == Exclusive!Spec

-----------------------------------------------------------------------------
(***************************************************************************)
(* The inductive invariant behind the proofs (OAuthRefreshProofs).         *)
(***************************************************************************)

\* The lock is held through the token request only, and what the holder read
\* under it is what is stored.
LockInv ==
    \A c \in Callers :
        lock = c => Requesting(c) /\ row # NoRow /\ cur[c] = row

\* What a caller is about to save is a later token of the same grant, for the
\* same row, than what it read under the lock.
FlightInv ==
    \A c \in Callers :
        pc[c] = "minted" =>
            /\ got[c].id = cur[c].id /\ got[c].grant = cur[c].grant
            /\ got[c].at > cur[c].at

\* Nothing carries a token or a grant the provider has not handed out yet.
Issued(r) == r.at <= minted /\ r.rt <= minted /\ r.grant <= grants

IssuedInv ==
    /\ row # NoRow => Issued(row)
    /\ \A c \in Callers : cur[c] # NoRow => Issued(cur[c])
    /\ \A c \in Callers : got[c] # NoRow => Issued(got[c])
    /\ connect.pair # NoRow => Issued(connect.pair)
    /\ \A t \in retired : t[1] <= grants /\ t[2] <= minted

\* A Connect under way brings the latest grant; nothing of it was stored yet.
ConnectInv ==
    connect.pc # "idle" =>
        /\ row # NoRow => row.grant < connect.pair.grant
        /\ \A t \in retired : t[1] < connect.pair.grant

\* A retired refresh token is neither stored nor about to be.
RetiredInv ==
    /\ RefreshTokens(row) \cap retired = {}
    /\ \A c \in Callers :
          lock = c /\ pc[c] = "minted" => RefreshTokens(got[c]) \cap retired = {}

\* Without faults, whoever awaits the provider still holds the lock.
HolderInv == \A c \in Callers : Requesting(c) /\ faults = 0 => lock = c

IInv == /\ TypeOK /\ LockInv /\ FlightInv /\ IssuedInv /\ ConnectInv
        /\ RetiredInv /\ HolderInv
=============================================================================
