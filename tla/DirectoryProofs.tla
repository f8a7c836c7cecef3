--------------------------- MODULE DirectoryProofs ---------------------------
(***************************************************************************)
(* Proofs about an installation: its settings, its organisation, clients   *)
(* and access requests, and the quota of requests, for any number of       *)
(* requests at once, of processes for the SSO settings; and its            *)
(* replacement, for any number of deploys.                                 *)
(***************************************************************************)
EXTENDS Clients, AccessRequests, SsoSettings, PlatformEmail, RollingDeploy, Quotas,
        Organizations, FiniteSetTheorems, TLAPS

(***************************************************************************)
(* SsoSettings.  A rebuild is alone while none have overlapped; what it    *)
(* has built is what the tables say, and the instance of every process     *)
(* that no change missed is that, or is being built.                       *)
(***************************************************************************)

Offered == {"enabled", "secret"} \subseteq sso.on

Rebuilding(h) == ssoCall[h].op \in Rebuilds

Building == {"load", "count", "assign"}

Spared(p) == p \in serving /\ p \notin ssoHistory.failed /\ p \notin ssoHistory.missed

Accurate(p) == (auth[p].closed <=> tenantExists) /\ (auth[p].provider <=> Offered)

SsoSteps ==
    \A h \in Handlers :
        /\ ssoCall[h].op = "idle" => ssoCall[h].pc = "idle"
        /\ ssoCall[h].op \in {"boot", "found"} => ssoCall[h].pc \in Building
        /\ ssoCall[h].op = "update" => ssoCall[h].pc # "idle"
        /\ ssoCall[h].op \in {"update", "rotate"} => tenantExists
        /\ ssoCall[h].op = "rotate" => ssoCall[h].pc \in {"row", "insertRow", "write"}
        /\ ssoCall[h].pc \in {"row", "insertRow"} => ssoCall[h].seen = {}
        /\ ssoCall[h].pc = "write" => sso.exists

OneRebuilds ==
    ~ssoHistory.raced =>
        \A h, k \in Handlers : Rebuilding(h) /\ Rebuilding(k) => h = k

SecretKept ==
    ~ssoHistory.raced =>
        /\ "enabled" \in sso.on => "secret" \in sso.on
        /\ \A h \in Handlers :
              ssoCall[h].op = "update" /\ ssoCall[h].pc = "write"
                  => ssoCall[h].seen = sso.on

OthersMiss ==
    ~ssoHistory.raced =>
        \A h \in Handlers : ssoCall[h].op \in {"found", "update"} =>
            \A p \in serving \ {ssoCall[h].proc} : p \in ssoHistory.missed

BuiltIsCurrent ==
    ~ssoHistory.raced =>
        \A h \in Handlers : Rebuilding(h) =>
            /\ ssoCall[h].pc \in {"count", "assign"} =>
                  (ssoCall[h].built.provider <=> Offered)
            /\ ssoCall[h].pc = "assign" => (ssoCall[h].built.closed <=> tenantExists)

SparedIsCurrent ==
    ~ssoHistory.raced =>
        \A p \in Processes : Spared(p) =>
            \/ Accurate(p)
            \/ \E h \in Handlers : /\ Rebuilding(h) /\ ssoCall[h].proc = p
                                   /\ ssoCall[h].pc \in Building

SsoIInv ==
    /\ SsoTypeOK
    /\ SsoSteps
    /\ OneRebuilds
    /\ SecretKept
    /\ OthersMiss
    /\ BuiltIsCurrent
    /\ SparedIsCurrent

SsoCallType == [op : SsoOps, pc : SsoPCs, proc : Processes,
                seen : SUBSET Settings, built : AuthInstance]

SsoHistoryType == [raced : BOOLEAN, failed : SUBSET Processes,
                   missed : SUBSET Processes, updates : 0..MaxSsoUpdates,
                   faults : 0..MaxSsoFaults]

LEMMA SsoInitially == SsoInit => SsoIInv
<1> SUFFICES ASSUME SsoInit PROVE SsoIInv
  OBVIOUS
<1>1. 1 \in Processes
  BY SsoAssumption DEF Processes
<1>2. NoAuth \in AuthInstance /\ NoSsoCall \in SsoCallType
  BY <1>1 DEF NoAuth, AuthInstance, NoSsoCall, SsoCallType, SsoOps, SsoPCs
<1>3. SsoTypeOK
  <2>1. sso \in SsoRow /\ auth \in [Processes -> AuthInstance] /\ tenantExists \in BOOLEAN
    BY <1>2 DEF SsoInit, SsoRow
  <2>2. ssoCall \in [Handlers -> SsoCallType]
    BY <1>2 DEF SsoInit
  <2>3. ssoHistory \in [raced : BOOLEAN, failed : SUBSET Processes,
                       missed : SUBSET Processes, updates : 0..MaxSsoUpdates,
                       faults : 0..MaxSsoFaults]
    BY SsoAssumption DEF SsoInit, SsoHistoryType
  <2> QED
    BY <1>1, <2>1, <2>2, <2>3 DEF SsoInit, SsoTypeOK, SsoCallType, SsoHistoryType, NoSsoCall
<1> QED
  BY <1>3 DEF SsoInit, SsoIInv, SsoSteps, OneRebuilds, SecretKept, OthersMiss,
     BuiltIsCurrent, SparedIsCurrent, Rebuilding, Rebuilds, NoSsoCall, Spared,
     Accurate, Offered, NoAuth

\* A handler that starts, and what history records of it.
SsoStarted(h, p, op, pc) ==
    /\ ssoCall' \in [Handlers -> SsoCallType]
    /\ \A k \in Handlers \ {h} : ssoCall'[k] = ssoCall[k]
    /\ ssoCall[h].op = "idle"
    /\ ssoCall'[h].op = op /\ ssoCall'[h].pc = pc /\ ssoCall'[h].proc = p
    /\ ssoCall'[h].seen = {}
    /\ ssoHistory' \in SsoHistoryType
    /\ ssoHistory'.failed = ssoHistory.failed
    /\ ssoHistory'.missed = IF op \in {"found", "update"}
                            THEN ssoHistory.missed \cup (serving \ {p})
                            ELSE ssoHistory.missed
    /\ ~ssoHistory'.raced =>
          /\ ~ssoHistory.raced
          /\ op \in Rebuilds => \A k \in Handlers : ~Rebuilding(k)

LEMMA SsoStartIs ==
  ASSUME SsoIInv, NEW h \in Handlers, NEW p \in Processes,
         NEW op \in SsoOps \ {"idle"}, NEW pc \in SsoPCs, SsoStart(h, p, op, pc),
         op = "update" => ssoHistory.updates < MaxSsoUpdates
  PROVE  SsoStarted(h, p, op, pc)
<1> DEFINE overlaps == op \in Rebuilds /\ \E k \in Handlers : ssoCall[k].op \in Rebuilds
           raced == ssoHistory.raced \/ overlaps
           missed == IF op \in {"found", "update"}
                     THEN ssoHistory.missed \cup (serving \ {p}) ELSE ssoHistory.missed
           updates == IF op = "update" THEN ssoHistory.updates + 1 ELSE ssoHistory.updates
<1>1. SsoTypeOK
  BY DEF SsoIInv
<1>2. /\ ssoCall[h] = NoSsoCall
      /\ ssoCall' = [ssoCall EXCEPT ![h].op = op, ![h].pc = pc, ![h].proc = p]
  BY DEF SsoStart
<1>3. /\ ssoCall' \in [Handlers -> SsoCallType]
      /\ \A k \in Handlers \ {h} : ssoCall'[k] = ssoCall[k]
      /\ ssoCall[h].op = "idle"
      /\ ssoCall'[h].op = op /\ ssoCall'[h].pc = pc /\ ssoCall'[h].proc = p
      /\ ssoCall'[h].seen = {}
  <2> DEFINE started == [NoSsoCall EXCEPT !.op = op, !.pc = pc, !.proc = p]
  <2>1. NoSsoCall \in SsoCallType
    BY <1>1, <1>2 DEF SsoTypeOK, SsoCallType, SsoHistoryType
  <2>2. /\ started \in SsoCallType
        /\ started.op = op /\ started.pc = pc /\ started.proc = p
        /\ started.seen = {}
    BY <2>1 DEF SsoCallType, NoSsoCall
  <2>3. ssoCall' = [ssoCall EXCEPT ![h] = started]
    BY <1>1, <1>2 DEF SsoTypeOK, SsoHistoryType
  <2>4. ssoCall \in [Handlers -> SsoCallType] /\ ssoCall[h].op = "idle"
    BY <1>1, <1>2 DEF SsoTypeOK, SsoCallType, SsoHistoryType, NoSsoCall
  <2> HIDE DEF started
  <2> QED
    BY <2>2, <2>3, <2>4
<1>4. ssoHistory' = [ssoHistory EXCEPT !.raced = raced, !.missed = missed,
                                       !.updates = updates]
  BY <1>1 DEF SsoStart, SsoTypeOK
<1>5. raced \in BOOLEAN /\ (~raced => ~ssoHistory.raced /\ ~overlaps)
  OBVIOUS
<1>6. missed \in SUBSET Processes /\ updates \in 0..MaxSsoUpdates
  BY <1>1, SsoAssumption DEF SsoTypeOK, SsoHistoryType
<1>7. ~overlaps => (op \in Rebuilds => \A k \in Handlers : ~Rebuilding(k))
  BY DEF Rebuilding
<1>8. /\ ssoHistory' \in SsoHistoryType
      /\ ssoHistory'.failed = ssoHistory.failed
      /\ ssoHistory'.missed = missed
      /\ ~ssoHistory'.raced => ~raced
  <2> HIDE DEF raced, missed, updates
  <2> QED
    BY <1>1, <1>4, <1>5, <1>6 DEF SsoTypeOK, SsoHistoryType
<1> QED
  BY <1>3, <1>5, <1>7, <1>8 DEF SsoStarted

LEMMA CreateTenantKeeps ==
  ASSUME SsoIInv, NEW h \in Handlers, NEW p \in serving, CreateTenant(h, p)
  PROVE  SsoIInv'
<1>1. /\ SsoStart(h, p, "found", "load") /\ p \in Processes
      /\ ~tenantExists /\ tenantExists' = TRUE /\ UNCHANGED <<sso, serving, auth>>
  BY DEF CreateTenant, SsoIInv, SsoTypeOK
<1> DEFINE Started ==
      /\ ssoCall' \in [Handlers -> SsoCallType]
      /\ \A k \in Handlers \ {h} : ssoCall'[k] = ssoCall[k]
      /\ ssoCall'[h].op = "found" /\ ssoCall'[h].pc = "load"
      /\ ssoCall'[h].proc = p /\ ssoCall'[h].seen = {}
      /\ ssoHistory' \in SsoHistoryType
      /\ ssoHistory'.failed = ssoHistory.failed
      /\ ssoHistory'.missed = ssoHistory.missed \cup (serving \ {p})
      /\ ~ssoHistory'.raced =>
            ~ssoHistory.raced /\ \A k \in Handlers : ~Rebuilding(k)
<1>2. Started
  <2>1. SsoStarted(h, p, "found", "load")
    BY <1>1, SsoStartIs DEF SsoOps, SsoPCs
  <2> QED
    BY <2>1 DEF SsoStarted, Rebuilds
<1>3. SsoTypeOK'
  BY <1>1, <1>2 DEF SsoIInv, SsoTypeOK, SsoCallType, SsoHistoryType
<1>4. SsoSteps'
  BY <1>1, <1>2 DEF SsoIInv, SsoSteps, Building, ssoTables
<1>5. OneRebuilds'
  BY <1>2 DEF SsoIInv, OneRebuilds, Rebuilding
<1>6. SecretKept'
  BY <1>1, <1>2 DEF SsoIInv, SecretKept
<1>7. OthersMiss'
  BY <1>1, <1>2 DEF SsoIInv, OthersMiss, Rebuilding, Rebuilds
<1>8. BuiltIsCurrent'
  BY <1>1, <1>2 DEF SsoIInv, BuiltIsCurrent, Rebuilding, Offered
<1>9. SparedIsCurrent'
  BY <1>1, <1>2 DEF SsoIInv, SparedIsCurrent, Rebuilding, Rebuilds, Spared, Building
<1> QED
  BY <1>3, <1>4, <1>5, <1>6, <1>7, <1>8, <1>9 DEF SsoIInv

LEMMA StartUpdateSsoKeeps ==
  ASSUME SsoIInv, NEW h \in Handlers, NEW p \in serving, StartUpdateSso(h, p)
  PROVE  SsoIInv'
<1>1. /\ SsoStart(h, p, "update", "row") /\ p \in Processes /\ tenantExists
      /\ ssoHistory.updates < MaxSsoUpdates
      /\ UNCHANGED <<ssoTables, serving, auth>>
  BY DEF StartUpdateSso, SsoIInv, SsoTypeOK
<1>2. /\ ssoCall' \in [Handlers -> SsoCallType]
      /\ \A k \in Handlers \ {h} : ssoCall'[k] = ssoCall[k]
      /\ ssoCall'[h].op = "update" /\ ssoCall'[h].pc = "row"
      /\ ssoCall'[h].proc = p /\ ssoCall'[h].seen = {}
      /\ ssoHistory' \in SsoHistoryType
      /\ ssoHistory'.failed = ssoHistory.failed
      /\ ssoHistory'.missed = ssoHistory.missed \cup (serving \ {p})
      /\ ~ssoHistory'.raced =>
            ~ssoHistory.raced /\ \A k \in Handlers : ~Rebuilding(k)
  <2>1. SsoStarted(h, p, "update", "row")
    BY <1>1, SsoStartIs DEF SsoOps, SsoPCs
  <2> QED
    BY <2>1 DEF SsoStarted, Rebuilds
<1>3. SsoTypeOK'
  BY <1>1, <1>2 DEF SsoIInv, SsoTypeOK, SsoCallType, SsoHistoryType, ssoTables
<1>4. SsoSteps'
  BY <1>1, <1>2 DEF SsoIInv, SsoSteps, Building, ssoTables
<1>5. OneRebuilds'
  BY <1>2 DEF SsoIInv, OneRebuilds, Rebuilding
<1>6. SecretKept'
  BY <1>1, <1>2 DEF SsoIInv, SecretKept, ssoTables
<1>7. OthersMiss'
  BY <1>1, <1>2 DEF SsoIInv, OthersMiss, Rebuilding, Rebuilds
<1>8. BuiltIsCurrent'
  BY <1>1, <1>2 DEF SsoIInv, BuiltIsCurrent, Rebuilding, Offered, ssoTables
<1>9. SparedIsCurrent'
  BY <1>1, <1>2 DEF SsoIInv, SparedIsCurrent, Rebuilding, Spared, Accurate, Offered,
                    ssoTables
<1> QED
  BY <1>3, <1>4, <1>5, <1>6, <1>7, <1>8, <1>9 DEF SsoIInv

LEMMA StartRotateKeeps ==
  ASSUME SsoIInv, NEW h \in Handlers, NEW p \in serving, StartRotateScimToken(h, p)
  PROVE  SsoIInv'
<1>1. /\ SsoStart(h, p, "rotate", "row") /\ p \in Processes /\ tenantExists
      /\ UNCHANGED <<ssoTables, serving, auth>>
  BY DEF StartRotateScimToken, SsoIInv, SsoTypeOK
<1>2. /\ ssoCall' \in [Handlers -> SsoCallType]
      /\ \A k \in Handlers \ {h} : ssoCall'[k] = ssoCall[k]
      /\ ssoCall[h].op = "idle"
      /\ ssoCall'[h].op = "rotate" /\ ssoCall'[h].pc = "row"
      /\ ssoCall'[h].proc = p /\ ssoCall'[h].seen = {}
      /\ ssoHistory' \in SsoHistoryType
      /\ ssoHistory'.failed = ssoHistory.failed
      /\ ssoHistory'.missed = ssoHistory.missed
      /\ ~ssoHistory'.raced => ~ssoHistory.raced
  <2>1. SsoStarted(h, p, "rotate", "row")
    BY <1>1, SsoStartIs DEF SsoOps, SsoPCs
  <2> QED
    BY <2>1 DEF SsoStarted
<1>3. SsoTypeOK'
  BY <1>1, <1>2 DEF SsoIInv, SsoTypeOK, SsoCallType, SsoHistoryType, ssoTables
<1>4. SsoSteps'
  BY <1>1, <1>2 DEF SsoIInv, SsoSteps, Building, ssoTables
<1>5. OneRebuilds'
  BY <1>2 DEF SsoIInv, OneRebuilds, Rebuilding, Rebuilds
<1>6. SecretKept'
  BY <1>1, <1>2 DEF SsoIInv, SecretKept, ssoTables
<1>7. OthersMiss'
  BY <1>1, <1>2 DEF SsoIInv, OthersMiss
<1>8. BuiltIsCurrent'
  BY <1>1, <1>2 DEF SsoIInv, BuiltIsCurrent, Rebuilding, Rebuilds, Offered, ssoTables
<1>9. SparedIsCurrent'
  BY <1>1, <1>2 DEF SsoIInv, SparedIsCurrent, Rebuilding, Rebuilds, Spared, Accurate,
                    Offered, ssoTables
<1> QED
  BY <1>3, <1>4, <1>5, <1>6, <1>7, <1>8, <1>9 DEF SsoIInv

\* A handler goes on or is done; the others stay as they were.
LEMMA CallChanges ==
  ASSUME SsoIInv, NEW h \in Handlers, NEW c \in SsoCallType,
         ssoCall' = [ssoCall EXCEPT ![h] = c]
  PROVE  /\ ssoCall' \in [Handlers -> SsoCallType]
         /\ \A k \in Handlers \ {h} : ssoCall'[k] = ssoCall[k]
         /\ ssoCall'[h] = c
BY DEF SsoIInv, SsoTypeOK, SsoCallType, SsoHistoryType

LEMMA CallType ==
  ASSUME SsoIInv, NEW h \in Handlers
  PROVE  ssoCall[h] \in SsoCallType /\ NoSsoCall \in SsoCallType
<1>1. 1 \in Processes
  BY SsoAssumption DEF Processes
<1> QED
  BY <1>1 DEF SsoIInv, SsoTypeOK, SsoCallType, SsoHistoryType, NoSsoCall, NoAuth, AuthInstance, SsoOps,
              SsoPCs

LEMMA FindRowKeeps ==
  ASSUME SsoIInv, NEW h \in Handlers, FindRow(h)
  PROVE  SsoIInv'
<1> DEFINE c == ssoCall[h]
           d == IF sso.exists THEN [c EXCEPT !.pc = "write", !.seen = sso.on]
                ELSE [c EXCEPT !.pc = "insertRow"]
<1>1. /\ c.pc = "row" /\ ssoCall' = [ssoCall EXCEPT ![h] = d]
      /\ UNCHANGED <<ssoTables, serving, auth, ssoHistory>>
  BY DEF FindRow, SsoAt, SsoStep
<1>2. /\ d \in SsoCallType
      /\ d.op = c.op /\ d.proc = c.proc /\ d.pc \in {"write", "insertRow"}
      /\ d.pc = "write" => d.seen = sso.on /\ sso.exists
      /\ d.pc = "insertRow" => d.seen = c.seen
  BY CallType DEF SsoIInv, SsoTypeOK, SsoRow, SsoCallType, SsoPCs
<1> HIDE DEF d
<1>3. /\ ssoCall' \in [Handlers -> SsoCallType]
      /\ \A k \in Handlers \ {h} : ssoCall'[k] = ssoCall[k]
      /\ ssoCall'[h] = d
  BY <1>1, <1>2, CallChanges
<1>4. SsoTypeOK'
  BY <1>1, <1>2, <1>3 DEF SsoIInv, SsoTypeOK, SsoCallType, SsoHistoryType, ssoTables
<1>5. SsoSteps'
  BY <1>1, <1>2, <1>3 DEF SsoIInv, SsoSteps, Building, ssoTables
<1>6. OneRebuilds'
  BY <1>1, <1>2, <1>3 DEF SsoIInv, OneRebuilds, Rebuilding
<1>7. SecretKept'
  BY <1>1, <1>2, <1>3 DEF SsoIInv, SecretKept, ssoTables
<1>8. OthersMiss'
  BY <1>1, <1>2, <1>3 DEF SsoIInv, OthersMiss
<1>9. BuiltIsCurrent'
  BY <1>1, <1>2, <1>3 DEF SsoIInv, BuiltIsCurrent, Rebuilding, Offered, ssoTables
<1>10. SparedIsCurrent'
  BY <1>1, <1>2, <1>3 DEF SsoIInv, SparedIsCurrent, Rebuilding, Building, Spared,
                          Accurate, Offered, ssoTables
<1> QED
  BY <1>4, <1>5, <1>6, <1>7, <1>8, <1>9, <1>10 DEF SsoIInv

LEMMA InsertRowKeeps ==
  ASSUME SsoIInv, NEW h \in Handlers, InsertRow(h)
  PROVE  SsoIInv'
<1> DEFINE c == ssoCall[h]
           d == IF sso.exists THEN NoSsoCall ELSE [c EXCEPT !.pc = "write"]
<1>1. /\ c.pc = "insertRow" /\ ssoCall' = [ssoCall EXCEPT ![h] = d]
      /\ sso' = [sso EXCEPT !.exists = TRUE]
      /\ UNCHANGED <<tenantExists, serving, auth, ssoHistory>>
  BY DEF InsertRow, SsoAt, SsoStep, SsoDone
<1>2. /\ d \in SsoCallType
      /\ \/ d = NoSsoCall
         \/ /\ d.op = c.op /\ d.proc = c.proc /\ d.pc = "write" /\ d.seen = c.seen
            /\ ~sso.exists
  BY CallType DEF SsoCallType, SsoPCs
<1> HIDE DEF d
<1>3. /\ ssoCall' \in [Handlers -> SsoCallType]
      /\ \A k \in Handlers \ {h} : ssoCall'[k] = ssoCall[k]
      /\ ssoCall'[h] = d
  BY <1>1, <1>2, CallChanges
<1>4. NoSsoCall.op = "idle" /\ NoSsoCall.pc = "idle"
  BY DEF NoSsoCall
<1>5. /\ sso' \in SsoRow /\ sso'.on = sso.on /\ sso'.exists
      /\ c.seen = {} /\ c.op \in {"update", "rotate"} /\ tenantExists
  <2>1. sso' \in SsoRow /\ sso'.on = sso.on /\ sso'.exists
    BY <1>1 DEF SsoIInv, SsoTypeOK, SsoRow
  <2>2. c.seen = {} /\ c.op \in {"update", "rotate"}
    BY <1>1, CallType DEF SsoIInv, SsoSteps, Building, SsoCallType, SsoOps
  <2>3. tenantExists
    BY <2>2 DEF SsoIInv, SsoSteps
  <2> QED
    BY <2>1, <2>2, <2>3
<1>6. SsoTypeOK'
  BY <1>1, <1>2, <1>3, <1>4, <1>5 DEF SsoIInv, SsoTypeOK, SsoCallType, SsoHistoryType
<1>7. SsoSteps'
  BY <1>1, <1>2, <1>3, <1>4, <1>5 DEF SsoIInv, SsoSteps, Building, NoSsoCall
<1>8. OneRebuilds'
  BY <1>1, <1>2, <1>3, <1>4 DEF SsoIInv, OneRebuilds, Rebuilding, Rebuilds
<1>9. SecretKept'
  BY ZenonT(40), <1>1, <1>2, <1>3, <1>4, <1>5 DEF SsoIInv, SsoTypeOK, SecretKept
<1>10. OthersMiss'
  BY <1>1, <1>2, <1>3, <1>4 DEF SsoIInv, OthersMiss
<1>11. BuiltIsCurrent'
  BY <1>1, <1>2, <1>3, <1>4, <1>5 DEF SsoIInv, BuiltIsCurrent, Rebuilding, Offered
<1>12. SparedIsCurrent'
  BY <1>1, <1>2, <1>3, <1>4, <1>5 DEF SsoIInv, SparedIsCurrent, Rebuilding, Building,
                                     Spared, Accurate, Offered
<1> QED
  BY <1>6, <1>7, <1>8, <1>9, <1>10, <1>11, <1>12 DEF SsoIInv

LEMMA WriteSsoKeeps ==
  ASSUME SsoIInv, NEW h \in Handlers, NEW patch \in Patches, WriteSso(h, patch)
  PROVE  SsoIInv'
<1> DEFINE c == ssoCall[h]
           d == [c EXCEPT !.pc = "load"]
           on == After(patch, sso.on)
<1>1. /\ c.pc = "write" /\ c.op = "update"
      /\ UNCHANGED <<tenantExists, serving, auth, ssoHistory>>
      /\ \/ /\ Acceptable(patch, c.seen)
            /\ sso' = [sso EXCEPT !.on = on]
            /\ ssoCall' = [ssoCall EXCEPT ![h] = d]
         \/ UNCHANGED sso /\ ssoCall' = [ssoCall EXCEPT ![h] = NoSsoCall]
  BY DEF WriteSso, SsoAt, SsoStep, SsoDone
<1>2. /\ d \in SsoCallType /\ NoSsoCall \in SsoCallType
      /\ d.op = "update" /\ d.proc = c.proc /\ d.pc = "load"
      /\ NoSsoCall.op = "idle" /\ NoSsoCall.pc = "idle"
  BY <1>1, CallType DEF SsoCallType, SsoPCs, NoSsoCall
<1> HIDE DEF d
<1>3. CASE UNCHANGED sso /\ ssoCall' = [ssoCall EXCEPT ![h] = NoSsoCall]
  <2>1. /\ ssoCall' \in [Handlers -> SsoCallType]
        /\ \A k \in Handlers \ {h} : ssoCall'[k] = ssoCall[k]
        /\ ssoCall'[h] = NoSsoCall
    BY <1>2, <1>3, CallChanges
  <2>2. SsoTypeOK'
    BY <1>1, <1>2, <1>3, <2>1 DEF SsoIInv, SsoTypeOK, SsoCallType, SsoHistoryType
  <2>3. SsoSteps' /\ OneRebuilds' /\ SecretKept' /\ OthersMiss' /\ BuiltIsCurrent'
    BY <1>1, <1>2, <1>3, <2>1
    DEF SsoIInv, SsoSteps, OneRebuilds, SecretKept, OthersMiss, BuiltIsCurrent,
        Rebuilding, Rebuilds, Building, Offered
  <2>4. SparedIsCurrent'
    BY <1>1, <1>2, <1>3, <2>1 DEF SsoIInv, SparedIsCurrent, Rebuilding, Building,
                                  Spared, Accurate, Offered
  <2> QED
    BY <2>2, <2>3, <2>4 DEF SsoIInv
<1>4. CASE /\ Acceptable(patch, c.seen)
           /\ sso' = [sso EXCEPT !.on = on]
           /\ ssoCall' = [ssoCall EXCEPT ![h] = d]
  <2>1. /\ ssoCall' \in [Handlers -> SsoCallType]
        /\ \A k \in Handlers \ {h} : ssoCall'[k] = ssoCall[k]
        /\ ssoCall'[h] = d
    BY <1>2, <1>4, CallChanges
  <2>2. /\ sso' \in SsoRow /\ sso'.on = on /\ sso'.exists = sso.exists
    <3>1. on \in SUBSET Settings
      BY DEF SsoIInv, SsoTypeOK, SsoRow, After, Patches, Settings
    <3> QED
      BY <1>4, <3>1 DEF SsoIInv, SsoTypeOK, SsoRow
  <2>a. SsoTypeOK'
    <3>1. sso.exists /\ tenantExists
      BY <1>1 DEF SsoIInv, SsoSteps
    <3> QED
      BY <1>1, <1>2, <2>1, <2>2, <3>1 DEF SsoIInv, SsoTypeOK, SsoCallType, SsoHistoryType
  <2>3. SsoSteps'
    BY <1>1, <1>2, <2>1, <2>2 DEF SsoIInv, SsoSteps, Building
  <2>4. OneRebuilds' /\ OthersMiss'
    BY <1>1, <1>2, <2>1 DEF SsoIInv, OneRebuilds, OthersMiss, Rebuilding, Rebuilds
  <2>5. SecretKept'
    <3>1. ~ssoHistory.raced => c.seen = sso.on
      BY <1>1 DEF SsoIInv, SecretKept
    <3>2. ~ssoHistory.raced => ("enabled" \in on => "secret" \in on)
      BY <1>4, <3>1 DEF Acceptable
    <3>3. ~ssoHistory.raced =>
             \A k \in Handlers : ~(ssoCall'[k].op = "update" /\ ssoCall'[k].pc = "write")
      BY <1>1, <1>2, <2>1 DEF SsoIInv, OneRebuilds, Rebuilding, Rebuilds
    <3> QED
      BY <1>1, <2>2, <3>2, <3>3 DEF SecretKept
  <2>6. BuiltIsCurrent'
    BY <1>1, <1>2, <2>1 DEF SsoIInv, BuiltIsCurrent, OneRebuilds, Rebuilding, Rebuilds
  <2>7. SparedIsCurrent'
    BY <1>1, <1>2, <2>1 DEF SsoIInv, SparedIsCurrent, OthersMiss, Rebuilding, Rebuilds,
                            Building, Spared
  <2> QED
    BY <2>a, <2>3, <2>4, <2>5, <2>6, <2>7 DEF SsoIInv
<1> QED
  BY <1>1, <1>3, <1>4

LEMMA WriteScimTokenKeeps ==
  ASSUME SsoIInv, NEW h \in Handlers, WriteScimToken(h)
  PROVE  SsoIInv'
<1> DEFINE c == ssoCall[h]
<1>1. /\ c.pc = "write" /\ c.op = "rotate"
      /\ sso' = [sso EXCEPT !.scim = TRUE]
      /\ ssoCall' = [ssoCall EXCEPT ![h] = NoSsoCall]
      /\ UNCHANGED <<tenantExists, serving, auth, ssoHistory>>
  BY DEF WriteScimToken, SsoAt, SsoDone
<1>2. /\ ssoCall' \in [Handlers -> SsoCallType]
      /\ \A k \in Handlers \ {h} : ssoCall'[k] = ssoCall[k]
      /\ ssoCall'[h] = NoSsoCall
  BY <1>1, CallType, CallChanges
<1>3. NoSsoCall.op = "idle" /\ NoSsoCall.pc = "idle"
  BY DEF NoSsoCall
<1>4. /\ sso' \in SsoRow /\ sso'.on = sso.on /\ sso'.exists = sso.exists
      /\ sso.exists /\ tenantExists
  BY <1>1 DEF SsoIInv, SsoTypeOK, SsoRow, SsoSteps
<1>5. SsoTypeOK'
  BY <1>1, <1>2, <1>3, <1>4 DEF SsoIInv, SsoTypeOK, SsoCallType, SsoHistoryType
<1>6. SsoSteps' /\ OneRebuilds' /\ SecretKept' /\ OthersMiss' /\ BuiltIsCurrent'
  BY <1>1, <1>2, <1>3, <1>4
  DEF SsoIInv, SsoSteps, OneRebuilds, SecretKept, OthersMiss, BuiltIsCurrent,
      Rebuilding, Rebuilds, Building, Offered
<1>7. SparedIsCurrent'
  BY <1>1, <1>2, <1>3, <1>4 DEF SsoIInv, SparedIsCurrent, Rebuilding, Rebuilds,
                                Building, Spared, Accurate, Offered
<1> QED
  BY <1>5, <1>6, <1>7 DEF SsoIInv

LEMMA LoadOAuthConfigsKeeps ==
  ASSUME SsoIInv, NEW h \in Handlers, LoadOAuthConfigs(h)
  PROVE  SsoIInv'
<1> DEFINE c == ssoCall[h]
           d == [c EXCEPT !.pc = "count", !.built.provider = Offered]
<1>1. /\ c.pc = "load"
      /\ ssoCall' = [ssoCall EXCEPT ![h] = d]
      /\ UNCHANGED <<ssoTables, serving, auth, ssoHistory>>
  BY DEF LoadOAuthConfigs, SsoAt, Offered
<1>2. /\ d \in SsoCallType
      /\ d.op = c.op /\ d.proc = c.proc /\ d.pc = "count" /\ d.seen = c.seen
      /\ d.built.provider <=> Offered
  <2> DEFINE b == Offered
  <2>1. b \in BOOLEAN
    BY DEF Offered
  <2>2. c \in SsoCallType /\ d = [c EXCEPT !.pc = "count", !.built.provider = b]
    BY CallType
  <2> HIDE DEF b
  <2>3. /\ d \in SsoCallType
        /\ d.op = c.op /\ d.proc = c.proc /\ d.pc = "count" /\ d.seen = c.seen
        /\ d.built.provider = b
    <3>1. [c.built EXCEPT !.provider = b] \in AuthInstance
      BY <2>1, <2>2 DEF SsoCallType, AuthInstance
    <3> QED
      BY <2>1, <2>2, <3>1 DEF SsoCallType, SsoPCs, AuthInstance
  <2> QED
    BY <2>3 DEF b
<1> HIDE DEF d
<1>3. /\ ssoCall' \in [Handlers -> SsoCallType]
      /\ \A k \in Handlers \ {h} : ssoCall'[k] = ssoCall[k]
      /\ ssoCall'[h] = d
  BY <1>1, <1>2, CallChanges
<1>4. SsoTypeOK'
  BY <1>1, <1>2, <1>3 DEF SsoIInv, SsoTypeOK, SsoCallType, SsoHistoryType, ssoTables
<1>5. SsoSteps' /\ OneRebuilds' /\ SecretKept' /\ OthersMiss'
  BY <1>1, <1>2, <1>3
  DEF SsoIInv, SsoSteps, OneRebuilds, SecretKept, OthersMiss, Rebuilding, Building,
      ssoTables
<1>6. BuiltIsCurrent'
  BY <1>1, <1>2, <1>3 DEF SsoIInv, BuiltIsCurrent, Rebuilding, Offered, ssoTables
<1>7. SparedIsCurrent'
  BY <1>1, <1>2, <1>3 DEF SsoIInv, SparedIsCurrent, Rebuilding, Building, Spared,
                          Accurate, Offered, ssoTables
<1> QED
  BY <1>4, <1>5, <1>6, <1>7 DEF SsoIInv

LEMMA HasBootstrappedTenantKeeps ==
  ASSUME SsoIInv, NEW h \in Handlers, HasBootstrappedTenant(h)
  PROVE  SsoIInv'
<1> DEFINE c == ssoCall[h]
           d == [c EXCEPT !.pc = "assign", !.built.closed = tenantExists]
<1>1. /\ c.pc = "count"
      /\ ssoCall' = [ssoCall EXCEPT ![h] = d]
      /\ UNCHANGED <<ssoTables, serving, auth, ssoHistory>>
  BY DEF HasBootstrappedTenant, SsoAt
<1>2. /\ d \in SsoCallType
      /\ d.op = c.op /\ d.proc = c.proc /\ d.pc = "assign" /\ d.seen = c.seen
      /\ d.built.provider = c.built.provider
      /\ d.built.closed = tenantExists
  BY ZenonT(40), CallType DEF SsoIInv, SsoTypeOK, SsoCallType, SsoHistoryType, SsoPCs, AuthInstance
<1> HIDE DEF d
<1>3. /\ ssoCall' \in [Handlers -> SsoCallType]
      /\ \A k \in Handlers \ {h} : ssoCall'[k] = ssoCall[k]
      /\ ssoCall'[h] = d
  BY <1>1, <1>2, CallChanges
<1>4. SsoTypeOK'
  BY <1>1, <1>2, <1>3 DEF SsoIInv, SsoTypeOK, SsoCallType, SsoHistoryType, ssoTables
<1>5. SsoSteps' /\ OneRebuilds' /\ SecretKept' /\ OthersMiss'
  BY <1>1, <1>2, <1>3
  DEF SsoIInv, SsoSteps, OneRebuilds, SecretKept, OthersMiss, Rebuilding, Building,
      ssoTables
<1>6. BuiltIsCurrent'
  BY <1>1, <1>2, <1>3 DEF SsoIInv, BuiltIsCurrent, Rebuilding, Offered, ssoTables
<1>7. SparedIsCurrent'
  BY <1>1, <1>2, <1>3 DEF SsoIInv, SparedIsCurrent, Rebuilding, Building, Spared,
                          Accurate, Offered, ssoTables
<1> QED
  BY <1>4, <1>5, <1>6, <1>7 DEF SsoIInv

LEMMA AssignAuthKeeps ==
  ASSUME SsoIInv, NEW h \in Handlers, AssignAuth(h)
  PROVE  SsoIInv'
<1> DEFINE c == ssoCall[h]
<1>1. /\ c.pc = "assign"
      /\ auth' = [auth EXCEPT ![c.proc] = c.built]
      /\ ssoCall' = [ssoCall EXCEPT ![h] = NoSsoCall]
      /\ UNCHANGED <<ssoTables, serving, ssoHistory>>
  BY DEF AssignAuth, SsoAt, SsoDone
<1>2. /\ ssoCall' \in [Handlers -> SsoCallType]
      /\ \A k \in Handlers \ {h} : ssoCall'[k] = ssoCall[k]
      /\ ssoCall'[h] = NoSsoCall
  BY <1>1, CallType, CallChanges
<1>3. NoSsoCall.op = "idle" /\ NoSsoCall.pc = "idle"
  BY DEF NoSsoCall
<1>4. /\ c.proc \in Processes /\ c.built \in AuthInstance /\ Rebuilding(h)
      /\ auth' \in [Processes -> AuthInstance]
      /\ auth'[c.proc] = c.built
      /\ \A q \in Processes \ {c.proc} : auth'[q] = auth[q]
  <2>1. c \in SsoCallType /\ auth \in [Processes -> AuthInstance]
    BY CallType DEF SsoIInv, SsoTypeOK, SsoHistoryType
  <2>2. Rebuilding(h)
    BY <1>1, <2>1 DEF SsoIInv, SsoSteps, SsoCallType, SsoOps, Rebuilding, Rebuilds
  <2> QED
    BY <1>1, <2>1, <2>2 DEF SsoCallType
<1>5. SsoTypeOK'
  BY <1>1, <1>2, <1>3, <1>4 DEF SsoIInv, SsoTypeOK, SsoCallType, SsoHistoryType, ssoTables
<1>6. SsoSteps' /\ OneRebuilds' /\ SecretKept' /\ OthersMiss' /\ BuiltIsCurrent'
  BY <1>1, <1>2, <1>3
  DEF SsoIInv, SsoSteps, OneRebuilds, SecretKept, OthersMiss, BuiltIsCurrent,
      Rebuilding, Rebuilds, Building, Offered, ssoTables
<1>7. SparedIsCurrent'
  <2> SUFFICES ASSUME ~ssoHistory.raced, NEW p \in Processes, Spared(p)
               PROVE  \/ Accurate(p)'
                      \/ \E k \in Handlers : /\ Rebuilding(k)' /\ ssoCall'[k].proc = p
                                             /\ ssoCall'[k].pc \in Building
    BY <1>1 DEF SparedIsCurrent, Spared, ssoTables
  <2>1. CASE p = c.proc
    BY <1>1, <1>4, <2>1 DEF SsoIInv, BuiltIsCurrent, Accurate, Offered, ssoTables
  <2>2. CASE p # c.proc
    BY <1>1, <1>2, <1>4, <2>2 DEF SsoIInv, SparedIsCurrent, Accurate, Offered,
                                  Rebuilding, ssoTables
  <2> QED
    BY <2>1, <2>2
<1> QED
  BY <1>5, <1>6, <1>7 DEF SsoIInv

LEMMA ReloadFailsKeeps ==
  ASSUME SsoIInv, NEW h \in Handlers, ReloadFails(h)
  PROVE  SsoIInv'
<1> DEFINE c == ssoCall[h]
           failed == ssoHistory.failed \cup {c.proc}
           faults == ssoHistory.faults + 1
<1>1. /\ ssoHistory.faults < MaxSsoFaults
      /\ ssoHistory' = [ssoHistory EXCEPT !.faults = faults, !.failed = failed]
      /\ ssoCall' = [ssoCall EXCEPT ![h] = NoSsoCall]
      /\ UNCHANGED <<ssoTables, serving, auth>>
  BY DEF ReloadFails, SsoDone
<1>2. /\ ssoCall' \in [Handlers -> SsoCallType]
      /\ \A k \in Handlers \ {h} : ssoCall'[k] = ssoCall[k]
      /\ ssoCall'[h] = NoSsoCall
  BY <1>1, CallType, CallChanges
<1>3. NoSsoCall.op = "idle" /\ NoSsoCall.pc = "idle"
  BY DEF NoSsoCall
<1>4. failed \in SUBSET Processes /\ faults \in 0..MaxSsoFaults
  BY <1>1, CallType, SsoAssumption DEF SsoIInv, SsoTypeOK, SsoCallType, SsoHistoryType
<1>5. /\ ssoHistory' \in SsoHistoryType
      /\ ssoHistory'.raced = ssoHistory.raced /\ ssoHistory'.failed = failed
      /\ ssoHistory'.missed = ssoHistory.missed
  <2> HIDE DEF failed, faults
  <2> QED
    BY <1>1, <1>4 DEF SsoIInv, SsoTypeOK, SsoHistoryType
<1>6. SsoTypeOK'
  BY <1>1, <1>2, <1>3, <1>5 DEF SsoIInv, SsoTypeOK, SsoCallType, SsoHistoryType, ssoTables
<1>7. SsoSteps' /\ OneRebuilds' /\ SecretKept' /\ OthersMiss' /\ BuiltIsCurrent'
  BY <1>1, <1>2, <1>3, <1>5
  DEF SsoIInv, SsoSteps, OneRebuilds, SecretKept, OthersMiss, BuiltIsCurrent,
      Rebuilding, Rebuilds, Building, Offered, ssoTables
<1>8. SparedIsCurrent'
  BY <1>1, <1>2, <1>3, <1>5 DEF SsoIInv, SparedIsCurrent, Rebuilding, Rebuilds,
                                Building, Spared, Accurate, Offered, ssoTables
<1> QED
  BY <1>6, <1>7, <1>8 DEF SsoIInv

LEMMA RollKeeps ==
  ASSUME SsoIInv, NEW h \in Handlers, Roll(h)
  PROVE  SsoIInv'
<1> DEFINE p == CHOOSE q \in serving : \A r \in serving : r <= q
           n == p + 1
<1>1. /\ n \in Processes /\ SsoStart(h, n, "boot", "load")
      /\ serving' = serving \cup {n} /\ UNCHANGED <<ssoTables, auth>>
  BY DEF Roll
<1> HIDE DEF n
<1>2. SsoStarted(h, n, "boot", "load")
  BY <1>1, SsoStartIs DEF SsoOps, SsoPCs
<1>3. /\ ssoCall' \in [Handlers -> SsoCallType]
      /\ \A k \in Handlers \ {h} : ssoCall'[k] = ssoCall[k]
      /\ ssoCall'[h].op = "boot" /\ ssoCall'[h].pc = "load"
      /\ ssoCall'[h].proc = n /\ ssoCall'[h].seen = {}
      /\ ssoHistory' \in SsoHistoryType
      /\ ssoHistory'.failed = ssoHistory.failed
      /\ ssoHistory'.missed = ssoHistory.missed
      /\ ~ssoHistory'.raced =>
            ~ssoHistory.raced /\ \A k \in Handlers : ~Rebuilding(k)
  BY <1>2 DEF SsoStarted, Rebuilds
<1>4. SsoTypeOK'
  BY <1>1, <1>3 DEF SsoIInv, SsoTypeOK, SsoCallType, SsoHistoryType, ssoTables
<1>5. SsoSteps'
  BY <1>1, <1>3 DEF SsoIInv, SsoSteps, Building, ssoTables
<1>6. OneRebuilds'
  BY <1>3 DEF SsoIInv, OneRebuilds, Rebuilding
<1>7. SecretKept'
  BY <1>1, <1>3 DEF SsoIInv, SecretKept, ssoTables
<1>8. OthersMiss'
  BY <1>3 DEF OthersMiss, Rebuilding, Rebuilds
<1>9. BuiltIsCurrent'
  BY <1>1, <1>3 DEF BuiltIsCurrent, Rebuilding
<1>10. SparedIsCurrent'
  BY <1>1, <1>3 DEF SsoIInv, SparedIsCurrent, Rebuilding, Rebuilds, Building,
                          Spared, Accurate, Offered, ssoTables
<1> QED
  BY <1>4, <1>5, <1>6, <1>7, <1>8, <1>9, <1>10 DEF SsoIInv

LEMMA StopOldKeeps ==
  ASSUME SsoIInv, NEW p \in Processes, StopOld(p)
  PROVE  SsoIInv'
<1> DEFINE failed == ssoHistory.failed \ {p}
           missed == ssoHistory.missed \ {p}
<1>1. /\ p + 1 \in serving /\ serving' = serving \ {p}
      /\ ssoCall' = [h \in Handlers |->
                        IF ssoCall[h].proc = p THEN NoSsoCall ELSE ssoCall[h]]
      /\ auth' = [auth EXCEPT ![p] = NoAuth]
      /\ ssoHistory' = [ssoHistory EXCEPT !.failed = failed, !.missed = missed]
      /\ UNCHANGED ssoTables
  BY DEF StopOld
<1>2. \A h \in Handlers : /\ ssoCall[h] \in SsoCallType /\ NoSsoCall \in SsoCallType
  BY CallType
<1>3. /\ ssoCall' \in [Handlers -> SsoCallType]
      /\ \A h \in Handlers :
            \/ ssoCall[h].proc # p /\ ssoCall'[h] = ssoCall[h]
            \/ ssoCall[h].proc = p /\ ssoCall'[h] = NoSsoCall
  BY <1>1, <1>2
<1>4. NoSsoCall.op = "idle" /\ NoSsoCall.pc = "idle"
  BY DEF NoSsoCall
<1>5. /\ ssoHistory' \in SsoHistoryType
      /\ ssoHistory'.raced = ssoHistory.raced
      /\ ssoHistory'.failed = failed /\ ssoHistory'.missed = missed
  <2>1. failed \in SUBSET Processes /\ missed \in SUBSET Processes
    BY DEF SsoIInv, SsoTypeOK, SsoHistoryType
  <2> HIDE DEF failed, missed
  <2> QED
    BY <1>1, <2>1 DEF SsoIInv, SsoTypeOK, SsoHistoryType
<1>6. /\ auth' \in [Processes -> AuthInstance]
      /\ \A q \in Processes \ {p} : auth'[q] = auth[q]
  BY <1>1 DEF SsoIInv, SsoTypeOK, NoAuth, AuthInstance
<1>7. SsoTypeOK'
  <2>1. serving' \subseteq Processes /\ serving' # {}
    <3>1. p + 1 # p
      BY SsoAssumption DEF Processes
    <3> QED
      BY <1>1, <3>1 DEF SsoIInv, SsoTypeOK, SsoHistoryType
  <2> QED
    BY <1>1, <1>3, <1>4, <1>5, <1>6, <2>1 DEF SsoIInv, SsoTypeOK, SsoCallType, SsoHistoryType, ssoTables
<1>8. SsoSteps' /\ OneRebuilds' /\ SecretKept' /\ BuiltIsCurrent'
  BY <1>1, <1>3, <1>4, <1>5
  DEF SsoIInv, SsoSteps, OneRebuilds, SecretKept, BuiltIsCurrent,
      Rebuilding, Rebuilds, Building, Offered, NoSsoCall, ssoTables
<1>9. OthersMiss'
  BY <1>1, <1>3, <1>4, <1>5 DEF SsoIInv, OthersMiss
<1>10. SparedIsCurrent'
  BY <1>1, <1>3, <1>4, <1>5, <1>6 DEF SsoIInv, SparedIsCurrent, Rebuilding, Rebuilds,
                                Building, Spared, Accurate, Offered, ssoTables
<1> QED
  BY <1>7, <1>8, <1>9, <1>10 DEF SsoIInv

LEMMA SsoStepKeeps == SsoIInv /\ [SsoNext]_ssoVars => SsoIInv'
<1> SUFFICES ASSUME SsoIInv, [SsoNext]_ssoVars PROVE SsoIInv'
  OBVIOUS
<1>1. ASSUME NEW h \in Handlers, NEW p \in serving,
             CreateTenant(h, p) \/ StartUpdateSso(h, p) \/ StartRotateScimToken(h, p)
      PROVE  SsoIInv'
  BY <1>1, CreateTenantKeeps, StartUpdateSsoKeeps, StartRotateKeeps
<1>2. ASSUME NEW h \in Handlers,
             FindRow(h) \/ InsertRow(h) \/ WriteScimToken(h)
      PROVE  SsoIInv'
  BY <1>2, FindRowKeeps, InsertRowKeeps, WriteScimTokenKeeps
<1>3. ASSUME NEW h \in Handlers, NEW patch \in Patches, WriteSso(h, patch)
      PROVE  SsoIInv'
  BY <1>3, WriteSsoKeeps
<1>4. ASSUME NEW h \in Handlers,
             \/ LoadOAuthConfigs(h) \/ HasBootstrappedTenant(h) \/ AssignAuth(h)
             \/ ReloadFails(h) \/ Roll(h)
      PROVE  SsoIInv'
  BY <1>4, LoadOAuthConfigsKeeps, HasBootstrappedTenantKeeps, AssignAuthKeeps,
     ReloadFailsKeeps, RollKeeps
<1>5. ASSUME NEW p \in Processes, StopOld(p) PROVE SsoIInv'
  BY <1>5, StopOldKeeps
<1>6. CASE UNCHANGED ssoVars
  BY <1>6 DEF ssoVars, ssoTables, SsoIInv, SsoTypeOK, SsoSteps, OneRebuilds, SecretKept,
     OthersMiss, BuiltIsCurrent, SparedIsCurrent, Rebuilding, Spared, Accurate, Offered
<1> QED
  BY <1>1, <1>2, <1>3, <1>4, <1>5, <1>6 DEF SsoNext

LEMMA SsoIInvSuffices == SsoIInv => SsoRules
<1> SUFFICES ASSUME SsoIInv PROVE SsoRules
  OBVIOUS
<1>1. EnabledHasSecret
  BY DEF SsoIInv, SecretKept, EnabledHasSecret
<1>2. ASSUME NEW p \in Processes, Settled(p) PROVE Accurate(p)
  BY <1>2 DEF SsoIInv, SparedIsCurrent, Settled, Spared, Rebuilding
<1>3. SignUpClosed
  BY <1>2 DEF SignUpClosed, Accurate
<1>4. ProviderIsCurrent
  <2> SUFFICES ASSUME NEW p \in Processes, Settled(p)
               PROVE  /\ {"enabled", "required"} \subseteq sso.on => auth[p].provider
                      /\ auth[p].provider => "enabled" \in sso.on
    BY DEF ProviderIsCurrent
  <2>1. auth[p].provider <=> Offered
    BY <1>2 DEF Accurate
  <2>2. "enabled" \in sso.on => "secret" \in sso.on
    BY <1>1 DEF EnabledHasSecret, Settled
  <2> QED
    BY <2>1, <2>2 DEF Offered
<1> QED
  BY <1>1, <1>3, <1>4 DEF SsoRules, SsoIInv

\* Of single sign-on, for any number of handlers, deployments, updates and faults:
\* while rebuilds do not overlap, it is enabled only with its secret, and a process
\* that missed no change serves the instance the settings call for.
THEOREM SsoCorrect == SsoSpec => []SsoRules
<1>1. SsoSpec => []SsoIInv
  BY SsoInitially, SsoStepKeeps, PTL DEF SsoSpec
<1> QED
  BY <1>1, SsoIInvSuffices, PTL

-----------------------------------------------------------------------------

(***************************************************************************)
(* PlatformEmail.  A request that has read a row still sees that row as it *)
(* is stored, and one that is about to insert is alone, while no requests  *)
(* have overlapped that create or that update.                             *)
(***************************************************************************)

Deliverable(r) == Needs(r.connector) \subseteq r.has

EmailBusy(h) == emailCall[h].op # "idle"

Updating(h) == emailCall[h].op = "update"

EmailSteps ==
    \A h \in Handlers :
        /\ emailCall[h].pc # "idle" => EmailBusy(h)
        /\ emailCall[h].pc = "write" =>
              /\ Updating(h)
              /\ \E r \in emailRows : r.id = emailCall[h].row.id

OneCreates ==
    ~emailRaced.create =>
        /\ emailRows = {} =>
              \A h, k \in Handlers : EmailBusy(h) /\ EmailBusy(k) => h = k
        /\ \A h \in Handlers : emailCall[h].pc = "insert" => emailRows = {}
        /\ \A r, s \in emailRows : r = s

OneUpdates ==
    ~emailRaced.update =>
        /\ \A h, k \in Handlers : Updating(h) /\ Updating(k) => h = k
        /\ \A r \in emailRows : Deliverable(r)
        /\ \A h \in Handlers : emailCall[h].pc = "write" =>
              \A r \in emailRows : r.id = emailCall[h].row.id => r = emailCall[h].row

EmailIInv == EmailTypeOK /\ EmailSteps /\ OneCreates /\ OneUpdates

LEMMA EmailIdsType == EmailIds \subseteq Nat /\ (1 \in EmailIds \/ Handlers = {})
<1>1. Cardinality(Handlers) \in Nat
  BY HandlersAssumption, FS_CardinalityType
<1>2. Handlers # {} => Cardinality(Handlers) # 0
  BY HandlersAssumption, FS_EmptySet
<1> QED
  BY <1>1, <1>2 DEF EmailIds

LEMMA PatchedType ==
  ASSUME NEW row \in EmailRow, NEW patch \in EmailPatches
  PROVE  Patched(row, patch) \in EmailRow /\ Patched(row, patch).id = row.id
BY DEF Patched, EmailPatches, EmailRow, EmailParts, Connectors

LEMMA EmailInitially == EmailInit => EmailIInv
<1> SUFFICES ASSUME EmailInit PROVE EmailIInv
  OBVIOUS
<1>1. Handlers # {} => NoEmailRow \in EmailRow
  BY EmailIdsType DEF NoEmailRow, EmailRow, Connectors, EmailParts
<1>2. EmailTypeOK
  BY <1>1 DEF EmailInit, EmailTypeOK, NoEmailCall
<1> QED
  BY <1>2 DEF EmailIInv, EmailInit, EmailSteps, OneCreates, OneUpdates,
              EmailBusy, Updating, NoEmailCall

LEMMA StartEmailKeeps ==
  ASSUME EmailIInv, NEW h \in Handlers, NEW op \in {"read", "update"},
         StartEmail(h, op)
  PROVE  EmailIInv'
<1>1. /\ emailCall[h] = NoEmailCall
      /\ emailCall' = [emailCall EXCEPT ![h].op = op, ![h].pc = "find"]
      /\ UNCHANGED <<emailRows, emailEnv>>
  BY DEF StartEmail
<1>2. /\ \A k \in Handlers \ {h} : emailCall'[k] = emailCall[k]
      /\ emailCall'[h].op = op /\ emailCall'[h].pc = "find"
  BY <1>1 DEF EmailIInv, EmailTypeOK
<1> DEFINE others == {k \in Handlers : emailCall[k].op # "idle"}
           createRaced == emailRaced.create \/ (emailRows = {} /\ others # {})
           updateRaced == emailRaced.update
                \/ (op = "update" /\ \E k \in others : emailCall[k].op = "update")
<1>a. emailRaced' = [create |-> createRaced, update |-> updateRaced]
  BY DEF StartEmail
<1>b. createRaced \in BOOLEAN /\ updateRaced \in BOOLEAN
  OBVIOUS
<1>c. /\ emailRaced' \in [create : BOOLEAN, update : BOOLEAN]
      /\ emailRaced'.create <=> createRaced
      /\ emailRaced'.update <=> updateRaced
  <2> HIDE DEF createRaced, updateRaced
  <2> QED
    BY <1>a, <1>b
<1>3. EmailTypeOK'
  BY ZenonT(40), <1>1, <1>c DEF EmailIInv, EmailTypeOK
<1>4. EmailSteps'
  BY ZenonT(40), <1>1, <1>2 DEF EmailIInv, EmailSteps, EmailBusy, Updating
<1>5. OneCreates'
  <2>1. ~emailRaced'.create =>
           /\ emailRows = {} => \A k \in Handlers : ~EmailBusy(k)
           /\ ~emailRaced.create
    BY <1>c DEF EmailBusy
  <2> QED
    BY ZenonT(40), <1>1, <1>2, <2>1 DEF EmailIInv, OneCreates, EmailBusy
<1>6. OneUpdates'
  <2>1. ~emailRaced'.update =>
           /\ op = "update" => \A k \in Handlers : ~Updating(k)
           /\ ~emailRaced.update
    BY <1>c DEF Updating
  <2>2. ASSUME ~emailRaced'.update, NEW k \in Handlers, NEW l \in Handlers,
               Updating(k)', Updating(l)'
        PROVE  k = l
    BY <1>2, <2>1, <2>2 DEF EmailIInv, OneUpdates, Updating
  <2>3. ASSUME ~emailRaced'.update, NEW k \in Handlers, emailCall'[k].pc = "write"
        PROVE  \A r \in emailRows : r.id = emailCall'[k].row.id => r = emailCall'[k].row
    BY <1>2, <2>1, <2>3 DEF EmailIInv, OneUpdates
  <2> QED
    BY <1>1, <2>1, <2>2, <2>3 DEF EmailIInv, OneUpdates, Deliverable
<1> QED
  BY <1>3, <1>4, <1>5, <1>6 DEF EmailIInv

\* What WithRow does to the handler, and to no other.
LEMMA WithRowIs ==
  ASSUME EmailIInv, NEW h \in Handlers, emailCall[h].pc # "idle",
         NEW row \in EmailRow, WithRow(h, row)
  PROVE  /\ emailCall' \in [Handlers -> [op : {"idle", "read", "update"},
                                pc : {"idle", "find", "insert", "write"},
                                row : EmailRow]]
         /\ \A k \in Handlers \ {h} : emailCall'[k] = emailCall[k]
         /\ \/ /\ emailCall'[h].pc = "write" /\ emailCall'[h].row = row
               /\ emailCall'[h].op = "update" /\ emailCall[h].op = "update"
            \/ /\ emailCall'[h].pc = "idle" /\ emailCall'[h].op = "idle"
<1>1. NoEmailRow \in EmailRow
  BY EmailIdsType DEF NoEmailRow, EmailRow, Connectors, EmailParts
<1> QED
  BY ZenonT(40), <1>1 DEF WithRow, EmailIInv, EmailTypeOK, NoEmailCall

LEMMA FindSettingsKeeps ==
  ASSUME EmailIInv, NEW h \in Handlers, FindSettings(h)
  PROVE  EmailIInv'
<1>1. /\ emailCall[h].pc = "find"
      /\ UNCHANGED <<emailRows, emailEnv, emailRaced>>
  BY DEF FindSettings, EmailAt
<1>2. CASE \E row \in emailRows : WithRow(h, row)
  <2> PICK row \in emailRows : WithRow(h, row)
    BY <1>2
  <2>1. row \in EmailRow
    BY DEF EmailIInv, EmailTypeOK
  <2>2. EmailTypeOK'
    BY <1>1, <2>1, WithRowIs DEF EmailIInv, EmailTypeOK
  <2>3. EmailSteps'
    BY <1>1, <2>1, WithRowIs DEF EmailIInv, EmailSteps, EmailBusy, Updating
  <2>4. OneCreates'
    BY <1>1, <2>1, WithRowIs DEF EmailIInv, OneCreates, EmailSteps, EmailBusy
  <2>5. OneUpdates'
    BY <1>1, <2>1, WithRowIs
    DEF EmailIInv, EmailTypeOK, OneUpdates, Updating, Deliverable
  <2> QED
    BY <2>2, <2>3, <2>4, <2>5 DEF EmailIInv
<1>3. CASE /\ emailRows = {}
           /\ emailCall' = [emailCall EXCEPT ![h].pc = "insert"]
  <2>1. EmailTypeOK'
    BY <1>1, <1>3 DEF EmailIInv, EmailTypeOK
  <2>2. EmailSteps' /\ OneCreates' /\ OneUpdates'
    BY <1>1, <1>3 DEF EmailIInv, EmailTypeOK, EmailSteps, OneCreates, OneUpdates,
                      EmailBusy, Updating, Deliverable
  <2> QED
    BY <2>1, <2>2 DEF EmailIInv
<1> QED
  BY <1>2, <1>3 DEF FindSettings

LEMMA InsertDefaultsKeeps ==
  ASSUME EmailIInv, NEW h \in Handlers, InsertDefaults(h)
  PROVE  EmailIInv'
<1>1. /\ emailCall[h].pc = "insert"
      /\ UNCHANGED <<emailEnv, emailRaced>>
  BY DEF InsertDefaults, EmailAt
<1>2. PICK i \in EmailIds \ {r.id : r \in emailRows} :
        /\ emailRows' = emailRows \cup {[NoEmailRow EXCEPT !.id = i]}
        /\ WithRow(h, [NoEmailRow EXCEPT !.id = i])
  BY DEF InsertDefaults
<1> DEFINE row == [NoEmailRow EXCEPT !.id = i]
<1>3. /\ row \in EmailRow /\ row.id = i /\ Deliverable(row)
      /\ \A r \in emailRows : r.id # i
  BY DEF NoEmailRow, EmailRow, Connectors, EmailParts, Deliverable, Needs
<1> HIDE DEF row
<1>4. emailRows' = emailRows \cup {row} /\ WithRow(h, row)
  BY <1>2 DEF row
<1>5. EmailTypeOK'
  BY <1>1, <1>3, <1>4, WithRowIs DEF EmailIInv, EmailTypeOK
<1>6. EmailSteps'
  BY <1>1, <1>3, <1>4, WithRowIs DEF EmailIInv, EmailSteps, EmailBusy, Updating
<1>7. OneCreates'
  <2> SUFFICES ASSUME ~emailRaced.create
               PROVE  /\ \A k \in Handlers : emailCall'[k].pc # "insert"
                      /\ emailRows = {}
    BY <1>1, <1>4 DEF OneCreates
  <2>1. emailRows = {}
    BY <1>1 DEF EmailIInv, OneCreates
  <2>2. ASSUME NEW k \in Handlers, emailCall'[k].pc = "insert"
        PROVE  FALSE
    <3>1. k # h
      BY <1>1, <1>3, <1>4, <2>2, WithRowIs
    <3>2. emailCall[k].pc = "insert"
      BY <1>1, <1>3, <1>4, <2>2, <3>1, WithRowIs
    <3> QED
      BY <1>1, <2>1, <3>1, <3>2 DEF EmailIInv, OneCreates, EmailSteps
  <2> QED
    BY <2>1, <2>2
<1>8. OneUpdates'
  BY <1>1, <1>3, <1>4, WithRowIs
  DEF EmailIInv, EmailTypeOK, EmailSteps, OneUpdates, Updating, Deliverable
<1> QED
  BY <1>5, <1>6, <1>7, <1>8 DEF EmailIInv

LEMMA UpdateSettingsKeeps ==
  ASSUME EmailIInv, NEW h \in Handlers, NEW patch \in EmailPatches,
         UpdateSettings(h, patch)
  PROVE  EmailIInv'
<1> DEFINE seen == emailCall[h].row
           New(r) == IF r.id = seen.id /\ Accepts(seen, patch)
                     THEN Patched(r, patch) ELSE r
<1>1. /\ emailCall[h].pc = "write"
      /\ emailRows' = {New(r) : r \in emailRows}
      /\ emailCall' = [emailCall EXCEPT ![h] = NoEmailCall]
      /\ UNCHANGED <<emailEnv, emailRaced>>
  BY DEF UpdateSettings, EmailAt
<1>2. \A r \in emailRows : New(r) \in EmailRow /\ New(r).id = r.id
  BY PatchedType DEF EmailIInv, EmailTypeOK
<1>3. NoEmailRow \in EmailRow
  BY EmailIdsType DEF NoEmailRow, EmailRow, Connectors, EmailParts
<1>4. /\ \A k \in Handlers \ {h} : emailCall'[k] = emailCall[k]
      /\ emailCall'[h] = NoEmailCall
  BY <1>1 DEF EmailIInv, EmailTypeOK
<1>5. ~emailRaced.update => \A r \in emailRows : Deliverable(New(r))
  BY <1>1 DEF EmailIInv, OneUpdates, Deliverable, Accepts
<1> HIDE DEF New
<1>6. EmailTypeOK'
  BY <1>1, <1>2, <1>3 DEF EmailIInv, EmailTypeOK, NoEmailCall
<1>7. EmailSteps'
  BY <1>1, <1>2, <1>4 DEF EmailIInv, EmailSteps, EmailBusy, Updating, NoEmailCall
<1>8. OneCreates'
  BY <1>1, <1>4 DEF EmailIInv, OneCreates, EmailBusy, NoEmailCall
<1>9. OneUpdates'
  <2> SUFFICES ASSUME ~emailRaced.update
               PROVE  \A k \in Handlers : emailCall'[k].pc # "write"
    BY <1>1, <1>4, <1>5 DEF EmailIInv, OneUpdates, Updating, NoEmailCall, Deliverable
  <2> QED
    BY <1>1, <1>4 DEF EmailIInv, EmailSteps, OneUpdates, NoEmailCall
<1> QED
  BY <1>6, <1>7, <1>8, <1>9 DEF EmailIInv

LEMMA EmailStepKeeps == EmailIInv /\ [EmailNext]_emailVars => EmailIInv'
<1> SUFFICES ASSUME EmailIInv, [EmailNext]_emailVars PROVE EmailIInv'
  OBVIOUS
<1>1. CASE UNCHANGED emailVars
  BY <1>1 DEF emailVars, EmailIInv, EmailTypeOK, EmailSteps, OneCreates, OneUpdates,
              EmailBusy, Updating, Deliverable
<1>2. CASE EmailNext
  BY <1>2, StartEmailKeeps, FindSettingsKeeps, InsertDefaultsKeeps,
     UpdateSettingsKeeps DEF EmailNext
<1> QED
  BY <1>1, <1>2

LEMMA EmailIInvSuffices == EmailIInv => EmailRules
<1> SUFFICES ASSUME EmailIInv PROVE EmailRules
  OBVIOUS
<1>1. OneSettingsRow
  <2> SUFFICES ASSUME ~emailRaced.create PROVE Cardinality(emailRows) <= 1
    BY DEF OneSettingsRow
  <2>1. CASE emailRows = {}
    BY <2>1, FS_EmptySet
  <2>2. CASE emailRows # {}
    <3> PICK r \in emailRows : TRUE
      BY <2>2
    <3>1. emailRows = {r}
      BY DEF EmailIInv, OneCreates
    <3> QED
      BY <3>1, FS_Singleton
  <2> QED
    BY <2>1, <2>2
<1>2. SavedCanDeliver
  BY DEF EmailIInv, OneUpdates, Deliverable, SavedCanDeliver, DeliveryReady,
         Resolved, HasSavedConfig
<1> QED
  BY <1>1, <1>2 DEF EmailRules, EmailIInv

\* However many requests find, create and update the settings at once: there is
\* one row unless two first requests overlapped, and its connector has what it
\* needs unless two updates did.
THEOREM EmailCorrect == EmailSpec => []EmailRules
<1> QED
  BY EmailInitially, EmailStepKeeps, EmailIInvSuffices, PTL DEF EmailSpec

(***************************************************************************)
(* RollingDeploy.  The unit runs one deploy at a time; at each of its      *)
(* places a roll knows which of the two containers is there and whose      *)
(* image it has, and after its health check that the new one is healthy.   *)
(***************************************************************************)

Image == Deploys \cup {FirstImage}

Replica == [image : Image, health : {"none", "starting", "healthy", "unhealthy"}]

DeployPCs == {"idle", "stop", "run", "pull", "list", "scale", "wait", "drain", "again",
              "wait again", "done", "failed", "killed"}

Script == [pc : DeployPCs, old : 0..2, new : 0..2]

DeployTypes ==
    /\ replica \in [Numbers -> Replica]
    /\ pulled \in Image
    /\ unit \in Image
    /\ deploy \in [Deploys -> Script]
    /\ gambled \in BOOLEAN

\* The unit runs the deploy that is past systemd-run, and only that.
UnitRuns ==
    \A d \in Deploys : Rolling(d) \/ deploy[d].pc \in {"pull", "list"} <=> unit = d

\* What a roll knows of the containers, place by place.
RollKnows(d) ==
    LET old == deploy[d].old
        new == deploy[d].new
    IN  /\ Rolling(d) => pulled = d
        /\ At(d, "list") => pulled = d
        /\ At(d, "scale") => old \in There /\ There = {old}
        /\ At(d, "wait") \/ At(d, "drain") =>
              /\ old \in Numbers /\ new = 3 - old
              /\ There = Numbers
              /\ replica[new].image = d
        /\ At(d, "scale") \/ At(d, "wait") => gambled \/ Healthy(old)
        /\ At(d, "drain") => Healthy(new)
        /\ At(d, "again") => There = {2}
        /\ At(d, "wait again") => There = Numbers /\ replica[1].image = d
        /\ At(d, "again") \/ At(d, "wait again") =>
              replica[2] = [image |-> d, health |-> "healthy"]

DeployIInv ==
    /\ DeployTypes
    /\ UnitRuns
    /\ \A d \in Deploys : RollKnows(d)
    /\ ServedThroughout

LEMMA DeployInitially == DeployInit => DeployIInv
<1> SUFFICES ASSUME DeployInit PROVE DeployIInv
  OBVIOUS
<1>0. PICK first \in Numbers \cup {0} :
        replica = [n \in Numbers |-> IF n = first
                                   THEN [image |-> FirstImage, health |-> "healthy"]
                                   ELSE NoReplica]
  BY DEF DeployInit
<1>1. replica \in [Numbers -> Replica]
  BY <1>0 DEF Replica, Image, NoReplica
<1>2. DeployTypes /\ UnitRuns
  <2>1. IdleDeploy \in Script
    BY DEF IdleDeploy, Script, DeployPCs
  <2>2. gambled \in BOOLEAN
    BY DEF DeployInit
  <2>3. DeployTypes
    BY <1>1, <2>1, <2>2 DEF DeployInit, DeployTypes, Image
  <2>4. UnitRuns
    BY DeployAssumption DEF DeployInit, UnitRuns, IdleDeploy, Rolling
  <2> QED
    BY <2>3, <2>4
<1>3. \A d \in Deploys : RollKnows(d)
  BY DEF DeployInit, RollKnows, At, Rolling, IdleDeploy
<1>4. ServedThroughout
  BY <1>0 DEF DeployInit, ServedThroughout, There, Healthy, NoReplica
<1> QED
  BY <1>2, <1>3, <1>4 DEF DeployIInv

\* A script goes on, and no other.
LEMMA StepIs ==
  ASSUME DeployTypes, NEW d \in Deploys, NEW pc \in DeployPCs, Step(d, pc)
  PROVE  /\ deploy' \in [Deploys -> Script]
         /\ deploy'[d].pc = pc
         /\ deploy'[d].old = deploy[d].old
         /\ deploy'[d].new = deploy[d].new
         /\ \A e \in Deploys \ {d} : deploy'[e] = deploy[e]
BY DEF DeployTypes, Script, Step

\* What a script says of itself before and after its roll matters to none.
LEMMA ScriptKeeps ==
  ASSUME DeployIInv, NEW d \in Deploys,
         UNCHANGED <<replica, pulled, gambled>>,
         unit' \in Image,
         deploy' \in [Deploys -> Script],
         UnitRuns',
         \A e \in Deploys : deploy'[e] # deploy[e] =>
             deploy'[e].pc \in {"stop", "run", "pull", "failed", "killed"}
  PROVE  DeployIInv'
<1>1. DeployTypes'
  BY DEF DeployIInv, DeployTypes
<1>2. ASSUME NEW e \in Deploys PROVE RollKnows(e)'
  <2>1. CASE deploy'[e] = deploy[e]
    <3>1. RollKnows(e) /\ gambled' = gambled /\ replica' = replica /\ pulled' = pulled
      BY DEF DeployIInv
    <3>2. There' = There
      BY <3>1 DEF There
    <3>3. At(e, "scale") \/ At(e, "wait") => gambled \/ Healthy(deploy[e].old)
      BY <3>1, Zenon DEF RollKnows
    <3>4. gambled' <=> gambled
      BY <3>1 DEF DeployIInv, DeployTypes
    <3>5. At(e, "scale")' \/ At(e, "wait")' => gambled' \/ Healthy(deploy[e].old)'
      BY <2>1, <3>1, <3>3, <3>4 DEF Healthy, At
    <3> QED
      BY <2>1, <3>1, <3>2, <3>5 DEF RollKnows, Rolling, Healthy, At
  <2>2. CASE deploy'[e] # deploy[e]
    BY <2>2 DEF RollKnows, Rolling, At
  <2> QED
    BY <2>1, <2>2
<1>3. ServedThroughout'
  BY DEF DeployIInv, ServedThroughout, Healthy
<1> QED
  BY <1>1, <1>2, <1>3 DEF DeployIInv

LEMMA SeeInactiveKeeps ==
  ASSUME DeployIInv, NEW d \in Deploys, SeeInactive(d)
  PROVE  DeployIInv'
<1>1. DeployTypes /\ UnitRuns
  BY DEF DeployIInv
<1>2. "stop" \in DeployPCs /\ Step(d, "stop")
  BY DEF SeeInactive, DeployPCs
<1>3. UnitRuns'
  BY <1>1, <1>2, StepIs DEF SeeInactive, UnitRuns, Rolling, At
<1> QED
  BY <1>1, <1>2, <1>3, StepIs, ScriptKeeps DEF SeeInactive, DeployTypes

LEMMA RunUnitKeeps ==
  ASSUME DeployIInv, NEW d \in Deploys, RunUnit(d)
  PROVE  DeployIInv'
<1>1. DeployTypes /\ UnitRuns
  BY DEF DeployIInv
<1>2. CASE unit = FirstImage
  <2>1. "pull" \in DeployPCs /\ Step(d, "pull") /\ unit' = d
    BY <1>2 DEF RunUnit, DeployPCs
  <2>2. UnitRuns'
    <3> SUFFICES ASSUME NEW e \in Deploys
                 PROVE  (Rolling(e) \/ deploy[e].pc \in {"pull", "list"} <=> unit = e)'
      BY DEF UnitRuns
    <3>1. CASE e = d
      <4>1. deploy'[d].pc = "pull"
        BY <1>1, <2>1, StepIs
      <4> QED
        BY <2>1, <3>1, <4>1
    <3>2. CASE e # d
      <4>1. deploy'[e] = deploy[e] /\ unit # e
        BY <1>1, <1>2, <2>1, <3>2, StepIs, DeployAssumption
      <4> QED
        BY <1>1, <2>1, <3>2, <4>1 DEF UnitRuns, Rolling
    <3> QED
      BY <3>1, <3>2
  <2>3. /\ deploy' \in [Deploys -> Script]
        /\ \A e \in Deploys : deploy'[e] # deploy[e] => deploy'[e].pc = "pull"
    BY <1>1, <2>1, StepIs
  <2>4. unit' \in Image /\ UNCHANGED <<replica, pulled, gambled>>
    BY <2>1 DEF RunUnit, Image
  <2> QED
    BY <2>2, <2>3, <2>4, ScriptKeeps
<1>3. CASE unit # FirstImage
  <2>1. "failed" \in DeployPCs /\ Step(d, "failed") /\ unit' = unit
    BY <1>3 DEF RunUnit, DeployPCs
  <2>2. UnitRuns'
    BY <1>1, <2>1, StepIs DEF RunUnit, UnitRuns, Rolling, At
  <2> QED
    BY <1>1, <2>1, <2>2, StepIs, ScriptKeeps DEF RunUnit, DeployTypes
<1> QED
  BY <1>2, <1>3

LEMMA StopUnitKeeps ==
  ASSUME DeployIInv, NEW d \in Deploys, StopUnit(d)
  PROVE  DeployIInv'
<1>1. DeployTypes /\ UnitRuns
  BY DEF DeployIInv
<1>2. unit # d
  BY <1>1 DEF StopUnit, UnitRuns, Rolling, At
<1>3. \A e \in Deploys : /\ deploy'[e] \in Script
                         /\ e = d => deploy'[e].pc = "run"
                         /\ e # d /\ e = unit => deploy'[e].pc = "killed"
                         /\ e # d /\ e # unit => deploy'[e] = deploy[e]
  BY <1>1 DEF StopUnit, DeployTypes, Script, DeployPCs
<1>4. deploy' \in [Deploys -> Script]
  BY <1>3 DEF StopUnit
<1>5. UnitRuns'
  BY <1>1, <1>3, DeployAssumption DEF StopUnit, UnitRuns, Rolling
<1> QED
  BY <1>3, <1>4, <1>5, ScriptKeeps DEF StopUnit, Image

\* The roll is one deploy's: what the others know stays true of it.
LEMMA PlacesKeep ==
  ASSUME DeployIInv, NEW d \in Deploys, unit = d,
         replica' \in [Numbers -> Replica],
         pulled' \in Image, gambled' \in BOOLEAN,
         deploy' \in [Deploys -> Script],
         \A e \in Deploys \ {d} : deploy'[e] = deploy[e],
         unit' \in {d, FirstImage},
         deploy'[d].pc \in {"pull", "list", "scale", "wait", "drain", "again",
                            "wait again"} <=> unit' = d,
         RollKnows(d)', ServedThroughout'
  PROVE  DeployIInv'
<1>1. ASSUME NEW e \in Deploys, e # d PROVE ~Rolling(e) /\ deploy[e].pc \notin {"pull", "list"}
  BY <1>1 DEF DeployIInv, UnitRuns
<1>2. UnitRuns'
  <2> SUFFICES ASSUME NEW e \in Deploys
               PROVE  deploy'[e].pc \in {"scale", "wait", "drain", "again", "wait again"}
                         \/ deploy'[e].pc \in {"pull", "list"} <=> unit' = e
    BY DEF UnitRuns, Rolling
  <2>1. CASE e = d
    BY <2>1
  <2>2. CASE e # d
    BY <1>1, <2>2, DeployAssumption DEF Rolling
  <2> QED
    BY <2>1, <2>2
<1>3. ASSUME NEW e \in Deploys, e # d PROVE RollKnows(e)'
  BY <1>1, <1>3 DEF RollKnows, Rolling, At
<1>4. DeployTypes'
  BY DEF DeployTypes, Image
<1> QED
  BY <1>2, <1>3, <1>4 DEF DeployIInv

LEMMA RollIsOwn ==
  ASSUME DeployIInv, NEW d \in Deploys,
         deploy[d].pc \in {"pull", "list", "scale", "wait", "drain", "again",
                           "wait again"}
  PROVE  unit = d /\ DeployTypes /\ RollKnows(d) /\ ServedThroughout
BY DEF DeployIInv, UnitRuns, Rolling

LEMMA KillDeployKeeps ==
  ASSUME DeployIInv, NEW d \in Deploys, KillDeploy(d)
  PROVE  DeployIInv'
<1>1. DeployTypes /\ ServedThroughout
  BY DEF DeployIInv
<1>2. "killed" \in DeployPCs /\ Step(d, "killed") /\ unit = d /\ unit' = FirstImage
  BY DEF KillDeploy, End, DeployPCs
<1>3. RollKnows(d)'
  BY <1>1, <1>2, StepIs DEF RollKnows, Rolling, At
<1>4. ServedThroughout'
  BY <1>1 DEF ServedThroughout, KillDeploy, Healthy
<1> QED
  BY <1>1, <1>2, <1>3, <1>4, StepIs, PlacesKeep, DeployAssumption DEF KillDeploy, DeployTypes

LEMMA PullImagesKeeps ==
  ASSUME DeployIInv, NEW d \in Deploys, PullImages(d)
  PROVE  DeployIInv'
<1>1. unit = d /\ DeployTypes /\ RollKnows(d) /\ ServedThroughout
  BY RollIsOwn DEF PullImages, At
<1>2. UNCHANGED <<replica, gambled>>
  BY DEF PullImages
<1>3. ServedThroughout'
  BY <1>1, <1>2 DEF ServedThroughout, Healthy
<1>4. CASE pulled' = d /\ Step(d, "list") /\ UNCHANGED unit
  <2>1. "list" \in DeployPCs
    BY DEF DeployPCs
  <2>2. RollKnows(d)'
    BY <1>1, <1>4, <2>1, StepIs DEF RollKnows, Rolling, At
  <2> QED
    BY <1>1, <1>2, <1>3, <1>4, <2>1, <2>2, StepIs, PlacesKeep DEF DeployTypes, Image
<1>5. CASE End(d, "failed") /\ UNCHANGED pulled
  <2>1. "failed" \in DeployPCs /\ Step(d, "failed") /\ unit' = FirstImage
    BY <1>5 DEF DeployPCs, End
  <2>2. RollKnows(d)'
    BY <1>1, <2>1, StepIs DEF RollKnows, Rolling, At
  <2> QED
    BY <1>1, <1>2, <1>3, <1>5, <2>1, <2>2, StepIs, PlacesKeep, DeployAssumption DEF DeployTypes
<1> QED
  BY <1>4, <1>5 DEF PullImages

LEMMA KeepOneKeeps ==
  ASSUME DeployIInv, NEW d \in Deploys, KeepOne(d)
  PROVE  DeployIInv'
<1>1. unit = d /\ DeployTypes /\ RollKnows(d) /\ ServedThroughout
  BY RollIsOwn DEF KeepOne, At
<1>2. PICK n \in There :
          /\ deploy' = [deploy EXCEPT ![d] = [pc |-> "scale", old |-> n, new |-> 0]]
          /\ replica' = Removed(There \ {n})
          /\ gambled' = (gambled \/ (~Healthy(n) /\ \E m \in There : Healthy(m)))
  BY DEF KeepOne
<1>3. n \in 1..2
  BY DEF There, Numbers
<1>4. /\ deploy' \in [Deploys -> Script]
      /\ deploy'[d].pc = "scale" /\ deploy'[d].old = n
      /\ \A e \in Deploys \ {d} : deploy'[e] = deploy[e]
  <2>1. [pc |-> "scale", old |-> n, new |-> 0] \in Script
    BY <1>3 DEF Script, DeployPCs
  <2> QED
    BY <1>1, <1>2, <2>1 DEF DeployTypes
<1>5. /\ replica' \in [Numbers -> Replica]
      /\ replica'[n] = replica[n]
      /\ \A m \in Numbers \ {n} : replica'[m] = NoReplica
  BY <1>1, <1>2, <1>3 DEF Removed, There, DeployTypes, Replica, NoReplica, Image, Numbers
<1>6. There' = {n}
  BY <1>2, <1>3, <1>5 DEF There, Numbers
<1>7. gambled' \in BOOLEAN /\ (gambled' \/ Healthy(n))
  <2>1. gambled' \in BOOLEAN
    BY <1>1, <1>2, Zenon DEF DeployTypes
  <2>2. ASSUME ~gambled' PROVE Healthy(n)
    <3>1. ~gambled /\ (Healthy(n) \/ ~\E m \in There : Healthy(m))
      BY <1>2, <2>2, Zenon
    <3>2. PICK m \in Numbers : Healthy(m)
      BY <1>1, <3>1 DEF ServedThroughout
    <3>3. m \in There
      BY <3>2 DEF There, NoReplica, Healthy
    <3> QED
      BY <3>1, <3>2, <3>3
  <2> QED
    BY <2>1, <2>2
<1>8. RollKnows(d)'
  BY <1>1, <1>4, <1>5, <1>6, <1>7 DEF RollKnows, Rolling, At, Healthy, KeepOne
<1>9. ServedThroughout'
  BY <1>3, <1>5, <1>7 DEF ServedThroughout, Healthy, Numbers
<1> QED
  BY <1>1, <1>4, <1>5, <1>7, <1>8, <1>9, PlacesKeep DEF KeepOne, DeployTypes

LEMMA BootServiceKeeps ==
  ASSUME DeployIInv, NEW d \in Deploys, BootService(d)
  PROVE  DeployIInv'
<1>1. unit = d /\ DeployTypes /\ RollKnows(d) /\ ServedThroughout
  BY RollIsOwn DEF BootService, At
<1>2. PICK pc \in {"done", "failed"} : Step(d, pc) /\ unit' = FirstImage
  BY DEF BootService, End
<1>3. pc \in DeployPCs
  BY DEF DeployPCs
<1>4. replica' \in [Numbers -> Replica]
  BY <1>1 DEF BootService, DeployTypes, Replica, Fresh, Image
<1>5. gambled
  BY <1>1 DEF BootService, ServedThroughout, There, NoReplica, Healthy
<1>6. ServedThroughout'
  BY <1>5 DEF ServedThroughout, BootService
<1>7. RollKnows(d)'
  BY <1>1, <1>2, <1>3, StepIs DEF RollKnows, Rolling, At
<1> QED
  BY <1>1, <1>2, <1>3, <1>4, <1>6, <1>7, StepIs, PlacesKeep, DeployAssumption
  DEF BootService, DeployTypes

\* Scaling up leaves what is there, and makes the rest of the pulled image.
LEMMA ScaledUp ==
  ASSUME DeployTypes, replica' = ScaledToTwo
  PROVE  /\ replica' \in [Numbers -> Replica]
         /\ There' = Numbers
         /\ \A n \in There : replica'[n] = replica[n]
         /\ \A n \in Numbers \ There : replica'[n].image = pulled
<1>1. Fresh \in Replica /\ Fresh # NoReplica /\ Fresh.image = pulled
  BY DEF DeployTypes, Fresh, Replica, NoReplica
<1> QED
  BY <1>1 DEF DeployTypes, ScaledToTwo, There

LEMMA StartSecondKeeps ==
  ASSUME DeployIInv, NEW d \in Deploys, StartSecond(d)
  PROVE  DeployIInv'
<1>1. unit = d /\ DeployTypes /\ RollKnows(d) /\ ServedThroughout
  BY RollIsOwn DEF StartSecond, At
<1> DEFINE old == deploy[d].old
<1>2. /\ pulled = d /\ old \in There /\ There = {old}
      /\ gambled \/ Healthy(old)
  BY <1>1 DEF RollKnows, StartSecond, At, Rolling
<1>3. old \in 1..2 /\ 3 - old \in 1..2 /\ 3 - old # old
  BY <1>2 DEF There, Numbers
<1>4. /\ deploy' \in [Deploys -> Script]
      /\ deploy'[d].pc = "wait" /\ deploy'[d].old = old /\ deploy'[d].new = 3 - old
      /\ \A e \in Deploys \ {d} : deploy'[e] = deploy[e]
  <2>1. deploy' = [deploy EXCEPT ![d] = [pc |-> "wait", old |-> old, new |-> 3 - old]]
    BY <1>1 DEF StartSecond, DeployTypes, Script
  <2>2. [pc |-> "wait", old |-> old, new |-> 3 - old] \in Script
    BY <1>3 DEF Script, DeployPCs
  <2> QED
    BY <1>1, <2>1, <2>2 DEF DeployTypes
<1>5. replica' = ScaledToTwo /\ UNCHANGED <<pulled, unit, gambled, kills>>
  BY DEF StartSecond
<1> HIDE DEF old
<1>6. There' = Numbers /\ replica'[old] = replica[old] /\ replica'[3 - old].image = d
  BY <1>1, <1>2, <1>3, <1>5, ScaledUp DEF Numbers
<1>7. RollKnows(d)'
  BY <1>2, <1>3, <1>4, <1>5, <1>6 DEF RollKnows, Rolling, At, Healthy, Numbers
<1>8. ServedThroughout'
  BY <1>2, <1>3, <1>5, <1>6 DEF ServedThroughout, Healthy, Numbers
<1> QED
  BY <1>1, <1>4, <1>5, <1>7, <1>8, ScaledUp, PlacesKeep DEF DeployTypes

LEMMA FindHealthyKeeps ==
  ASSUME DeployIInv, NEW d \in Deploys, FindHealthy(d)
  PROVE  DeployIInv'
<1>1. unit = d /\ DeployTypes /\ RollKnows(d) /\ ServedThroughout
  BY RollIsOwn DEF FindHealthy, At
<1>2. "drain" \in DeployPCs /\ Step(d, "drain")
  BY DEF FindHealthy, DeployPCs
<1>3. RollKnows(d)'
  BY <1>1, <1>2, StepIs DEF RollKnows, FindHealthy, Rolling, At, Healthy, There
<1>4. ServedThroughout'
  BY <1>1 DEF ServedThroughout, FindHealthy, Healthy
<1> QED
  BY <1>1, <1>2, <1>3, <1>4, StepIs, PlacesKeep DEF FindHealthy, DeployTypes

\* What docker rm leaves.
LEMMA RemovedIs ==
  ASSUME DeployTypes, NEW ns \in SUBSET Numbers, replica' = Removed(ns)
  PROVE  /\ replica' \in [Numbers -> Replica]
         /\ \A n \in Numbers \ ns : replica'[n] = replica[n]
         /\ \A n \in ns : replica'[n] = NoReplica
         /\ There' = There \ ns
<1>1. NoReplica \in Replica
  BY DEF NoReplica, Replica, Image
<1> QED
  BY <1>1 DEF DeployTypes, Removed, There

LEMMA FailHealthKeeps ==
  ASSUME DeployIInv, NEW d \in Deploys, FailHealth(d)
  PROVE  DeployIInv'
<1>1. unit = d /\ DeployTypes /\ RollKnows(d) /\ ServedThroughout
  BY RollIsOwn DEF FailHealth, At
<1>2. "failed" \in DeployPCs /\ Step(d, "failed") /\ unit' = FirstImage
  BY DEF FailHealth, End, DeployPCs
<1>3. /\ deploy[d].old \in Numbers /\ deploy[d].new \in Numbers
      /\ deploy[d].old # deploy[d].new
      /\ gambled \/ Healthy(deploy[d].old)
  BY <1>1 DEF FailHealth, RollKnows, At, Numbers
<1>4. replica' = Removed({deploy[d].new}) /\ gambled' = gambled /\ pulled' = pulled
  BY DEF FailHealth
<1>5. replica' \in [Numbers -> Replica] /\ replica'[deploy[d].old] = replica[deploy[d].old]
  <2>1. {deploy[d].new} \in SUBSET Numbers /\ deploy[d].old \in Numbers \ {deploy[d].new}
    BY <1>3
  <2> QED
    BY <1>1, <1>4, <2>1, RemovedIs
<1>6. RollKnows(d)'
  BY <1>1, <1>2, StepIs DEF RollKnows, Rolling, At
<1>7. ServedThroughout'
  BY <1>3, <1>4, <1>5 DEF ServedThroughout, Healthy
<1> QED
  BY <1>1, <1>2, <1>4, <1>5, <1>6, <1>7, StepIs, PlacesKeep, DeployAssumption DEF DeployTypes

LEMMA DrainOldKeeps ==
  ASSUME DeployIInv, NEW d \in Deploys, DrainOld(d)
  PROVE  DeployIInv'
<1>1. unit = d /\ DeployTypes /\ RollKnows(d) /\ ServedThroughout
  BY RollIsOwn DEF DrainOld, At
<1> DEFINE old == deploy[d].old
           new == deploy[d].new
<1>2. /\ pulled = d /\ old \in Numbers /\ new = 3 - old /\ There = Numbers
      /\ replica[new].image = d /\ Healthy(new)
  BY <1>1 DEF DrainOld, RollKnows, At, Rolling
<1>3. new \in Numbers /\ new # old /\ Numbers = {old, new}
  BY <1>2 DEF Numbers
<1>4. replica' = Removed({old}) /\ gambled' = gambled /\ pulled' = pulled
  BY DEF DrainOld
<1> HIDE DEF old, new
<1>5. replica' \in [Numbers -> Replica] /\ replica'[new] = replica[new] /\ There' = {new}
  <2>1. {old} \in SUBSET Numbers /\ new \in Numbers \ {old}
    BY <1>2, <1>3
  <2> QED
    BY <1>1, <1>2, <1>3, <1>4, <2>1, RemovedIs
<1>6. ServedThroughout'
  BY <1>2, <1>3, <1>5 DEF ServedThroughout, Healthy
<1>7. CASE new = 1
  <2>1. "done" \in DeployPCs /\ Step(d, "done") /\ unit' = FirstImage
    BY <1>7 DEF DrainOld, End, DeployPCs, new
  <2>2. RollKnows(d)'
    BY <1>1, <2>1, StepIs DEF RollKnows, Rolling, At
  <2> QED
    BY <1>1, <2>1, <2>2, <1>4, <1>5, <1>6, StepIs, PlacesKeep, DeployAssumption DEF DeployTypes
<1>8. CASE new # 1
  <2>1. "again" \in DeployPCs /\ Step(d, "again") /\ unit' = unit
    BY <1>8 DEF DrainOld, DeployPCs, new
  <2>2. new = 2
    BY <1>3, <1>8 DEF Numbers
  <2>3. replica'[2] = [image |-> d, health |-> "healthy"]
    BY <1>1, <1>2, <1>3, <1>5, <2>2 DEF DeployTypes, Replica, Healthy
  <2>4. RollKnows(d)'
    BY <1>1, <1>2, <1>4, <1>5, <2>1, <2>2, <2>3, StepIs DEF RollKnows, Rolling, At
  <2> QED
    BY <1>1, <2>1, <2>4, <1>4, <1>5, <1>6, StepIs, PlacesKeep DEF DeployTypes
<1> QED
  BY <1>7, <1>8

LEMMA StartFirstKeeps ==
  ASSUME DeployIInv, NEW d \in Deploys, StartFirst(d)
  PROVE  DeployIInv'
<1>1. unit = d /\ DeployTypes /\ RollKnows(d) /\ ServedThroughout
  BY RollIsOwn DEF StartFirst, At
<1>2. pulled = d /\ There = {2} /\ replica[2] = [image |-> d, health |-> "healthy"]
  BY <1>1 DEF RollKnows, StartFirst, At, Rolling
<1>3. /\ deploy' \in [Deploys -> Script]
      /\ deploy'[d].pc = "wait again"
      /\ \A e \in Deploys \ {d} : deploy'[e] = deploy[e]
  <2>1. deploy' = [deploy EXCEPT ![d] = [pc |-> "wait again", old |-> 2, new |-> 1]]
    BY <1>1 DEF StartFirst, DeployTypes, Script
  <2>2. [pc |-> "wait again", old |-> 2, new |-> 1] \in Script
    BY DEF Script, DeployPCs
  <2> QED
    BY <1>1, <2>1, <2>2 DEF DeployTypes
<1>4. replica' = ScaledToTwo /\ UNCHANGED <<pulled, unit, gambled, kills>>
  BY DEF StartFirst
<1>5. There' = Numbers /\ replica'[2] = replica[2] /\ replica'[1].image = d
  BY <1>1, <1>2, <1>4, ScaledUp DEF Numbers
<1>6. RollKnows(d)'
  BY <1>2, <1>3, <1>4, <1>5 DEF RollKnows, Rolling, At
<1>7. ServedThroughout'
  BY <1>2, <1>5 DEF ServedThroughout, Healthy, Numbers
<1> QED
  BY <1>1, <1>3, <1>4, <1>6, <1>7, ScaledUp, PlacesKeep DEF DeployTypes

\* What the end of a roll leaves.
LEMMA RollEnds ==
  ASSUME DeployIInv, NEW d \in Deploys, EndRoll(d)
  PROVE  \E n \in Numbers :
            /\ replica'[n] = [image |-> d, health |-> "healthy"]
            /\ \A m \in Numbers \ {n} : replica'[m] = NoReplica
            /\ replica' \in [Numbers -> Replica]
<1>1. DeployTypes /\ RollKnows(d)
  BY DEF DeployIInv
<1>2. There = Numbers /\ replica[2] = [image |-> d, health |-> "healthy"]
        /\ replica[1].image = d
  BY <1>1 DEF EndRoll, RollKnows, At
<1>3. CASE Healthy(1)
  <2>1. replica' = ScaledToOne
    BY <1>3 DEF EndRoll
  <2>2. replica[1] = [image |-> d, health |-> "healthy"]
    BY <1>1, <1>2, <1>3 DEF Healthy, DeployTypes, Replica, Numbers
  <2> QED
    BY <1>1, <1>2, <2>1, <2>2 DEF ScaledToOne, Numbers, DeployTypes, Replica, NoReplica, Image
<1>4. CASE ~Healthy(1)
  <2>1. replica' = Removed({1})
    BY <1>4 DEF EndRoll
  <2>2. {1} \subseteq Numbers
    BY DEF Numbers
  <2> QED
    BY <1>1, <1>2, <2>1, <2>2, RemovedIs DEF Numbers
<1> QED
  BY <1>3, <1>4

LEMMA EndRollKeeps ==
  ASSUME DeployIInv, NEW d \in Deploys, EndRoll(d)
  PROVE  DeployIInv'
<1>1. unit = d /\ DeployTypes /\ RollKnows(d) /\ ServedThroughout
  BY RollIsOwn DEF EndRoll, At
<1>2. "done" \in DeployPCs /\ Step(d, "done") /\ unit' = FirstImage
  BY DEF EndRoll, End, DeployPCs
<1>3. RollKnows(d)'
  BY <1>1, <1>2, StepIs DEF RollKnows, Rolling, At
<1>4. ServedThroughout'
  <2>1. PICK n \in Numbers : replica'[n] = [image |-> d, health |-> "healthy"]
    BY RollEnds
  <2> QED
    BY <2>1 DEF ServedThroughout, Healthy
<1> QED
  BY <1>1, <1>2, <1>3, <1>4, StepIs, RollEnds, PlacesKeep, DeployAssumption
  DEF EndRoll, DeployTypes

LEMMA SettleKeeps ==
  ASSUME DeployIInv, NEW n \in Numbers, Settle(n)
  PROVE  DeployIInv'
<1>0. PICK h \in {"healthy", "unhealthy"} :
        replica' = [replica EXCEPT ![n] = [replica[n] EXCEPT !.health = h]]
  BY DEF Settle
<1>1. /\ replica[n].health = "starting"
      /\ UNCHANGED <<pulled, unit, deploy, gambled, kills>>
      /\ DeployTypes
  BY DEF Settle, DeployIInv
<1>2. /\ replica' \in [Numbers -> Replica]
      /\ replica'[n].image = replica[n].image /\ replica'[n].health = h
      /\ \A m \in Numbers \ {n} : replica'[m] = replica[m]
  BY <1>0, <1>1 DEF DeployTypes, Replica
<1>3. There' = There
  BY <1>0, <1>1, <1>2 DEF There, NoReplica
<1>4. \A m \in Numbers : Healthy(m) => replica'[m] = replica[m]
  BY <1>1, <1>2 DEF Healthy
<1>5. DeployTypes' /\ UnitRuns'
  BY <1>1, <1>2 DEF DeployIInv, DeployTypes, UnitRuns, Rolling
<1>6. ServedThroughout'
  BY <1>1, <1>4 DEF DeployIInv, ServedThroughout, Healthy
<1>7. ASSUME NEW d \in Deploys PROVE RollKnows(d)'
  <2>1. RollKnows(d)
    BY DEF DeployIInv
  <2>2. deploy[d].old \in There => deploy[d].old \in Numbers
    BY DEF There
  <2>3. \A m \in Numbers : replica'[m].image = replica[m].image
    BY <1>2
  <2>4. \A m \in Numbers : Healthy(m) => Healthy(m)'
    BY <1>4 DEF Healthy
  <2>5. At(d, "wait") \/ At(d, "drain") =>
           deploy[d].old \in Numbers /\ deploy[d].new \in Numbers
    <3>1. At(d, "wait") \/ At(d, "drain") =>
             deploy[d].old \in Numbers /\ deploy[d].new = 3 - deploy[d].old
      BY <2>1, Zenon DEF RollKnows
    <3> QED
      BY <3>1 DEF Numbers
  <2>6. 1 \in Numbers /\ 2 \in Numbers
    BY DEF Numbers
  <2>7. replica[2] = [image |-> d, health |-> "healthy"] => replica'[2] = replica[2]
    BY <1>4, <2>6 DEF Healthy
  <2> QED
    BY <1>1, <1>3, <2>1, <2>2, <2>3, <1>4, <2>5, <2>6, <2>7 DEF RollKnows, Rolling, At, Healthy
<1> QED
  BY <1>5, <1>6, <1>7 DEF DeployIInv

LEMMA DeployStepKeeps == DeployIInv /\ [DeployNext]_deployVars => DeployIInv'
<1> SUFFICES ASSUME DeployIInv, [DeployNext]_deployVars PROVE DeployIInv'
  OBVIOUS
<1>1. CASE UNCHANGED deployVars
  <2>1. /\ UNCHANGED <<replica, pulled, gambled>>
        /\ unit' = unit /\ deploy' = deploy
        /\ DeployTypes /\ UnitRuns
    BY <1>1 DEF deployVars, DeployIInv
  <2>2. UnitRuns'
    BY <2>1 DEF UnitRuns, Rolling
  <2>3. unit' \in Image /\ deploy' \in [Deploys -> Script]
    BY <2>1 DEF DeployTypes
  <2>4. CASE Deploys = {}
    BY <2>1, <2>2, <2>4 DEF DeployIInv, DeployTypes, ServedThroughout, Healthy
  <2>5. CASE Deploys # {}
    BY <2>1, <2>2, <2>3, <2>5, ScriptKeeps
  <2> QED
    BY <2>4, <2>5
<1> QED
  BY <1>1, SeeInactiveKeeps, StopUnitKeeps, RunUnitKeeps, KillDeployKeeps, PullImagesKeeps,
     KeepOneKeeps, BootServiceKeeps, StartSecondKeeps, FindHealthyKeeps, FailHealthKeeps,
     DrainOldKeeps, StartFirstKeeps, EndRollKeeps, SettleKeeps
  DEF DeployNext, AllEnded

\* Of a rolling deployment: its unit runs alone, a healthy replica serves
\* throughout, a roll that fails keeps what it found, one that succeeds leaves the new.
THEOREM DeployCorrect == DeploySpec => DeployRules
<1>1. DeployIInv => DeployTypeOK /\ ServedThroughout
  <2> SUFFICES ASSUME DeployIInv PROVE DeployTypeOK /\ ServedThroughout
    OBVIOUS
  <2>1. DeployTypes /\ UnitRuns /\ ServedThroughout
    BY DEF DeployIInv
  <2>2. ASSUME NEW d \in Deploys, At(d, "wait") PROVE There = {deploy[d].old, deploy[d].new}
    <3>1. deploy[d].old \in Numbers /\ deploy[d].new = 3 - deploy[d].old /\ There = Numbers
      BY <2>2, Zenon DEF DeployIInv, RollKnows
    <3> QED
      BY <3>1 DEF Numbers
  <2> QED
    BY <2>1, <2>2 DEF DeployTypes, DeployTypeOK, UnitRuns, Replica, Image
<1>2. ASSUME DeployIInv, [DeployNext]_deployVars, NEW d \in Deploys, Rolling(d),
             deploy'[d].pc \in {"failed", "done"}
      PROVE  FailHealth(d) \/ DrainOld(d) \/ EndRoll(d)
  <2>0. DeployTypes /\ unit = d
    BY <1>2 DEF DeployIInv, UnitRuns
  <2>1. ASSUME NEW e \in Deploys, SeeInactive(e) \/ StopUnit(e) \/ RunUnit(e) \/ KillDeploy(e)
        PROVE  FALSE
    <3>1. CASE StopUnit(e)
      <4>1. e # d
        BY <1>2, <3>1 DEF StopUnit, At, Rolling
      <4>2. deploy'[d].pc = "killed"
        BY <2>0, <3>1, <4>1 DEF StopUnit, DeployTypes, Script
      <4> QED
        BY <1>2, <4>2
    <3>2. CASE SeeInactive(e)
      BY <1>2, <2>0, <3>2, StepIs DEF SeeInactive, DeployPCs, At, Rolling
    <3>3. CASE KillDeploy(e)
      BY <1>2, <2>0, <3>3, StepIs DEF KillDeploy, End, DeployPCs, Rolling
    <3>4. CASE RunUnit(e)
      <4>1. e # d
        BY <1>2, <3>4 DEF RunUnit, At, Rolling
      <4>2. Step(e, "pull") \/ Step(e, "failed")
        BY <3>4 DEF RunUnit
      <4> QED
        BY <1>2, <2>0, <4>1, <4>2, StepIs DEF DeployPCs, Rolling
    <3> QED
      BY <2>1, <3>1, <3>2, <3>3, <3>4
  <2>2. ASSUME NEW e \in Deploys, PullImages(e) \/ KeepOne(e) \/ BootService(e) PROVE FALSE
    BY <1>2, <2>0, <2>2 DEF PullImages, KeepOne, BootService, At, Rolling, DeployIInv, UnitRuns
  <2>3. ASSUME NEW e \in Deploys, StartSecond(e) \/ FindHealthy(e) \/ StartFirst(e) PROVE FALSE
    <3>1. e = d
      BY <2>0, <2>3, RollIsOwn, <1>2 DEF StartSecond, FindHealthy, StartFirst, At
    <3>2. ASSUME FindHealthy(d) PROVE FALSE
      BY <1>2, <2>0, <3>2, StepIs DEF FindHealthy, DeployPCs
    <3>3. ASSUME StartSecond(d) PROVE FALSE
      BY <1>2, <2>0, <3>3 DEF StartSecond, DeployTypes
    <3>4. ASSUME StartFirst(d) PROVE FALSE
      BY <1>2, <2>0, <3>4 DEF StartFirst, DeployTypes
    <3> QED
      BY <2>3, <3>1, <3>2, <3>3, <3>4
  <2>4. ASSUME NEW e \in Deploys, FailHealth(e) \/ DrainOld(e) \/ EndRoll(e) PROVE e = d
    BY <2>0, <2>4, RollIsOwn, <1>2 DEF FailHealth, DrainOld, EndRoll, At
  <2>5. ASSUME UNCHANGED deploy PROVE FALSE
    BY <1>2, <2>5 DEF Rolling
  <2> QED
    BY <1>2, <2>1, <2>2, <2>3, <2>4, <2>5 DEF DeployNext, Settle, AllEnded, deployVars
<1>3. ASSUME DeployIInv, [DeployNext]_deployVars, NEW d \in Deploys, Rolling(d),
             deploy'[d].pc = "failed"
      PROVE  /\ replica'[deploy[d].old] = replica[deploy[d].old]
             /\ \A n \in Numbers \ {deploy[d].old} : replica'[n] = NoReplica
  <2>0. DeployTypes /\ RollKnows(d)
    BY <1>3 DEF DeployIInv
  <2>1. ASSUME DrainOld(d) \/ EndRoll(d) PROVE FALSE
    <3>1. Step(d, "again") \/ Step(d, "done")
      BY <2>1 DEF DrainOld, EndRoll, End
    <3> QED
      BY <1>3, <2>0, <3>1, StepIs DEF DeployPCs
  <2>2. FailHealth(d)
    BY <1>2, <1>3, <2>1
  <2>3. /\ deploy[d].old \in Numbers /\ deploy[d].new = 3 - deploy[d].old
        /\ replica' = Removed({deploy[d].new})
    BY <2>0, <2>2 DEF FailHealth, RollKnows, At
  <2>4. /\ {deploy[d].new} \in SUBSET Numbers
        /\ Numbers = {deploy[d].old, deploy[d].new}
        /\ deploy[d].old # deploy[d].new
    BY <2>3 DEF Numbers
  <2> QED
    BY <2>0, <2>3, <2>4, RemovedIs
<1>4. ASSUME DeployIInv, [DeployNext]_deployVars, NEW d \in Deploys, Rolling(d),
             deploy'[d].pc = "done"
      PROVE  \E n \in Numbers :
                /\ replica'[n] = [image |-> d, health |-> "healthy"]
                /\ \A m \in Numbers \ {n} : replica'[m] = NoReplica
  <2>0. DeployTypes /\ RollKnows(d)
    BY <1>4 DEF DeployIInv
  <2>1. ASSUME FailHealth(d) PROVE FALSE
    BY <1>4, <2>0, <2>1, StepIs DEF FailHealth, End, DeployPCs
  <2>2. CASE DrainOld(d)
    <3>1. /\ deploy[d].old \in Numbers /\ deploy[d].new = 3 - deploy[d].old
          /\ replica[deploy[d].new].image = d
          /\ Healthy(deploy[d].new)
          /\ replica' = Removed({deploy[d].old})
      BY <2>0, <2>2 DEF DrainOld, RollKnows, At
    <3>2. deploy[d].new \in Numbers /\ Numbers = {deploy[d].old, deploy[d].new}
      BY <3>1 DEF Numbers
    <3>3. replica[deploy[d].new] = [image |-> d, health |-> "healthy"]
      BY <2>0, <3>1, <3>2 DEF DeployTypes, Replica, Healthy
    <3>4. deploy[d].new # deploy[d].old /\ {deploy[d].old} \in SUBSET Numbers
      BY <3>1 DEF Numbers
    <3>5. replica'[deploy[d].new] = replica[deploy[d].new]
            /\ replica'[deploy[d].old] = NoReplica
      BY <2>0, <3>1, <3>2, <3>4, RemovedIs
    <3> QED
      BY <3>2, <3>3, <3>5
  <2>3. CASE EndRoll(d)
    BY <1>4, <2>3, RollEnds
  <2> QED
    BY <1>2, <1>4, <2>1, <2>2, <2>3
<1>5. DeployIInv /\ [DeployNext]_deployVars =>
        /\ [\A d \in Deploys :
              Rolling(d) /\ deploy'[d].pc = "failed" =>
                 LET old == deploy[d].old
                 IN  /\ replica'[old] = replica[old]
                     /\ \A n \in Numbers \ {old} : replica'[n] = NoReplica]_deployVars
        /\ [\A d \in Deploys :
              Rolling(d) /\ deploy'[d].pc = "done" =>
                 \E n \in Numbers :
                    /\ replica'[n] = [image |-> d, health |-> "healthy"]
                    /\ \A m \in Numbers \ {n} : replica'[m] = NoReplica]_deployVars
  BY <1>3, <1>4
<1> QED
  BY <1>1, <1>5, DeployInitially, DeployStepKeeps, PTL
  DEF DeploySpec, DeployRules, FailureKeepsOld, DoneIsRolled

(***************************************************************************)
(* Quotas.  Between two hits that got one count a window began, and the    *)
(* first hits of two windows are a window apart: of three hits of one      *)
(* count the last comes more than a window after the first.                *)
(***************************************************************************)

Counted(h) == hit[h].count > 0

Hit == [pc : {"new", "expire", "ttl", "allowed", "refused", "degraded"},
        count : Nat, at : Nat, until : Nat, unset : BOOLEAN]

QuotaTypes ==
    /\ kept \in {"memory", "redis"}
    /\ counter \in [count : Nat, expires : Nat]
    /\ clock \in 0..MaxClock
    /\ hit \in [Hits -> Hit]
    /\ stuck \in BOOLEAN

HitPlaces ==
    \A h \in Hits :
        /\ hit[h].pc = "new" => hit[h].count = 0
        /\ hit[h].pc \in {"expire", "ttl", "allowed", "refused"} => Counted(h)
        /\ hit[h].pc = "expire" =>
              /\ hit[h].count = 1 /\ counter.expires = Unending
              /\ \A g \in Hits : hit[g].pc = "expire" => g = h
        /\ hit[h].pc = "allowed" => hit[h].count <= QuotaLimit
        /\ hit[h].at <= clock

Begun == {h \in Hits : hit[h].pc # "new"}

CounterOK ==
    /\ counter.count = 0 <=> counter.expires = 0
    /\ counter.expires <= Unending
    /\ kept = "memory" => counter.expires < Unending
    /\ counter.count <= Cardinality(Begun)

\* Whoever was counted was counted in a window that is not over yet or is over
\* by now, and a window lasts at least as long as the policy says.
WindowsLast ==
    \A h \in Hits : Counted(h) =>
        /\ counter.expires > 0 => hit[h].at < counter.expires
        /\ counter.expires = 0 => hit[h].at < clock
        /\ hit[h].count = 1 =>
              /\ counter.expires > 0 => hit[h].at + Window <= counter.expires
              /\ counter.expires = 0 => hit[h].at + Window <= clock

\* The first of the present window came after all that have higher counts.
FirstOfWindow ==
    counter.count > 0 =>
        \E f \in Hits :
           /\ hit[f].count = 1
           /\ \A h \in Hits : hit[h].count > counter.count => hit[h].at < hit[f].at

\* The first hits of two windows are a window apart; between two hits of one
\* count a window began.
WindowsApart ==
    \A g, h \in Hits :
        g # h /\ hit[g].count = hit[h].count /\ Counted(g) /\ hit[g].at <= hit[h].at =>
           /\ hit[g].count = 1 => hit[g].at + Window <= hit[h].at
           /\ \E f \in Hits : hit[f].count = 1 /\ hit[g].at < hit[f].at /\ hit[f].at <= hit[h].at

RetryFollows ==
    \A h \in Hits :
        hit[h].pc = "refused" /\ ~hit[h].unset =>
           /\ hit[h].until < Unending
           /\ \/ counter.expires = hit[h].until
              \/ counter.expires = 0 /\ hit[h].until <= clock
              \/ \E f \in Hits : hit[f].at >= hit[h].until /\ hit[f].count = 1

QuotaIInv ==
    /\ QuotaTypes
    /\ HitPlaces
    /\ CounterOK
    /\ WindowsLast
    /\ FirstOfWindow
    /\ WindowsApart
    /\ RetryFollows
    /\ EveryWindowEnds

LEMMA QuotaNumbers ==
  ASSUME QuotaTypes
  PROVE  /\ clock \in Nat /\ Window \in Nat \ {0} /\ QuotaLimit \in Nat \ {0}
         /\ Unending \in Nat /\ clock + Window < Unending
BY QuotaAssumption DEF QuotaTypes, Unending

LEMMA CurrentIs ==
  ASSUME QuotaTypes, CounterOK
  PROVE  /\ Current.count \in Nat
         /\ Current.count = 0 => counter.expires <= clock
         /\ Current.count # 0 => Current = counter /\ counter.expires > clock
BY QuotaNumbers DEF QuotaTypes, CounterOK, Current, NoCounter

LEMMA BegunIsFinite ==
  IsFiniteSet(Begun) /\ Cardinality(Begun) \in Nat /\ Cardinality(Begun) <= Cardinality(Hits)
BY QuotaAssumption, FS_Subset, FS_CardinalityType DEF Begun

LEMMA QuotaInitially == QuotaInit => QuotaIInv
<1> SUFFICES ASSUME QuotaInit PROVE QuotaIInv
  OBVIOUS
<1>1. QuotaTypes
  <2>1. stuck \in BOOLEAN
    BY DEF QuotaInit
  <2>2. NewHit \in Hit
    BY DEF NewHit, Hit
  <2> QED
    BY <2>1, <2>2, QuotaAssumption DEF QuotaInit, QuotaTypes, NoCounter
<1>2. \A h \in Hits : hit[h] = NewHit
  BY DEF QuotaInit
<1>3. counter.count = 0 /\ counter.expires = 0 /\ clock = 0
  BY DEF QuotaInit, NoCounter
<1>4. HitPlaces /\ WindowsLast /\ FirstOfWindow /\ WindowsApart /\ RetryFollows
  BY <1>2, <1>3
  DEF NewHit, HitPlaces, WindowsLast, FirstOfWindow, WindowsApart, RetryFollows, Counted
<1>5. CounterOK /\ EveryWindowEnds
  BY <1>1, <1>3, QuotaNumbers, BegunIsFinite DEF CounterOK, EveryWindowEnds
<1> QED
  BY <1>1, <1>4, <1>5 DEF QuotaIInv

\* A request is counted: the windows stay apart whichever store counts it.
LEMMA CountedKeeps ==
  ASSUME QuotaIInv, NEW h \in Hits,
         hit[h].pc = "new", hit'[h].pc # "new",
         clock' = clock, kept' = kept,
         counter' \in [count : Nat, expires : Nat],
         hit' \in [Hits -> Hit],
         counter'.count = Current.count + 1,
         Current.count = 0 => counter'.expires >= clock + Window,
         Current.count # 0 => counter'.expires = counter.expires,
         counter'.expires <= Unending,
         hit'[h].count = counter'.count, hit'[h].at = clock,
         \A g \in Hits \ {h} : hit'[g] = hit[g]
  PROVE  /\ WindowsLast' /\ FirstOfWindow' /\ WindowsApart'
         /\ counter'.count > 0 /\ counter'.expires > 0
         /\ counter'.count <= Cardinality(Begun')
<1>1. QuotaTypes /\ CounterOK /\ HitPlaces
  BY DEF QuotaIInv
<1>2. /\ clock \in Nat /\ Window \in Nat \ {0} /\ Unending \in Nat
      /\ counter.count \in Nat /\ counter.expires \in Nat
      /\ Current.count \in Nat
      /\ counter'.count \in Nat /\ counter'.expires \in Nat
  BY <1>1, QuotaNumbers, CurrentIs DEF QuotaTypes
<1>3. \A g \in Hits : /\ hit[g].count \in Nat /\ hit[g].at \in Nat /\ hit[g].at <= clock
                      /\ hit'[g].count \in Nat /\ hit'[g].at \in Nat
  BY <1>1 DEF QuotaTypes, Hit, HitPlaces
<1>4. /\ Current.count = 0 => counter.expires <= clock
      /\ Current.count # 0 => Current.count = counter.count /\ counter.expires > clock
  BY <1>1, CurrentIs
<1>5. hit[h].count = 0
  BY <1>1 DEF HitPlaces
<1>6. counter'.expires > clock
  BY <1>2, <1>4
<1>7. \A g \in Hits : Counted(g) /\ Current.count = 0 => hit[g].at < clock
  BY <1>2, <1>3, <1>4 DEF QuotaIInv, WindowsLast
<1>8. \A g \in Hits : hit[g].count = 1 /\ Current.count = 0 => hit[g].at + Window <= clock
  BY <1>2, <1>3, <1>4 DEF QuotaIInv, WindowsLast, Counted
<1>9. \A g \in Hits : Counted(g) /\ Current.count # 0 => hit[g].at < counter.expires
  BY <1>2, <1>3, <1>4 DEF QuotaIInv, WindowsLast
<1>10. \A g \in Hits : hit[g].count = 1 /\ Current.count # 0
                         => hit[g].at + Window <= counter.expires
  BY <1>2, <1>3, <1>4 DEF QuotaIInv, WindowsLast, Counted
<1>11. WindowsLast'
  <2> SUFFICES ASSUME NEW g \in Hits, hit'[g].count > 0
               PROVE  /\ hit'[g].at < counter'.expires
                      /\ hit'[g].count = 1 => hit'[g].at + Window <= counter'.expires
    BY <1>2, <1>6 DEF WindowsLast, Counted
  <2>1. CASE g = h
    BY <1>2, <1>4, <1>6, <2>1
  <2>2. CASE g # h
    BY <1>2, <1>3, <1>7, <1>8, <1>9, <1>10, <2>2 DEF Counted
  <2> QED
    BY <2>1, <2>2
<1>12. FirstOfWindow'
  <2>1. CASE Current.count = 0
    <3>1. \A g \in Hits : hit'[g].count > 1 => hit'[g].at < clock
      BY <1>2, <1>3, <1>7, <2>1 DEF Counted
    <3> QED
      BY <1>2, <2>1, <3>1 DEF FirstOfWindow
  <2>2. CASE Current.count # 0
    <3>1. PICK f \in Hits : /\ hit[f].count = 1
                            /\ \A g \in Hits : hit[g].count > counter.count => hit[g].at < hit[f].at
      BY <1>2, <1>4, <2>2 DEF QuotaIInv, FirstOfWindow
    <3>2. f # h
      BY <1>5, <3>1
    <3>3. \A g \in Hits : hit'[g].count > counter'.count => hit'[g].at < hit[f].at
      BY <1>2, <1>3, <1>4, <2>2, <3>1
    <3> QED
      BY <3>1, <3>2, <3>3 DEF FirstOfWindow
  <2> QED
    BY <2>1, <2>2
<1>13. ASSUME NEW g \in Hits, g # h, hit[g].count = hit'[h].count
       PROVE  /\ hit[g].at < clock
              /\ hit[g].count = 1 => hit[g].at + Window <= clock
              /\ \E f \in Hits : /\ hit'[f].count = 1 /\ hit[g].at < hit'[f].at
                                 /\ hit'[f].at <= clock
  <2>1. CASE Current.count = 0
    BY <1>2, <1>7, <1>8, <1>13, <2>1 DEF Counted
  <2>2. CASE Current.count # 0
    <3>1. PICK f \in Hits : /\ hit[f].count = 1
                            /\ \A k \in Hits : hit[k].count > counter.count => hit[k].at < hit[f].at
      BY <1>2, <1>4, <2>2 DEF QuotaIInv, FirstOfWindow
    <3>2. f # h /\ hit'[f] = hit[f]
      BY <1>5, <3>1
    <3>3. hit[g].count > counter.count /\ hit[g].count # 1
      BY <1>2, <1>4, <1>13, <2>2
    <3>4. hit[g].at < hit[f].at /\ hit[f].at <= clock
      BY <1>3, <3>1, <3>3
    <3> QED
      BY <1>2, <1>3, <3>1, <3>2, <3>3, <3>4
  <2> QED
    BY <2>1, <2>2
<1>14. WindowsApart'
  <2> SUFFICES ASSUME NEW g \in Hits, NEW k \in Hits, g # k,
                      hit'[g].count = hit'[k].count, hit'[g].count > 0,
                      hit'[g].at <= hit'[k].at
               PROVE  /\ hit'[g].count = 1 => hit'[g].at + Window <= hit'[k].at
                      /\ \E f \in Hits : /\ hit'[f].count = 1 /\ hit'[g].at < hit'[f].at
                                         /\ hit'[f].at <= hit'[k].at
    BY DEF WindowsApart, Counted
  <2>1. CASE k = h
    BY <1>13, <2>1
  <2>2. CASE g = h
    <3>1. hit[k].at < clock /\ hit'[k] = hit[k]
      BY <1>13, <2>2
    <3> QED
      BY <1>2, <1>3, <2>2, <3>1
  <2>3. CASE g # h /\ k # h
    <3>1. /\ hit[g].count = 1 => hit[g].at + Window <= hit[k].at
          /\ \E f \in Hits : /\ hit[f].count = 1 /\ hit[g].at < hit[f].at
                             /\ hit[f].at <= hit[k].at
      BY <2>3 DEF QuotaIInv, WindowsApart, Counted
    <3>2. PICK f \in Hits : /\ hit[f].count = 1 /\ hit[g].at < hit[f].at
                            /\ hit[f].at <= hit[k].at
      BY <3>1
    <3>3. hit'[f] = hit[f]
      BY <1>5, <3>2
    <3> QED
      BY <2>3, <3>1, <3>2, <3>3
  <2> QED
    BY <2>1, <2>2, <2>3
<1>15. counter'.count <= Cardinality(Begun')
  <2>1. Begun' = Begun \cup {h} /\ h \notin Begun
    BY DEF Begun
  <2>2. Cardinality(Begun') = Cardinality(Begun) + 1
    BY <2>1, BegunIsFinite, FS_AddElement
  <2> QED
    BY <1>1, <1>2, <1>4, <2>2, BegunIsFinite DEF CounterOK
<1> QED
  BY <1>2, <1>6, <1>11, <1>12, <1>14, <1>15

\* What a counted request means for those who were told to retry.
LEMMA RetryKeeps ==
  ASSUME QuotaIInv, NEW h \in Hits,
         hit[h].pc = "new",
         clock' = clock,
         hit' \in [Hits -> Hit],
         counter' \in [count : Nat, expires : Nat],
         counter'.count = Current.count + 1,
         Current.count # 0 => counter'.expires = counter.expires,
         hit'[h].count = counter'.count, hit'[h].at = clock,
         NEW g \in Hits, g # h, hit'[g] = hit[g],
         \A f \in Hits \ {h} : hit'[f] = hit[f],
         hit[g].pc = "refused", ~hit[g].unset
  PROVE  /\ hit'[g].until < Unending
         /\ \/ counter'.expires = hit'[g].until
            \/ counter'.expires = 0 /\ hit'[g].until <= clock'
            \/ \E f \in Hits : hit'[f].at >= hit'[g].until /\ hit'[f].count = 1
<1>1. QuotaTypes /\ CounterOK /\ HitPlaces
  BY DEF QuotaIInv
<1>2. /\ clock \in Nat /\ counter.expires \in Nat /\ Current.count \in Nat
      /\ hit[g].until \in Nat
  BY <1>1, QuotaNumbers, CurrentIs DEF QuotaTypes, Hit
<1>3. /\ hit[g].until < Unending
      /\ \/ counter.expires = hit[g].until
         \/ counter.expires = 0 /\ hit[g].until <= clock
         \/ \E f \in Hits : hit[f].at >= hit[g].until /\ hit[f].count = 1
  BY DEF QuotaIInv, RetryFollows
<1>4. ASSUME NEW f \in Hits, hit[f].at >= hit[g].until, hit[f].count = 1
      PROVE  hit'[f] = hit[f]
  BY <1>1, <1>4 DEF HitPlaces
<1>5. CASE Current.count # 0
  <2>1. counter.expires > clock
    BY <1>1, <1>5, CurrentIs
  <2> QED
    BY <1>2, <1>3, <1>4, <1>5, <2>1
<1>6. CASE Current.count = 0
  <2>1. counter.expires <= clock
    BY <1>1, <1>6, CurrentIs
  <2>2. hit'[h].count = 1
    BY <1>6
  <2> QED
    BY <1>2, <1>3, <1>4, <2>1, <2>2
<1> QED
  BY <1>5, <1>6

LEMMA MemoryHitKeeps ==
  ASSUME QuotaIInv, NEW h \in Hits, MemoryHit(h)
  PROVE  QuotaIInv'
<1>1. QuotaTypes /\ CounterOK /\ HitPlaces
  BY DEF QuotaIInv
<1>2. /\ clock \in Nat /\ Window \in Nat \ {0} /\ QuotaLimit \in Nat /\ Unending \in Nat
      /\ clock + Window < Unending
      /\ counter.count \in Nat /\ counter.expires \in Nat
      /\ Current.count \in Nat
  BY <1>1, QuotaNumbers, CurrentIs DEF QuotaTypes
<1> DEFINE n == Current.count + 1
           e == IF Current.count = 0 THEN clock + Window ELSE counter.expires
           r == [hit[h] EXCEPT !.at = clock]
           v == Verdict(r, n, e - clock)
<1>3. /\ hit[h].pc = "new" /\ kept = "memory" /\ UNCHANGED <<kept, clock, stuck>>
      /\ counter' = [count |-> n, expires |-> e]
      /\ hit' = [hit EXCEPT ![h] = Verdict([hit[h] EXCEPT !.at = clock], counter'.count,
                                           counter'.expires - clock)]
  BY DEF MemoryHit
<1>4. n \in Nat /\ e \in Nat /\ e < Unending /\ e > clock
  BY <1>1, <1>2, <1>3, CurrentIs DEF CounterOK
<1>5. r \in Hit /\ r.at = clock /\ r.count = hit[h].count /\ r.unset = hit[h].unset
  BY <1>1, <1>2 DEF QuotaTypes, Hit
<1>6. hit' = [hit EXCEPT ![h] = v] /\ counter'.count = n /\ counter'.expires = e
  BY <1>3
<1> HIDE DEF n, e, r
<1>7. /\ v \in Hit /\ v.count = n /\ v.at = clock
      /\ v.pc \in {"allowed", "refused"}
      /\ v.pc = "allowed" => n <= QuotaLimit
      /\ v.pc = "refused" => v.until = e
  <2>1. e - clock \in Int /\ clock + (e - clock) \in Nat /\ clock + (e - clock) = e
    BY <1>2, <1>4
  <2>2. /\ v \in Hit /\ v.count = n /\ v.at = r.at
        /\ v.pc \in {"allowed", "refused"}
        /\ v.pc = "allowed" => n <= QuotaLimit
        /\ v.pc = "refused" => v.until = clock + (e - clock)
    BY <1>2, <1>4, <1>5, <2>1 DEF Verdict, Hit
  <2> QED
    BY <1>5, <2>1, <2>2
<1> HIDE DEF v
<1>8. /\ hit' \in [Hits -> Hit] /\ hit'[h] = v
      /\ \A g \in Hits \ {h} : hit'[g] = hit[g]
      /\ counter' \in [count : Nat, expires : Nat]
  BY <1>1, <1>3, <1>4, <1>6, <1>7 DEF QuotaTypes
<1>9. /\ counter'.count = Current.count + 1
      /\ Current.count = 0 => counter'.expires >= clock + Window
      /\ Current.count # 0 => counter'.expires = counter.expires
      /\ counter'.expires <= Unending
  BY <1>2, <1>4, <1>6 DEF n, e
<1>10. /\ WindowsLast' /\ FirstOfWindow' /\ WindowsApart'
       /\ counter'.count > 0 /\ counter'.expires > 0
       /\ counter'.count <= Cardinality(Begun')
  BY <1>3, <1>6, <1>7, <1>8, <1>9, CountedKeeps
<1>11. QuotaTypes'
  BY <1>1, <1>3, <1>8 DEF QuotaTypes
<1>12. HitPlaces'
  BY <1>1, <1>2, <1>3, <1>4, <1>6, <1>7, <1>8, <1>9, <1>10 DEF HitPlaces, Counted, CounterOK, Unending
<1>13. CounterOK'
  BY <1>2, <1>4, <1>6, <1>9, <1>10 DEF CounterOK, Unending
<1>14. RetryFollows'
  <2> SUFFICES ASSUME NEW g \in Hits, hit'[g].pc = "refused", ~hit'[g].unset
               PROVE  /\ hit'[g].until < Unending
                      /\ \/ counter'.expires = hit'[g].until
                         \/ counter'.expires = 0 /\ hit'[g].until <= clock'
                         \/ \E f \in Hits : hit'[f].at >= hit'[g].until /\ hit'[f].count = 1
    BY DEF RetryFollows, Unending
  <2>1. CASE g = h
    BY <1>4, <1>6, <1>7, <1>8, <2>1
  <2>2. CASE g # h
    BY <1>3, <1>6, <1>7, <1>8, <1>9, <2>2, RetryKeeps
  <2> QED
    BY <2>1, <2>2
<1>15. EveryWindowEnds'
  BY <1>2, <1>4, <1>6 DEF EveryWindowEnds, Unending
<1> QED
  BY <1>10, <1>11, <1>12, <1>13, <1>14, <1>15 DEF QuotaIInv

LEMMA IncrKeeps ==
  ASSUME QuotaIInv, NEW h \in Hits, Incr(h)
  PROVE  QuotaIInv'
<1>1. QuotaTypes /\ CounterOK /\ HitPlaces
  BY DEF QuotaIInv
<1>2. /\ clock \in Nat /\ Window \in Nat \ {0} /\ Unending \in Nat
      /\ clock + Window < Unending
      /\ counter.count \in Nat /\ counter.expires \in Nat
      /\ Current.count \in Nat
  BY <1>1, QuotaNumbers, CurrentIs DEF QuotaTypes
<1> DEFINE n == Current.count + 1
           e == IF Current.count = 0 THEN Unending ELSE counter.expires
           v == [hit[h] EXCEPT !.pc = IF n = 1 THEN "expire" ELSE "ttl", !.count = n, !.at = clock]
<1>3. /\ hit[h].pc = "new" /\ kept = "redis" /\ UNCHANGED <<kept, clock, stuck>>
      /\ counter' = [count |-> n, expires |-> e]
  BY DEF Incr
<1>4. n \in Nat /\ e \in Nat /\ e <= Unending /\ e > clock
  BY <1>1, <1>2, CurrentIs DEF CounterOK
<1>5. /\ v \in Hit /\ v.count = n /\ v.at = clock
      /\ v.pc = IF n = 1 THEN "expire" ELSE "ttl"
  BY <1>1, <1>2, <1>4 DEF QuotaTypes, Hit
<1>6. hit' = [hit EXCEPT ![h] = v] /\ counter'.count = n /\ counter'.expires = e
  BY <1>1, <1>3 DEF Incr, QuotaTypes
<1> HIDE DEF n, e, v
<1>8. /\ hit' \in [Hits -> Hit] /\ hit'[h] = v
      /\ \A g \in Hits \ {h} : hit'[g] = hit[g]
      /\ counter' \in [count : Nat, expires : Nat]
  BY <1>1, <1>3, <1>4, <1>5, <1>6 DEF QuotaTypes
<1>9. /\ counter'.count = Current.count + 1
      /\ Current.count = 0 => counter'.expires = Unending
      /\ Current.count = 0 => counter'.expires >= clock + Window
      /\ Current.count # 0 => counter'.expires = counter.expires
      /\ counter'.expires <= Unending
  BY <1>2, <1>4, <1>6 DEF n, e
<1>10. /\ WindowsLast' /\ FirstOfWindow' /\ WindowsApart'
       /\ counter'.count > 0 /\ counter'.expires > 0
       /\ counter'.count <= Cardinality(Begun')
  BY <1>3, <1>5, <1>6, <1>8, <1>9, CountedKeeps
<1>11. QuotaTypes'
  BY <1>1, <1>3, <1>8 DEF QuotaTypes
<1>12. HitPlaces'
  <2> SUFFICES ASSUME NEW g \in Hits
               PROVE  /\ hit'[g].pc = "new" => hit'[g].count = 0
                      /\ hit'[g].pc \in {"expire", "ttl", "allowed", "refused"} => hit'[g].count > 0
                      /\ hit'[g].pc = "expire" =>
                            /\ hit'[g].count = 1 /\ counter'.expires = Unending
                            /\ \A k \in Hits : hit'[k].pc = "expire" => k = g
                      /\ hit'[g].pc = "allowed" => hit'[g].count <= QuotaLimit
                      /\ hit'[g].at <= clock
    BY <1>3 DEF HitPlaces, Counted, Unending
  <2>0. \A k \in Hits : hit[k].pc = "expire" =>
           counter.expires = Unending /\ Current.count # 0
    BY <1>1, <1>2, CurrentIs DEF HitPlaces
  <2>1. CASE g = h
    <3>1. v.pc = "expire" => n = 1 /\ Current.count = 0
      BY <1>2, <1>5 DEF n
    <3> QED
      BY <1>2, <1>4, <1>5, <1>6, <1>8, <1>9, <1>10, <2>0, <2>1, <3>1
  <2>2. CASE g # h
    <3>1. hit[g].pc = "expire" => v.pc # "expire"
      BY <1>2, <1>5, <2>0 DEF n
    <3> QED
      BY <1>1, <1>2, <1>8, <1>9, <2>0, <2>2, <3>1 DEF HitPlaces, Counted
  <2> QED
    BY <2>1, <2>2
<1>13. CounterOK'
  BY <1>2, <1>3, <1>4, <1>6, <1>9, <1>10 DEF CounterOK, Unending
<1>14. RetryFollows'
  <2> SUFFICES ASSUME NEW g \in Hits, hit'[g].pc = "refused", ~hit'[g].unset
               PROVE  /\ hit'[g].until < Unending
                      /\ \/ counter'.expires = hit'[g].until
                         \/ counter'.expires = 0 /\ hit'[g].until <= clock'
                         \/ \E f \in Hits : hit'[f].at >= hit'[g].until /\ hit'[f].count = 1
    BY DEF RetryFollows, Unending
  <2>1. g # h
    BY <1>5, <1>8
  <2> QED
    BY <1>3, <1>5, <1>6, <1>8, <1>9, <2>1, RetryKeeps
<1>15. EveryWindowEnds'
  <2>1. CASE Current.count = 0
    <3>1. hit'[h].pc = "expire"
      BY <1>5, <1>8, <2>1 DEF n
    <3> QED
      BY <3>1 DEF EveryWindowEnds
  <2>2. CASE Current.count # 0
    <3> SUFFICES ASSUME counter.expires = Unending
                 PROVE  stuck' \/ \E g \in Hits : hit'[g].pc = "expire"
      BY <1>9, <2>2 DEF EveryWindowEnds, Unending
    <3>1. stuck \/ \E g \in Hits : hit[g].pc = "expire"
      BY DEF QuotaIInv, EveryWindowEnds
    <3>2. CASE stuck
      BY <1>3, <3>2, Zenon
    <3>3. ASSUME NEW g \in Hits, hit[g].pc = "expire" PROVE \E k \in Hits : hit'[k].pc = "expire"
      BY <1>3, <1>8, <3>3
    <3> QED
      BY <3>1, <3>2, <3>3
  <2> QED
    BY <2>1, <2>2
<1> QED
  BY <1>10, <1>11, <1>12, <1>13, <1>14, <1>15 DEF QuotaIInv

\* The expiry is set a whole window after every hit there was.
LEMMA ExpireKeeps ==
  ASSUME QuotaIInv, NEW h \in Hits, Expire(h)
  PROVE  QuotaIInv'
<1>1. QuotaTypes /\ CounterOK /\ HitPlaces
  BY DEF QuotaIInv
<1>2. /\ clock \in Nat /\ Window \in Nat \ {0} /\ Unending \in Nat
      /\ clock + Window < Unending
      /\ counter.count \in Nat /\ counter.expires \in Nat
  BY <1>1, QuotaNumbers DEF QuotaTypes
<1>3. /\ hit[h].pc = "expire" /\ UNCHANGED <<kept, clock, stuck>>
      /\ counter.expires = Unending
      /\ counter' \in [count : Nat, expires : Nat]
      /\ counter'.count = counter.count /\ counter'.expires = clock + Window
  BY <1>1, <1>2 DEF Expire, HitPlaces, QuotaTypes
<1> DEFINE v == [hit[h] EXCEPT !.pc = "ttl"]
<1>3a. /\ hit' = [hit EXCEPT ![h] = v] /\ v \in Hit /\ v.pc = "ttl"
       /\ v.count = hit[h].count /\ v.at = hit[h].at
       /\ v.until = hit[h].until /\ v.unset = hit[h].unset
  BY <1>1 DEF Expire, QuotaTypes, Hit
<1> HIDE DEF v
<1>4. /\ hit' \in [Hits -> Hit] /\ hit'[h].pc = "ttl"
      /\ \A g \in Hits : hit'[g].count = hit[g].count /\ hit'[g].at = hit[g].at
      /\ \A g \in Hits : hit'[g].until = hit[g].until /\ hit'[g].unset = hit[g].unset
      /\ \A g \in Hits : g # h => hit'[g] = hit[g]
  BY <1>1, <1>3a DEF QuotaTypes
<1>5. QuotaTypes'
  BY <1>1, <1>3, <1>4 DEF QuotaTypes
<1>6. \A g \in Hits : hit[g].count \in Nat /\ hit[g].at \in Nat /\ hit[g].at <= clock
  BY <1>1 DEF QuotaTypes, Hit, HitPlaces
<1>7. \A g \in Hits : hit'[g].pc # "expire"
  BY <1>1, <1>3, <1>4 DEF HitPlaces
<1>8. HitPlaces'
  BY <1>1, <1>3, <1>4, <1>7 DEF HitPlaces, Counted
<1>9. CounterOK'
  <2>1. Begun' = Begun
    BY <1>3, <1>4 DEF Begun
  <2> QED
    BY <1>1, <1>2, <1>3, <2>1 DEF CounterOK, Unending
<1>10. WindowsLast'
  BY <1>2, <1>3, <1>4, <1>6 DEF WindowsLast, Counted
<1>11. FirstOfWindow'
  BY <1>3, <1>4 DEF QuotaIInv, FirstOfWindow
<1>12. WindowsApart'
  BY <1>4 DEF QuotaIInv, WindowsApart, Counted
<1>13. RetryFollows'
  <2> SUFFICES ASSUME NEW g \in Hits, hit'[g].pc = "refused", ~hit'[g].unset
               PROVE  /\ hit[g].until < Unending
                      /\ \E f \in Hits : hit[f].at >= hit[g].until /\ hit[f].count = 1
    BY <1>4 DEF RetryFollows, Unending
  <2>1. hit[g].pc = "refused" /\ ~hit[g].unset /\ hit[g].until \in Nat
    BY <1>1, <1>4 DEF QuotaTypes, Hit
  <2> QED
    BY <1>2, <1>3, <2>1 DEF QuotaIInv, RetryFollows
<1>14. EveryWindowEnds'
  BY <1>2, <1>3 DEF EveryWindowEnds, Unending
<1> QED
  BY <1>5, <1>8, <1>9, <1>10, <1>11, <1>12, <1>13, <1>14 DEF QuotaIInv

\* A request that learns its verdict, or is let through, leaves the windows.
LEMMA AnsweredKeeps ==
  ASSUME QuotaIInv, NEW h \in Hits,
         hit[h].pc \in {"new", "expire", "ttl"},
         UNCHANGED <<kept, counter, clock>>,
         stuck' \in BOOLEAN, stuck => stuck', hit[h].pc = "expire" => stuck',
         hit' \in [Hits -> Hit],
         \A g \in Hits \ {h} : hit'[g] = hit[g],
         hit'[h].count = hit[h].count, hit'[h].at = hit[h].at,
         hit'[h].pc \in {"allowed", "refused", "degraded"},
         hit'[h].pc \in {"allowed", "refused"} => hit[h].pc = "ttl",
         hit'[h].pc = "allowed" => hit[h].count <= QuotaLimit,
         hit'[h].pc = "refused" /\ ~hit'[h].unset =>
             counter.expires = hit'[h].until /\ counter.expires < Unending
  PROVE  QuotaIInv'
<1>1. QuotaTypes /\ CounterOK /\ HitPlaces
  BY DEF QuotaIInv
<1>2. \A g \in Hits : hit'[g].count = hit[g].count /\ hit'[g].at = hit[g].at
  OBVIOUS
<1>3. QuotaTypes'
  BY <1>1 DEF QuotaTypes
<1>4. HitPlaces'
  <2> SUFFICES ASSUME NEW g \in Hits
               PROVE  /\ hit'[g].pc = "new" => hit'[g].count = 0
                      /\ hit'[g].pc \in {"expire", "ttl", "allowed", "refused"} => hit'[g].count > 0
                      /\ hit'[g].pc = "expire" =>
                            /\ hit'[g].count = 1 /\ counter.expires = Unending
                            /\ \A k \in Hits : hit'[k].pc = "expire" => k = g
                      /\ hit'[g].pc = "allowed" => hit'[g].count <= QuotaLimit
                      /\ hit'[g].at <= clock
    BY DEF HitPlaces, Counted, Unending
  <2> QED
    BY <1>1, <1>2 DEF HitPlaces, Counted
<1>5. CounterOK'
  <2>1. Begun \subseteq Begun' /\ IsFiniteSet(Begun')
    BY QuotaAssumption, FS_Subset DEF Begun
  <2>2. Cardinality(Begun) <= Cardinality(Begun') /\ Cardinality(Begun') \in Nat
    BY <2>1, FS_Subset, FS_CardinalityType
  <2> QED
    BY <1>1, <2>2, BegunIsFinite DEF CounterOK, Unending, QuotaTypes
<1>6. WindowsLast' /\ WindowsApart' /\ FirstOfWindow'
  BY <1>2 DEF QuotaIInv, WindowsLast, WindowsApart, FirstOfWindow, Counted
<1>7. RetryFollows'
  <2> SUFFICES ASSUME NEW g \in Hits, hit'[g].pc = "refused", ~hit'[g].unset
               PROVE  /\ hit'[g].until < Unending
                      /\ \/ counter.expires = hit'[g].until
                         \/ counter.expires = 0 /\ hit'[g].until <= clock
                         \/ \E f \in Hits : hit[f].at >= hit'[g].until /\ hit[f].count = 1
    BY <1>2 DEF RetryFollows, Unending
  <2> QED
    BY DEF QuotaIInv, RetryFollows
<1>8. EveryWindowEnds'
  <2> SUFFICES ASSUME counter.expires = Unending
               PROVE  stuck' \/ \E g \in Hits : hit'[g].pc = "expire"
    BY DEF EveryWindowEnds, Unending
  <2>1. CASE stuck
    BY <2>1, Zenon
  <2>2. ASSUME NEW g \in Hits, hit[g].pc = "expire"
        PROVE  stuck' \/ \E k \in Hits : hit'[k].pc = "expire"
    BY <2>2
  <2> QED
    BY <2>1, <2>2 DEF QuotaIInv, EveryWindowEnds
<1> QED
  BY <1>3, <1>4, <1>5, <1>6, <1>7, <1>8 DEF QuotaIInv

LEMMA ReadTtlKeeps ==
  ASSUME QuotaIInv, NEW h \in Hits, ReadTtl(h)
  PROVE  QuotaIInv'
<1>1. QuotaTypes /\ CounterOK /\ HitPlaces
  BY DEF QuotaIInv
<1>2. /\ clock \in Nat /\ Window \in Nat /\ Unending \in Nat /\ QuotaLimit \in Nat
      /\ counter.count \in Nat /\ counter.expires \in Nat
  BY <1>1, QuotaNumbers DEF QuotaTypes
<1> DEFINE u == Current.expires \in {0, Unending}
           ttl == IF u THEN Window ELSE Current.expires - clock
           r == [hit[h] EXCEPT !.unset = u]
           v == Verdict(r, hit[h].count, ttl)
<1>3. /\ hit[h].pc = "ttl" /\ UNCHANGED <<kept, counter, clock, stuck>>
      /\ hit' = [hit EXCEPT ![h] = v]
  BY <1>1 DEF ReadTtl, QuotaTypes, Hit
<1>4. ~u => Current.expires = counter.expires /\ counter.expires > clock
              /\ counter.expires < Unending
  BY <1>1, <1>2 DEF Current, NoCounter, CounterOK
<1>5. ttl \in Int /\ clock + ttl \in Nat /\ (~u => clock + ttl = counter.expires)
  BY <1>2, <1>4
<1>6. u \in BOOLEAN
  BY SMT
<1> HIDE DEF u, ttl
<1>7. r \in Hit /\ r.at = hit[h].at /\ r.unset = u /\ hit[h].count \in Nat
  BY <1>1, <1>6 DEF QuotaTypes, Hit
<1> HIDE DEF r
<1>8. /\ v \in Hit /\ v.count = hit[h].count /\ v.at = hit[h].at /\ v.unset = u
      /\ v.pc \in {"allowed", "refused"}
      /\ v.pc = "allowed" => hit[h].count <= QuotaLimit
      /\ v.pc = "refused" => v.until = clock + ttl
  BY <1>2, <1>5, <1>7 DEF Verdict, Hit
<1> HIDE DEF v
<1>9. hit' \in [Hits -> Hit] /\ hit'[h] = v /\ \A g \in Hits \ {h} : hit'[g] = hit[g]
  BY <1>1, <1>3, <1>8 DEF QuotaTypes
<1>10. hit'[h].pc = "refused" /\ ~hit'[h].unset =>
          counter.expires = hit'[h].until /\ counter.expires < Unending
  BY <1>4, <1>5, <1>8, <1>9
<1>11. stuck' \in BOOLEAN /\ (stuck => stuck')
  BY <1>1, <1>3 DEF QuotaTypes
<1> QED
  BY <1>3, <1>8, <1>9, <1>10, <1>11, AnsweredKeeps

LEMMA StoreFailsKeeps ==
  ASSUME QuotaIInv, NEW h \in Hits, StoreFails(h)
  PROVE  QuotaIInv'
<1>1. QuotaTypes
  BY DEF QuotaIInv
<1>2. /\ hit' \in [Hits -> Hit] /\ hit'[h].pc = "degraded"
      /\ hit'[h].count = hit[h].count /\ hit'[h].at = hit[h].at
      /\ \A g \in Hits \ {h} : hit'[g] = hit[g]
  BY <1>1 DEF StoreFails, QuotaTypes, Hit
<1>3. stuck' \in BOOLEAN /\ (stuck => stuck') /\ (hit[h].pc = "expire" => stuck')
  BY Zenon DEF StoreFails
<1> QED
  BY <1>2, <1>3, AnsweredKeeps DEF StoreFails

LEMMA TickKeeps ==
  ASSUME QuotaIInv, Tick
  PROVE  QuotaIInv'
<1>1. QuotaTypes /\ CounterOK /\ HitPlaces /\ EveryWindowEnds
  BY DEF QuotaIInv
<1>2. /\ clock \in Nat /\ Window \in Nat \ {0} /\ Unending \in Nat
      /\ clock + Window < Unending /\ MaxClock \in Nat
      /\ counter.count \in Nat /\ counter.expires \in Nat
  BY <1>1, QuotaNumbers, QuotaAssumption DEF QuotaTypes
<1>3. /\ clock' = clock + 1 /\ clock' \in 0..MaxClock
      /\ UNCHANGED <<kept, hit, stuck>>
  BY <1>1, <1>2 DEF Tick, QuotaTypes
<1>4. \/ counter' = counter
      \/ counter' = NoCounter /\ counter.expires <= clock + 1
  BY <1>3 DEF Tick
<1>5. counter' \in [count : Nat, expires : Nat]
  BY <1>1, <1>4 DEF QuotaTypes, NoCounter
<1>6. \A g \in Hits : /\ hit[g].count \in Nat /\ hit[g].at \in Nat /\ hit[g].at <= clock
                      /\ hit[g].until \in Nat
  BY <1>1 DEF QuotaTypes, Hit, HitPlaces
<1>7. NoCounter.count = 0 /\ NoCounter.expires = 0
  BY DEF NoCounter
<1>8. counter.expires = Unending => counter' = counter
  BY <1>2, <1>4
<1>9. QuotaTypes'
  BY <1>1, <1>3, <1>5 DEF QuotaTypes
<1>10. HitPlaces'
  BY <1>1, <1>2, <1>3, <1>6, <1>8 DEF HitPlaces, Counted, Unending
<1>11. CounterOK'
  <2>1. Begun' = Begun
    BY <1>3 DEF Begun
  <2> QED
    BY <1>1, <1>2, <1>3, <1>4, <1>7, <2>1, BegunIsFinite DEF CounterOK, Unending
<1>12. WindowsLast'
  <2> SUFFICES ASSUME NEW g \in Hits, hit[g].count > 0
               PROVE  /\ counter'.expires > 0 => hit[g].at < counter'.expires
                      /\ counter'.expires = 0 => hit[g].at < clock + 1
                      /\ hit[g].count = 1 =>
                            /\ counter'.expires > 0 => hit[g].at + Window <= counter'.expires
                            /\ counter'.expires = 0 => hit[g].at + Window <= clock + 1
    BY <1>3 DEF WindowsLast, Counted
  <2> QED
    BY <1>2, <1>4, <1>6, <1>7 DEF QuotaIInv, WindowsLast, Counted
<1>13. FirstOfWindow'
  BY <1>3, <1>4, <1>7 DEF QuotaIInv, FirstOfWindow
<1>14. WindowsApart'
  BY <1>3 DEF QuotaIInv, WindowsApart, Counted
<1>15. RetryFollows'
  <2> SUFFICES ASSUME NEW g \in Hits, hit[g].pc = "refused", ~hit[g].unset
               PROVE  /\ hit[g].until < Unending
                      /\ \/ counter'.expires = hit[g].until
                         \/ counter'.expires = 0 /\ hit[g].until <= clock + 1
                         \/ \E f \in Hits : hit[f].at >= hit[g].until /\ hit[f].count = 1
    BY <1>3 DEF RetryFollows, Unending
  <2> QED
    BY <1>2, <1>4, <1>6, <1>7 DEF QuotaIInv, RetryFollows
<1>16. EveryWindowEnds'
  <2> SUFFICES ASSUME counter'.expires = Unending
               PROVE  stuck' \/ \E g \in Hits : hit'[g].pc = "expire"
    BY DEF EveryWindowEnds, Unending
  <2>1. counter.expires = Unending
    BY <1>2, <1>4, <1>7
  <2>2. CASE stuck
    BY <1>3, <2>2, Zenon
  <2>3. CASE \E g \in Hits : hit[g].pc = "expire"
    BY <1>3, <2>3
  <2> QED
    BY <1>1, <2>1, <2>2, <2>3 DEF EveryWindowEnds
<1> QED
  BY <1>9, <1>10, <1>11, <1>12, <1>13, <1>14, <1>15, <1>16 DEF QuotaIInv

LEMMA QuotaStepKeeps == QuotaIInv /\ [QuotaNext]_quotaVars => QuotaIInv'
<1> SUFFICES ASSUME QuotaIInv, [QuotaNext]_quotaVars PROVE QuotaIInv'
  OBVIOUS
<1>1. CASE UNCHANGED quotaVars
  <2>1. /\ kept' = kept /\ counter' = counter /\ clock' = clock /\ hit' = hit
        /\ stuck' = stuck
    BY <1>1 DEF quotaVars
  <2>2. QuotaTypes' /\ HitPlaces' /\ CounterOK' /\ WindowsLast' /\ FirstOfWindow'
        /\ WindowsApart' /\ RetryFollows'
    BY <2>1
    DEF QuotaIInv, QuotaTypes, HitPlaces, CounterOK, WindowsLast, FirstOfWindow,
        WindowsApart, RetryFollows, Counted, Begun, Unending
  <2>3. EveryWindowEnds'
    BY <2>1, Zenon DEF QuotaIInv, EveryWindowEnds, Unending
  <2> QED
    BY <2>2, <2>3 DEF QuotaIInv
<1> QED
  BY <1>1, MemoryHitKeeps, IncrKeeps, ExpireKeeps, ReadTtlKeeps, StoreFailsKeeps, TickKeeps
  DEF QuotaNext

\* No more than n requests have different counts of 1 to n.
LEMMA DistinctCounts ==
  ASSUME NEW S \in SUBSET Hits, NEW n \in Nat,
         \A g \in S : hit[g].count \in 1..n,
         \A g, h \in S : hit[g].count = hit[h].count => g = h
  PROVE  IsFiniteSet(S) /\ Cardinality(S) <= n
<1>1. IsFiniteSet(S) /\ Cardinality(S) \in Nat
  BY QuotaAssumption, FS_Subset, FS_CardinalityType
<1>2. IsFiniteSet(1..n) /\ Cardinality(1..n) = n
  BY FS_Interval
<1> DEFINE f == [g \in S |-> hit[g].count]
           range == 1..n
<1>3. f \in [S -> range] /\ \A g \in S : f[g] = hit[g].count
  OBVIOUS
<1>3a. IsFiniteSet(range)
  BY <1>2
<1> HIDE DEF f, range
<1>4. ASSUME Cardinality(range) < Cardinality(S) PROVE FALSE
  <2>1. \E g, h \in S : g # h /\ f[g] = f[h]
    BY <1>1, <1>3, <1>3a, <1>4, FS_PigeonHole
  <2> QED
    BY <1>3, <2>1
<1> QED
  BY <1>1, <1>2, <1>4 DEF range

\* Of three hits of one count, two windows begin after the first.
LEMMA NoThree ==
  ASSUME QuotaIInv, NEW a \in Hits, NEW b \in Hits, NEW c \in Hits,
         a # b, b # c, hit[a].count = hit[b].count, hit[b].count = hit[c].count,
         Counted(a), hit[a].at <= hit[b].at, hit[b].at <= hit[c].at
  PROVE  hit[a].at + Window < hit[c].at
<1>1. Counted(b)
  BY DEF Counted
<1>2. PICK f \in Hits : hit[f].count = 1 /\ hit[a].at < hit[f].at /\ hit[f].at <= hit[b].at
  BY DEF QuotaIInv, WindowsApart
<1>3. PICK g \in Hits : hit[g].count = 1 /\ hit[b].at < hit[g].at /\ hit[g].at <= hit[c].at
  BY <1>1 DEF QuotaIInv, WindowsApart
<1>4. \A h \in Hits : hit[h].at \in Nat
  BY DEF QuotaIInv, QuotaTypes, Hit
<1>5. f # g /\ hit[f].at <= hit[g].at
  BY <1>2, <1>3, <1>4
<1>6. hit[f].at + Window <= hit[g].at
  BY <1>2, <1>3, <1>5 DEF QuotaIInv, WindowsApart, Counted
<1> QED
  BY <1>2, <1>3, <1>4, <1>6, QuotaAssumption

LEMMA TwiceFollows == QuotaIInv => TwiceTheLimit
<1> SUFFICES ASSUME QuotaIInv, NEW h \in Hits
             PROVE  Cardinality({g \in Hits :
                       /\ hit[g].pc = "allowed"
                       /\ hit[g].at \in hit[h].at..(hit[h].at + Window - 1)})
                    <= 2 * QuotaLimit
  BY DEF TwiceTheLimit
<1> DEFINE S == {g \in Hits : /\ hit[g].pc = "allowed"
                              /\ hit[g].at \in hit[h].at..(hit[h].at + Window - 1)}
           Early == {g \in S : \E k \in S : k # g /\ hit[k].count = hit[g].count
                                           /\ hit[g].at <= hit[k].at}
           Late == S \ Early
<1>1. Window \in Nat \ {0} /\ QuotaLimit \in Nat
  BY QuotaAssumption
<1>2. \A g \in Hits : hit[g].at \in Nat /\ hit[g].count \in Nat
  BY DEF QuotaIInv, QuotaTypes, Hit
<1>3. \A g \in S : /\ g \in Hits /\ Counted(g) /\ hit[g].count \in 1..QuotaLimit
                  /\ hit[h].at <= hit[g].at /\ hit[g].at < hit[h].at + Window
  BY <1>1, <1>2 DEF QuotaIInv, HitPlaces, Counted
<1> HIDE DEF S
<1>4. ASSUME NEW g \in Late, NEW k \in Late, hit[g].count = hit[k].count PROVE g = k
  BY <1>2, <1>3, <1>4
<1>5. ASSUME NEW g \in Early, NEW k \in Early, hit[g].count = hit[k].count, g # k,
             hit[g].at <= hit[k].at
      PROVE  FALSE
  <2>1. PICK m \in S : m # k /\ hit[m].count = hit[k].count /\ hit[k].at <= hit[m].at
    OBVIOUS
  <2>2. hit[g].at + Window < hit[m].at
    BY <1>3, <1>5, <2>1, NoThree
  <2> QED
    BY <1>1, <1>2, <1>3, <1>5, <2>1, <2>2
<1>6. ASSUME NEW g \in Early, NEW k \in Early, hit[g].count = hit[k].count PROVE g = k
  <2>1. hit[g].at <= hit[k].at \/ hit[k].at <= hit[g].at
    BY <1>2, <1>3
  <2> QED
    BY <1>5, <1>6, <2>1
<1>7. Early \subseteq Hits /\ Late \subseteq Hits /\ S = Early \cup Late
  BY <1>3
<1>8. /\ \A g \in Early : hit[g].count \in 1..QuotaLimit
      /\ \A g \in Late : hit[g].count \in 1..QuotaLimit
  BY <1>3
<1> HIDE DEF Early, Late
<1>9. IsFiniteSet(Early) /\ Cardinality(Early) <= QuotaLimit
  BY <1>1, <1>6, <1>7, <1>8, DistinctCounts
<1>10. IsFiniteSet(Late) /\ Cardinality(Late) <= QuotaLimit
  BY <1>1, <1>4, <1>7, <1>8, DistinctCounts
<1>11. /\ Cardinality(S) = Cardinality(Early) + Cardinality(Late) - Cardinality(Early \cap Late)
       /\ Cardinality(Early) \in Nat /\ Cardinality(Late) \in Nat
       /\ Cardinality(Early \cap Late) \in Nat
  BY <1>7, <1>9, <1>10, FS_Union, FS_Intersection, FS_CardinalityType
<1>12. Cardinality(S) <= 2 * QuotaLimit
  BY <1>1, <1>9, <1>10, <1>11
<1> QED
  BY <1>12 DEF S

LEMMA QuotaIInvSuffices == QuotaIInv => QuotaRules
<1> SUFFICES ASSUME QuotaIInv PROVE QuotaRules
  OBVIOUS
<1>1. QuotaTypes /\ CounterOK /\ HitPlaces
  BY DEF QuotaIInv
<1>2. QuotaTypeOK
  <2>1. counter.count <= Cardinality(Hits) /\ Cardinality(Hits) \in Nat
    BY <1>1, BegunIsFinite, QuotaAssumption, FS_CardinalityType DEF CounterOK, QuotaTypes
  <2>2. counter.expires \in 0..Unending
    BY <1>1, QuotaNumbers DEF CounterOK, QuotaTypes
  <2> QED
    BY <1>1, <2>1, <2>2 DEF QuotaTypeOK, QuotaTypes, Hit, CounterOK
<1>3. RetryIsEnough
  <2> SUFFICES ASSUME NEW h \in Hits, hit[h].pc = "refused", ~hit[h].unset, hit[h].until <= clock,
                      Current.count # 0
               PROVE  \E g \in Hits : hit[g].at >= hit[h].until /\ hit[g].count = 1
    BY DEF RetryIsEnough
  <2>1. counter.expires > clock /\ clock \in Nat /\ hit[h].until \in Nat
          /\ counter.expires \in Nat
    BY <1>1, CurrentIs, QuotaNumbers DEF QuotaTypes, Hit
  <2> QED
    BY <2>1 DEF QuotaIInv, RetryFollows
<1> QED
  BY <1>2, <1>3, TwiceFollows DEF QuotaRules, QuotaIInv

\* Of the request quota, for any number of requests and replicas: no span of a
\* window admits more than twice the limit, Retry-After suffices, every window ends.
THEOREM QuotaCorrect == QuotaSpec => []QuotaRules
BY QuotaInitially, QuotaStepKeeps, QuotaIInvSuffices, PTL DEF QuotaSpec

(***************************************************************************)
(* Clients.  While one handler at a time makes, drops or withdraws, each   *)
(* place says how far the tables are from agreeing: which user is the      *)
(* client's, which tokens may still work, who has set the role.            *)
(***************************************************************************)

ClientCallType ==
    [op : ClientOps, pc : ClientPCs, actor : Actors \cup {0},
     role : ApiRoles \cup {"none"}, secret : Secrets \cup {0}, overlap : BOOLEAN]

ClientTypes ==
    /\ client \in ClientRow
    /\ serviceUsers \in SUBSET Actors
    /\ membership \in [Actors -> ApiRoles \cup {"none"}]
    /\ tokens \in SUBSET TokenRow
    /\ shown \in SUBSET Secrets
    /\ rotations \in 0..MaxRotations
    /\ clientCall \in [Handlers -> ClientCallType]
    /\ clientRaced \in [role : BOOLEAN, actor : BOOLEAN, secret : BOOLEAN]
    /\ clientFaults \in 0..MaxClientFaults

\* What a handler holds at each of its places.
ClientPlaceOf(h) ==
    LET c == clientCall[h]
    IN  /\ c.op = "idle" => c = NoCall
        /\ c.op = "rotate" =>
              /\ c.pc \in {"member", "setRole", "newUser", "newMember", "link",
                           "dropUser", "secret", "revoke"}
              /\ c.role \in ApiRoles /\ c.secret \in Secrets
              /\ c.pc = "newUser" <=> c.actor = 0
        /\ c.op = "revoke" => c.pc \in {"revoke", "clear"}
        /\ c.op = "update" =>
              /\ c.pc \in {"write", "mirror"}
              /\ c.pc = "mirror" => c.actor # 0 /\ c.role \in ApiRoles
        /\ c.op = "remove" =>
              /\ c.pc \in {"delete", "dropUser"}
              /\ c.pc = "dropUser" => c.actor # 0 /\ ~client.exists
        /\ c.op = "issue" =>
              c.pc \in {"member", "insert"} /\ c.actor # 0 /\ c.secret # 0
        /\ c.op = "request" => c.pc = "member" /\ c.actor # 0

ClientPlaces == \A h \in Handlers : ClientPlaceOf(h)

TokensOfClient ==
    /\ tokens # {} => client.exists
    /\ \A t \in tokens : t.actor \in serviceUsers

Changing(ops, h) == clientCall[h].op \in ops

OneOf(ops) == \A h, k \in Handlers : Changing(ops, h) /\ Changing(ops, k) => h = k

\* The service user, while one handler at a time makes or drops it.
ActorKept(h) ==
    LET c == clientCall[h]
    IN  /\ c.op = "rotate" => client.exists /\ c.pc # "dropUser"
        /\ c.op = "rotate" /\ c.pc \in {"newUser", "newMember", "link"} => client.actor = 0
        /\ c.op = "rotate" /\ c.pc \in {"member", "setRole", "secret", "revoke"}
              => client.actor = c.actor
        /\ c.op = "rotate" /\ c.pc \in {"newMember", "link"} => serviceUsers = {c.actor}
        /\ c.op = "remove" /\ c.pc = "dropUser" => serviceUsers = {c.actor} /\ client.actor = 0

Making(h) ==
    \/ clientCall[h].op = "rotate" /\ clientCall[h].pc \in {"newMember", "link"}
    \/ clientCall[h].op = "remove" /\ clientCall[h].pc = "dropUser"

ActorFollows ==
    ~clientRaced.actor =>
        /\ OneOf({"rotate", "remove"})
        /\ \A h \in Handlers : ActorKept(h)
        /\ (\A h \in Handlers : ~Making(h)) => serviceUsers = {client.actor} \ {0}

\* A token in the making, and one that works.
IssuedUnder(h) ==
    clientCall[h].op = "issue" =>
        \/ clientCall[h].overlap
        \/ /\ \A k \in Handlers : ~Changing(Withdraws, k)
           /\ client.exists => clientCall[h].secret = client.secret

TokensFollow ==
    ~clientRaced.secret =>
        /\ OneOf(Withdraws)
        /\ (\A h \in Handlers : ~ClientAt(h, {"rotate"}, "revoke")) =>
              \A t \in tokens : ~t.revoked => t.overlap \/ t.secret = client.secret
        /\ \A h \in Handlers : ClientAt(h, {"revoke"}, "clear") =>
              \A t \in tokens : ~t.revoked => t.overlap

\* Who sets the role holds it at every place until client and membership agree.
Setting == {"rotate", "update"}

RoleKept(h) ==
    LET c == clientCall[h]
    IN  /\ c.op \in {"issue", "request"} => c.actor = client.actor
        /\ c.op = "rotate" =>
              /\ c.pc # "dropUser"
              /\ c.pc \in {"newUser", "newMember", "link"} => client.actor = 0
              /\ c.pc \in {"member", "setRole", "secret", "revoke"} => c.actor = client.actor
              /\ c.pc \in {"member", "setRole"} => membership[c.actor] = client.apiRole
              /\ c.pc \in {"link", "secret", "revoke"} => membership[c.actor] = c.role
              /\ c.pc = "revoke" => c.role = client.apiRole
        /\ c.op = "update" =>
              /\ c.pc = "write" /\ client.actor # 0 =>
                    membership[client.actor] = client.apiRole
              /\ c.pc = "mirror" => c.actor = client.actor /\ c.role = client.apiRole

RoleFollows ==
    ~clientRaced.role =>
        /\ OneOf(Setting)
        /\ client.exists =>
              /\ \A t \in tokens : t.actor = client.actor
              /\ \A h \in Handlers : RoleKept(h)
              /\ (\A h \in Handlers : ~Changing(Setting, h)) /\ client.actor # 0 =>
                    membership[client.actor] = client.apiRole

ClientIInv ==
    /\ ClientTypes
    /\ ClientPlaces
    /\ TokensOfClient
    /\ ActorFollows
    /\ \A h \in Handlers : IssuedUnder(h)
    /\ TokensFollow
    /\ RoleFollows

LEMMA ClientNumbers ==
  /\ MaxRotations \in Nat /\ 0 \notin Secrets /\ 0 \notin Actors
  /\ Secrets = Actors /\ "none" \notin ApiRoles
BY ClientsAssumption DEF Secrets, Actors

LEMMA NoCallIs == NoCall \in ClientCallType
BY DEF NoCall, ClientCallType, ClientOps, ClientPCs

\* A handler moves, and no other.
Others(h) ==
    /\ clientCall' \in [Handlers -> ClientCallType]
    /\ \A k \in Handlers : k # h => clientCall'[k] = clientCall[k]

LEMMA FrameMoves ==
  ASSUME ClientTypes, NEW h \in Handlers, NEW v \in ClientCallType,
         clientCall' = [clientCall EXCEPT ![h] = v]
  PROVE  Others(h) /\ clientCall'[h] = v
BY DEF ClientTypes, Others

LEMMA StepMoves ==
  ASSUME ClientTypes, NEW h \in Handlers, NEW pc \in ClientPCs, ClientStep(h, pc)
  PROVE  /\ Others(h)
         /\ clientCall'[h].op = clientCall[h].op /\ clientCall'[h].pc = pc
         /\ clientCall'[h].actor = clientCall[h].actor
         /\ clientCall'[h].role = clientCall[h].role
         /\ clientCall'[h].secret = clientCall[h].secret
         /\ clientCall'[h].overlap = clientCall[h].overlap
<1> DEFINE v == [clientCall[h] EXCEPT !.pc = pc]
<1>1. clientCall' = [clientCall EXCEPT ![h] = v]
  BY DEF ClientStep
<1>2. /\ v \in ClientCallType
      /\ v.op = clientCall[h].op /\ v.pc = pc /\ v.actor = clientCall[h].actor
      /\ v.role = clientCall[h].role /\ v.secret = clientCall[h].secret
      /\ v.overlap = clientCall[h].overlap
  BY DEF ClientTypes, ClientCallType
<1> HIDE DEF v
<1> QED
  BY <1>1, <1>2, FrameMoves

LEMMA DoneMoves ==
  ASSUME ClientTypes, NEW h \in Handlers, ClientDone(h)
  PROVE  Others(h) /\ clientCall'[h] = NoCall
BY NoCallIs, FrameMoves DEF ClientDone

LEMMA Idle == NoCall.op = "idle" /\ NoCall.pc = "idle"
BY DEF NoCall

LEMMA ClientsInitially == ClientsInit => ClientIInv
<1> SUFFICES ASSUME ClientsInit PROVE ClientIInv
  OBVIOUS
<1>1. \A h \in Handlers : clientCall[h] = NoCall
  BY DEF ClientsInit
<1>2. ClientTypes
  <2>1. client \in ClientRow
    BY DEF ClientsInit, ClientRow
  <2>2. clientCall \in [Handlers -> ClientCallType]
    BY NoCallIs DEF ClientsInit
  <2>3. clientRaced \in [role : BOOLEAN, actor : BOOLEAN, secret : BOOLEAN]
    BY DEF ClientsInit
  <2> QED
    BY <2>1, <2>2, <2>3, ClientsAssumption DEF ClientsInit, ClientTypes
<1>3. client.actor = 0 /\ serviceUsers = {} /\ tokens = {}
  BY DEF ClientsInit
<1>4. ClientPlaces /\ TokensOfClient /\ \A h \in Handlers : IssuedUnder(h)
  BY <1>1, <1>3, Idle DEF ClientPlaces, ClientPlaceOf, TokensOfClient, IssuedUnder
<1>5. \A h \in Handlers : ActorKept(h) /\ RoleKept(h)
  BY <1>1, Idle DEF ActorKept, RoleKept
<1>6. ActorFollows /\ TokensFollow /\ RoleFollows
  BY <1>1, <1>3, <1>5, Idle
  DEF ActorFollows, TokensFollow, RoleFollows, OneOf, Changing, ClientAt, Setting, Withdraws
<1> QED
  BY <1>2, <1>4, <1>6 DEF ClientIInv

LEMMA ClientPlacesKeep ==
  ASSUME ClientPlaces, NEW h \in Handlers, Others(h), client'.exists => client.exists,
         ClientPlaceOf(h)'
  PROVE  ClientPlaces'
<1> SUFFICES ASSUME NEW k \in Handlers, k # h PROVE ClientPlaceOf(k)'
  BY DEF ClientPlaces
<1>1. clientCall'[k] = clientCall[k]
  BY DEF Others
<1> QED
  BY <1>1 DEF ClientPlaces, ClientPlaceOf

\* Whoever changes the secret, every token in the making overlaps it.
LEMMA IssuesKeep ==
  ASSUME \A k \in Handlers : IssuedUnder(k), NEW h \in Handlers, Others(h),
         clientCall'[h].op \in {clientCall[h].op, "idle"},
         clientCall'[h].op = "issue" =>
            /\ clientCall'[h].overlap = clientCall[h].overlap
            /\ clientCall'[h].secret = clientCall[h].secret,
         client'.exists => client.exists,
         client'.exists => client'.secret = client.secret \/ clientCall[h].op \in Withdraws
  PROVE  \A k \in Handlers : IssuedUnder(k)'
<1> SUFFICES ASSUME NEW k \in Handlers, clientCall'[k].op = "issue"
             PROVE  IssuedUnder(k)'
  BY DEF IssuedUnder
<1>1. /\ clientCall[k].op = "issue"
      /\ clientCall'[k].overlap = clientCall[k].overlap
      /\ clientCall'[k].secret = clientCall[k].secret
  BY DEF Others
<1>2. CASE clientCall[k].overlap
  BY <1>1, <1>2 DEF IssuedUnder
<1>3. ASSUME \A m \in Handlers : ~Changing(Withdraws, m),
             client.exists => clientCall[k].secret = client.secret
      PROVE  IssuedUnder(k)'
  <2>1. \A m \in Handlers : clientCall'[m].op \notin Withdraws
    BY <1>3 DEF Changing, Others, Withdraws
  <2>2. client'.exists => clientCall'[k].secret = client'.secret
    BY <1>1, <1>3 DEF Changing
  <2> QED
    BY <2>1, <2>2 DEF IssuedUnder, Changing
<1> QED
  BY <1>1, <1>2, <1>3 DEF IssuedUnder

\* A handler that ends where it may leaves the tables as they are.
LEMMA DoneKeeps ==
  ASSUME ClientIInv, NEW h \in Handlers, ClientDone(h),
         UNCHANGED <<clientTables, clientHistory>>,
         ~Making(h), ~ClientAt(h, {"rotate"}, "revoke"),
         clientCall[h].op = "rotate" /\ client.exists => clientCall[h].pc = "member",
         clientCall[h].op = "update" => ~client.exists
  PROVE  ClientIInv'
<1>1. /\ ClientTypes /\ ClientPlaces /\ TokensOfClient /\ ActorFollows /\ TokensFollow
      /\ RoleFollows /\ \A k \in Handlers : IssuedUnder(k)
  BY DEF ClientIInv
<1>2. Others(h) /\ clientCall'[h] = NoCall
  BY <1>1, DoneMoves
<1>3. /\ client' = client /\ serviceUsers' = serviceUsers /\ membership' = membership
      /\ tokens' = tokens /\ shown' = shown /\ rotations' = rotations
      /\ clientRaced' = clientRaced /\ clientFaults' = clientFaults
  BY DEF clientTables, clientHistory
<1>4. clientCall'[h].op = "idle" /\ clientCall'[h].pc = "idle"
  BY <1>2, Idle
<1>5. ClientTypes'
  BY <1>1, <1>2, <1>3 DEF ClientTypes, Others
<1>6. ClientPlaces'
  <2>1. ClientPlaceOf(h)'
    BY <1>2, <1>4 DEF ClientPlaceOf
  <2> QED
    BY <1>1, <1>2, <1>3, <2>1, ClientPlacesKeep
<1>10. TokensOfClient'
  BY <1>1, <1>3 DEF TokensOfClient
<1>11. \A k \in Handlers : IssuedUnder(k)'
  BY <1>1, <1>2, <1>3, <1>4, IssuesKeep
<1>7. ActorFollows'
  BY <1>1, <1>2, <1>3, <1>4 DEF ActorFollows, ActorKept, OneOf, Changing, Making, Others
<1>8. TokensFollow'
  BY <1>1, <1>2, <1>3, <1>4 DEF TokensFollow, OneOf, Changing, Withdraws, ClientAt, Others
<1>9. RoleFollows'
  BY <1>1, <1>2, <1>3, <1>4 DEF RoleFollows, RoleKept, OneOf, Changing, Setting, Others
<1> QED
  BY <1>5, <1>6, <1>7, <1>8, <1>9, <1>10, <1>11 DEF ClientIInv

LEMMA FindMembershipKeeps ==
  ASSUME ClientIInv, NEW h \in Handlers, FindMembership(h)
  PROVE  ClientIInv'
<1>1. /\ ClientTypes /\ ClientPlaces /\ TokensOfClient /\ ActorFollows /\ TokensFollow
      /\ RoleFollows /\ \A k \in Handlers : IssuedUnder(k)
  BY DEF ClientIInv
<1>2. /\ clientCall[h].op = "rotate" /\ clientCall[h].pc = "member"
      /\ UNCHANGED <<clientTables, clientHistory>>
  BY DEF FindMembership, ClientAt
<1>3. CASE ClientDone(h)
  BY <1>2, <1>3, DoneKeeps DEF Making, ClientAt
<1>4. ASSUME NEW pc \in {"secret", "setRole"}, ClientStep(h, pc),
             pc = "secret" => membership[clientCall[h].actor] = clientCall[h].role
      PROVE  ClientIInv'
  <2>1. /\ Others(h) /\ clientCall'[h].op = "rotate" /\ clientCall'[h].pc = pc
        /\ clientCall'[h].actor = clientCall[h].actor
        /\ clientCall'[h].role = clientCall[h].role
        /\ clientCall'[h].secret = clientCall[h].secret
    BY <1>1, <1>2, <1>4, StepMoves DEF ClientPCs
  <2>2. /\ client' = client /\ serviceUsers' = serviceUsers /\ membership' = membership
        /\ tokens' = tokens /\ shown' = shown /\ rotations' = rotations
        /\ clientRaced' = clientRaced /\ clientFaults' = clientFaults
    BY <1>2 DEF clientTables, clientHistory
  <2>3. ClientTypes'
    BY <1>1, <2>1, <2>2 DEF ClientTypes, Others
  <2>4. ClientPlaces'
    <3>1. ClientPlaceOf(h)'
      BY <1>1, <1>2, <2>1, <2>2 DEF ClientPlaces, ClientPlaceOf
    <3> QED
      BY <1>1, <2>1, <2>2, <3>1, ClientPlacesKeep
  <2>5. TokensOfClient'
    BY <1>1, <2>2 DEF TokensOfClient
  <2>6. \A k \in Handlers : IssuedUnder(k)'
    BY <1>1, <1>2, <2>1, <2>2, IssuesKeep
  <2>7. ActorFollows'
    BY <1>1, <1>2, <2>1, <2>2 DEF ActorFollows, ActorKept, OneOf, Changing, Making, Others
  <2>8. TokensFollow'
    BY <1>1, <1>2, <2>1, <2>2
    DEF TokensFollow, OneOf, Changing, Withdraws, ClientAt, Others
  <2>9. RoleFollows'
    BY <1>1, <1>2, <1>4, <2>1, <2>2 DEF RoleFollows, RoleKept, OneOf, Changing, Setting, Others
  <2> QED
    BY <2>3, <2>4, <2>5, <2>6, <2>7, <2>8, <2>9 DEF ClientIInv
<1> QED
  BY <1>3, <1>4 DEF FindMembership

LEMMA SetMembershipRoleKeeps ==
  ASSUME ClientIInv, NEW h \in Handlers, SetMembershipRole(h)
  PROVE  ClientIInv'
<1>1. /\ ClientTypes /\ ClientPlaces /\ TokensOfClient /\ ActorFollows /\ TokensFollow
      /\ RoleFollows /\ \A k \in Handlers : IssuedUnder(k)
  BY DEF ClientIInv
<1>2. /\ clientCall[h].op = "rotate" /\ clientCall[h].pc = "setRole"
      /\ Others(h) /\ clientCall'[h].op = "rotate" /\ clientCall'[h].pc = "secret"
      /\ clientCall'[h].actor = clientCall[h].actor
      /\ clientCall'[h].role = clientCall[h].role
      /\ clientCall'[h].secret = clientCall[h].secret
  BY <1>1, StepMoves DEF SetMembershipRole, ClientAt, ClientPCs
<1>3. /\ client' = client /\ serviceUsers' = serviceUsers /\ tokens' = tokens /\ shown' = shown
      /\ rotations' = rotations /\ clientRaced' = clientRaced /\ clientFaults' = clientFaults
      /\ membership' = [membership EXCEPT ![clientCall[h].actor] = clientCall[h].role]
  BY <1>1, <1>2 DEF SetMembershipRole, clientTables, clientHistory
<1>3a. /\ clientCall[h].role \in ApiRoles /\ clientCall[h].actor \in Actors
       /\ membership'[clientCall[h].actor] = clientCall[h].role
       /\ \A a \in Actors : a # clientCall[h].actor => membership'[a] = membership[a]
       /\ membership' \in [Actors -> ApiRoles \cup {"none"}]
  BY <1>1, <1>2, <1>3 DEF ClientTypes, ClientCallType, ClientPlaces, ClientPlaceOf
<1>4. ClientTypes'
  BY <1>1, <1>2, <1>3, <1>3a DEF ClientTypes, Others
<1>5. ClientPlaces'
  <2>1. ClientPlaceOf(h)'
    BY <1>1, <1>2, <1>3 DEF ClientPlaces, ClientPlaceOf
  <2> QED
    BY <1>1, <1>2, <1>3, <2>1, ClientPlacesKeep
<1>6. TokensOfClient'
  BY <1>1, <1>2, <1>3 DEF TokensOfClient
<1>7. \A k \in Handlers : IssuedUnder(k)'
  BY <1>1, <1>2, <1>3, IssuesKeep DEF Withdraws
<1>8. ActorFollows'
  BY <1>1, <1>2, <1>3
  DEF ActorFollows, ActorKept, OneOf, Changing, Making, Others
<1>9. TokensFollow'
  BY <1>1, <1>2, <1>3
  DEF TokensFollow, OneOf, Changing, Withdraws, ClientAt, Others
<1>10. RoleFollows'
  BY <1>1, <1>2, <1>3, <1>3a, ClientNumbers
  DEF RoleFollows, RoleKept, OneOf, Changing, Setting, Others, ClientTypes, ClientRow
<1> QED
  BY <1>4, <1>5, <1>6, <1>7, <1>8, <1>9, <1>10 DEF ClientIInv

LEMMA InsertServiceMembershipKeeps ==
  ASSUME ClientIInv, NEW h \in Handlers, InsertServiceMembership(h)
  PROVE  ClientIInv'
<1>1. /\ ClientTypes /\ ClientPlaces /\ TokensOfClient /\ ActorFollows /\ TokensFollow
      /\ RoleFollows /\ \A k \in Handlers : IssuedUnder(k)
  BY DEF ClientIInv
<1>2. /\ clientCall[h].op = "rotate" /\ clientCall[h].pc = "newMember"
      /\ Others(h) /\ clientCall'[h].op = "rotate" /\ clientCall'[h].pc = "link"
      /\ clientCall'[h].actor = clientCall[h].actor
      /\ clientCall'[h].role = clientCall[h].role
      /\ clientCall'[h].secret = clientCall[h].secret
  BY <1>1, StepMoves DEF InsertServiceMembership, ClientAt, ClientPCs
<1>3. /\ client' = client /\ serviceUsers' = serviceUsers /\ tokens' = tokens /\ shown' = shown
      /\ rotations' = rotations /\ clientRaced' = clientRaced /\ clientFaults' = clientFaults
      /\ membership' = [membership EXCEPT ![clientCall[h].actor] = clientCall[h].role]
  BY <1>1, <1>2 DEF InsertServiceMembership, clientTables, clientHistory
<1>3a. /\ clientCall[h].role \in ApiRoles /\ clientCall[h].actor \in Actors
       /\ membership'[clientCall[h].actor] = clientCall[h].role
       /\ \A a \in Actors : a # clientCall[h].actor => membership'[a] = membership[a]
       /\ membership' \in [Actors -> ApiRoles \cup {"none"}]
  BY <1>1, <1>2, <1>3 DEF ClientTypes, ClientCallType, ClientPlaces, ClientPlaceOf
<1>4. ClientTypes'
  BY <1>1, <1>2, <1>3, <1>3a DEF ClientTypes, Others
<1>5. ClientPlaces'
  <2>1. ClientPlaceOf(h)'
    BY <1>1, <1>2, <1>3 DEF ClientPlaces, ClientPlaceOf
  <2> QED
    BY <1>1, <1>2, <1>3, <2>1, ClientPlacesKeep
<1>6. TokensOfClient'
  BY <1>1, <1>2, <1>3 DEF TokensOfClient
<1>7. \A k \in Handlers : IssuedUnder(k)'
  BY <1>1, <1>2, <1>3, IssuesKeep DEF Withdraws
<1>8. ActorFollows'
  BY <1>1, <1>2, <1>3
  DEF ActorFollows, ActorKept, OneOf, Changing, Making, Others
<1>9. TokensFollow'
  BY <1>1, <1>2, <1>3
  DEF TokensFollow, OneOf, Changing, Withdraws, ClientAt, Others
<1>10. RoleFollows'
  BY <1>1, <1>2, <1>3, <1>3a, ClientNumbers
  DEF RoleFollows, RoleKept, OneOf, Changing, Setting, Others, ClientTypes, ClientRow
<1> QED
  BY <1>4, <1>5, <1>6, <1>7, <1>8, <1>9, <1>10 DEF ClientIInv

LEMMA InsertServiceUserKeeps ==
  ASSUME ClientIInv, NEW h \in Handlers, InsertServiceUser(h)
  PROVE  ClientIInv'
<1>1. /\ ClientTypes /\ ClientPlaces /\ TokensOfClient /\ ActorFollows /\ TokensFollow
      /\ RoleFollows /\ \A k \in Handlers : IssuedUnder(k)
  BY DEF ClientIInv
<1>2. /\ clientCall[h].op = "rotate" /\ clientCall[h].pc = "newUser"
      /\ clientCall[h].secret \in Secrets /\ clientCall[h].secret \in Actors
  BY <1>1, ClientNumbers DEF InsertServiceUser, ClientAt, ClientPlaces, ClientPlaceOf
<1> DEFINE v == [clientCall[h] EXCEPT !.actor = clientCall[h].secret, !.pc = "newMember"]
<1>2a. /\ clientCall' = [clientCall EXCEPT ![h] = v] /\ v \in ClientCallType
       /\ v.op = "rotate" /\ v.pc = "newMember" /\ v.actor = clientCall[h].secret
       /\ v.role = clientCall[h].role /\ v.secret = clientCall[h].secret
  BY <1>1, <1>2 DEF InsertServiceUser, ClientTypes, ClientCallType, ClientPCs
<1> HIDE DEF v
<1>2b. Others(h) /\ clientCall'[h] = v
  BY <1>1, <1>2a, FrameMoves
<1>3. /\ client' = client /\ membership' = membership /\ tokens' = tokens /\ shown' = shown
      /\ rotations' = rotations /\ clientRaced' = clientRaced /\ clientFaults' = clientFaults
      /\ serviceUsers' = serviceUsers \cup {clientCall[h].secret}
  BY <1>1, <1>2 DEF InsertServiceUser, clientTables, clientHistory
<1>4. ClientTypes'
  BY <1>1, <1>2, <1>2a, <1>2b, <1>3 DEF ClientTypes, Others
<1>5. ClientPlaces'
  <2>1. ClientPlaceOf(h)'
    BY <1>1, <1>2, <1>2a, <1>2b, <1>3, ClientNumbers DEF ClientPlaces, ClientPlaceOf
  <2> QED
    BY <1>1, <1>2, <1>2a, <1>2b, <1>3, <2>1, ClientPlacesKeep
<1>6. TokensOfClient'
  BY <1>1, <1>2, <1>2a, <1>2b, <1>3 DEF TokensOfClient
<1>7. \A k \in Handlers : IssuedUnder(k)'
  BY <1>1, <1>2, <1>2a, <1>2b, <1>3, IssuesKeep DEF Withdraws
<1>8. ActorFollows'
  BY <1>1, <1>2, <1>2a, <1>2b, <1>3, ClientNumbers
  DEF ActorFollows, ActorKept, OneOf, Changing, Making, Others
<1>9. TokensFollow'
  BY <1>1, <1>2, <1>2a, <1>2b, <1>3
  DEF TokensFollow, OneOf, Changing, Withdraws, ClientAt, Others
<1>10. RoleFollows'
  BY <1>1, <1>2, <1>2a, <1>2b, <1>3
  DEF RoleFollows, RoleKept, OneOf, Changing, Setting, Others
<1> QED
  BY <1>4, <1>5, <1>6, <1>7, <1>8, <1>9, <1>10 DEF ClientIInv

LEMMA LinkServiceUserKeeps ==
  ASSUME ClientIInv, NEW h \in Handlers, LinkServiceUser(h)
  PROVE  ClientIInv'
<1>1. /\ ClientTypes /\ ClientPlaces /\ TokensOfClient /\ ActorFollows /\ TokensFollow
      /\ RoleFollows /\ \A k \in Handlers : IssuedUnder(k)
  BY DEF ClientIInv
<1>2. CASE client.exists
  <2>2. /\ clientCall[h].op = "rotate" /\ clientCall[h].pc = "link"
        /\ Others(h) /\ clientCall'[h].op = "rotate" /\ clientCall'[h].pc = "secret"
        /\ clientCall'[h].actor = clientCall[h].actor
        /\ clientCall'[h].role = clientCall[h].role
        /\ clientCall'[h].secret = clientCall[h].secret
    BY <1>1, <1>2, StepMoves DEF LinkServiceUser, ClientAt, ClientPCs
  <2>3. /\ serviceUsers' = serviceUsers /\ membership' = membership
        /\ tokens' = tokens /\ shown' = shown
        /\ rotations' = rotations /\ clientRaced' = clientRaced /\ clientFaults' = clientFaults
        /\ client' = [client EXCEPT !.actor = clientCall[h].actor]
        /\ client'.actor = clientCall[h].actor /\ client'.exists = client.exists
        /\ client'.secret = client.secret /\ client'.apiRole = client.apiRole
        /\ clientCall[h].actor \in Actors
    <3>1. /\ serviceUsers' = serviceUsers /\ membership' = membership
          /\ tokens' = tokens /\ shown' = shown
          /\ rotations' = rotations /\ clientRaced' = clientRaced
          /\ clientFaults' = clientFaults
      BY DEF LinkServiceUser, clientHistory
    <3>2. client' = [client EXCEPT !.actor = clientCall[h].actor]
      BY <1>2 DEF LinkServiceUser
    <3>3. clientCall[h].actor \in Actors /\ client \in ClientRow
      BY <1>1, <2>2 DEF ClientTypes, ClientCallType, ClientPlaces, ClientPlaceOf
    <3> QED
      BY <3>1, <3>2, <3>3 DEF ClientRow
  <2>4. ClientTypes'
    <3>1. client' \in ClientRow
      BY <1>1, <1>2, <2>2, <2>3
      DEF ClientTypes, ClientCallType, ClientPlaces, ClientPlaceOf, ClientRow
    <3> QED
      BY <1>1, <1>2, <2>2, <2>3, <3>1 DEF ClientTypes, Others
  <2>5. ClientPlaces'
    <3>1. ClientPlaceOf(h)'
      BY <1>1, <1>2, <2>2, <2>3 DEF ClientPlaces, ClientPlaceOf
    <3> QED
      BY <1>1, <1>2, <2>2, <2>3, <3>1, ClientPlacesKeep
  <2>6. TokensOfClient'
    BY <1>1, <1>2, <2>2, <2>3 DEF TokensOfClient
  <2>7. \A k \in Handlers : IssuedUnder(k)'
    BY <1>1, <1>2, <2>2, <2>3, IssuesKeep DEF Withdraws
  <2>8. ActorFollows'
    BY <1>1, <1>2, <2>2, <2>3, ClientNumbers
    DEF ActorFollows, ActorKept, OneOf, Changing, Making, Others
  <2>9. TokensFollow'
    BY <1>1, <1>2, <2>2, <2>3
    DEF TokensFollow, OneOf, Changing, Withdraws, ClientAt, Others
  <2>10. RoleFollows'
    <3> SUFFICES ASSUME ~clientRaced.role PROVE RoleFollows'
      BY <2>3 DEF RoleFollows
    <3>1. client.actor = 0 /\ OneOf(Setting) /\ \A k \in Handlers : RoleKept(k)
      BY <1>1, <1>2, <2>2 DEF RoleFollows, RoleKept
    <3>2. tokens = {}
      BY <1>1, <1>2, <3>1, ClientNumbers DEF ClientTypes, TokenRow, RoleFollows
    <3>3. \A k \in Handlers : clientCall[k].op \notin {"issue", "request"}
      BY <1>1, <3>1 DEF RoleKept, ClientPlaces, ClientPlaceOf
    <3>4. \A k \in Handlers : clientCall[k].op \in Setting => k = h
      BY <2>2, <3>1 DEF OneOf, Changing, Setting
    <3>5. RoleKept(h)'
      BY <2>2, <2>3, <3>1 DEF RoleKept
    <3>6. \A k \in Handlers : RoleKept(k)'
      BY <3>3, <3>4, <3>5, <2>2 DEF RoleKept, Others, Setting
    <3>7. OneOf(Setting)'
      BY <2>2, <3>4 DEF OneOf, Changing, Setting, Others
    <3> QED
      BY <2>2, <2>3, <3>2, <3>6, <3>7 DEF RoleFollows, Changing, Setting
  <2> QED
    BY <2>4, <2>5, <2>6, <2>7, <2>8, <2>9, <2>10 DEF ClientIInv
<1>3. CASE ~client.exists
  <2>2. /\ clientCall[h].op = "rotate" /\ clientCall[h].pc = "link"
        /\ Others(h) /\ clientCall'[h].op = "rotate" /\ clientCall'[h].pc = "dropUser"
        /\ clientCall'[h].actor = clientCall[h].actor
        /\ clientCall'[h].role = clientCall[h].role
        /\ clientCall'[h].secret = clientCall[h].secret
    BY <1>1, <1>3, StepMoves DEF LinkServiceUser, ClientAt, ClientPCs
  <2>3. /\ client' = client /\ serviceUsers' = serviceUsers
        /\ membership' = membership /\ tokens' = tokens
        /\ shown' = shown /\ rotations' = rotations
        /\ clientRaced' = clientRaced /\ clientFaults' = clientFaults
    BY <1>1, <1>3, <2>2 DEF LinkServiceUser, clientTables, clientHistory
  <2>4. ClientTypes'
    BY <1>1, <1>3, <2>2, <2>3 DEF ClientTypes, Others
  <2>5. ClientPlaces'
    <3>1. ClientPlaceOf(h)'
      BY <1>1, <1>3, <2>2, <2>3 DEF ClientPlaces, ClientPlaceOf
    <3> QED
      BY <1>1, <1>3, <2>2, <2>3, <3>1, ClientPlacesKeep
  <2>6. TokensOfClient'
    BY <1>1, <1>3, <2>2, <2>3 DEF TokensOfClient
  <2>7. \A k \in Handlers : IssuedUnder(k)'
    BY <1>1, <1>3, <2>2, <2>3, IssuesKeep DEF Withdraws
  <2>8. ActorFollows'
    BY <1>1, <1>3, <2>2, <2>3
    DEF ActorFollows, ActorKept, OneOf, Changing, Making, Others
  <2>9. TokensFollow'
    BY <1>1, <1>3, <2>2, <2>3
    DEF TokensFollow, OneOf, Changing, Withdraws, ClientAt, Others
  <2>10. RoleFollows'
    BY <1>1, <1>3, <2>2, <2>3
    DEF RoleFollows, RoleKept, OneOf, Changing, Setting, Others
  <2> QED
    BY <2>4, <2>5, <2>6, <2>7, <2>8, <2>9, <2>10 DEF ClientIInv
<1> QED
  BY <1>2, <1>3

LEMMA StoreSecretKeeps ==
  ASSUME ClientIInv, NEW h \in Handlers, StoreSecret(h)
  PROVE  ClientIInv'
<1>1. /\ ClientTypes /\ ClientPlaces /\ TokensOfClient /\ ActorFollows /\ TokensFollow
      /\ RoleFollows /\ \A k \in Handlers : IssuedUnder(k)
  BY DEF ClientIInv
<1>2. CASE client.exists
  <2>2. /\ clientCall[h].op = "rotate" /\ clientCall[h].pc = "secret"
        /\ Others(h) /\ clientCall'[h].op = "rotate" /\ clientCall'[h].pc = "revoke"
        /\ clientCall'[h].actor = clientCall[h].actor
        /\ clientCall'[h].role = clientCall[h].role
        /\ clientCall'[h].secret = clientCall[h].secret
    BY <1>1, <1>2, StepMoves DEF StoreSecret, ClientAt, ClientPCs
  <2>3. /\ serviceUsers' = serviceUsers /\ membership' = membership
        /\ tokens' = tokens /\ shown' = shown
        /\ rotations' = rotations /\ clientRaced' = clientRaced /\ clientFaults' = clientFaults
        /\ client' = [client EXCEPT !.secret = clientCall[h].secret,
                          !.apiRole = clientCall[h].role, !.actor = clientCall[h].actor]
        /\ client'.actor = clientCall[h].actor /\ client'.exists = client.exists
        /\ client'.secret = clientCall[h].secret /\ client'.apiRole = clientCall[h].role
        /\ clientCall[h].actor \in Actors
    <3>1. /\ serviceUsers' = serviceUsers /\ membership' = membership
          /\ tokens' = tokens /\ shown' = shown
          /\ rotations' = rotations /\ clientRaced' = clientRaced
          /\ clientFaults' = clientFaults
      BY DEF StoreSecret, clientHistory
    <3>2. client' = [client EXCEPT !.secret = clientCall[h].secret,
                            !.apiRole = clientCall[h].role, !.actor = clientCall[h].actor]
      BY <1>2 DEF StoreSecret
    <3>3. clientCall[h].actor \in Actors /\ client \in ClientRow
      BY <1>1, <2>2 DEF ClientTypes, ClientCallType, ClientPlaces, ClientPlaceOf
    <3> QED
      BY <3>1, <3>2, <3>3 DEF ClientRow
  <2>4. ClientTypes'
    <3>1. client' \in ClientRow
      BY <1>1, <1>2, <2>2, <2>3
      DEF ClientTypes, ClientCallType, ClientPlaces, ClientPlaceOf, ClientRow
    <3> QED
      BY <1>1, <1>2, <2>2, <2>3, <3>1 DEF ClientTypes, Others
  <2>5. ClientPlaces'
    <3>1. ClientPlaceOf(h)'
      BY <1>1, <1>2, <2>2, <2>3 DEF ClientPlaces, ClientPlaceOf
    <3> QED
      BY <1>1, <1>2, <2>2, <2>3, <3>1, ClientPlacesKeep
  <2>6. TokensOfClient'
    BY <1>1, <1>2, <2>2, <2>3 DEF TokensOfClient
  <2>7. \A k \in Handlers : IssuedUnder(k)'
    BY <1>1, <1>2, <2>2, <2>3, IssuesKeep DEF Withdraws
  <2>8. ActorFollows'
    BY <1>1, <1>2, <2>2, <2>3, ClientNumbers
    DEF ActorFollows, ActorKept, OneOf, Changing, Making, Others
  <2>9. TokensFollow'
    BY <1>1, <1>2, <2>2, <2>3
    DEF TokensFollow, OneOf, Changing, Withdraws, ClientAt, Others
  <2>10. RoleFollows'
    BY <1>1, <1>2, <2>2, <2>3, ClientNumbers
    DEF RoleFollows, RoleKept, OneOf, Changing, Setting, Others, TokensOfClient
  <2> QED
    BY <2>4, <2>5, <2>6, <2>7, <2>8, <2>9, <2>10 DEF ClientIInv
<1>3. CASE ~client.exists
  BY <1>3, DoneKeeps DEF StoreSecret, ClientAt, Making, clientTables
<1> QED
  BY <1>2, <1>3

LEMMA DropServiceUserKeeps ==
  ASSUME ClientIInv, NEW h \in Handlers, DropServiceUser(h)
  PROVE  ClientIInv'
<1>1. /\ ClientTypes /\ ClientPlaces /\ TokensOfClient /\ ActorFollows /\ TokensFollow
      /\ RoleFollows /\ \A k \in Handlers : IssuedUnder(k)
  BY DEF ClientIInv
<1>2. /\ clientCall[h].op \in {"rotate", "remove"} /\ clientCall[h].pc = "dropUser"
      /\ Others(h) /\ clientCall'[h] = NoCall
      /\ clientCall'[h].op = "idle" /\ clientCall'[h].pc = "idle"
  BY <1>1, DoneMoves, Idle DEF DropServiceUser, ClientAt
<1>3. /\ membership' = membership /\ shown' = shown
      /\ rotations' = rotations /\ clientRaced' = clientRaced
      /\ clientFaults' = clientFaults
      /\ serviceUsers' = serviceUsers \ {clientCall[h].actor}
      /\ tokens' = {t \in tokens : t.actor # clientCall[h].actor}
      /\ client' = IF client.actor = clientCall[h].actor
                   THEN [client EXCEPT !.actor = 0] ELSE client
      /\ client'.exists = client.exists /\ client'.secret = client.secret
      /\ client'.apiRole = client.apiRole
      /\ client'.actor = IF client.actor = clientCall[h].actor THEN 0 ELSE client.actor
  BY <1>1, <1>2
  DEF DropServiceUser, clientTables, clientHistory, DropUser, ClientTypes, ClientRow
<1>4. ClientTypes'
  <2>1. client' \in ClientRow
    BY <1>1, <1>2, <1>3 DEF ClientTypes, ClientCallType, ClientPlaces, ClientPlaceOf, ClientRow
  <2> QED
    BY <1>1, <1>2, <1>3, <2>1 DEF ClientTypes, Others
<1>5. ClientPlaces'
  <2>1. ClientPlaceOf(h)'
    BY <1>1, <1>2, <1>3, ClientNumbers DEF ClientPlaces, ClientPlaceOf
  <2> QED
    BY <1>1, <1>2, <1>3, <2>1, ClientPlacesKeep
<1>6. TokensOfClient'
  BY <1>1, <1>2, <1>3 DEF TokensOfClient
<1>7. \A k \in Handlers : IssuedUnder(k)'
  BY <1>1, <1>2, <1>3, IssuesKeep DEF Withdraws
<1>8. ActorFollows'
  BY <1>1, <1>2, <1>3, ClientNumbers
  DEF ActorFollows, ActorKept, OneOf, Changing, Making, Others, ClientPlaces, ClientPlaceOf
<1>9. TokensFollow'
  BY <1>1, <1>2, <1>3
  DEF TokensFollow, OneOf, Changing, Withdraws, ClientAt, Others
<1>10. RoleFollows'
  BY <1>1, <1>2, <1>3, ClientNumbers
  DEF RoleFollows, RoleKept, OneOf, Changing, Setting, Others, ClientPlaces, ClientPlaceOf
<1> QED
  BY <1>4, <1>5, <1>6, <1>7, <1>8, <1>9, <1>10 DEF ClientIInv

LEMMA RevokedAre ==
  ASSUME ClientTypes, RevokeAll
  PROVE  /\ tokens' \in SUBSET TokenRow /\ \A t \in tokens' : t.revoked
         /\ \A t \in tokens' : \E u \in tokens : t.actor = u.actor
<1> SUFFICES ASSUME NEW t \in tokens'
             PROVE  t \in TokenRow /\ t.revoked /\ \E u \in tokens : t.actor = u.actor
  OBVIOUS
<1>1. PICK u \in tokens : t = [u EXCEPT !.revoked = TRUE]
  BY DEF RevokeAll
<1>2. u \in TokenRow
  BY DEF ClientTypes
<1> QED
  BY <1>1, <1>2 DEF TokenRow

LEMMA RevokeRotatedKeeps ==
  ASSUME ClientIInv, NEW h \in Handlers, RevokeRotated(h)
  PROVE  ClientIInv'
<1>1. /\ ClientTypes /\ ClientPlaces /\ TokensOfClient /\ ActorFollows /\ TokensFollow
      /\ RoleFollows /\ \A k \in Handlers : IssuedUnder(k)
  BY DEF ClientIInv
<1>2. /\ clientCall[h].op \in {"rotate"} /\ clientCall[h].pc = "revoke"
      /\ Others(h) /\ clientCall'[h] = NoCall
      /\ clientCall'[h].op = "idle" /\ clientCall'[h].pc = "idle"
  BY <1>1, DoneMoves, Idle DEF RevokeRotated, ClientAt
<1>3. /\ client' = client /\ serviceUsers' = serviceUsers
      /\ membership' = membership /\ rotations' = rotations
      /\ clientRaced' = clientRaced /\ clientFaults' = clientFaults
      /\ RevokeAll
      /\ shown' = shown \cup {clientCall[h].secret} /\ clientCall[h].secret \in Secrets
  BY <1>1, <1>2
  DEF RevokeRotated, clientTables, clientHistory, ClientPlaces, ClientPlaceOf
<1>3a. /\ tokens' \in SUBSET TokenRow /\ \A t \in tokens' : t.revoked
       /\ \A t \in tokens' : \E u \in tokens : t.actor = u.actor
  BY <1>1, <1>3, RevokedAre
<1>4. ClientTypes'
  BY <1>1, <1>2, <1>3, <1>3a DEF ClientTypes, Others
<1>5. ClientPlaces'
  <2>1. ClientPlaceOf(h)'
    BY <1>1, <1>2, <1>3 DEF ClientPlaces, ClientPlaceOf
  <2> QED
    BY <1>1, <1>2, <1>3, <2>1, ClientPlacesKeep
<1>6. TokensOfClient'
  BY <1>1, <1>2, <1>3, <1>3a DEF TokensOfClient
<1>7. \A k \in Handlers : IssuedUnder(k)'
  BY <1>1, <1>2, <1>3, IssuesKeep DEF Withdraws
<1>8. ActorFollows'
  BY <1>1, <1>2, <1>3
  DEF ActorFollows, ActorKept, OneOf, Changing, Making, Others
<1>9. TokensFollow'
  BY <1>1, <1>2, <1>3, <1>3a
  DEF TokensFollow, OneOf, Changing, Withdraws, ClientAt, Others
<1>10. RoleFollows'
  BY <1>1, <1>2, <1>3, <1>3a
  DEF RoleFollows, RoleKept, OneOf, Changing, Setting, Others
<1> QED
  BY <1>4, <1>5, <1>6, <1>7, <1>8, <1>9, <1>10 DEF ClientIInv

LEMMA RevokeTokensKeeps ==
  ASSUME ClientIInv, NEW h \in Handlers, RevokeTokens(h)
  PROVE  ClientIInv'
<1>1. /\ ClientTypes /\ ClientPlaces /\ TokensOfClient /\ ActorFollows /\ TokensFollow
      /\ RoleFollows /\ \A k \in Handlers : IssuedUnder(k)
  BY DEF ClientIInv
<1>2. /\ clientCall[h].op = "revoke" /\ clientCall[h].pc = "revoke"
      /\ Others(h) /\ clientCall'[h].op = "revoke" /\ clientCall'[h].pc = "clear"
      /\ clientCall'[h].actor = clientCall[h].actor
      /\ clientCall'[h].role = clientCall[h].role
      /\ clientCall'[h].secret = clientCall[h].secret
  BY <1>1, StepMoves DEF RevokeTokens, ClientAt, ClientPCs
<1>3. /\ client' = client /\ serviceUsers' = serviceUsers
      /\ membership' = membership /\ shown' = shown
      /\ rotations' = rotations /\ clientRaced' = clientRaced /\ clientFaults' = clientFaults
      /\ RevokeAll
  BY <1>1, <1>2 DEF RevokeTokens, clientTables, clientHistory
<1>3a. /\ tokens' \in SUBSET TokenRow /\ \A t \in tokens' : t.revoked
       /\ \A t \in tokens' : \E u \in tokens : t.actor = u.actor
  BY <1>1, <1>3, RevokedAre
<1>4. ClientTypes'
  BY <1>1, <1>2, <1>3, <1>3a DEF ClientTypes, Others
<1>5. ClientPlaces'
  <2>1. ClientPlaceOf(h)'
    BY <1>1, <1>2, <1>3 DEF ClientPlaces, ClientPlaceOf
  <2> QED
    BY <1>1, <1>2, <1>3, <2>1, ClientPlacesKeep
<1>6. TokensOfClient'
  BY <1>1, <1>2, <1>3, <1>3a DEF TokensOfClient
<1>7. \A k \in Handlers : IssuedUnder(k)'
  BY <1>1, <1>2, <1>3, IssuesKeep DEF Withdraws
<1>8. ActorFollows'
  BY <1>1, <1>2, <1>3
  DEF ActorFollows, ActorKept, OneOf, Changing, Making, Others
<1>9. TokensFollow'
  BY <1>1, <1>2, <1>3, <1>3a
  DEF TokensFollow, OneOf, Changing, Withdraws, ClientAt, Others
<1>10. RoleFollows'
  BY <1>1, <1>2, <1>3, <1>3a
  DEF RoleFollows, RoleKept, OneOf, Changing, Setting, Others
<1> QED
  BY <1>4, <1>5, <1>6, <1>7, <1>8, <1>9, <1>10 DEF ClientIInv

LEMMA ClearSecretKeeps ==
  ASSUME ClientIInv, NEW h \in Handlers, ClearSecret(h)
  PROVE  ClientIInv'
<1>1. /\ ClientTypes /\ ClientPlaces /\ TokensOfClient /\ ActorFollows /\ TokensFollow
      /\ RoleFollows /\ \A k \in Handlers : IssuedUnder(k)
  BY DEF ClientIInv
<1>2. /\ clientCall[h].op \in {"revoke"} /\ clientCall[h].pc = "clear"
      /\ Others(h) /\ clientCall'[h] = NoCall
      /\ clientCall'[h].op = "idle" /\ clientCall'[h].pc = "idle"
  BY <1>1, DoneMoves, Idle DEF ClearSecret, ClientAt
<1>3. /\ serviceUsers' = serviceUsers /\ membership' = membership
      /\ tokens' = tokens /\ shown' = shown
      /\ rotations' = rotations /\ clientRaced' = clientRaced /\ clientFaults' = clientFaults
      /\ client' = IF client.exists THEN [client EXCEPT !.secret = 0] ELSE client
      /\ client'.exists = client.exists /\ client'.actor = client.actor
      /\ client'.apiRole = client.apiRole
  BY <1>1, <1>2 DEF ClearSecret, clientTables, clientHistory, ClientTypes, ClientRow
<1>4. ClientTypes'
  <2>1. client' \in ClientRow
    BY <1>1, <1>2, <1>3 DEF ClientTypes, ClientCallType, ClientPlaces, ClientPlaceOf, ClientRow
  <2> QED
    BY <1>1, <1>2, <1>3, <2>1 DEF ClientTypes, Others
<1>5. ClientPlaces'
  <2>1. ClientPlaceOf(h)'
    BY <1>1, <1>2, <1>3 DEF ClientPlaces, ClientPlaceOf
  <2> QED
    BY <1>1, <1>2, <1>3, <2>1, ClientPlacesKeep
<1>6. TokensOfClient'
  BY <1>1, <1>2, <1>3 DEF TokensOfClient
<1>7. \A k \in Handlers : IssuedUnder(k)'
  BY <1>1, <1>2, <1>3, IssuesKeep DEF Withdraws
<1>8. ActorFollows'
  BY <1>1, <1>2, <1>3
  DEF ActorFollows, ActorKept, OneOf, Changing, Making, Others
<1>9. TokensFollow'
  BY <1>1, <1>2, <1>3
  DEF TokensFollow, OneOf, Changing, Withdraws, ClientAt, Others
<1>10. RoleFollows'
  BY <1>1, <1>2, <1>3
  DEF RoleFollows, RoleKept, OneOf, Changing, Setting, Others
<1> QED
  BY <1>4, <1>5, <1>6, <1>7, <1>8, <1>9, <1>10 DEF ClientIInv

LEMMA MirrorRoleKeeps ==
  ASSUME ClientIInv, NEW h \in Handlers, MirrorRole(h)
  PROVE  ClientIInv'
<1>1. /\ ClientTypes /\ ClientPlaces /\ TokensOfClient /\ ActorFollows /\ TokensFollow
      /\ RoleFollows /\ \A k \in Handlers : IssuedUnder(k)
  BY DEF ClientIInv
<1>2. /\ clientCall[h].op \in {"update"} /\ clientCall[h].pc = "mirror"
      /\ Others(h) /\ clientCall'[h] = NoCall
      /\ clientCall'[h].op = "idle" /\ clientCall'[h].pc = "idle"
  BY <1>1, DoneMoves, Idle DEF MirrorRole, ClientAt
<1>3. /\ client' = client /\ serviceUsers' = serviceUsers /\ tokens' = tokens /\ shown' = shown
      /\ rotations' = rotations /\ clientRaced' = clientRaced /\ clientFaults' = clientFaults
      /\ membership' = [membership EXCEPT ![clientCall[h].actor] = clientCall[h].role]
  BY <1>1, <1>2 DEF MirrorRole, clientTables, clientHistory
<1>3a. /\ clientCall[h].role \in ApiRoles /\ clientCall[h].actor \in Actors
       /\ membership'[clientCall[h].actor] = clientCall[h].role
       /\ \A a \in Actors : a # clientCall[h].actor => membership'[a] = membership[a]
       /\ membership' \in [Actors -> ApiRoles \cup {"none"}]
  BY <1>1, <1>2, <1>3 DEF ClientTypes, ClientCallType, ClientPlaces, ClientPlaceOf
<1>4. ClientTypes'
  BY <1>1, <1>2, <1>3, <1>3a DEF ClientTypes, Others
<1>5. ClientPlaces'
  <2>1. ClientPlaceOf(h)'
    BY <1>1, <1>2, <1>3 DEF ClientPlaces, ClientPlaceOf
  <2> QED
    BY <1>1, <1>2, <1>3, <2>1, ClientPlacesKeep
<1>6. TokensOfClient'
  BY <1>1, <1>2, <1>3 DEF TokensOfClient
<1>7. \A k \in Handlers : IssuedUnder(k)'
  BY <1>1, <1>2, <1>3, IssuesKeep DEF Withdraws
<1>8. ActorFollows'
  BY <1>1, <1>2, <1>3
  DEF ActorFollows, ActorKept, OneOf, Changing, Making, Others
<1>9. TokensFollow'
  BY <1>1, <1>2, <1>3
  DEF TokensFollow, OneOf, Changing, Withdraws, ClientAt, Others
<1>10. RoleFollows'
  BY <1>1, <1>2, <1>3, <1>3a, ClientNumbers
  DEF RoleFollows, RoleKept, OneOf, Changing, Setting, Others, ClientTypes, ClientRow
<1> QED
  BY <1>4, <1>5, <1>6, <1>7, <1>8, <1>9, <1>10 DEF ClientIInv

\* A handler starts, and what overlaps is remembered.
LEMMA StartMoves ==
  ASSUME ClientTypes, NEW h \in Handlers, NEW f \in ClientCallType, ClientStart(h, f)
  PROVE  /\ clientCall[h] = NoCall
         /\ clientCall' \in [Handlers -> ClientCallType]
         /\ clientCall'[h].op = f.op /\ clientCall'[h].pc = f.pc
         /\ clientCall'[h].actor = f.actor /\ clientCall'[h].role = f.role
         /\ clientCall'[h].secret = f.secret
         /\ clientCall'[h].overlap = (f.op = "issue" /\ Active(Withdraws))
         /\ \A k \in Handlers : k # h =>
               /\ clientCall'[k].op = clientCall[k].op /\ clientCall'[k].pc = clientCall[k].pc
               /\ clientCall'[k].actor = clientCall[k].actor
               /\ clientCall'[k].role = clientCall[k].role
               /\ clientCall'[k].secret = clientCall[k].secret
               /\ clientCall[k].op # "issue" => clientCall'[k] = clientCall[k]
               /\ clientCall[k].overlap => clientCall'[k].overlap
               /\ clientCall[k].op = "issue" /\ f.op \in Withdraws => clientCall'[k].overlap
<1> DEFINE v == [f EXCEPT !.overlap = f.op = "issue" /\ Active(Withdraws)]
           w(k) == [clientCall[k] EXCEPT !.overlap =
                       \/ clientCall[k].overlap
                       \/ clientCall[k].op = "issue" /\ f.op \in Withdraws]
<1>1. /\ clientCall[h] = NoCall
      /\ clientCall' = [k \in Handlers |-> IF k = h THEN v ELSE w(k)]
  BY DEF ClientStart
<1>2. /\ v \in ClientCallType /\ v.op = f.op /\ v.pc = f.pc /\ v.actor = f.actor
      /\ v.role = f.role /\ v.secret = f.secret
      /\ v.overlap = (f.op = "issue" /\ Active(Withdraws))
  BY DEF ClientCallType
<1>3. ASSUME NEW k \in Handlers
      PROVE  /\ w(k) \in ClientCallType
             /\ w(k).op = clientCall[k].op /\ w(k).pc = clientCall[k].pc
             /\ w(k).actor = clientCall[k].actor /\ w(k).role = clientCall[k].role
             /\ w(k).secret = clientCall[k].secret
             /\ clientCall[k].op # "issue" => w(k) = clientCall[k]
             /\ clientCall[k].overlap => w(k).overlap
             /\ clientCall[k].op = "issue" /\ f.op \in Withdraws => w(k).overlap
  <2>1. clientCall[k] \in ClientCallType
    BY DEF ClientTypes
  <2> DEFINE c == clientCall[k]
             o == c.overlap \/ (c.op = "issue" /\ f.op \in Withdraws)
  <2>2. o \in BOOLEAN
    OBVIOUS
  <2>3. c.op # "issue" => o = c.overlap
    BY <2>1 DEF ClientCallType
  <2> HIDE DEF o
  <2>4. /\ [c EXCEPT !.overlap = o] \in ClientCallType
        /\ [c EXCEPT !.overlap = o].op = c.op /\ [c EXCEPT !.overlap = o].pc = c.pc
        /\ [c EXCEPT !.overlap = o].actor = c.actor /\ [c EXCEPT !.overlap = o].role = c.role
        /\ [c EXCEPT !.overlap = o].secret = c.secret
        /\ [c EXCEPT !.overlap = o].overlap = o
    BY <2>1, <2>2 DEF ClientCallType
  <2>5. o = c.overlap => [c EXCEPT !.overlap = o] = c
    BY <2>1 DEF ClientCallType
  <2> QED
    BY <2>3, <2>4, <2>5 DEF o
<1> HIDE DEF v, w
<1> QED
  BY <1>1, <1>2, <1>3

LEMMA StartRaces ==
  ASSUME ClientTypes, NEW h \in Handlers, NEW f \in ClientCallType, ClientStart(h, f)
  PROVE  /\ clientRaced' \in [role : BOOLEAN, actor : BOOLEAN, secret : BOOLEAN]
         /\ ~clientRaced'.role =>
               /\ ~clientRaced.role
               /\ f.op \in Setting => \A k \in Handlers : ~Changing(Setting, k)
         /\ ~clientRaced'.actor =>
               /\ ~clientRaced.actor
               /\ f.op \in {"rotate", "remove"} =>
                     \A k \in Handlers : ~Changing({"rotate", "remove"}, k)
         /\ ~clientRaced'.secret =>
               ~clientRaced.secret
               /\ (f.op \in Withdraws => \A k \in Handlers : ~Changing(Withdraws, k))
<1> DEFINE r == \/ clientRaced.role
                \/ f.op \in {"rotate", "update"} /\ Active({"rotate", "update"})
           a == \/ clientRaced.actor
                \/ f.op \in {"rotate", "remove"} /\ Active({"rotate", "remove"})
           s == clientRaced.secret \/ (f.op \in Withdraws /\ Active(Withdraws))
<1>1. clientRaced' = [role |-> r, actor |-> a, secret |-> s]
  BY DEF ClientStart
<1>2. r \in BOOLEAN /\ a \in BOOLEAN /\ s \in BOOLEAN
  OBVIOUS
<1>3. ~r => ~clientRaced.role /\ (f.op \in Setting => \A k \in Handlers : ~Changing(Setting, k))
  BY DEF Active, Changing, Setting
<1>4. ~a => /\ ~clientRaced.actor
            /\ f.op \in {"rotate", "remove"} =>
                  \A k \in Handlers : ~Changing({"rotate", "remove"}, k)
  BY DEF Active, Changing
<1>5. ~s => /\ ~clientRaced.secret
            /\ (f.op \in Withdraws => \A k \in Handlers : ~Changing(Withdraws, k))
  BY DEF Active, Changing
<1> HIDE DEF r, a, s
<1> QED
  BY <1>1, <1>2, <1>3, <1>4, <1>5

LEMMA StartKeeps ==
  ASSUME ClientIInv, NEW h \in Handlers, NEW f \in ClientCallType, ClientStart(h, f),
         rotations' \in 0..MaxRotations,
         client.exists, f.op # "idle",
         f.op = "rotate" =>
            /\ f.actor = client.actor /\ f.role \in ApiRoles /\ f.secret \in Secrets
            /\ f.pc = IF client.actor = 0 THEN "newUser" ELSE "member",
         f.op = "revoke" => f.pc = "revoke",
         f.op = "update" => f.pc = "write",
         f.op = "remove" => f.pc = "delete",
         f.op \in {"issue", "request"} => f.pc = "member" /\ f.actor # 0,
         f.op = "issue" => f.secret = client.secret /\ f.secret # 0,
         f.op \in {"issue", "request"} /\ ~clientRaced.role => f.actor = client.actor
  PROVE  ClientIInv'
<1>1. /\ ClientTypes /\ ClientPlaces /\ TokensOfClient /\ ActorFollows /\ TokensFollow
      /\ RoleFollows /\ \A k \in Handlers : IssuedUnder(k)
  BY DEF ClientIInv
<1> DEFINE d == clientCall'[h]
<1>2. /\ clientCall[h] = NoCall /\ clientCall' \in [Handlers -> ClientCallType]
      /\ d.op = f.op /\ d.pc = f.pc /\ d.actor = f.actor /\ d.role = f.role
      /\ d.secret = f.secret /\ d.overlap = (f.op = "issue" /\ Active(Withdraws))
  BY <1>1, StartMoves
<1>3. \A k \in Handlers : k # h =>
         /\ clientCall'[k].op = clientCall[k].op /\ clientCall'[k].pc = clientCall[k].pc
         /\ clientCall'[k].actor = clientCall[k].actor
         /\ clientCall'[k].role = clientCall[k].role
         /\ clientCall'[k].secret = clientCall[k].secret
         /\ clientCall[k].op # "issue" => clientCall'[k] = clientCall[k]
         /\ clientCall[k].overlap => clientCall'[k].overlap
         /\ clientCall[k].op = "issue" /\ f.op \in Withdraws => clientCall'[k].overlap
  BY <1>1, StartMoves
<1>4. /\ client' = client /\ serviceUsers' = serviceUsers /\ membership' = membership
      /\ tokens' = tokens /\ shown' = shown /\ clientFaults' = clientFaults
  BY DEF ClientStart, clientTables
<1>5. /\ clientRaced' \in [role : BOOLEAN, actor : BOOLEAN, secret : BOOLEAN]
      /\ ~clientRaced'.role =>
            ~clientRaced.role /\ (f.op \in Setting => \A k \in Handlers : ~Changing(Setting, k))
      /\ ~clientRaced'.actor =>
            /\ ~clientRaced.actor
            /\ f.op \in {"rotate", "remove"} =>
                  \A k \in Handlers : ~Changing({"rotate", "remove"}, k)
      /\ ~clientRaced'.secret =>
            ~clientRaced.secret
            /\ (f.op \in Withdraws => \A k \in Handlers : ~Changing(Withdraws, k))
  BY <1>1, StartRaces
<1>6. clientCall[h].op = "idle"
  BY <1>2, Idle
<1>7. ClientTypes'
  BY <1>1, <1>2, <1>4, <1>5 DEF ClientTypes
<1>8. ClientPlaces'
  <2> SUFFICES ASSUME NEW k \in Handlers PROVE ClientPlaceOf(k)'
    BY DEF ClientPlaces
  <2>1. CASE k = h
    BY <1>1, <1>2, <1>4, <2>1, ClientNumbers DEF ClientPlaceOf, ClientTypes, ClientRow
  <2>2. CASE k # h
    <3>1. ClientPlaceOf(k)
      BY <1>1 DEF ClientPlaces
    <3> QED
      BY <1>3, <1>4, <2>2, <3>1 DEF ClientPlaceOf
  <2> QED
    BY <2>1, <2>2
<1>9. TokensOfClient'
  BY <1>1, <1>4 DEF TokensOfClient
<1>10. \A k \in Handlers : IssuedUnder(k)'
  <2> SUFFICES ASSUME NEW k \in Handlers, clientCall'[k].op = "issue", ~clientCall'[k].overlap
               PROVE  /\ \A m \in Handlers : clientCall'[m].op \notin Withdraws
                      /\ client.exists => clientCall'[k].secret = client.secret
    BY <1>4 DEF IssuedUnder, Changing
  <2>1. f.op \notin Withdraws
    BY <1>2, <1>3 DEF Withdraws
  <2>2. CASE k = h
    <3>1. ~Active(Withdraws) /\ f.op = "issue"
      BY <1>2, <2>2
    <3> QED
      BY <1>2, <1>3, <2>1, <2>2, <3>1 DEF Active
  <2>3. CASE k # h
    <3>1. clientCall[k].op = "issue" /\ ~clientCall[k].overlap
      BY <1>3, <2>3
    <3>2. /\ \A m \in Handlers : clientCall[m].op \notin Withdraws
          /\ client.exists => clientCall[k].secret = client.secret
      BY <1>1, <3>1 DEF IssuedUnder, Changing
    <3> QED
      BY <1>2, <1>3, <2>1, <2>3, <3>2
  <2> QED
    BY <2>2, <2>3
<1>11. ActorFollows'
  BY <1>1, <1>2, <1>3, <1>4, <1>5, <1>6
  DEF ActorFollows, ActorKept, OneOf, Changing, Making
<1>12. TokensFollow'
  BY <1>1, <1>2, <1>3, <1>4, <1>5, <1>6
  DEF TokensFollow, OneOf, Changing, Withdraws, ClientAt
<1>13. RoleFollows'
  BY <1>1, <1>2, <1>3, <1>4, <1>5, <1>6
  DEF RoleFollows, RoleKept, OneOf, Changing, Setting
<1> QED
  BY <1>7, <1>8, <1>9, <1>10, <1>11, <1>12, <1>13 DEF ClientIInv

LEMMA RotateStarts ==
  ASSUME ClientIInv, NEW h \in Handlers, NEW role \in ApiRoles, StartRotate(h, role)
  PROVE  ClientIInv'
<1> DEFINE n == rotations + 1
           place == IF client.actor = 0 THEN "newUser" ELSE "member"
           f == [NoCall EXCEPT !.op = "rotate", !.actor = client.actor, !.pc = place,
                               !.role = role, !.secret = n]
<1>1. ClientTypes /\ TokensOfClient /\ RoleFollows
  BY DEF ClientIInv
<1>2. ClientStart(h, f) /\ client.exists /\ rotations < MaxRotations
  BY <1>1 DEF StartRotate, TokensOfClient
<1>2a. n \in Secrets /\ place \in ClientPCs
  BY <1>1, <1>2, ClientNumbers DEF ClientTypes, Secrets, ClientPCs
<1> HIDE DEF n, place
<1>3. /\ f \in ClientCallType /\ f.op = "rotate"
      /\ f.actor = client.actor /\ f.role \in ApiRoles /\ f.secret \in Secrets
      /\ f.pc = place
  BY <1>1, <1>2, <1>2a, ClientNumbers
  DEF ClientTypes, ClientRow, ClientCallType, ClientOps, NoCall
<1>4. rotations' = rotations + IF f.op = "rotate" THEN 1 ELSE 0
  BY <1>2 DEF ClientStart
<1> HIDE DEF f
<1>5. rotations' \in 0..MaxRotations
  BY <1>1, <1>2, <1>3, <1>4, ClientNumbers DEF ClientTypes
<1> QED
  BY <1>1, <1>2, <1>3, <1>5, StartKeeps DEF place

LEMMA StartRevokeKeeps ==
  ASSUME ClientIInv, NEW h \in Handlers, StartRevoke(h)
  PROVE  ClientIInv'
<1> DEFINE f == [NoCall EXCEPT !.op = "revoke", !.pc = "revoke"]
<1>1. ClientTypes /\ TokensOfClient /\ RoleFollows
  BY DEF ClientIInv
<1>2. ClientStart(h, f) /\ client.exists
  BY <1>1 DEF StartRevoke, TokensOfClient
<1>3. /\ f \in ClientCallType /\ f.op = "revoke"
      /\ f.pc = "revoke"
  BY <1>1, <1>2, ClientNumbers
  DEF ClientTypes, ClientRow, ClientCallType, ClientOps, ClientPCs, NoCall, TokenRow, Secrets
<1>4. rotations' = rotations + IF f.op = "rotate" THEN 1 ELSE 0
  BY <1>2 DEF ClientStart
<1> HIDE DEF f
<1>5. rotations' \in 0..MaxRotations
  BY <1>1, <1>2, <1>3, <1>4, ClientNumbers DEF ClientTypes
<1> QED
  BY <1>1, <1>2, <1>3, <1>5, StartKeeps DEF RoleFollows

LEMMA StartUpdateKeeps ==
  ASSUME ClientIInv, NEW h \in Handlers, StartUpdate(h)
  PROVE  ClientIInv'
<1> DEFINE f == [NoCall EXCEPT !.op = "update", !.pc = "write"]
<1>1. ClientTypes /\ TokensOfClient /\ RoleFollows
  BY DEF ClientIInv
<1>2. ClientStart(h, f) /\ client.exists
  BY <1>1 DEF StartUpdate, TokensOfClient
<1>3. /\ f \in ClientCallType /\ f.op = "update"
      /\ f.pc = "write"
  BY <1>1, <1>2, ClientNumbers
  DEF ClientTypes, ClientRow, ClientCallType, ClientOps, ClientPCs, NoCall, TokenRow, Secrets
<1>4. rotations' = rotations + IF f.op = "rotate" THEN 1 ELSE 0
  BY <1>2 DEF ClientStart
<1> HIDE DEF f
<1>5. rotations' \in 0..MaxRotations
  BY <1>1, <1>2, <1>3, <1>4, ClientNumbers DEF ClientTypes
<1> QED
  BY <1>1, <1>2, <1>3, <1>5, StartKeeps DEF RoleFollows

LEMMA StartRemoveKeeps ==
  ASSUME ClientIInv, NEW h \in Handlers, StartRemove(h)
  PROVE  ClientIInv'
<1> DEFINE f == [NoCall EXCEPT !.op = "remove", !.pc = "delete"]
<1>1. ClientTypes /\ TokensOfClient /\ RoleFollows
  BY DEF ClientIInv
<1>2. ClientStart(h, f) /\ client.exists
  BY <1>1 DEF StartRemove, TokensOfClient
<1>3. /\ f \in ClientCallType /\ f.op = "remove"
      /\ f.pc = "delete"
  BY <1>1, <1>2, ClientNumbers
  DEF ClientTypes, ClientRow, ClientCallType, ClientOps, ClientPCs, NoCall, TokenRow, Secrets
<1>4. rotations' = rotations + IF f.op = "rotate" THEN 1 ELSE 0
  BY <1>2 DEF ClientStart
<1> HIDE DEF f
<1>5. rotations' \in 0..MaxRotations
  BY <1>1, <1>2, <1>3, <1>4, ClientNumbers DEF ClientTypes
<1> QED
  BY <1>1, <1>2, <1>3, <1>5, StartKeeps DEF RoleFollows

LEMMA StartIssueKeeps ==
  ASSUME ClientIInv, NEW h \in Handlers, NEW s \in Secrets, StartIssue(h, s)
  PROVE  ClientIInv'
<1> DEFINE f == [NoCall EXCEPT !.op = "issue", !.pc = "member", !.actor = client.actor,
                               !.secret = s]
<1>1. ClientTypes /\ TokensOfClient /\ RoleFollows
  BY DEF ClientIInv
<1>2. ClientStart(h, f) /\ client.exists /\ client.secret = s /\ client.actor # 0
  BY <1>1 DEF StartIssue, TokensOfClient
<1>3. /\ f \in ClientCallType /\ f.op = "issue"
      /\ f.pc = "member" /\ f.actor = client.actor /\ f.secret = client.secret /\ f.secret # 0
  BY <1>1, <1>2, ClientNumbers
  DEF ClientTypes, ClientRow, ClientCallType, ClientOps, ClientPCs, NoCall, TokenRow, Secrets
<1>4. rotations' = rotations + IF f.op = "rotate" THEN 1 ELSE 0
  BY <1>2 DEF ClientStart
<1> HIDE DEF f
<1>5. rotations' \in 0..MaxRotations
  BY <1>1, <1>2, <1>3, <1>4, ClientNumbers DEF ClientTypes
<1> QED
  BY <1>1, <1>2, <1>3, <1>5, StartKeeps DEF RoleFollows

LEMMA ReadBearerKeeps ==
  ASSUME ClientIInv, NEW h \in Handlers, NEW t \in tokens, ReadBearer(h, t)
  PROVE  ClientIInv'
<1> DEFINE f == [NoCall EXCEPT !.op = "request", !.pc = "member", !.actor = t.actor]
<1>1. ClientTypes /\ TokensOfClient /\ RoleFollows
  BY DEF ClientIInv
<1>2. ClientStart(h, f) /\ client.exists /\ t \in tokens
  BY <1>1 DEF ReadBearer, TokensOfClient
<1>3. /\ f \in ClientCallType /\ f.op = "request"
      /\ f.pc = "member" /\ f.actor = t.actor /\ f.actor # 0
  BY <1>1, <1>2, ClientNumbers
  DEF ClientTypes, ClientRow, ClientCallType, ClientOps, ClientPCs, NoCall, TokenRow, Secrets
<1>4. rotations' = rotations + IF f.op = "rotate" THEN 1 ELSE 0
  BY <1>2 DEF ClientStart
<1> HIDE DEF f
<1>5. rotations' \in 0..MaxRotations
  BY <1>1, <1>2, <1>3, <1>4, ClientNumbers DEF ClientTypes
<1> QED
  BY <1>1, <1>2, <1>3, <1>5, StartKeeps DEF RoleFollows

LEMMA WriteClientKeeps ==
  ASSUME ClientIInv, NEW h \in Handlers, NEW kind \in {"service", "interactive"},
         NEW role \in ApiRoles \cup {"none"}, WriteClient(h, kind, role)
  PROVE  ClientIInv'
<1>1. /\ ClientTypes /\ ClientPlaces /\ TokensOfClient /\ ActorFollows /\ TokensFollow
      /\ RoleFollows /\ \A k \in Handlers : IssuedUnder(k)
  BY DEF ClientIInv
<1>1a. /\ clientCall[h].op = "update" /\ clientCall[h].pc = "write"
       /\ serviceUsers' = serviceUsers /\ membership' = membership /\ tokens' = tokens
       /\ shown' = shown /\ rotations' = rotations
       /\ clientRaced' = clientRaced /\ clientFaults' = clientFaults
  BY DEF WriteClient, ClientAt, clientHistory
<1>1b. CASE ~client.exists
  BY <1>1a, <1>1b, DoneKeeps DEF WriteClient, ClientAt, Making, clientTables, clientHistory
<1> DEFINE r == IF role = "none" THEN client.apiRole ELSE role
<1>1c. ASSUME client.exists
       PROVE  /\ client' \in ClientRow /\ client'.apiRole = r /\ client'.exists = client.exists
              /\ client'.secret = client.secret /\ client'.actor = client.actor
              /\ client.actor \in Actors \cup {0}
  <2>1. client' = [client EXCEPT !.kind = kind, !.apiRole = r]
    BY <1>1c DEF WriteClient
  <2>2. r \in ApiRoles
    BY <1>1 DEF ClientTypes, ClientRow
  <2> HIDE DEF r
  <2> QED
    BY <1>1, <2>1, <2>2 DEF ClientTypes, ClientRow
<1>2. CASE client.exists /\ client.actor # 0 /\ role # "none"
  <2> DEFINE v == [clientCall[h] EXCEPT !.pc = "mirror", !.actor = client.actor, !.role = role]
  <2>1. /\ clientCall' = [clientCall EXCEPT ![h] = v] /\ v \in ClientCallType
        /\ v.op = "update" /\ v.pc = "mirror" /\ v.actor = client.actor /\ v.role = role
    <3>1. clientCall' = [clientCall EXCEPT ![h] = v]
      BY <1>2 DEF WriteClient
    <3>2. clientCall[h] \in ClientCallType /\ client.actor \in Actors \cup {0}
      BY <1>1, <1>1c, <1>2 DEF ClientTypes
    <3>3. "mirror" \in ClientPCs
      BY DEF ClientPCs
    <3> QED
      BY <1>1a, <3>1, <3>2, <3>3 DEF ClientCallType
  <2>1a. r = role /\ role \in ApiRoles
    BY <1>2
  <2> HIDE DEF v, r
  <2>2. /\ Others(h) /\ clientCall'[h].op = "update" /\ clientCall'[h].pc = "mirror"
        /\ clientCall'[h].actor = client.actor /\ clientCall'[h].role = r /\ r \in ApiRoles
    BY <1>1, <2>1, <2>1a, FrameMoves
  <2>2a. /\ client' \in ClientRow /\ client'.apiRole = r /\ client'.exists = client.exists
         /\ client'.secret = client.secret /\ client'.actor = client.actor
    BY <1>1c, <1>2
  <2>3. ClientTypes'
    BY <1>1, <1>1a, <1>2, <2>2, <2>2a DEF ClientTypes, Others
  <2>4. ClientPlaces'
    <3>1. ClientPlaceOf(h)'
      BY <1>1, <1>1a, <1>2, <2>2, <2>2a DEF ClientPlaceOf
    <3> QED
      BY <1>1, <1>1a, <1>2, <2>2, <2>2a, <3>1, ClientPlacesKeep
  <2>5. TokensOfClient'
    BY <1>1, <1>1a, <2>2a DEF TokensOfClient
  <2>6. \A k \in Handlers : IssuedUnder(k)'
    BY <1>1, <1>1a, <1>2, <2>2, <2>2a, IssuesKeep
  <2>7. ActorFollows'
    BY <1>1, <1>1a, <1>2, <2>2, <2>2a
    DEF ActorFollows, ActorKept, OneOf, Changing, Making, Others
  <2>8. TokensFollow'
    BY <1>1, <1>1a, <1>2, <2>2, <2>2a
    DEF TokensFollow, OneOf, Changing, Withdraws, ClientAt, Others
  <2>9. RoleFollows'
    <3> SUFFICES ASSUME ~clientRaced.role PROVE RoleFollows'
      BY <1>1a DEF RoleFollows
    <3>1. /\ \A k \in Handlers : RoleKept(k)
          /\ \A k \in Handlers : clientCall[k].op \in Setting => k = h
          /\ \A t \in tokens : t.actor = client.actor
      BY <1>1, <1>1a, <1>2 DEF RoleFollows, OneOf, Changing, Setting
    <3>2. RoleKept(h)'
      BY <2>2, <2>2a DEF RoleKept
    <3>3. \A k \in Handlers : RoleKept(k)'
      BY <2>2, <2>2a, <3>1, <3>2 DEF RoleKept, Others, Setting
    <3>4. OneOf(Setting)'
      BY <2>2, <3>1 DEF OneOf, Changing, Setting, Others
    <3> QED
      BY <1>1a, <2>2, <2>2a, <3>1, <3>3, <3>4 DEF RoleFollows, Changing, Setting
  <2> QED
    BY <2>3, <2>4, <2>5, <2>6, <2>7, <2>8, <2>9 DEF ClientIInv
<1>3. CASE client.exists /\ (client.actor = 0 \/ role = "none")
  <2>1. ClientDone(h)
    BY <1>3 DEF WriteClient
  <2>2. /\ Others(h) /\ clientCall'[h] = NoCall
        /\ clientCall'[h].op = "idle" /\ clientCall'[h].pc = "idle"
    BY <1>1, <2>1, DoneMoves, Idle
  <2>2a. /\ client' \in ClientRow /\ client'.apiRole = r /\ client'.exists = client.exists
         /\ client'.secret = client.secret /\ client'.actor = client.actor
    BY <1>1c, <1>3
  <2>3. ClientTypes'
    BY <1>1, <1>1a, <1>3, <2>2, <2>2a DEF ClientTypes, Others
  <2>4. ClientPlaces'
    <3>1. ClientPlaceOf(h)'
      BY <1>1, <1>1a, <1>3, <2>2, <2>2a DEF ClientPlaceOf
    <3> QED
      BY <1>1, <1>1a, <1>3, <2>2, <2>2a, <3>1, ClientPlacesKeep
  <2>5. TokensOfClient'
    BY <1>1, <1>1a, <2>2a DEF TokensOfClient
  <2>6. \A k \in Handlers : IssuedUnder(k)'
    BY <1>1, <1>1a, <1>3, <2>2, <2>2a, IssuesKeep
  <2>7. ActorFollows'
    BY <1>1, <1>1a, <1>3, <2>2, <2>2a
    DEF ActorFollows, ActorKept, OneOf, Changing, Making, Others
  <2>8. TokensFollow'
    BY <1>1, <1>1a, <1>3, <2>2, <2>2a
    DEF TokensFollow, OneOf, Changing, Withdraws, ClientAt, Others
  <2>9. RoleFollows'
    BY <1>1, <1>1a, <1>3, <2>2, <2>2a
    DEF RoleFollows, RoleKept, OneOf, Changing, Setting, Others
  <2> QED
    BY <2>3, <2>4, <2>5, <2>6, <2>7, <2>8, <2>9 DEF ClientIInv
<1> QED
  BY <1>1b, <1>2, <1>3

LEMMA DeleteClientKeeps ==
  ASSUME ClientIInv, NEW h \in Handlers, DeleteClient(h)
  PROVE  ClientIInv'
<1>1. /\ ClientTypes /\ ClientPlaces /\ TokensOfClient /\ ActorFollows /\ TokensFollow
      /\ RoleFollows /\ \A k \in Handlers : IssuedUnder(k)
  BY DEF ClientIInv
<1>2. /\ clientCall[h].op = "remove" /\ clientCall[h].pc = "delete"
      /\ serviceUsers' = serviceUsers /\ membership' = membership /\ tokens' = {}
      /\ shown' = shown /\ rotations' = rotations
      /\ clientRaced' = clientRaced /\ clientFaults' = clientFaults
  BY DEF DeleteClient, ClientAt, clientHistory
<1>3. /\ client' \in ClientRow /\ ~client'.exists /\ client'.actor = 0 /\ client'.secret = 0
      /\ client.actor \in Actors \cup {0}
  BY <1>1 DEF DeleteClient, ClientTypes, ClientRow
<1>4. /\ Others(h)
      /\ IF client.actor # 0
         THEN /\ clientCall'[h].op = "remove" /\ clientCall'[h].pc = "dropUser"
              /\ clientCall'[h].actor = client.actor
         ELSE clientCall'[h] = NoCall /\ clientCall'[h].op = "idle"
  <2>1. CASE client.actor = 0
    <3>1. ClientDone(h)
      BY <2>1 DEF DeleteClient
    <3> QED
      BY <1>1, <2>1, <3>1, DoneMoves, Idle
  <2>2. CASE client.actor # 0
    <3> DEFINE v == [clientCall[h] EXCEPT !.pc = "dropUser", !.actor = client.actor]
    <3>1. /\ clientCall' = [clientCall EXCEPT ![h] = v] /\ v \in ClientCallType
          /\ v.op = "remove" /\ v.pc = "dropUser" /\ v.actor = client.actor
      <4>1. clientCall' = [clientCall EXCEPT ![h] = v]
        BY <2>2 DEF DeleteClient
      <4>2. clientCall[h] \in ClientCallType /\ "dropUser" \in ClientPCs
        BY <1>1 DEF ClientTypes, ClientPCs
      <4> QED
        BY <1>2, <1>3, <4>1, <4>2 DEF ClientCallType
    <3> HIDE DEF v
    <3> QED
      BY <1>1, <2>2, <3>1, FrameMoves
  <2> QED
    BY <2>1, <2>2
<1>5. ClientTypes'
  BY <1>1, <1>2, <1>3, <1>4 DEF ClientTypes, Others
<1>6. ClientPlaces'
  <2>1. ClientPlaceOf(h)'
    BY <1>2, <1>3, <1>4 DEF ClientPlaceOf
  <2> QED
    BY <1>1, <1>3, <1>4, <2>1, ClientPlacesKeep
<1>7. TokensOfClient'
  BY <1>2 DEF TokensOfClient
<1>8. \A k \in Handlers : IssuedUnder(k)'
  BY <1>1, <1>2, <1>3, <1>4, IssuesKeep
<1>9. ActorFollows'
  BY <1>1, <1>2, <1>3, <1>4 DEF ActorFollows, ActorKept, OneOf, Changing, Making, Others
<1>10. TokensFollow'
  BY <1>1, <1>2, <1>3, <1>4 DEF TokensFollow, OneOf, Changing, Withdraws, ClientAt, Others
<1>11. RoleFollows'
  BY <1>1, <1>2, <1>3, <1>4 DEF RoleFollows, OneOf, Changing, Setting, Others
<1> QED
  BY <1>5, <1>6, <1>7, <1>8, <1>9, <1>10, <1>11 DEF ClientIInv

LEMMA FindSubjectKeeps ==
  ASSUME ClientIInv, NEW h \in Handlers, FindSubject(h)
  PROVE  ClientIInv'
<1>1. /\ ClientTypes /\ ClientPlaces /\ TokensOfClient /\ ActorFollows /\ TokensFollow
      /\ RoleFollows /\ \A k \in Handlers : IssuedUnder(k)
  BY DEF ClientIInv
<1>2. CASE ClientDone(h)
  BY <1>2, DoneKeeps DEF FindSubject, ClientAt, Making
<1>3. CASE ClientStep(h, "insert")
  <2>2. /\ clientCall[h].op = "issue" /\ clientCall[h].pc = "member"
        /\ Others(h) /\ clientCall'[h].op = "issue" /\ clientCall'[h].pc = "insert"
        /\ clientCall'[h].actor = clientCall[h].actor
        /\ clientCall'[h].role = clientCall[h].role
        /\ clientCall'[h].secret = clientCall[h].secret
        /\ clientCall'[h].overlap = clientCall[h].overlap
    BY <1>1, <1>3, StepMoves DEF FindSubject, ClientAt, ClientPCs
  <2>3. /\ client' = client /\ serviceUsers' = serviceUsers
        /\ membership' = membership /\ tokens' = tokens
        /\ shown' = shown /\ rotations' = rotations
        /\ clientRaced' = clientRaced /\ clientFaults' = clientFaults
    BY <1>1, <1>3, <2>2 DEF FindSubject, clientTables, clientHistory
  <2>4. ClientTypes'
    BY <1>1, <1>3, <2>2, <2>3 DEF ClientTypes, Others
  <2>5. ClientPlaces'
    <3>1. ClientPlaceOf(h)'
      BY <1>1, <1>3, <2>2, <2>3 DEF ClientPlaces, ClientPlaceOf
    <3> QED
      BY <1>1, <1>3, <2>2, <2>3, <3>1, ClientPlacesKeep
  <2>6. TokensOfClient'
    BY <1>1, <1>3, <2>2, <2>3 DEF TokensOfClient
  <2>7. \A k \in Handlers : IssuedUnder(k)'
    BY <1>1, <1>3, <2>2, <2>3, IssuesKeep DEF Withdraws
  <2>8. ActorFollows'
    BY <1>1, <1>3, <2>2, <2>3
    DEF ActorFollows, ActorKept, OneOf, Changing, Making, Others
  <2>9. TokensFollow'
    BY <1>1, <1>3, <2>2, <2>3
    DEF TokensFollow, OneOf, Changing, Withdraws, ClientAt, Others
  <2>10. RoleFollows'
    BY <1>1, <1>3, <2>2, <2>3
    DEF RoleFollows, RoleKept, OneOf, Changing, Setting, Others
  <2> QED
    BY <2>4, <2>5, <2>6, <2>7, <2>8, <2>9, <2>10 DEF ClientIInv
<1> QED
  BY <1>2, <1>3 DEF FindSubject

LEMMA InsertAccessTokenKeeps ==
  ASSUME ClientIInv, NEW h \in Handlers, InsertAccessToken(h)
  PROVE  ClientIInv'
<1>1. /\ ClientTypes /\ ClientPlaces /\ TokensOfClient /\ ActorFollows /\ TokensFollow
      /\ RoleFollows /\ \A k \in Handlers : IssuedUnder(k)
  BY DEF ClientIInv
<1>2. CASE ~(client.exists /\ clientCall[h].actor \in serviceUsers)
  BY <1>2, DoneKeeps DEF InsertAccessToken, ClientAt, Making, clientTables
<1>3. CASE client.exists /\ clientCall[h].actor \in serviceUsers
  <2> DEFINE u == [actor |-> clientCall[h].actor, secret |-> clientCall[h].secret,
                   revoked |-> FALSE, overlap |-> clientCall[h].overlap]
  <2>1. /\ u \in TokenRow /\ u.actor = clientCall[h].actor /\ u.secret = clientCall[h].secret
        /\ u.overlap = clientCall[h].overlap
    BY <1>1 DEF InsertAccessToken, ClientAt, ClientTypes, ClientCallType, ClientPlaces,
                ClientPlaceOf, TokenRow
  <2>1a. tokens' = tokens \cup {u}
    BY <1>3 DEF InsertAccessToken
  <2> HIDE DEF u
  <2>2. /\ clientCall[h].op \in {"issue"} /\ clientCall[h].pc = "insert"
        /\ Others(h) /\ clientCall'[h] = NoCall
        /\ clientCall'[h].op = "idle" /\ clientCall'[h].pc = "idle"
    BY <1>1, <1>3, DoneMoves, Idle DEF InsertAccessToken, ClientAt
  <2>3. /\ client' = client /\ serviceUsers' = serviceUsers
        /\ membership' = membership /\ shown' = shown
        /\ rotations' = rotations /\ clientRaced' = clientRaced /\ clientFaults' = clientFaults
    BY <1>1, <1>3, <2>2 DEF InsertAccessToken, clientTables, clientHistory
  <2>4. ClientTypes'
    BY <1>1, <1>3, <2>1, <2>1a, <2>2, <2>3 DEF ClientTypes, Others
  <2>5. ClientPlaces'
    <3>1. ClientPlaceOf(h)'
      BY <1>1, <1>3, <2>2, <2>3 DEF ClientPlaces, ClientPlaceOf
    <3> QED
      BY <1>1, <1>3, <2>2, <2>3, <3>1, ClientPlacesKeep
  <2>6. TokensOfClient'
    BY <1>1, <1>3, <2>2, <2>3, <2>1, <2>1a DEF TokensOfClient
  <2>7. \A k \in Handlers : IssuedUnder(k)'
    BY <1>1, <1>3, <2>2, <2>3, IssuesKeep DEF Withdraws
  <2>8. ActorFollows'
    BY <1>1, <1>3, <2>2, <2>3, <2>1, <2>1a
    DEF ActorFollows, ActorKept, OneOf, Changing, Making, Others
  <2>9. TokensFollow'
    BY <1>1, <1>3, <2>2, <2>3, <2>1, <2>1a
    DEF TokensFollow, OneOf, Changing, Withdraws, ClientAt, Others, IssuedUnder
  <2>10. RoleFollows'
    BY <1>1, <1>3, <2>2, <2>3, <2>1, <2>1a
    DEF RoleFollows, RoleKept, OneOf, Changing, Setting, Others
  <2> QED
    BY <2>4, <2>5, <2>6, <2>7, <2>8, <2>9, <2>10 DEF ClientIInv
<1> QED
  BY <1>2, <1>3

LEMMA ServeRequestKeeps ==
  ASSUME ClientIInv, NEW h \in Handlers, ServeRequest(h)
  PROVE  ClientIInv'
BY DoneKeeps DEF ServeRequest, ClientAt, Making

LEMMA FailClientCallKeeps ==
  ASSUME ClientIInv, NEW h \in Handlers, FailClientCall(h)
  PROVE  ClientIInv'
<1>1. /\ ClientTypes /\ ClientPlaces /\ TokensOfClient /\ ActorFollows /\ TokensFollow
      /\ RoleFollows /\ \A k \in Handlers : IssuedUnder(k)
  BY DEF ClientIInv
<1>2. /\ client' = client /\ serviceUsers' = serviceUsers /\ membership' = membership
      /\ tokens' = tokens /\ shown' = shown /\ rotations' = rotations
      /\ clientRaced' = [role |-> TRUE, actor |-> TRUE, secret |-> TRUE]
      /\ clientFaults' = clientFaults + 1 /\ clientFaults < MaxClientFaults
  BY DEF FailClientCall, clientTables
<1>3. clientFaults' \in 0..MaxClientFaults
  BY <1>1, <1>2, ClientsAssumption DEF ClientTypes
<1>4. /\ clientRaced' \in [role : BOOLEAN, actor : BOOLEAN, secret : BOOLEAN]
      /\ clientRaced'.role /\ clientRaced'.actor /\ clientRaced'.secret
  BY <1>2
<1>5. \/ ClientDone(h)
      \/ clientCall[h].pc \in {"newMember", "link"} /\ ClientStep(h, "dropUser")
  BY DEF FailClientCall
<1>6. /\ Others(h)
      /\ \/ clientCall'[h] = NoCall /\ clientCall'[h].op = "idle"
         \/ /\ clientCall[h].op = "rotate" /\ clientCall'[h].op = "rotate"
            /\ clientCall'[h].pc = "dropUser"
            /\ clientCall[h].pc \in {"newMember", "link"}
            /\ clientCall'[h].actor = clientCall[h].actor
            /\ clientCall'[h].role = clientCall[h].role
            /\ clientCall'[h].secret = clientCall[h].secret
  <2>1. CASE ClientDone(h)
    BY <1>1, <2>1, DoneMoves, Idle
  <2>2. CASE clientCall[h].pc \in {"newMember", "link"} /\ ClientStep(h, "dropUser")
    <3>1. clientCall[h].op = "rotate"
      BY <1>1, <2>2, Idle
      DEF ClientPlaces, ClientPlaceOf, ClientTypes, ClientCallType, ClientOps
    <3> QED
      BY <1>1, <2>2, <3>1, StepMoves DEF ClientPCs
  <2> QED
    BY <1>5, <2>1, <2>2
<1>7. ClientTypes'
  BY <1>1, <1>2, <1>3, <1>4, <1>6 DEF ClientTypes, Others
<1>8. ClientPlaces'
  <2>1. ClientPlaceOf(h)'
    BY <1>1, <1>6 DEF ClientPlaces, ClientPlaceOf
  <2> QED
    BY <1>1, <1>2, <1>6, <2>1, ClientPlacesKeep
<1>9. TokensOfClient'
  BY <1>1, <1>2 DEF TokensOfClient
<1>10. \A k \in Handlers : IssuedUnder(k)'
  BY <1>1, <1>2, <1>6, IssuesKeep
<1>11. ActorFollows' /\ TokensFollow' /\ RoleFollows'
  BY <1>4 DEF ActorFollows, TokensFollow, RoleFollows
<1> QED
  BY <1>7, <1>8, <1>9, <1>10, <1>11 DEF ClientIInv

LEMMA ClientStepKeeps == ClientIInv /\ [ClientsNext]_clientVars => ClientIInv'
<1> SUFFICES ASSUME ClientIInv, [ClientsNext]_clientVars PROVE ClientIInv'
  OBVIOUS
<1>1. CASE UNCHANGED clientVars
  <2>1. /\ client' = client /\ serviceUsers' = serviceUsers /\ membership' = membership
        /\ tokens' = tokens /\ shown' = shown /\ rotations' = rotations
        /\ clientRaced' = clientRaced /\ clientFaults' = clientFaults
        /\ clientCall' = clientCall
    BY <1>1 DEF clientVars, clientTables, clientHistory
  <2> QED
    BY <2>1
    DEF ClientIInv, ClientTypes, ClientPlaces, ClientPlaceOf, TokensOfClient, ActorFollows,
        ActorKept, IssuedUnder, TokensFollow, RoleFollows, RoleKept, OneOf, Changing, Making,
        ClientAt
<1>2. ASSUME NEW h \in Handlers, HandleClient(h) PROVE ClientIInv'
  BY <1>2, RotateStarts, FindMembershipKeeps, SetMembershipRoleKeeps,
     InsertServiceUserKeeps, InsertServiceMembershipKeeps, LinkServiceUserKeeps,
     DropServiceUserKeeps, StoreSecretKeeps, RevokeRotatedKeeps, StartRevokeKeeps,
     RevokeTokensKeeps, ClearSecretKeeps, StartUpdateKeeps, MirrorRoleKeeps,
     WriteClientKeeps, StartRemoveKeeps, DeleteClientKeeps, StartIssueKeeps,
     FindSubjectKeeps, InsertAccessTokenKeeps, ReadBearerKeeps, ServeRequestKeeps,
     FailClientCallKeeps, Zenon
  DEF HandleClient
<1> QED
  BY <1>1, <1>2 DEF ClientsNext, ClientGone

LEMMA ClientIInvSuffices ==
  ClientIInv => ClientsTypeOK /\ SurvivorsOverlapped /\ OneServiceUser
<1> SUFFICES ASSUME ClientIInv PROVE ClientsTypeOK /\ SurvivorsOverlapped /\ OneServiceUser
  OBVIOUS
<1>1. /\ ClientTypes /\ ClientPlaces /\ TokensOfClient /\ ActorFollows /\ TokensFollow
  BY DEF ClientIInv
<1>2. ClientsTypeOK
  BY <1>1 DEF ClientsTypeOK, ClientTypes, ClientCallType, TokensOfClient
<1>3. SurvivorsOverlapped
  BY <1>1 DEF SurvivorsOverlapped, TokensFollow, Active, Withdraws, ClientAt
<1>4. OneServiceUser
  BY <1>1 DEF OneServiceUser, ActorFollows, Active, Making
<1> QED
  BY <1>2, <1>3, <1>4

LEMMA ServedAs ==
  ASSUME ClientIInv, NEW h \in Handlers, ServeRequest(h), client.exists, ~clientRaced.role,
         ~Active({"rotate", "update"})
  PROVE  membership[clientCall[h].actor] = client.apiRole
<1>1. clientCall[h].op = "request" /\ clientCall[h].actor # 0
  BY DEF ServeRequest, ClientAt, ClientIInv, ClientPlaces, ClientPlaceOf
<1>2. clientCall[h].actor = client.actor
  BY <1>1 DEF ClientIInv, RoleFollows, RoleKept
<1> QED
  BY <1>1, <1>2 DEF ClientIInv, RoleFollows, Changing, Setting, Active

\* Of service clients, for any handlers, roles, rotations and faults: no token
\* outlives the secret it was issued with, a client has one service user, and is
\* served with its own role.
THEOREM ClientCorrect == ClientsSpec => ClientRules
<1>1. ClientIInv /\ [ClientsNext]_clientVars =>
        [\A h \in Handlers :
            ServeRequest(h) /\ client.exists /\ ~clientRaced.role
                /\ ~Active({"rotate", "update"})
            => membership[clientCall[h].actor] = client.apiRole]_clientVars
  BY ServedAs
<1> QED
  BY <1>1, ClientsInitially, ClientStepKeeps, ClientIInvSuffices, PTL
  DEF ClientsSpec, ClientRules, ServedWithClientRole

(***************************************************************************)
(* Organizations.  An account that a sign-up has made is its own until it  *)
(* is done: nobody signs in with it, so nothing but the sign-up can make   *)
(* its user an administrator or use up its invite.                         *)
(***************************************************************************)

OrgCallType ==
    [op : OrgOps, pc : OrgPCs, next : {"idle", "mark"},
     user : Users \cup {"none"}, org : Orgs, founder : BOOLEAN, via : BOOLEAN]

OrgHistoryType ==
    [joins : SUBSET Users, founders : BOOLEAN, failed : BOOLEAN, faults : 0..MaxOrgFaults]

Founds == {"recount", "tenant", "founder", "reload", "dropAccount"}
Joining == {"existing", "insert", "mark"}

\* The places of each operation.
InPlace(c) ==
    /\ c.op # "idle" => c.user \in Users
    /\ c.op = "idle" => c = NoOrgCall
    /\ c.op = "signup" => c.pc \in {"account"} \cup Founds
    /\ c.op = "found" => c.pc \in {"join", "pending", "decide"} \cup (Founds \ {"dropAccount"})
    /\ c.op = "join" => c.pc \in {"join"} \cup Joining
    /\ c.pc = "join" /\ c.op = "join" => ~c.founder
    /\ c.pc = "join" /\ c.op = "found" => c.founder
    /\ c.next = "mark" => c.op = "join"
    /\ c.pc = "mark" => c.next = "mark"

\* A sign-up that has made its account, and what no sign-up begins for: a
\* request that may yet found, or use up an invite.
MadeAccount(c) == c.op = "signup" /\ c.pc # "account"
SignedIn(c) == c.op = "found" \/ c.next = "mark"

\* What a request does once an organisation is there.
InOrg(c) ==
    /\ c.via => orgs > 0
    /\ c.pc \in Joining => orgs > 0
    /\ c.pc = "founder" => c.org <= orgs

OrgSteps == \A h \in Handlers : InPlace(orgCall[h]) /\ InOrg(orgCall[h])

OrgThere ==
    /\ domain => orgs > 0
    /\ \A u \in Users : invite[u] # "none" => orgs > 0

OneFounds ==
    ~orgHistory.founders =>
        /\ \A h, k \in Handlers :
              orgCall[h].op \in Founders /\ orgCall[k].op \in Founders => h = k
        /\ \A h \in Handlers : orgCall[h].pc = "tenant" => orgs = 0

AccountsMade ==
    /\ \A h \in Handlers :
          MadeAccount(orgCall[h]) \/ SignedIn(orgCall[h]) => orgCall[h].user \in accounts
    /\ \A h, k \in Handlers :
          /\ MadeAccount(orgCall[h])
          /\ MadeAccount(orgCall[k]) \/ SignedIn(orgCall[k])
          /\ orgCall[h].user = orgCall[k].user
          => h = k

\* Between the founder's tenant and the founder's membership.
NewAccount(c) ==
    /\ c.op = "signup"
    /\ c.pc \in {"recount", "tenant", "founder"} \/ (c.pc = "dropAccount" /\ ~orgHistory.failed)

AdminsSignIn ==
    /\ \A m \in admins : m[1] \in accounts
    /\ \A h \in Handlers : NewAccount(orgCall[h]) =>
          \A t \in Orgs : <<orgCall[h].user, t>> \notin admins

AdminComes ==
    ~orgHistory.failed /\ ~orgHistory.founders /\ orgs > 0 =>
        \/ \E h \in Handlers : orgCall[h].pc = "founder"
        \/ \E u \in accounts : <<u, 1>> \in admins

InvitesUsed ==
    /\ \A u \in Users \ accounts : invite[u] # "accepted"
    /\ \A h \in Handlers : MadeAccount(orgCall[h]) => invite[orgCall[h].user] # "accepted"
    /\ \A h \in Handlers : orgCall[h].pc = "mark" => members[<<orgCall[h].user, 1>>] > 0

\* Whoever is about to insert a membership, unless another request for the
\* user overlaps, finds none.
ServedInTurn ==
    /\ \A h, k \in Handlers :
          /\ orgCall[h].op # "idle" /\ orgCall[k].op # "idle"
          /\ orgCall[h].user = orgCall[k].user /\ orgCall[h].user \notin orgHistory.joins
          => h = k
    /\ \A h \in Handlers : orgCall[h].user \notin orgHistory.joins =>
          /\ orgCall[h].pc = "insert" => members[<<orgCall[h].user, 1>>] = 0
          /\ orgCall[h].pc = "founder" => members[<<orgCall[h].user, orgCall[h].org>>] = 0

\* Of a user and a tenant: the requests about to insert a membership.
Inserts(c, m) ==
    /\ c.user = m[1]
    /\ (c.pc = "insert" /\ m[2] = 1) \/ (c.pc = "founder" /\ m[2] = c.org)

Inserting(m) == {h \in Handlers : Inserts(orgCall[h], m)}

RoomForAll ==
    \A m \in Users \X Orgs :
        members[m] + Cardinality(Inserting(m)) <= Cardinality(Handlers)

OrgIInv ==
    /\ OrganizationsTypeOK
    /\ OrgSteps
    /\ OrgThere
    /\ OneFounds
    /\ SingleTenancy
    /\ AccountsMade
    /\ AdminsSignIn
    /\ AdminComes
    /\ InvitesUsed
    /\ AcceptedBelong
    /\ ServedInTurn
    /\ OneMembership
    /\ RoomForAll

LEMMA OrgTypes ==
  ASSUME OrgIInv
  PROVE  /\ MaxOrgFaults \in Nat /\ IsFiniteSet(Handlers) /\ Cardinality(Handlers) \in Nat
         /\ orgCall \in [Handlers -> OrgCallType]
         /\ accounts \subseteq Users /\ orgs \in {0, 1, 2} /\ Orgs = {1, 2}
         /\ members \in [Users \X Orgs -> 0..Cardinality(Handlers)]
         /\ \A m \in Users \X Orgs : members[m] \in Nat
         /\ admins \subseteq Users \X Orgs
         /\ invite \in [Users -> Invites] /\ domain \in BOOLEAN
         /\ orgHistory \in OrgHistoryType
         /\ \A m \in Users \X Orgs : members[m] > 0 => m[2] <= orgs
<1>1. Orgs = {1, 2}
  BY DEF Orgs
<1>2. OrganizationsTypeOK
  BY DEF OrgIInv
<1>3. Cardinality(Handlers) \in Nat
  BY HandlersAssumption, FS_CardinalityType
<1>4. members \in [Users \X Orgs -> 0..Cardinality(Handlers)]
  BY <1>2 DEF OrganizationsTypeOK
<1>5. \A m \in Users \X Orgs : members[m] \in Nat
  BY <1>3, <1>4
<1>6. orgs \in {0, 1, 2}
  BY <1>1, <1>2 DEF OrganizationsTypeOK
<1> QED
  BY <1>1, <1>2, <1>3, <1>4, <1>5, <1>6, OrganizationsAssumption, HandlersAssumption
     DEF OrganizationsTypeOK, OrgCallType, OrgHistoryType

\* The type invariant, put together again.
LEMMA OrgTypesKept ==
  ASSUME OrgIInv, orgCall' \in [Handlers -> OrgCallType], accounts' \subseteq Users,
         orgs' \in {0, 1, 2}, members' \in [Users \X Orgs -> 0..Cardinality(Handlers)],
         admins' \subseteq Users \X Orgs, invite' \in [Users -> Invites], domain' \in BOOLEAN,
         orgHistory' \in OrgHistoryType,
         \A m \in Users \X Orgs : members'[m] > 0 => m[2] <= orgs'
  PROVE  OrganizationsTypeOK'
<1>1. orgs' \in Orgs \cup {0}
  BY OrgTypes
<1> QED
  BY <1>1 DEF OrganizationsTypeOK, OrgCallType, OrgHistoryType

\* Whoever is at work counts for no more than it did.
LEMMA RoomKept ==
  ASSUME OrgIInv, NEW h \in Handlers, DOMAIN members' = Users \X Orgs,
         \A m \in Users \X Orgs :
            \/ members'[m] = 0
            \/ members'[m] = members[m] /\ Inserting(m)' \subseteq Inserting(m)
            \/ /\ members'[m] = members[m] + 1
               /\ h \in Inserting(m)
               /\ Inserting(m)' \subseteq Inserting(m) \ {h},
         members' = [m \in Users \X Orgs |-> members'[m]]
  PROVE  /\ RoomForAll'
         /\ members' \in [Users \X Orgs -> 0..Cardinality(Handlers)]
<1>1. ASSUME NEW m \in Users \X Orgs
      PROVE  /\ members'[m] \in 0..Cardinality(Handlers)
             /\ members'[m] + Cardinality(Inserting(m)') <= Cardinality(Handlers)
  <2> DEFINE before == Cardinality(Inserting(m))
             after == Cardinality(Inserting(m)')
             n == members[m]
             all == Cardinality(Handlers)
  <2>1. /\ IsFiniteSet(Inserting(m)) /\ IsFiniteSet(Inserting(m)')
        /\ before \in Nat /\ after \in Nat /\ after <= all /\ all \in Nat
    <3>1. Inserting(m) \subseteq Handlers /\ Inserting(m)' \subseteq Handlers
      BY DEF Inserting
    <3>2. IsFiniteSet(Inserting(m)) /\ IsFiniteSet(Inserting(m)')
      BY <3>1, OrgTypes, FS_Subset
    <3> QED
      BY <3>1, <3>2, OrgTypes, FS_Subset, FS_CardinalityType
  <2>2. n + before <= all /\ n \in Nat
    BY OrgTypes DEF OrgIInv, RoomForAll
  <2>3. Inserting(m)' \subseteq Inserting(m) => after <= before
    BY <2>1, FS_Subset
  <2>4. h \in Inserting(m) /\ Inserting(m)' \subseteq Inserting(m) \ {h} => after <= before - 1
    <3>1. h \in Inserting(m) => Cardinality(Inserting(m) \ {h}) = before - 1
                                /\ IsFiniteSet(Inserting(m) \ {h})
      BY <2>1, FS_RemoveElement
    <3> QED
      BY <3>1, FS_Subset
  <2>5. \/ members'[m] = 0
        \/ members'[m] = n /\ after <= before
        \/ members'[m] = n + 1 /\ after <= before - 1
    BY <2>3, <2>4
  <2> HIDE DEF before, after, n, all
  <2>6. members'[m] \in 0..all /\ members'[m] + after <= all
    BY <2>1, <2>2, <2>5
  <2> QED
    BY <2>6 DEF after, all
<1>2. RoomForAll'
  BY <1>1 DEF RoomForAll
<1> QED
  BY <1>1, <1>2

\* A request that reads goes on, or breaks off.
LEMMA OrgMoves ==
  ASSUME OrgIInv, NEW h \in Handlers, NEW r \in OrgCallType,
         orgCall' = [orgCall EXCEPT ![h] = r], UNCHANGED orgTables,
         orgHistory' \in OrgHistoryType, orgHistory'.joins = orgHistory.joins,
         orgHistory'.founders = orgHistory.founders,
         orgHistory.failed => orgHistory'.failed,
         InPlace(r), InOrg(r), r.op # "idle" => r.user = orgCall[h].user,
         r.op # "idle" => orgCall[h].op # "idle",
         r.op \in Founders => orgCall[h].op \in Founders,
         r.pc = "tenant" => orgs = 0,
         MadeAccount(r) => MadeAccount(orgCall[h]),
         SignedIn(r) => SignedIn(orgCall[h]),
         r.op = "signup" =>
            /\ r.pc \in {"recount", "tenant"} => orgCall[h].pc \in {"recount", "tenant"}
            /\ r.pc = "dropAccount" /\ ~orgHistory'.failed => orgCall[h].pc \in {"recount", "tenant"},
         r.op = "signup" => orgCall[h].op = "signup",
         r.pc # "founder", orgCall[h].pc = "founder" => orgHistory'.failed,
         r.pc = "insert" => members[<<orgCall[h].user, 1>>] = 0,
         r.pc = "mark" => members[<<orgCall[h].user, 1>>] > 0
  PROVE  OrgIInv'
<1> USE OrgTypes
<1> DEFINE c == orgCall[h]
<1>1. /\ orgCall' \in [Handlers -> OrgCallType] /\ orgCall'[h] = r
      /\ \A k \in Handlers \ {h} : orgCall'[k] = orgCall[k]
  OBVIOUS
<1>2. /\ accounts' = accounts /\ orgs' = orgs /\ members' = members /\ admins' = admins
      /\ invite' = invite /\ domain' = domain
  BY DEF orgTables
<1>3. OrganizationsTypeOK'
  BY <1>1, <1>2, OrgTypesKept
<1>4. OrgSteps'
  BY <1>1, <1>2 DEF OrgIInv, OrgSteps, InOrg, InPlace
<1>5. /\ r.op = "idle" => r = NoOrgCall
      /\ r.op = "idle" => r.pc = "idle" /\ ~MadeAccount(r) /\ ~SignedIn(r)
      /\ r.op # "idle" => r.user = c.user
  <2>1. r.op = "idle" => r = NoOrgCall
    BY DEF InPlace
  <2>2. NoOrgCall.pc = "idle" /\ NoOrgCall.op = "idle" /\ NoOrgCall.next = "idle"
    BY DEF NoOrgCall
  <2> QED
    BY <2>1, <2>2 DEF MadeAccount, SignedIn
<1>6. OrgThere' /\ SingleTenancy' /\ AcceptedBelong' /\ OneMembership'
  BY <1>2 DEF OrgIInv, OrgThere, SingleTenancy, AcceptedBelong, OneMembership
<1>7. OneFounds'
  BY <1>1, <1>2 DEF OrgIInv, OneFounds
<1>8. AccountsMade'
  <2>1. \A k \in Handlers :
           /\ MadeAccount(orgCall'[k]) => MadeAccount(orgCall[k])
           /\ SignedIn(orgCall'[k]) => SignedIn(orgCall[k])
    BY <1>1
  <2>2. \A k \in Handlers : MadeAccount(orgCall'[k]) \/ SignedIn(orgCall'[k])
                              => orgCall'[k].user = orgCall[k].user
    BY <1>1, <1>5 DEF MadeAccount, SignedIn, NoOrgCall
  <2>3. AccountsMade
    BY DEF OrgIInv
  <2> QED
    BY <1>2, <2>1, <2>2, <2>3 DEF AccountsMade
<1>9. AdminsSignIn'
  <2>1. ASSUME NEW k \in Handlers, NewAccount(orgCall[k])'
        PROVE  NewAccount(orgCall[k]) /\ orgCall'[k].user = orgCall[k].user
    BY <1>1, <2>1 DEF NewAccount
  <2> QED
    BY <1>2, <2>1 DEF OrgIInv, AdminsSignIn
<1>10. AdminComes'
  BY <1>1, <1>2 DEF OrgIInv, AdminComes
<1>11. InvitesUsed'
  <2>1. \A u \in Users \ accounts' : invite'[u] # "accepted"
    BY <1>2 DEF OrgIInv, InvitesUsed
  <2>2. ASSUME NEW k \in Handlers, MadeAccount(orgCall'[k])
        PROVE  invite'[orgCall'[k].user] # "accepted"
    BY <1>1, <1>2, <2>2 DEF OrgIInv, InvitesUsed, MadeAccount
  <2>3. ASSUME NEW k \in Handlers, orgCall'[k].pc = "mark"
        PROVE  members'[<<orgCall'[k].user, 1>>] > 0
    BY <1>1, <1>2, <1>5, <2>3 DEF OrgIInv, InvitesUsed, NoOrgCall
  <2> QED
    BY <2>1, <2>2, <2>3 DEF InvitesUsed, MadeAccount
<1>12. ServedInTurn'
  <2>1. \A k \in Handlers : orgCall'[k].op # "idle" =>
           orgCall[k].op # "idle" /\ orgCall'[k].user = orgCall[k].user
    BY <1>1
  <2>2. \A k \in Handlers : orgCall'[k].pc \in {"insert", "founder"} /\ k # h
           => orgCall'[k] = orgCall[k]
    BY <1>1
  <2>3. r.pc = "insert" => r.user = c.user
    BY <1>5 DEF NoOrgCall
  <2> QED
    BY <1>1, <1>2, <2>1, <2>2, <2>3 DEF OrgIInv, ServedInTurn
<1>13. RoomForAll'
  <2>1. ASSUME NEW m \in Users \X Orgs
        PROVE  \/ members'[m] = 0
               \/ members'[m] = members[m] /\ Inserting(m)' \subseteq Inserting(m)
    <3>1. CASE r.pc = "insert" /\ m = <<r.user, 1>>
      <4>1. r.user = c.user
        BY <1>5, <3>1 DEF NoOrgCall
      <4> QED
        BY <1>2, <3>1, <4>1
    <3>2. CASE ~(r.pc = "insert" /\ m = <<r.user, 1>>)
      <4>1. ~Inserts(r, m)
        BY <3>2 DEF Inserts
      <4>2. Inserting(m)' = {k \in Handlers : Inserts(orgCall'[k], m)}
        BY DEF Inserting, Inserts
      <4>3. Inserting(m)' \subseteq Inserting(m)
        BY <1>1, <4>1, <4>2 DEF Inserting
      <4> QED
        BY <1>2, <4>3
    <3> QED
      BY <3>1, <3>2
  <2>2. members' = [m \in Users \X Orgs |-> members[m]]
    BY <1>2
  <2> QED
    BY <1>2, <2>1, <2>2, RoomKept
<1> QED
  BY <1>3, <1>4, <1>6, <1>7, <1>8, <1>9, <1>10, <1>11, <1>12, <1>13 DEF OrgIInv

LEMMA NoOrgCallIs ==
  /\ NoOrgCall.op = "idle" /\ NoOrgCall.pc = "idle" /\ NoOrgCall.next = "idle"
  /\ NoOrgCall.org = 1 /\ NoOrgCall.via = FALSE /\ NoOrgCall.founder = FALSE
  /\ NoOrgCall \in OrgCallType /\ InPlace(NoOrgCall) /\ InOrg(NoOrgCall)
  /\ ~MadeAccount(NoOrgCall) /\ ~SignedIn(NoOrgCall)
  BY DEF NoOrgCall, OrgCallType, OrgOps, OrgPCs, Orgs, InPlace, InOrg, MadeAccount, SignedIn,
         Joining

\* A request that is done, or breaks off.
LEMMA OrgEnds ==
  ASSUME OrgIInv, NEW h \in Handlers, OrgDone(h), UNCHANGED orgTables,
         orgHistory' \in OrgHistoryType, orgHistory'.joins = orgHistory.joins,
         orgHistory'.founders = orgHistory.founders,
         orgHistory.failed => orgHistory'.failed,
         orgCall[h].pc = "founder" => orgHistory'.failed
  PROVE  OrgIInv'
<1>1. orgCall' = [orgCall EXCEPT ![h] = NoOrgCall]
  BY DEF OrgDone
<1>2. NoOrgCall.op \notin Founders /\ NoOrgCall.op # "signup"
  BY NoOrgCallIs DEF Founders
<1>3. NoOrgCall.pc \notin {"tenant", "founder", "insert", "mark"}
  BY NoOrgCallIs
<1> QED
  BY <1>1, <1>2, <1>3, NoOrgCallIs, OrgMoves

LEMMA OrgStepIs ==
  ASSUME OrgIInv, NEW h \in Handlers, NEW pc \in OrgPCs, OrgStep(h, pc)
  PROVE  \E r \in OrgCallType :
            /\ orgCall' = [orgCall EXCEPT ![h] = r]
            /\ r.pc = pc /\ r.op = orgCall[h].op /\ r.next = orgCall[h].next
            /\ r.user = orgCall[h].user /\ r.org = orgCall[h].org
            /\ r.founder = orgCall[h].founder /\ r.via = orgCall[h].via
<1> DEFINE r == [orgCall[h] EXCEPT !.pc = pc]
<1>1. orgCall' = [orgCall EXCEPT ![h] = r]
  BY Zenon DEF OrgStep
<1>2. /\ r \in OrgCallType
      /\ r.pc = pc /\ r.op = orgCall[h].op /\ r.next = orgCall[h].next
      /\ r.user = orgCall[h].user /\ r.org = orgCall[h].org
      /\ r.founder = orgCall[h].founder /\ r.via = orgCall[h].via
  BY OrgTypes DEF OrgCallType
<1> HIDE DEF r
<1> QED
  BY <1>1, <1>2

\* A request begins.
LEMMA OrgStarts ==
  ASSUME OrgIInv, NEW h \in Handlers, NEW r \in OrgCallType, OrgStart(h, r),
         r.op # "idle", InPlace(r), InOrg(r),
         r.pc \in {"account", "recount", "existing", "join"}, ~MadeAccount(r),
         SignedIn(r) =>
            /\ r.user \in accounts
            /\ \A k \in Handlers : MadeAccount(orgCall[k]) => orgCall[k].user # r.user
  PROVE  OrgIInv'
<1> USE OrgTypes
<1> DEFINE others == {k \in Handlers \ {h} : orgCall[k].op # "idle"}
           same == {k \in others : orgCall[k].user = r.user}
           joins == IF same = {} THEN orgHistory.joins ELSE orgHistory.joins \cup {r.user}
           clash == r.op \in Founders /\ \E k \in others : orgCall[k].op \in Founders
           hist == [orgHistory EXCEPT !.joins = joins, !.founders = orgHistory.founders \/ clash]
<1>1. /\ orgCall' = [orgCall EXCEPT ![h] = r] /\ orgCall[h] = NoOrgCall
      /\ orgHistory' = hist /\ UNCHANGED orgTables
  BY DEF OrgStart
<1>2. /\ accounts' = accounts /\ orgs' = orgs /\ members' = members /\ admins' = admins
      /\ invite' = invite /\ domain' = domain
  BY <1>1 DEF orgTables
<1>3. /\ orgCall' \in [Handlers -> OrgCallType] /\ orgCall'[h] = r
      /\ \A k \in Handlers \ {h} : orgCall'[k] = orgCall[k]
  BY <1>1
<1>4. r.user \in Users
  BY DEF InPlace
<1>5. joins \in SUBSET Users /\ clash \in BOOLEAN
  BY <1>4 DEF OrgHistoryType
<1> HIDE DEF clash, joins
<1>6. /\ hist \in OrgHistoryType /\ hist.joins = joins /\ hist.failed = orgHistory.failed
      /\ hist.founders = (orgHistory.founders \/ clash)
  BY <1>5 DEF OrgHistoryType
<1> HIDE DEF hist
<1>7. ~orgHistory'.founders => ~orgHistory.founders /\ ~clash
  BY <1>1, <1>6
<1>8. /\ orgHistory.joins \subseteq orgHistory'.joins
      /\ r.user \notin orgHistory'.joins => same = {}
  BY <1>1, <1>6 DEF joins
<1>9. orgHistory'.failed = orgHistory.failed
  BY <1>1, <1>6
<1>10. OrganizationsTypeOK'
  BY <1>1, <1>2, <1>3, <1>6, OrgTypesKept
<1>11. OrgSteps'
  BY <1>2, <1>3 DEF OrgIInv, OrgSteps, InOrg, InPlace
<1>12. OrgThere' /\ SingleTenancy' /\ AcceptedBelong'
  BY <1>2, <1>7 DEF OrgIInv, OrgThere, SingleTenancy, AcceptedBelong
<1>13. OneMembership'
  BY <1>2, <1>8 DEF OrgIInv, OneMembership
<1>14. OneFounds'
  <2>1. ~clash => (r.op \in Founders =>
           \A k \in Handlers \ {h} : orgCall[k].op \notin Founders)
    BY DEF clash, Founders
  <2> QED
    BY <1>2, <1>3, <1>7, <2>1 DEF OrgIInv, OneFounds
<1>15. AccountsMade'
  <2>1. AccountsMade
    BY DEF OrgIInv
  <2> QED
    BY <1>2, <1>3, <2>1 DEF AccountsMade
<1>16. AdminsSignIn'
  <2>1. ASSUME NEW k \in Handlers, NewAccount(orgCall[k])'
        PROVE  k # h /\ NewAccount(orgCall[k])
    BY <1>3, <1>9, <2>1 DEF NewAccount, MadeAccount
  <2> QED
    BY <1>2, <1>3, <2>1 DEF OrgIInv, AdminsSignIn
<1>17. AdminComes'
  <2>1. orgCall[h].pc # "founder"
    BY <1>1, NoOrgCallIs
  <2> QED
    BY <1>2, <1>3, <1>7, <1>9, <2>1 DEF OrgIInv, AdminComes
<1>18. InvitesUsed'
  BY <1>2, <1>3 DEF OrgIInv, InvitesUsed, MadeAccount
<1>19. ServedInTurn'
  <2>1. ASSUME NEW k \in Handlers \ {h}, orgCall[k].op # "idle", r.user \notin orgHistory'.joins
        PROVE  orgCall[k].user # r.user
    BY <1>8, <2>1
  <2> QED
    BY <1>2, <1>3, <1>8, <2>1 DEF OrgIInv, ServedInTurn
<1>20. RoomForAll'
  <2>1. ASSUME NEW m \in Users \X Orgs PROVE Inserting(m)' \subseteq Inserting(m)
    <3>1. Inserting(m)' = {k \in Handlers : Inserts(orgCall'[k], m)}
      BY DEF Inserting, Inserts
    <3>2. ~Inserts(r, m)
      BY DEF Inserts
    <3> QED
      BY <1>3, <3>1, <3>2 DEF Inserting
  <2>2. members' = [m \in Users \X Orgs |-> members[m]]
    BY <1>2
  <2> QED
    BY <1>2, <2>1, <2>2, RoomKept
<1> QED
  BY <1>10, <1>11, <1>12, <1>13, <1>14, <1>15, <1>16, <1>17, <1>18, <1>19, <1>20 DEF OrgIInv

\* Nobody signs in with an account that a sign-up has just made.
LEMMA SignInIs ==
  ASSUME NEW u \in Users, CanSignIn(u)
  PROVE  u \in accounts /\ \A k \in Handlers : MadeAccount(orgCall[k]) => orgCall[k].user # u
  BY DEF CanSignIn, MadeAccount

LEMMA StartSignupStays ==
  ASSUME OrgIInv, NEW h \in Handlers, NEW u \in Users, StartSignup(h, u)
  PROVE  OrgIInv'
<1> DEFINE r == [NoOrgCall EXCEPT !.op = "signup", !.pc = "account", !.user = u]
<1>1. /\ r \in OrgCallType /\ r.op = "signup" /\ r.pc = "account" /\ r.user = u
      /\ r.next = "idle" /\ r.via = FALSE
  BY NoOrgCallIs DEF OrgCallType, OrgOps, OrgPCs
<1>2. OrgStart(h, r)
  BY DEF StartSignup
<1> HIDE DEF r
<1>3. InPlace(r) /\ InOrg(r) /\ ~MadeAccount(r) /\ ~SignedIn(r)
  BY <1>1 DEF InPlace, InOrg, MadeAccount, SignedIn, Joining
<1> QED
  BY <1>1, <1>2, <1>3, OrgStarts

LEMMA StartSocialStays ==
  ASSUME OrgIInv, NEW h \in Handlers, NEW u \in Users, StartSocial(h, u)
  PROVE  OrgIInv'
<1> DEFINE r == [NoOrgCall EXCEPT !.op = "found", !.pc = "recount", !.user = u]
<1>1. /\ r \in OrgCallType /\ r.op = "found" /\ r.pc = "recount" /\ r.user = u
      /\ r.next = "idle" /\ r.via = FALSE
  BY NoOrgCallIs DEF OrgCallType, OrgOps, OrgPCs
<1>2. OrgStart(h, r) /\ CanSignIn(u)
  BY DEF StartSocial
<1> HIDE DEF r
<1>3. InPlace(r) /\ InOrg(r) /\ ~MadeAccount(r)
  BY <1>1 DEF InPlace, InOrg, MadeAccount, Founds, Joining
<1> QED
  BY <1>1, <1>2, <1>3, OrgStarts, SignInIs

LEMMA StartAcceptStays ==
  ASSUME OrgIInv, NEW h \in Handlers, NEW u \in Users, StartAccept(h, u)
  PROVE  OrgIInv'
<1> DEFINE r == [NoOrgCall EXCEPT !.op = "join", !.pc = "existing", !.next = "mark", !.user = u]
<1>1. /\ r \in OrgCallType /\ r.op = "join" /\ r.pc = "existing" /\ r.user = u
      /\ r.next = "mark" /\ r.via = FALSE
  BY NoOrgCallIs DEF OrgCallType, OrgOps, OrgPCs
<1>2. OrgStart(h, r) /\ CanSignIn(u) /\ orgs > 0
  BY DEF StartAccept, OrgIInv, OrgThere
<1> HIDE DEF r
<1>3. InPlace(r) /\ InOrg(r) /\ ~MadeAccount(r)
  BY <1>1, <1>2 DEF InPlace, InOrg, MadeAccount, Joining
<1> QED
  BY <1>1, <1>2, <1>3, OrgStarts, SignInIs

LEMMA StartScimStays ==
  ASSUME OrgIInv, NEW h \in Handlers, NEW u \in Users, StartScim(h, u)
  PROVE  OrgIInv'
<1> DEFINE r == [NoOrgCall EXCEPT !.op = "join", !.pc = "existing", !.user = u]
<1>1. /\ r \in OrgCallType /\ r.op = "join" /\ r.pc = "existing" /\ r.user = u
      /\ r.next = "idle" /\ r.via = FALSE
  BY NoOrgCallIs DEF OrgCallType, OrgOps, OrgPCs
<1>2. OrgStart(h, r) /\ orgs > 0
  BY DEF StartScim
<1> HIDE DEF r
<1>3. InPlace(r) /\ InOrg(r) /\ ~MadeAccount(r) /\ ~SignedIn(r)
  BY <1>1, <1>2 DEF InPlace, InOrg, MadeAccount, SignedIn, Joining
<1> QED
  BY <1>1, <1>2, <1>3, OrgStarts

LEMMA StartCompleteStays ==
  ASSUME OrgIInv, NEW h \in Handlers, NEW u \in Users, NEW via \in BOOLEAN,
         NEW founder \in BOOLEAN, StartComplete(h, u, via, founder)
  PROVE  OrgIInv'
<1> DEFINE new == founder /\ ~Belongs(u)
           op == IF new THEN "found" ELSE "join"
           r == [NoOrgCall EXCEPT !.pc = "join", !.user = u, !.via = via,
                                  !.founder = new, !.op = op]
<1>1. OrgStart(h, r) /\ CanSignIn(u) /\ (via => orgs > 0)
  BY DEF StartComplete
<1>2. new \in BOOLEAN /\ op \in {"found", "join"} /\ (op = "join" => ~new) /\ (op = "found" => new)
  BY DEF Belongs
<1> HIDE DEF new, op
<1>3. /\ r \in OrgCallType /\ r.op = op /\ r.pc = "join" /\ r.user = u
      /\ r.next = "idle" /\ r.via = via /\ r.founder = new
  BY <1>2, NoOrgCallIs DEF OrgCallType, OrgOps, OrgPCs
<1> HIDE DEF r
<1>4. InPlace(r) /\ InOrg(r) /\ ~MadeAccount(r)
  <2>1. InPlace(r)
    BY <1>2, <1>3 DEF InPlace
  <2>2. InOrg(r)
    BY <1>1, <1>3 DEF InOrg, Joining
  <2>3. ~MadeAccount(r)
    BY <1>2, <1>3 DEF MadeAccount
  <2> QED
    BY <2>1, <2>2, <2>3
<1>5. r.op # "idle" /\ r.user = u /\ r.pc \in {"account", "recount", "existing", "join"}
  BY <1>2, <1>3
<1> QED
  BY <1>1, <1>3, <1>4, <1>5, OrgStarts, SignInIs

\* What is known of a request that is at work.
LEMMA OrgHere ==
  ASSUME OrgIInv, NEW h \in Handlers
  PROVE  /\ orgCall[h] \in OrgCallType /\ InPlace(orgCall[h]) /\ InOrg(orgCall[h])
         /\ orgCall[h].pc # "idle" => orgCall[h].op # "idle" /\ orgCall[h].user \in Users
         /\ orgCall[h].pc \in {"pending", "decide"} => orgCall[h].op = "found"
         /\ orgCall[h].pc \in Joining => orgCall[h].op = "join"
         /\ orgCall[h].pc \in {"recount", "tenant", "founder", "reload"}
               => orgCall[h].op \in Founders
         /\ orgCall[h].pc \in {"account", "dropAccount"} => orgCall[h].op = "signup"
<1>1. orgCall[h] \in OrgCallType /\ InPlace(orgCall[h]) /\ InOrg(orgCall[h])
  BY OrgTypes DEF OrgIInv, OrgSteps
<1>2. orgCall[h].op \in {"idle", "signup", "found", "join"}
  BY <1>1 DEF OrgCallType, OrgOps
<1>3. orgCall[h].op = "idle" => orgCall[h].pc = "idle"
  BY <1>1, NoOrgCallIs DEF InPlace
<1> QED
  BY <1>1, <1>2, <1>3 DEF InPlace, Founds, Joining, Founders

LEMMA GiveUpStays ==
  ASSUME OrgIInv, NEW h \in Handlers, GiveUp(h), orgCall[h].pc \in {"recount", "tenant"},
         UNCHANGED orgTables, orgHistory' = orgHistory
  PROVE  OrgIInv'
<1>1. CASE orgCall[h].op # "signup"
  <2>1. OrgDone(h)
    BY <1>1 DEF GiveUp
  <2> QED
    BY <2>1, OrgEnds, OrgTypes
<1>2. CASE orgCall[h].op = "signup"
  <2>1. OrgStep(h, "dropAccount") /\ "dropAccount" \in OrgPCs
    BY <1>2 DEF GiveUp, OrgPCs
  <2>2. PICK r \in OrgCallType :
           /\ orgCall' = [orgCall EXCEPT ![h] = r]
           /\ r.pc = "dropAccount" /\ r.op = orgCall[h].op /\ r.next = orgCall[h].next
           /\ r.user = orgCall[h].user /\ r.via = orgCall[h].via
    BY <2>1, OrgStepIs
  <2>3. InPlace(r) /\ InOrg(r)
    BY <1>2, <2>2, OrgHere DEF InPlace, InOrg, Founds, Joining
  <2>4. MadeAccount(r) => MadeAccount(orgCall[h])
    BY <2>2 DEF MadeAccount
  <2>5. SignedIn(r) => SignedIn(orgCall[h])
    BY <2>2 DEF SignedIn
  <2> QED
    BY <1>2, <2>2, <2>3, <2>4, <2>5, OrgMoves, OrgTypes
<1> QED
  BY <1>1, <1>2

LEMMA RecountStays ==
  ASSUME OrgIInv, NEW h \in Handlers, Recount(h)
  PROVE  OrgIInv'
<1>1. /\ orgCall[h].pc = "recount" /\ UNCHANGED orgTables /\ orgHistory' = orgHistory
      /\ IF orgs = 0 THEN OrgStep(h, "tenant") ELSE GiveUp(h)
  BY DEF Recount, OrgAt, OnlyCall, CanCreateTenant
<1>2. CASE orgs = 0
  <2>1. OrgStep(h, "tenant") /\ "tenant" \in OrgPCs
    BY <1>1, <1>2 DEF OrgPCs
  <2>2. PICK r \in OrgCallType :
           /\ orgCall' = [orgCall EXCEPT ![h] = r]
           /\ r.pc = "tenant" /\ r.op = orgCall[h].op /\ r.next = orgCall[h].next
           /\ r.user = orgCall[h].user /\ r.via = orgCall[h].via
    BY <2>1, OrgStepIs
  <2>3. orgCall[h].op \in Founders
    BY <1>1, OrgHere
  <2>4. InPlace(r) /\ InOrg(r)
    BY <1>1, <2>2, <2>3, OrgHere DEF InPlace, InOrg, Founds, Joining, Founders
  <2>5. MadeAccount(r) => MadeAccount(orgCall[h])
    BY <1>1, <2>2 DEF MadeAccount
  <2>6. SignedIn(r) => SignedIn(orgCall[h])
    BY <2>2 DEF SignedIn
  <2> QED
    BY <1>1, <1>2, <2>2, <2>3, <2>4, <2>5, <2>6, OrgMoves, OrgTypes
<1> QED
  BY <1>1, <1>2, GiveUpStays

LEMMA ReloadForTenantStays ==
  ASSUME OrgIInv, NEW h \in Handlers, ReloadForTenant(h)
  PROVE  OrgIInv'
<1>1. orgCall[h].pc = "reload" /\ UNCHANGED orgTables /\ orgHistory' = orgHistory /\ OrgDone(h)
  BY DEF ReloadForTenant, OrgAt, OnlyCall
<1> QED
  BY <1>1, OrgEnds, OrgTypes

LEMMA ReadDomainStays ==
  ASSUME OrgIInv, NEW h \in Handlers, ReadDomain(h)
  PROVE  OrgIInv'
<1> USE OrgTypes
<1> DEFINE c == orgCall[h]
           joins == domain /\ c.via
           may == c.founder /\ ~domain
           via == joins /\ c.founder
           pc == IF c.founder THEN "pending" ELSE "existing"
           r == [c EXCEPT !.via = via, !.founder = may, !.pc = pc]
<1>1. /\ c.pc = "join" /\ UNCHANGED orgTables /\ orgHistory' = orgHistory
      /\ IF c.founder \/ joins THEN orgCall' = [orgCall EXCEPT ![h] = r] ELSE OrgDone(h)
  BY DEF ReadDomain, OrgAt, OnlyCall
<1>2. CASE ~(c.founder \/ joins)
  BY <1>1, <1>2, OrgEnds
<1>3. CASE c.founder \/ joins
  <2>1. /\ c \in OrgCallType /\ c.op \in {"found", "join"} /\ c.founder \in BOOLEAN
        /\ (c.op = "join" => ~c.founder) /\ c.via \in BOOLEAN
    <3>1. c \in OrgCallType /\ InPlace(c) /\ c.op # "idle"
      BY <1>1, OrgHere
    <3>2. c.op \in {"idle", "signup", "found", "join"} /\ c.founder \in BOOLEAN /\ c.via \in BOOLEAN
      BY <3>1 DEF OrgCallType, OrgOps
    <3> QED
      BY <1>1, <3>1, <3>2 DEF InPlace, Founds
  <2>2. /\ via \in BOOLEAN /\ may \in BOOLEAN /\ pc \in OrgPCs
        /\ pc \in {"pending", "existing"} /\ (via => orgs > 0)
        /\ (pc = "pending" => c.op = "found")
        /\ (pc = "existing" => orgs > 0 /\ c.op \in {"found", "join"})
    BY <1>3, <2>1 DEF OrgPCs, OrgIInv, OrgThere
  <2>3. pc = "existing" => c.op = "join"
    <3>1. c.op = "found" => c.founder
      BY <1>1, <2>1, OrgHere DEF InPlace
    <3> QED
      BY <2>1, <3>1
  <2> HIDE DEF via, may, pc
  <2>4. /\ r \in OrgCallType /\ r.pc = pc /\ r.op = c.op /\ r.next = c.next /\ r.user = c.user
        /\ r.via = via
    BY <2>1, <2>2 DEF OrgCallType
  <2>5. orgCall' = [orgCall EXCEPT ![h] = r]
    BY <1>1, <1>3
  <2> HIDE DEF r
  <2>6. InPlace(r) /\ InOrg(r)
    BY <1>1, <2>1, <2>2, <2>3, <2>4, OrgHere DEF InPlace, InOrg, Joining
  <2>7. ~MadeAccount(r) /\ (SignedIn(r) => SignedIn(c)) /\ r.op # "signup"
    BY <2>1, <2>4 DEF MadeAccount, SignedIn
  <2>8. r.pc \notin {"tenant", "founder", "insert", "mark"}
    BY <2>2, <2>4
  <2>9. c.op # "idle"
    BY <2>1
  <2> QED
    BY <1>1, <2>4, <2>5, <2>6, <2>7, <2>8, <2>9, OrgMoves
<1> QED
  BY <1>2, <1>3

LEMMA FindPendingStays ==
  ASSUME OrgIInv, NEW h \in Handlers, FindPending(h)
  PROVE  OrgIInv'
<1> USE OrgTypes
<1> DEFINE c == orgCall[h]
           To(pc, next) ==
             [c EXCEPT !.pc = pc, !.next = next, !.via = FALSE, !.founder = FALSE,
                       !.op = IF pc = "decide" THEN "found" ELSE "join"]
<1>1. /\ c.pc = "pending" /\ UNCHANGED orgTables /\ orgHistory' = orgHistory
      /\ \/ invite[c.user] = "open" /\ orgCall' = [orgCall EXCEPT ![h] = To("existing", "mark")]
         \/ OrgDone(h)
         \/ c.via /\ orgCall' = [orgCall EXCEPT ![h] = To("existing", "idle")]
         \/ orgCall' = [orgCall EXCEPT ![h] = To("decide", "idle")]
  BY DEF FindPending, OrgAt, OnlyCall
<1>2. c \in OrgCallType /\ c.op = "found" /\ c.user \in Users
  BY <1>1, OrgHere
<1>3. ASSUME NEW pc \in {"existing", "decide"}, NEW next \in {"idle", "mark"},
             orgCall' = [orgCall EXCEPT ![h] = To(pc, next)],
             pc = "existing" => orgs > 0, pc = "decide" => next = "idle"
      PROVE  OrgIInv'
  <2> DEFINE r == To(pc, next)
             op == IF pc = "decide" THEN "found" ELSE "join"
  <2>1. r = [c EXCEPT !.pc = pc, !.next = next, !.via = FALSE, !.founder = FALSE, !.op = op]
    OBVIOUS
  <2>2. op \in {"found", "join"} /\ (op = "found" <=> pc = "decide")
    OBVIOUS
  <2> HIDE DEF op, r
  <2>3. /\ r \in OrgCallType /\ r.pc = pc /\ r.op = op /\ r.next = next /\ r.user = c.user
        /\ r.via = FALSE
    BY <1>2, <1>3, <2>1, <2>2 DEF OrgCallType, OrgOps, OrgPCs
  <2>4. orgCall' = [orgCall EXCEPT ![h] = r]
    BY <1>3 DEF r
  <2>5. InPlace(r)
    BY <1>2, <1>3, <2>2, <2>3 DEF InPlace, Joining
  <2>6. InOrg(r)
    BY <1>3, <2>2, <2>3 DEF InOrg, Joining
  <2>7. ~MadeAccount(r) /\ (SignedIn(r) => SignedIn(c)) /\ r.op # "signup"
    BY <1>2, <2>2, <2>3 DEF MadeAccount, SignedIn
  <2>8. c.op \in Founders /\ r.pc \notin {"tenant", "founder", "insert", "mark"}
    BY <1>2, <1>3, <2>3 DEF Founders
  <2> QED
    BY <1>1, <1>2, <2>3, <2>4, <2>5, <2>6, <2>7, <2>8, OrgMoves
<1>4. c.via \/ invite[c.user] = "open" => orgs > 0
  BY <1>2, OrgHere DEF InOrg, OrgIInv, OrgThere
<1>5. CASE OrgDone(h)
  BY <1>1, <1>5, OrgEnds
<1> HIDE DEF To
<1> QED
  BY <1>1, <1>3, <1>4, <1>5

\* What follows once a user belongs.
LEMMA ContinueIs ==
  ASSUME OrgIInv, NEW h \in Handlers, Continue(h), orgCall[h].pc \in {"existing", "insert"}
  PROVE  \E r \in OrgCallType :
            /\ orgCall' = [orgCall EXCEPT ![h] = r]
            /\ InPlace(r) /\ InOrg(r) /\ ~MadeAccount(r)
            /\ SignedIn(r) => SignedIn(orgCall[h])
            /\ r.op # "idle" => r.user = orgCall[h].user
            /\ r.op \in {"idle", "join"} /\ r.pc \in {"idle", "mark"}
            /\ r.pc = "mark" => r.op = "join"
<1> USE OrgHere
<1>1. orgCall[h].op = "join" /\ orgCall[h].next \in {"idle", "mark"} /\ orgs > 0
  BY DEF OrgCallType, InOrg, Joining
<1>2. CASE orgCall[h].next = "idle"
  <2>1. orgCall' = [orgCall EXCEPT ![h] = NoOrgCall]
    BY <1>2 DEF Continue, OrgDone
  <2> QED
    BY <2>1, NoOrgCallIs
<1>3. CASE orgCall[h].next = "mark"
  <2>1. OrgStep(h, "mark") /\ "mark" \in OrgPCs
    BY <1>3 DEF Continue, OrgPCs
  <2>2. PICK r \in OrgCallType :
           /\ orgCall' = [orgCall EXCEPT ![h] = r]
           /\ r.pc = "mark" /\ r.op = orgCall[h].op /\ r.next = orgCall[h].next
           /\ r.user = orgCall[h].user /\ r.via = orgCall[h].via
    BY <2>1, OrgStepIs
  <2>3. InPlace(r) /\ InOrg(r)
    BY <1>1, <1>3, <2>2 DEF InPlace, InOrg, Joining
  <2>4. ~MadeAccount(r) /\ SignedIn(orgCall[h])
    BY <1>1, <1>3, <2>2 DEF MadeAccount, SignedIn
  <2> QED
    BY <1>1, <2>2, <2>3, <2>4
<1> QED
  BY <1>1, <1>2, <1>3

LEMMA SelectMembershipStays ==
  ASSUME OrgIInv, NEW h \in Handlers, SelectMembership(h)
  PROVE  OrgIInv'
<1> USE OrgTypes
<1> DEFINE c == orgCall[h]
<1>1. /\ c.pc = "existing" /\ UNCHANGED orgTables /\ orgHistory' = orgHistory
      /\ IF members[<<c.user, 1>>] > 0 THEN Continue(h) ELSE OrgStep(h, "insert")
  BY DEF SelectMembership, OrgAt, OnlyCall
<1>2. c.op = "join" /\ c.user \in Users /\ <<c.user, 1>> \in Users \X Orgs /\ orgs > 0
  BY <1>1, OrgHere DEF Joining, InOrg
<1>3. CASE members[<<c.user, 1>>] > 0
  <2>1. PICK r \in OrgCallType :
            /\ orgCall' = [orgCall EXCEPT ![h] = r]
            /\ InPlace(r) /\ InOrg(r) /\ ~MadeAccount(r)
            /\ SignedIn(r) => SignedIn(c)
            /\ r.op # "idle" => r.user = c.user
            /\ r.op \in {"idle", "join"} /\ r.pc \in {"idle", "mark"}
    BY <1>1, <1>3, ContinueIs
  <2>2. r.op \notin Founders
    BY <2>1 DEF Founders
  <2> QED
    BY <1>1, <1>2, <1>3, <2>1, <2>2, OrgMoves
<1>4. CASE ~(members[<<c.user, 1>>] > 0)
  <2>1. OrgStep(h, "insert") /\ "insert" \in OrgPCs
    BY <1>1, <1>4 DEF OrgPCs
  <2>2. PICK r \in OrgCallType :
           /\ orgCall' = [orgCall EXCEPT ![h] = r]
           /\ r.pc = "insert" /\ r.op = c.op /\ r.next = c.next
           /\ r.user = c.user /\ r.via = c.via
    BY <2>1, OrgStepIs
  <2>3. InPlace(r) /\ InOrg(r)
    BY <1>2, <2>2 DEF InPlace, InOrg, Joining
  <2>4. ~MadeAccount(r) /\ (SignedIn(r) => SignedIn(c)) /\ r.op \notin Founders
    BY <1>2, <2>2 DEF MadeAccount, SignedIn, Founders
  <2>5. members[<<c.user, 1>>] = 0
    BY <1>2, <1>4
  <2> QED
    BY <1>1, <1>2, <2>2, <2>3, <2>4, <2>5, OrgMoves
<1> QED
  BY <1>3, <1>4

LEMMA DecideStays ==
  ASSUME OrgIInv, NEW h \in Handlers, Decide(h)
  PROVE  OrgIInv'
<1> USE OrgTypes
<1> DEFINE c == orgCall[h]
<1>1. /\ c.pc = "decide" /\ UNCHANGED orgTables /\ orgHistory' = orgHistory
      /\ OrgStep(h, "recount") \/ OrgDone(h)
  BY DEF Decide, OrgAt, OnlyCall
<1>2. CASE OrgDone(h)
  BY <1>1, <1>2, OrgEnds
<1>3. CASE OrgStep(h, "recount")
  <2>1. PICK r \in OrgCallType :
           /\ orgCall' = [orgCall EXCEPT ![h] = r]
           /\ r.pc = "recount" /\ r.op = c.op /\ r.next = c.next
           /\ r.user = c.user /\ r.via = c.via
    BY <1>3, OrgStepIs DEF OrgPCs
  <2>2. c.op = "found" /\ c.user \in Users /\ (c.via => orgs > 0) /\ c.next # "mark"
    BY <1>1, OrgHere DEF InOrg, InPlace
  <2>3. InPlace(r) /\ InOrg(r)
    BY <2>1, <2>2 DEF InPlace, InOrg, Joining, Founds
  <2>4. ~MadeAccount(r) /\ (SignedIn(r) => SignedIn(c)) /\ r.op # "signup" /\ c.op \in Founders
    BY <2>1, <2>2 DEF MadeAccount, SignedIn, Founders
  <2> QED
    BY <1>1, <2>1, <2>2, <2>3, <2>4, OrgMoves
<1> QED
  BY <1>1, <1>2, <1>3

LEMMA FailOrgCallStays ==
  ASSUME OrgIInv, NEW h \in Handlers, FailOrgCall(h)
  PROVE  OrgIInv'
<1> USE OrgTypes
<1> DEFINE c == orgCall[h]
           failed == orgHistory.failed \/ c.op \in Founders
           hist == [orgHistory EXCEPT !.faults = orgHistory.faults + 1, !.failed = failed]
<1>1. /\ UNCHANGED orgTables /\ orgHistory' = hist /\ orgHistory.faults < MaxOrgFaults
      /\ \/ OrgDone(h)
         \/ /\ c.pc \in {"recount", "tenant", "founder", "reload"} /\ c.op = "signup"
            /\ OrgStep(h, "dropAccount")
  BY DEF FailOrgCall
<1>2. failed \in BOOLEAN /\ (c.pc = "founder" => failed) /\ (c.op = "signup" => failed)
      /\ (orgHistory.failed => failed)
  BY OrgHere DEF Founders, OrgHistoryType
<1> HIDE DEF failed
<1>3. /\ hist \in OrgHistoryType /\ hist.joins = orgHistory.joins
      /\ hist.founders = orgHistory.founders /\ hist.failed = failed
  <2> DEFINE faults == orgHistory.faults + 1
  <2>1. faults \in 0..MaxOrgFaults
    BY <1>1 DEF OrgHistoryType
  <2> HIDE DEF faults
  <2>2. hist = [orgHistory EXCEPT !.faults = faults, !.failed = failed]
    BY DEF faults
  <2> HIDE DEF hist
  <2> QED
    BY <1>2, <2>1, <2>2 DEF OrgHistoryType
<1> HIDE DEF hist
<1>4. CASE OrgDone(h)
  BY <1>1, <1>2, <1>3, <1>4, OrgEnds
<1>5. CASE /\ c.pc \in {"recount", "tenant", "founder", "reload"} /\ c.op = "signup"
           /\ OrgStep(h, "dropAccount")
  <2>1. PICK r \in OrgCallType :
           /\ orgCall' = [orgCall EXCEPT ![h] = r]
           /\ r.pc = "dropAccount" /\ r.op = c.op /\ r.next = c.next
           /\ r.user = c.user /\ r.via = c.via
    BY <1>5, OrgStepIs DEF OrgPCs
  <2>2. c.user \in Users /\ (c.via => orgs > 0) /\ c.next # "mark"
    BY <1>5, OrgHere DEF InOrg, InPlace
  <2>3. InPlace(r) /\ InOrg(r)
    BY <1>5, <2>1, <2>2 DEF InPlace, InOrg, Joining, Founds
  <2>4. MadeAccount(c) /\ ~SignedIn(r) /\ c.op \in Founders
    BY <1>5, <2>1, <2>2 DEF MadeAccount, SignedIn, Founders
  <2> QED
    BY <1>1, <1>2, <1>3, <1>5, <2>1, <2>2, <2>3, <2>4, OrgMoves
<1> QED
  BY <1>1, <1>4, <1>5

LEMMA CreateAccountStays ==
  ASSUME OrgIInv, NEW h \in Handlers, CreateAccount(h)
  PROVE  OrgIInv'
<1> USE OrgTypes
<1> DEFINE c == orgCall[h]
           u == c.user
<1>1. /\ c.pc = "account"
      /\ IF u \in accounts THEN OrgDone(h) /\ UNCHANGED accounts
         ELSE accounts' = accounts \cup {u} /\ OrgStep(h, "recount")
      /\ orgs' = orgs /\ members' = members /\ admins' = admins /\ invite' = invite
      /\ domain' = domain /\ orgHistory' = orgHistory
  BY DEF CreateAccount, OrgAt
<1>2. c.op = "signup" /\ u \in Users /\ InPlace(c) /\ InOrg(c) /\ c.next # "mark"
  BY <1>1, OrgHere DEF InPlace
<1>3. CASE u \in accounts
  BY <1>1, <1>3, OrgEnds DEF orgTables
<1>4. CASE u \notin accounts
  <2>1. PICK r \in OrgCallType :
           /\ orgCall' = [orgCall EXCEPT ![h] = r]
           /\ r.pc = "recount" /\ r.op = c.op /\ r.next = c.next
           /\ r.user = u /\ r.via = c.via
    BY <1>1, <1>4, OrgStepIs DEF OrgPCs
  <2>2. /\ orgCall' \in [Handlers -> OrgCallType] /\ orgCall'[h] = r
        /\ \A k \in Handlers \ {h} : orgCall'[k] = orgCall[k]
    BY <2>1
  <2>3. /\ accounts' = accounts \cup {u} /\ orgs' = orgs /\ members' = members
        /\ admins' = admins /\ invite' = invite /\ domain' = domain
        /\ orgHistory' = orgHistory
    BY <1>1, <1>4
  <2>4. OrganizationsTypeOK'
    BY <1>2, <2>2, <2>3, OrgTypesKept
  <2>5. InPlace(r) /\ InOrg(r) /\ ~SignedIn(r)
    BY <1>2, <2>1 DEF InPlace, InOrg, SignedIn, Founds, Joining
  <2>6. OrgSteps'
    BY <2>2, <2>3, <2>5 DEF OrgIInv, OrgSteps, InOrg, InPlace
  <2>7. OrgThere' /\ SingleTenancy' /\ OneMembership'
    BY <2>3 DEF OrgIInv, OrgThere, SingleTenancy, OneMembership
  <2>8. invite[u] # "accepted" /\ AcceptedBelong'
    BY <1>2, <1>4, <2>3 DEF OrgIInv, InvitesUsed, AcceptedBelong
  <2>9. OneFounds'
    BY <2>1, <2>2, <2>3 DEF OrgIInv, OneFounds
  <2>10. AccountsMade'
    <3>1. \A k \in Handlers : MadeAccount(orgCall[k]) \/ SignedIn(orgCall[k])
                                => orgCall[k].user # u
      BY <1>4 DEF OrgIInv, AccountsMade
    <3>2. AccountsMade
      BY DEF OrgIInv
    <3> QED
      BY <2>1, <2>2, <2>3, <2>5, <3>1, <3>2 DEF AccountsMade
  <2>11. AdminsSignIn'
    <3>1. \A t \in Orgs : <<u, t>> \notin admins
      BY <1>4 DEF OrgIInv, AdminsSignIn
    <3> QED
      BY <2>1, <2>2, <2>3, <3>1 DEF OrgIInv, AdminsSignIn, NewAccount
  <2>12. AdminComes'
    BY <1>1, <2>2, <2>3 DEF OrgIInv, AdminComes
  <2>13. InvitesUsed'
    BY <2>1, <2>2, <2>3, <2>8 DEF OrgIInv, InvitesUsed
  <2>14. ServedInTurn'
    <3>1. \A k \in Handlers : /\ orgCall'[k].op = orgCall[k].op
                              /\ orgCall'[k].user = orgCall[k].user
      BY <2>1, <2>2
    <3>2. r.pc \notin {"insert", "founder"}
      BY <2>1
    <3>3. ServedInTurn
      BY DEF OrgIInv
    <3>4. \A k \in Handlers : orgCall'[k].pc \in {"insert", "founder"}
                               => orgCall'[k] = orgCall[k]
      BY <2>2, <3>2
    <3>5. orgHistory' = orgHistory /\ members' = members
      BY <2>3
    <3> QED
      BY <3>1, <3>3, <3>4, <3>5 DEF ServedInTurn
  <2>15. RoomForAll'
    <3>1. ASSUME NEW m \in Users \X Orgs PROVE Inserting(m)' \subseteq Inserting(m)
      <4>1. Inserting(m)' = {k \in Handlers : Inserts(orgCall'[k], m)}
        BY DEF Inserting, Inserts
      <4>2. ~Inserts(r, m)
        BY <2>1 DEF Inserts
      <4> QED
        BY <2>2, <4>1, <4>2 DEF Inserting
    <3>2. members' = [m \in Users \X Orgs |-> members[m]]
      BY <2>3
    <3> QED
      BY <2>3, <3>1, <3>2, RoomKept
  <2> QED
    BY <2>4, <2>6, <2>7, <2>8, <2>9, <2>10, <2>11, <2>12, <2>13, <2>14, <2>15 DEF OrgIInv
<1> QED
  BY <1>3, <1>4

LEMMA InsertTenantStays ==
  ASSUME OrgIInv, NEW h \in Handlers, InsertTenant(h)
  PROVE  OrgIInv'
<1> USE OrgTypes
<1> DEFINE c == orgCall[h]
           n == orgs + 1
           r == [c EXCEPT !.pc = "founder", !.org = n]
<1>1. /\ c.pc = "tenant"
      /\ \/ n \in Orgs /\ orgs' = n /\ orgCall' = [orgCall EXCEPT ![h] = r]
         \/ UNCHANGED orgs /\ GiveUp(h)
      /\ accounts' = accounts /\ members' = members /\ admins' = admins /\ invite' = invite
      /\ domain' = domain /\ orgHistory' = orgHistory
  BY DEF InsertTenant, OrgAt
<1>2. /\ c \in OrgCallType /\ c.op \in Founders /\ c.user \in Users /\ InPlace(c) /\ InOrg(c)
      /\ c.next # "mark"
  BY <1>1, OrgHere DEF InPlace, Founders
<1>3. CASE UNCHANGED orgs /\ GiveUp(h)
  BY <1>1, <1>3, GiveUpStays DEF orgTables
<1>4. CASE n \in Orgs /\ orgs' = n /\ orgCall' = [orgCall EXCEPT ![h] = r]
  <2>1. n \in {1, 2} /\ n > orgs /\ (n = 1 <=> orgs = 0) /\ n > 0
    BY <1>4
  <2>2. orgs' = n
    BY <1>4
  <2> HIDE DEF n
  <2>3. /\ r \in OrgCallType /\ r.pc = "founder" /\ r.org = n /\ r.op = c.op
        /\ r.next = c.next /\ r.user = c.user /\ r.via = c.via
    BY <1>2, <1>4 DEF OrgCallType, OrgPCs
  <2>4. orgCall' = [orgCall EXCEPT ![h] = r]
    BY <1>4
  <2> HIDE DEF r
  <2>5. /\ orgCall' \in [Handlers -> OrgCallType] /\ orgCall'[h] = r
        /\ \A k \in Handlers \ {h} : orgCall'[k] = orgCall[k]
    BY <2>3, <2>4
  <2>6. /\ accounts' = accounts /\ members' = members /\ admins' = admins
        /\ invite' = invite /\ domain' = domain /\ orgHistory' = orgHistory
    BY <1>1
  <2>7. OrganizationsTypeOK'
    BY <2>1, <2>2, <2>5, <2>6, OrgTypesKept
  <2>8. /\ InPlace(r) /\ (r.via => orgs' > 0) /\ r.pc \notin Joining
        /\ (r.pc = "founder" => r.org <= orgs')
    BY <1>2, <2>1, <2>2, <2>3 DEF InPlace, InOrg, Founds, Joining, Founders
  <2>9. OrgSteps'
    <3>1. ASSUME NEW k \in Handlers \ {h} PROVE InPlace(orgCall[k]) /\ InOrg(orgCall[k])'
      <4>1. InPlace(orgCall[k]) /\ InOrg(orgCall[k]) /\ orgCall[k] \in OrgCallType
        BY OrgHere
      <4>2. orgCall[k].org \in {1, 2}
        BY <4>1 DEF OrgCallType
      <4> QED
        BY <2>1, <2>2, <2>5, <4>1, <4>2 DEF InOrg
    <3>2. InPlace(orgCall'[h]) /\ InOrg(orgCall[h])'
      BY <2>5, <2>8 DEF InOrg
    <3> QED
      BY <2>5, <3>1, <3>2 DEF OrgSteps, InPlace
  <2>10. OrgThere' /\ OneMembership' /\ AcceptedBelong'
    BY <2>1, <2>2, <2>6 DEF OrgIInv, OrgThere, OneMembership, AcceptedBelong
  <2>11. ~orgHistory.founders => orgs = 0
    BY <1>1 DEF OrgIInv, OneFounds
  <2>12. SingleTenancy'
    BY <2>1, <2>2, <2>6, <2>11 DEF SingleTenancy
  <2>13. OneFounds'
    <3>1. ~orgHistory.founders =>
             \A k \in Handlers \ {h} : orgCall[k].op \notin Founders
      BY <1>2 DEF OrgIInv, OneFounds
    <3>2. \A k \in Handlers : orgCall[k].pc = "tenant" => orgCall[k].op \in Founders
      BY OrgHere
    <3>3. ~orgHistory.founders =>
             \A k \in Handlers : orgCall'[k].pc # "tenant"
      BY <2>3, <2>5, <3>1, <3>2
    <3> QED
      BY <2>3, <2>5, <2>6, <3>1, <3>3 DEF OneFounds
  <2>14. \A k \in Handlers :
            /\ orgCall'[k].op = orgCall[k].op /\ orgCall'[k].user = orgCall[k].user
            /\ MadeAccount(orgCall'[k]) <=> MadeAccount(orgCall[k])
            /\ SignedIn(orgCall'[k]) <=> SignedIn(orgCall[k])
            /\ orgCall'[k].pc = "mark" => orgCall[k].pc = "mark"
            /\ orgCall'[k].pc = "insert" => orgCall[k].pc = "insert"
    BY <1>1, <2>3, <2>5 DEF MadeAccount, SignedIn
  <2>15. AccountsMade'
    <3>1. AccountsMade
      BY DEF OrgIInv
    <3> QED
      BY <2>6, <2>14, <3>1 DEF AccountsMade, MadeAccount, SignedIn
  <2>16. AdminsSignIn'
    <3>1. ASSUME NEW k \in Handlers, NewAccount(orgCall[k])'
          PROVE  NewAccount(orgCall[k])
      BY <1>1, <2>3, <2>5, <2>6, <3>1 DEF NewAccount
    <3> QED
      BY <2>6, <2>14, <3>1 DEF OrgIInv, AdminsSignIn
  <2>17. AdminComes'
    BY <2>3, <2>5 DEF AdminComes
  <2>18. InvitesUsed'
    BY <2>6, <2>14 DEF OrgIInv, InvitesUsed, MadeAccount
  <2>19. members[<<c.user, n>>] = 0
    <3>1. <<c.user, n>> \in Users \X Orgs
      BY <1>2, <2>1
    <3>2. ~(n <= orgs)
      BY <2>1
    <3>3. members[<<c.user, n>>] \in Nat
      BY <3>1
    <3>4. members[<<c.user, n>>] > 0 => n <= orgs
      BY <3>1
    <3> QED
      BY <3>2, <3>3, <3>4
  <2>20. ServedInTurn'
    <3>1. ServedInTurn
      BY DEF OrgIInv
    <3>2. \A k \in Handlers \ {h} : orgCall'[k].org = orgCall[k].org /\ orgCall'[k].pc = orgCall[k].pc
      BY <2>5
    <3> QED
      BY <2>3, <2>5, <2>6, <2>14, <2>19, <3>1, <3>2 DEF ServedInTurn
  <2>21. RoomForAll'
    <3>1. ASSUME NEW m \in Users \X Orgs
          PROVE  members[m] = 0 \/ Inserting(m)' \subseteq Inserting(m)
      <4>1. Inserting(m)' = {k \in Handlers : Inserts(orgCall'[k], m)}
        BY DEF Inserting, Inserts
      <4>2. Inserts(r, m) => m = <<c.user, n>>
        BY <2>3 DEF Inserts
      <4>3. CASE ~Inserts(r, m)
        BY <2>5, <4>1, <4>3 DEF Inserting
      <4>4. CASE Inserts(r, m)
        BY <2>19, <4>2, <4>4
      <4> QED
        BY <4>3, <4>4
    <3>2. members' = [m \in Users \X Orgs |-> members[m]]
      BY <2>6
    <3> QED
      BY <2>6, <3>1, <3>2, RoomKept
  <2> QED
    BY <2>7, <2>9, <2>10, <2>12, <2>13, <2>15, <2>16, <2>17, <2>18, <2>20, <2>21 DEF OrgIInv
<1> QED
  BY <1>1, <1>3, <1>4

\* A row of memberships is inserted by a request that was about to.
LEMMA RowInserted ==
  ASSUME OrgIInv, NEW h \in Handlers, NEW u \in Users, NEW t \in Orgs, Inserts(orgCall[h], <<u, t>>),
         members' = [members EXCEPT ![<<u, t>>] = @ + 1],
         \A k \in Handlers \ {h} : orgCall'[k] = orgCall[k],
         \A m \in Users \X Orgs : ~Inserts(orgCall'[h], m)
  PROVE  /\ RoomForAll'
         /\ members' \in [Users \X Orgs -> 0..Cardinality(Handlers)]
         /\ members'[<<u, t>>] = members[<<u, t>>] + 1
         /\ \A m \in Users \X Orgs : m # <<u, t>> => members'[m] = members[m]
         /\ \A m \in Users \X Orgs : members'[m] \in Nat /\ members'[m] >= members[m]
<1> USE OrgTypes
<1> DEFINE x == <<u, t>>
           n == members[x] + 1
           after == [m \in Users \X Orgs |-> IF m = x THEN n ELSE members[m]]
<1>1. x \in Users \X Orgs /\ members[x] \in Nat /\ n \in Nat /\ n > members[x]
  BY DEF Orgs
<1>2. members' = after
  BY <1>1
<1>3. h \in Inserting(x)
  BY DEF Inserting
<1> HIDE DEF n, x
<1>4. ASSUME NEW m \in Users \X Orgs
      PROVE  Inserting(m)' \subseteq Inserting(m) \ {h}
  <2>1. Inserting(m)' = {k \in Handlers : Inserts(orgCall'[k], m)}
    BY DEF Inserting, Inserts
  <2> QED
    BY <2>1 DEF Inserting
<1>5. /\ members'[x] = n
      /\ \A m \in Users \X Orgs : m # x => members'[m] = members[m]
      /\ DOMAIN members' = Users \X Orgs
  BY <1>1, <1>2
<1>6. RoomForAll' /\ members' \in [Users \X Orgs -> 0..Cardinality(Handlers)]
  <2>1. ASSUME NEW m \in Users \X Orgs
        PROVE  \/ members'[m] = members[m] /\ Inserting(m)' \subseteq Inserting(m)
               \/ /\ members'[m] = members[m] + 1
                  /\ h \in Inserting(m) /\ Inserting(m)' \subseteq Inserting(m) \ {h}
    BY <1>3, <1>4, <1>5 DEF n
  <2>2. members' = [m \in Users \X Orgs |-> members'[m]]
    BY <1>2
  <2> QED
    BY <1>5, <2>1, <2>2, RoomKept
<1>7. \A m \in Users \X Orgs : members'[m] \in Nat /\ members'[m] >= members[m]
  <2>1. \A m \in Users \X Orgs : members'[m] = members[m] \/ (m = x /\ members'[m] = n)
    BY <1>5
  <2> QED
    BY <1>1, <2>1
<1> QED
  BY <1>5, <1>6, <1>7 DEF n, x

LEMMA InsertFounderStays ==
  ASSUME OrgIInv, NEW h \in Handlers, InsertFounder(h)
  PROVE  OrgIInv'
<1> USE OrgTypes
<1> DEFINE c == orgCall[h]
           u == c.user
           t == c.org
<1>1. /\ c.pc = "founder" /\ members' = [members EXCEPT ![<<u, t>>] = @ + 1]
      /\ admins' = admins \cup {<<u, t>>} /\ OrgStep(h, "reload")
      /\ accounts' = accounts /\ orgs' = orgs /\ invite' = invite /\ domain' = domain
      /\ orgHistory' = orgHistory
  BY DEF InsertFounder, OrgAt
<1>2. /\ c \in OrgCallType /\ c.op \in Founders /\ u \in Users /\ t \in Orgs /\ t <= orgs
      /\ InPlace(c) /\ InOrg(c) /\ c.next # "mark"
  BY <1>1, OrgHere DEF OrgCallType, InOrg, InPlace, Founders
<1>3. u \in accounts /\ (MadeAccount(c) \/ SignedIn(c))
  BY <1>1, <1>2 DEF OrgIInv, AccountsMade, MadeAccount, SignedIn, Founders
<1>4. PICK r \in OrgCallType :
         /\ orgCall' = [orgCall EXCEPT ![h] = r]
         /\ r.pc = "reload" /\ r.op = c.op /\ r.next = c.next
         /\ r.user = c.user /\ r.via = c.via
  BY <1>1, OrgStepIs DEF OrgPCs
<1>5. /\ orgCall' \in [Handlers -> OrgCallType] /\ orgCall'[h] = r
      /\ \A k \in Handlers \ {h} : orgCall'[k] = orgCall[k]
  BY <1>4
<1>6. /\ RoomForAll'
      /\ members' \in [Users \X Orgs -> 0..Cardinality(Handlers)]
      /\ members'[<<u, t>>] = members[<<u, t>>] + 1
      /\ \A m \in Users \X Orgs : m # <<u, t>> => members'[m] = members[m]
      /\ \A m \in Users \X Orgs : members'[m] \in Nat /\ members'[m] >= members[m]
  <2>1. Inserts(c, <<u, t>>)
    BY <1>1 DEF Inserts
  <2>2. \A m \in Users \X Orgs : ~Inserts(orgCall'[h], m)
    BY <1>4, <1>5 DEF Inserts
  <2> HIDE DEF c, u, t
  <2>3. Inserts(orgCall[h], <<u, t>>)
    BY <2>1 DEF c
  <2> QED
    BY <1>1, <1>2, <1>5, <2>2, <2>3, RowInserted
<1> HIDE DEF u, t
<1>7. OrganizationsTypeOK'
  <2>1. \A m \in Users \X Orgs : members'[m] > 0 => m[2] <= orgs
    BY <1>2, <1>6
  <2>2. admins' \subseteq Users \X Orgs
    BY <1>1, <1>2
  <2> QED
    BY <1>1, <1>5, <1>6, <2>1, <2>2, OrgTypesKept
<1>8. OrgSteps'
  <2>1. InPlace(r) /\ InOrg(r)
    BY <1>2, <1>4 DEF InPlace, InOrg, Founds, Joining, Founders, u
  <2> QED
    BY <1>1, <1>5, <2>1 DEF OrgIInv, OrgSteps, InOrg, InPlace
<1>9. OrgThere' /\ SingleTenancy'
  BY <1>1 DEF OrgIInv, OrgThere, SingleTenancy
<1>10. \A k \in Handlers :
          /\ orgCall'[k].op = orgCall[k].op /\ orgCall'[k].user = orgCall[k].user
          /\ MadeAccount(orgCall'[k]) <=> MadeAccount(orgCall[k])
          /\ SignedIn(orgCall'[k]) <=> SignedIn(orgCall[k])
          /\ orgCall'[k].pc \in {"insert", "founder", "mark", "tenant"} => k # h
  BY <1>1, <1>4, <1>5 DEF MadeAccount, SignedIn
<1>11. OneFounds'
  <2>1. OneFounds
    BY DEF OrgIInv
  <2> QED
    BY <1>1, <1>5, <1>10, <2>1 DEF OneFounds
<1>12. AccountsMade'
  <2>1. AccountsMade
    BY DEF OrgIInv
  <2> QED
    BY <1>1, <1>10, <2>1 DEF AccountsMade, MadeAccount, SignedIn
<1>13. AdminsSignIn'
  <2>1. ASSUME NEW k \in Handlers, NewAccount(orgCall[k])'
        PROVE  NewAccount(orgCall[k]) /\ orgCall[k].user # u /\ orgCall'[k].user = orgCall[k].user
    <3>1. k # h /\ NewAccount(orgCall[k])
      BY <1>1, <1>4, <1>5, <2>1 DEF NewAccount
    <3>2. MadeAccount(orgCall[k])
      BY <3>1 DEF NewAccount, MadeAccount
    <3> QED
      BY <1>3, <1>5, <3>1, <3>2 DEF OrgIInv, AccountsMade, u
  <2> QED
    BY <1>1, <1>3, <2>1 DEF OrgIInv, AdminsSignIn
<1>14. AdminComes'
  <2>1. ~orgHistory.founders => t = 1
    BY <1>2 DEF OrgIInv, SingleTenancy
  <2> QED
    BY <1>1, <1>3, <2>1 DEF AdminComes
<1>15. InvitesUsed'
  <2>1. InvitesUsed
    BY DEF OrgIInv
  <2>2. ASSUME NEW k \in Handlers, orgCall'[k].pc = "mark"
        PROVE  members'[<<orgCall'[k].user, 1>>] > 0
    <3>1. orgCall[k].pc = "mark" /\ orgCall'[k].user = orgCall[k].user
      BY <1>5, <1>10, <2>2
    <3>2. orgCall[k].user \in Users /\ members[<<orgCall[k].user, 1>>] > 0
      BY <2>1, <3>1, OrgHere DEF InvitesUsed
    <3>3. <<orgCall[k].user, 1>> \in Users \X Orgs
      BY <3>2
    <3> QED
      BY <1>6, <3>1, <3>2, <3>3
  <2>3. /\ \A v \in Users \ accounts' : invite'[v] # "accepted"
        /\ \A k \in Handlers : MadeAccount(orgCall'[k]) => invite'[orgCall'[k].user] # "accepted"
    BY <1>1, <1>10, <2>1 DEF InvitesUsed
  <2> QED
    BY <2>2, <2>3 DEF InvitesUsed, MadeAccount
<1>16. AcceptedBelong'
  <2>1. ASSUME NEW v \in accounts, invite[v] = "accepted"
        PROVE  members'[<<v, 1>>] > 0
    <3>1. <<v, 1>> \in Users \X Orgs /\ members[<<v, 1>>] > 0
      BY <2>1 DEF OrgIInv, AcceptedBelong
    <3> QED
      BY <1>6, <3>1
  <2> QED
    BY <1>1, <2>1 DEF AcceptedBelong
<1>17. OneMembership'
  <2>1. ASSUME NEW v \in Users \ orgHistory.joins, NEW s \in Orgs
        PROVE  members'[<<v, s>>] <= 1
    <3>1. <<v, s>> \in Users \X Orgs /\ members[<<v, s>>] <= 1
      BY DEF OrgIInv, OneMembership
    <3>2. <<v, s>> = <<u, t>> => members[<<u, t>>] = 0
      BY <1>1 DEF OrgIInv, ServedInTurn, u, t
    <3> QED
      BY <1>6, <3>1, <3>2
  <2> QED
    BY <1>1, <2>1 DEF OneMembership
<1>18. ServedInTurn'
  <2>1. ServedInTurn
    BY DEF OrgIInv
  <2>2. ASSUME NEW k \in Handlers, orgCall[k].user \notin orgHistory.joins,
               orgCall[k].pc \in {"insert", "founder"}, k # h
        PROVE  /\ \A s \in Orgs : members'[<<orgCall[k].user, s>>] = members[<<orgCall[k].user, s>>]
               /\ orgCall[k].org \in Orgs
    <3>1. orgCall[k].user \in Users /\ orgCall[k].op # "idle" /\ orgCall[k].org \in Orgs
      BY <2>2, OrgHere DEF OrgCallType
    <3>2. orgCall[k].user # u
      BY <1>1, <2>1, <2>2, <3>1, OrgHere DEF ServedInTurn, u
    <3> QED
      BY <1>6, <3>1, <3>2
  <2>3. \A k, l \in Handlers :
          /\ orgCall'[k].op # "idle" /\ orgCall'[l].op # "idle"
          /\ orgCall'[k].user = orgCall'[l].user /\ orgCall'[k].user \notin orgHistory'.joins
          => k = l
    BY <1>1, <1>10, <2>1 DEF ServedInTurn
  <2>4. ASSUME NEW k \in Handlers, orgCall'[k].user \notin orgHistory'.joins
        PROVE /\ orgCall'[k].pc = "insert" => members'[<<orgCall'[k].user, 1>>] = 0
              /\ orgCall'[k].pc = "founder" => members'[<<orgCall'[k].user, orgCall'[k].org>>] = 0
    <3>1. CASE k = h
      BY <1>10, <3>1
    <3>2. CASE k # h
      BY <1>1, <1>5, <2>1, <2>2, <2>4, <3>2 DEF ServedInTurn
    <3> QED
      BY <3>1, <3>2
  <2> QED
    BY <2>3, <2>4 DEF ServedInTurn
<1> QED
  BY <1>6, <1>7, <1>8, <1>9, <1>11, <1>12, <1>13, <1>14, <1>15, <1>16, <1>17, <1>18 DEF OrgIInv

LEMMA InsertMembershipStays ==
  ASSUME OrgIInv, NEW h \in Handlers, InsertMembership(h)
  PROVE  OrgIInv'
<1> USE OrgTypes
<1> DEFINE c == orgCall[h]
           u == c.user
<1>1. /\ c.pc = "insert" /\ members' = [members EXCEPT ![<<u, 1>>] = @ + 1]
      /\ Continue(h) /\ admins' = admins
      /\ accounts' = accounts /\ orgs' = orgs /\ invite' = invite /\ domain' = domain
      /\ orgHistory' = orgHistory
  BY DEF InsertMembership, OrgAt
<1>2. /\ c.op = "join" /\ u \in Users /\ 1 \in Orgs /\ 1 <= orgs
  BY <1>1, OrgHere DEF InOrg, Joining
<1>3. PICK r \in OrgCallType :
         /\ orgCall' = [orgCall EXCEPT ![h] = r]
         /\ InPlace(r) /\ InOrg(r) /\ ~MadeAccount(r)
         /\ SignedIn(r) => SignedIn(c)
         /\ r.op # "idle" => r.user = u
         /\ r.op \in {"idle", "join"} /\ r.pc \in {"idle", "mark"}
         /\ r.pc = "mark" => r.op = "join"
  BY <1>1, ContinueIs
<1>4. /\ orgCall' \in [Handlers -> OrgCallType] /\ orgCall'[h] = r
      /\ \A k \in Handlers \ {h} : orgCall'[k] = orgCall[k]
  BY <1>3
<1>5. /\ RoomForAll'
      /\ members' \in [Users \X Orgs -> 0..Cardinality(Handlers)]
      /\ members'[<<u, 1>>] = members[<<u, 1>>] + 1
      /\ \A m \in Users \X Orgs : m # <<u, 1>> => members'[m] = members[m]
      /\ \A m \in Users \X Orgs : members'[m] \in Nat /\ members'[m] >= members[m]
  <2>1. Inserts(c, <<u, 1>>)
    BY <1>1 DEF Inserts
  <2>2. \A m \in Users \X Orgs : ~Inserts(orgCall'[h], m)
    BY <1>3, <1>4 DEF Inserts
  <2> HIDE DEF c, u
  <2>3. Inserts(orgCall[h], <<u, 1>>)
    BY <2>1 DEF c
  <2> QED
    BY <1>1, <1>2, <1>4, <2>2, <2>3, RowInserted
<1>6. members[<<u, 1>>] \in Nat /\ members'[<<u, 1>>] > 0
  BY <1>2, <1>5
<1> HIDE DEF u
<1>7. OrganizationsTypeOK'
  <2>1. \A m \in Users \X Orgs : members'[m] > 0 => m[2] <= orgs
    BY <1>2, <1>5
  <2> QED
    BY <1>1, <1>4, <1>5, <2>1, OrgTypesKept
<1>8. OrgSteps'
  BY <1>1, <1>3, <1>4 DEF OrgIInv, OrgSteps, InOrg, InPlace
<1>9. OrgThere' /\ SingleTenancy'
  BY <1>1 DEF OrgIInv, OrgThere, SingleTenancy
<1>10. \A k \in Handlers :
          /\ orgCall'[k].op # "idle" => orgCall[k].op # "idle" /\ orgCall'[k].user = orgCall[k].user
          /\ orgCall'[k].op \in Founders => orgCall[k].op \in Founders
          /\ MadeAccount(orgCall'[k]) => MadeAccount(orgCall[k])
          /\ SignedIn(orgCall'[k]) => SignedIn(orgCall[k])
          /\ MadeAccount(orgCall'[k]) \/ SignedIn(orgCall'[k]) => orgCall'[k].op # "idle"
          /\ orgCall'[k].pc \in {"insert", "founder", "tenant"} => k # h
  <2>1. \A k \in Handlers : MadeAccount(orgCall'[k]) \/ SignedIn(orgCall'[k])
                              => orgCall'[k].op # "idle"
    <3>1. \A k \in Handlers : InPlace(orgCall'[k])
      BY <1>8 DEF OrgSteps, InPlace
    <3> QED
      BY <3>1, NoOrgCallIs DEF InPlace, MadeAccount, SignedIn
  <2>2. c.op # "idle" /\ r.op \notin Founders
    BY <1>2, <1>3 DEF Founders
  <2> QED
    BY <1>3, <1>4, <2>1, <2>2 DEF u
<1>11. OneFounds'
  <2>1. OneFounds
    BY DEF OrgIInv
  <2> QED
    BY <1>1, <1>4, <1>10, <2>1 DEF OneFounds
<1>12. AccountsMade'
  <2>1. AccountsMade
    BY DEF OrgIInv
  <2> QED
    BY <1>1, <1>10, <2>1 DEF AccountsMade, MadeAccount, SignedIn
<1>13. AdminsSignIn'
  <2>1. ASSUME NEW k \in Handlers, NewAccount(orgCall[k])'
        PROVE  NewAccount(orgCall[k]) /\ orgCall'[k].user = orgCall[k].user
    <3>1. k # h
      BY <1>3, <1>4, <2>1 DEF NewAccount
    <3> QED
      BY <1>1, <1>4, <2>1, <3>1 DEF NewAccount
  <2> QED
    BY <1>1, <2>1 DEF OrgIInv, AdminsSignIn
<1>14. AdminComes'
  BY <1>1, <1>4 DEF OrgIInv, AdminComes
<1>15. InvitesUsed'
  <2>1. InvitesUsed
    BY DEF OrgIInv
  <2>2. ASSUME NEW k \in Handlers, orgCall'[k].pc = "mark"
        PROVE  members'[<<orgCall'[k].user, 1>>] > 0
    <3>1. CASE k = h
      BY <1>3, <1>4, <1>6, <2>2, <3>1
    <3>2. CASE k # h
      <4>1. orgCall[k].pc = "mark" /\ orgCall'[k].user = orgCall[k].user
        BY <1>4, <2>2, <3>2
      <4>2. orgCall[k].user \in Users /\ members[<<orgCall[k].user, 1>>] > 0
        BY <2>1, <4>1, OrgHere DEF InvitesUsed
      <4>3. <<orgCall[k].user, 1>> \in Users \X Orgs
        BY <4>2
      <4> QED
        BY <1>5, <4>1, <4>2, <4>3
    <3> QED
      BY <3>1, <3>2
  <2>3. /\ \A v \in Users \ accounts' : invite'[v] # "accepted"
        /\ \A k \in Handlers : MadeAccount(orgCall'[k]) => invite'[orgCall'[k].user] # "accepted"
    BY <1>1, <1>10, <2>1 DEF InvitesUsed
  <2> QED
    BY <2>2, <2>3 DEF InvitesUsed, MadeAccount
<1>16. AcceptedBelong'
  <2>1. ASSUME NEW v \in accounts, invite[v] = "accepted"
        PROVE  members'[<<v, 1>>] > 0
    <3>1. <<v, 1>> \in Users \X Orgs /\ members[<<v, 1>>] > 0
      BY <2>1 DEF OrgIInv, AcceptedBelong
    <3> QED
      BY <1>5, <3>1
  <2> QED
    BY <1>1, <2>1 DEF AcceptedBelong
<1>17. OneMembership'
  <2>1. ASSUME NEW v \in Users \ orgHistory.joins, NEW s \in Orgs
        PROVE  members'[<<v, s>>] <= 1
    <3>1. <<v, s>> \in Users \X Orgs /\ members[<<v, s>>] <= 1
      BY DEF OrgIInv, OneMembership
    <3>2. <<v, s>> = <<u, 1>> => members[<<u, 1>>] = 0
      BY <1>1 DEF OrgIInv, ServedInTurn, u
    <3> QED
      BY <1>5, <3>1, <3>2
  <2> QED
    BY <1>1, <2>1 DEF OneMembership
<1>18. ServedInTurn'
  <2>1. ServedInTurn
    BY DEF OrgIInv
  <2>2. ASSUME NEW k \in Handlers, orgCall[k].user \notin orgHistory.joins,
               orgCall[k].pc \in {"insert", "founder"}, k # h
        PROVE  /\ \A s \in Orgs : members'[<<orgCall[k].user, s>>] = members[<<orgCall[k].user, s>>]
               /\ orgCall[k].org \in Orgs
    <3>1. orgCall[k].user \in Users /\ orgCall[k].op # "idle" /\ orgCall[k].org \in Orgs
      BY <2>2, OrgHere DEF OrgCallType
    <3>2. orgCall[k].user # u
      BY <1>1, <2>1, <2>2, <3>1, OrgHere DEF ServedInTurn, u
    <3> QED
      BY <1>5, <3>1, <3>2
  <2>3. \A k, l \in Handlers :
          /\ orgCall'[k].op # "idle" /\ orgCall'[l].op # "idle"
          /\ orgCall'[k].user = orgCall'[l].user /\ orgCall'[k].user \notin orgHistory'.joins
          => k = l
    BY <1>1, <1>10, <2>1 DEF ServedInTurn
  <2>4. ASSUME NEW k \in Handlers, orgCall'[k].user \notin orgHistory'.joins
        PROVE /\ orgCall'[k].pc = "insert" => members'[<<orgCall'[k].user, 1>>] = 0
              /\ orgCall'[k].pc = "founder" => members'[<<orgCall'[k].user, orgCall'[k].org>>] = 0
    <3>1. CASE k = h
      BY <1>10, <3>1
    <3>2. CASE k # h
      BY <1>1, <1>4, <2>1, <2>2, <2>4, <3>2 DEF ServedInTurn
    <3> QED
      BY <3>1, <3>2
  <2> QED
    BY <2>3, <2>4 DEF ServedInTurn
<1> QED
  BY <1>5, <1>7, <1>8, <1>9, <1>11, <1>12, <1>13, <1>14, <1>15, <1>16, <1>17, <1>18 DEF OrgIInv

\* An administrator changes who is invited, or the domain.
LEMMA SettingsKept ==
  ASSUME OrgIInv, orgs = 1, invite' \in [Users -> Invites], domain' \in BOOLEAN,
         \A u \in Users : invite'[u] = "accepted" => invite[u] = "accepted",
         accounts' = accounts, orgs' = orgs, members' = members, admins' = admins,
         orgCall' = orgCall, orgHistory' = orgHistory
  PROVE  OrgIInv'
<1> USE OrgTypes
<1>1. OrganizationsTypeOK'
  BY OrgTypesKept
<1>2. OrgSteps' /\ OneFounds' /\ AccountsMade' /\ AdminComes' /\ ServedInTurn'
  BY DEF OrgIInv, OrgSteps, InPlace, InOrg, OneFounds, AccountsMade, MadeAccount, SignedIn,
         AdminComes, ServedInTurn
<1>3. AdminsSignIn' /\ RoomForAll'
  BY DEF OrgIInv, AdminsSignIn, NewAccount, RoomForAll, Inserting, Inserts
<1>4. OrgThere' /\ SingleTenancy' /\ OneMembership'
  BY DEF OrgIInv, OrgThere, SingleTenancy, OneMembership
<1>5. InvitesUsed' /\ AcceptedBelong'
  <2>1. \A k \in Handlers : MadeAccount(orgCall[k]) => orgCall[k].user \in Users
    BY DEF OrgIInv, AccountsMade
  <2> QED
    BY <2>1 DEF OrgIInv, InvitesUsed, MadeAccount, AcceptedBelong
<1> QED
  BY <1>1, <1>2, <1>3, <1>4, <1>5 DEF OrgIInv

LEMMA CreateInviteStays ==
  ASSUME OrgIInv, NEW u \in Users, CreateInvite(u)
  PROVE  OrgIInv'
<1>1. /\ orgs = 1 /\ invite' = [invite EXCEPT ![u] = "open"] /\ accounts' = accounts
      /\ orgs' = orgs /\ members' = members /\ admins' = admins /\ domain' = domain
      /\ orgCall' = orgCall /\ orgHistory' = orgHistory
  BY DEF CreateInvite
<1>2. invite \in [Users -> Invites] /\ "open" \in Invites /\ domain \in BOOLEAN
  BY OrgTypes DEF Invites
<1> QED
  BY <1>1, <1>2, SettingsKept

LEMMA InviteExpiresStays ==
  ASSUME OrgIInv, NEW u \in Users, InviteExpires(u)
  PROVE  OrgIInv'
<1>1. /\ orgs = 1 /\ invite' = [invite EXCEPT ![u] = "expired"] /\ accounts' = accounts
      /\ orgs' = orgs /\ members' = members /\ admins' = admins /\ domain' = domain
      /\ orgCall' = orgCall /\ orgHistory' = orgHistory
  BY DEF InviteExpires
<1>2. invite \in [Users -> Invites] /\ "expired" \in Invites /\ domain \in BOOLEAN
  BY OrgTypes DEF Invites
<1> QED
  BY <1>1, <1>2, SettingsKept

LEMMA SwitchDomainStays ==
  ASSUME OrgIInv, SwitchDomain
  PROVE  OrgIInv'
  BY OrgTypes, SettingsKept DEF SwitchDomain

LEMMA MarkAcceptedStays ==
  ASSUME OrgIInv, NEW h \in Handlers, MarkAccepted(h)
  PROVE  OrgIInv'
<1> USE OrgTypes
<1> DEFINE c == orgCall[h]
           u == c.user
<1>1. /\ c.pc = "mark" /\ invite' = [invite EXCEPT ![u] = "accepted"]
      /\ orgCall' = [orgCall EXCEPT ![h] = NoOrgCall]
      /\ accounts' = accounts /\ orgs' = orgs /\ members' = members /\ admins' = admins
      /\ domain' = domain /\ orgHistory' = orgHistory
  BY DEF MarkAccepted, OrgAt, MarkInvite, OrgDone
<1>2. u \in Users /\ SignedIn(c) /\ orgs > 0
  BY <1>1, OrgHere DEF InPlace, SignedIn, InOrg, Joining
<1>3. /\ u \in accounts /\ members[<<u, 1>>] > 0
      /\ \A k \in Handlers : MadeAccount(orgCall[k]) => k = h \/ orgCall[k].user # u
  BY <1>1, <1>2 DEF OrgIInv, AccountsMade, InvitesUsed
<1>4. /\ orgCall' \in [Handlers -> OrgCallType] /\ orgCall'[h] = NoOrgCall
      /\ \A k \in Handlers \ {h} : orgCall'[k] = orgCall[k]
  BY <1>1, NoOrgCallIs
<1>5. /\ invite' \in [Users -> Invites]
      /\ \A v \in Users : v # u => invite'[v] = invite[v]
  BY <1>1 DEF Invites
<1>6. /\ ~MadeAccount(NoOrgCall) /\ ~SignedIn(NoOrgCall) /\ NoOrgCall.op \notin Founders
      /\ NoOrgCall.op = "idle" /\ NoOrgCall.pc = "idle"
  BY NoOrgCallIs DEF Founders
<1> HIDE DEF u
<1>7. OrganizationsTypeOK'
  BY <1>1, <1>4, <1>5, OrgTypesKept
<1>8. OrgSteps'
  BY <1>1, <1>4, NoOrgCallIs DEF OrgIInv, OrgSteps, InOrg, InPlace
<1>9. OrgThere' /\ SingleTenancy' /\ OneMembership'
  BY <1>1, <1>2, <1>5 DEF OrgIInv, OrgThere, SingleTenancy, OneMembership
<1>10. OneFounds'
  <2>1. OneFounds
    BY DEF OrgIInv
  <2> QED
    BY <1>1, <1>4, <1>6, <2>1 DEF OneFounds
<1>11. AccountsMade'
  <2>1. AccountsMade
    BY DEF OrgIInv
  <2>2. \A k \in Handlers : MadeAccount(orgCall'[k]) \/ SignedIn(orgCall'[k])
                              => orgCall'[k] = orgCall[k]
    BY <1>4, <1>6
  <2> QED
    BY <1>1, <2>1, <2>2 DEF AccountsMade, MadeAccount, SignedIn
<1>12. AdminsSignIn'
  <2>1. ASSUME NEW k \in Handlers, NewAccount(orgCall[k])'
        PROVE  NewAccount(orgCall[k]) /\ orgCall'[k].user = orgCall[k].user
    BY <1>1, <1>4, <1>6, <2>1 DEF NewAccount
  <2> QED
    BY <1>1, <2>1 DEF OrgIInv, AdminsSignIn
<1>13. AdminComes'
  BY <1>1, <1>4 DEF OrgIInv, AdminComes
<1>14. InvitesUsed' /\ AcceptedBelong'
  <2>1. \A k \in Handlers : MadeAccount(orgCall'[k])
           => /\ MadeAccount(orgCall[k]) /\ orgCall'[k].user = orgCall[k].user
              /\ orgCall[k].user # u /\ orgCall[k].user \in Users
    <3>1. \A k \in Handlers : MadeAccount(orgCall[k]) => orgCall[k].user \in accounts
      BY DEF OrgIInv, AccountsMade
    <3> QED
      BY <1>3, <1>4, <1>6, <3>1
  <2>2. \A k \in Handlers : orgCall'[k].pc = "mark" => orgCall'[k] = orgCall[k]
    BY <1>4, <1>6
  <2> QED
    BY <1>1, <1>3, <1>5, <2>1, <2>2 DEF OrgIInv, InvitesUsed, AcceptedBelong, MadeAccount
<1>15. ServedInTurn'
  <2>1. ServedInTurn
    BY DEF OrgIInv
  <2>2. \A k \in Handlers : orgCall'[k].op # "idle" \/ orgCall'[k].pc # "idle"
                              => orgCall'[k] = orgCall[k]
    BY <1>4, <1>6
  <2> QED
    BY <1>1, <2>1, <2>2 DEF ServedInTurn
<1>16. RoomForAll'
  <2>1. ASSUME NEW m \in Users \X Orgs PROVE Inserting(m)' \subseteq Inserting(m)
    <3>1. Inserting(m)' = {k \in Handlers : Inserts(orgCall'[k], m)}
      BY DEF Inserting, Inserts
    <3>2. ~Inserts(NoOrgCall, m)
      BY <1>6 DEF Inserts
    <3> QED
      BY <1>4, <3>1, <3>2 DEF Inserting
  <2>2. members' = [m \in Users \X Orgs |-> members'[m]]
    BY <1>1
  <2> QED
    BY <1>1, <2>1, <2>2, RoomKept
<1> QED
  BY <1>7, <1>8, <1>9, <1>10, <1>11, <1>12, <1>13, <1>14, <1>15, <1>16 DEF OrgIInv

\* The account goes, and with it its rows and what is still done for it.
LEMMA DropAccountStays ==
  ASSUME OrgIInv, NEW h \in Handlers, DropAccount(h)
  PROVE  OrgIInv'
<1> USE OrgTypes
<1> DEFINE c == orgCall[h]
           u == c.user
           ended == {k \in Handlers : orgCall[k].user = u /\ orgCall[k].op = "join"} \cup {h}
<1>1. /\ c.pc = "dropAccount" /\ accounts' = accounts \ {u}
      /\ members' = [m \in DOMAIN members |-> IF m[1] = u THEN 0 ELSE members[m]]
      /\ admins' = {m \in admins : m[1] # u}
      /\ orgCall' = [k \in Handlers |-> IF k \in ended THEN NoOrgCall ELSE orgCall[k]]
      /\ orgs' = orgs /\ invite' = invite /\ domain' = domain /\ orgHistory' = orgHistory
  BY Zenon DEF DropAccount, OrgAt
<1>2. c.op = "signup" /\ u \in Users /\ MadeAccount(c) /\ u \in accounts
  BY <1>1, OrgHere DEF MadeAccount, OrgIInv, AccountsMade
<1>3. /\ h \in ended
      /\ \A k \in ended : orgCall'[k] = NoOrgCall
      /\ \A k \in Handlers \ ended : orgCall'[k] = orgCall[k]
      /\ \A k \in ended : k = h \/ orgCall[k].op = "join"
      /\ \A k \in Handlers \ ended : orgCall[k].user # u \/ orgCall[k].op # "join"
      /\ orgCall' \in [Handlers -> OrgCallType]
  BY <1>1, NoOrgCallIs
<1>4. \A k \in Handlers \ ended : MadeAccount(orgCall[k]) \/ SignedIn(orgCall[k])
                                    => orgCall[k].user # u
  BY <1>2, <1>3 DEF OrgIInv, AccountsMade
<1>5. /\ \A m \in Users \X Orgs : m[1] = u => members'[m] = 0
      /\ \A m \in Users \X Orgs : m[1] # u => members'[m] = members[m]
      /\ members' = [m \in Users \X Orgs |-> members'[m]]
  BY <1>1
<1>6. /\ ~MadeAccount(NoOrgCall) /\ ~SignedIn(NoOrgCall) /\ NoOrgCall.op \notin Founders
      /\ NoOrgCall.op = "idle" /\ NoOrgCall.pc = "idle"
  BY NoOrgCallIs DEF Founders
<1>7. \A k \in Handlers : orgCall'[k].op # "idle" \/ orgCall'[k].pc # "idle"
                            => k \notin ended /\ orgCall'[k] = orgCall[k]
  BY <1>3, <1>6
<1>8. \A k \in Handlers : MadeAccount(orgCall'[k]) \/ SignedIn(orgCall'[k])
         => k \notin ended /\ orgCall'[k] = orgCall[k] /\ orgCall[k].user # u
  BY <1>3, <1>4, <1>6
<1> HIDE DEF ended, u
<1>9. RoomForAll' /\ members' \in [Users \X Orgs -> 0..Cardinality(Handlers)]
  <2>1. ASSUME NEW m \in Users \X Orgs
        PROVE  members'[m] = 0 \/ (members'[m] = members[m] /\ Inserting(m)' \subseteq Inserting(m))
    <3>1. Inserting(m)' = {k \in Handlers : Inserts(orgCall'[k], m)}
      BY DEF Inserting, Inserts
    <3>2. ~Inserts(NoOrgCall, m)
      BY <1>6 DEF Inserts
    <3>3. \A k \in Handlers : orgCall'[k] = NoOrgCall \/ orgCall'[k] = orgCall[k]
      BY <1>3
    <3> QED
      BY <1>5, <3>1, <3>2, <3>3 DEF Inserting
  <2>2. DOMAIN members' = Users \X Orgs
    BY <1>5
  <2> QED
    BY <1>5, <2>1, <2>2, RoomKept
<1>10. OrganizationsTypeOK'
  <2>1. \A m \in Users \X Orgs : members'[m] > 0 => m[2] <= orgs
    BY <1>5
  <2>2. accounts' \subseteq Users /\ admins' \subseteq Users \X Orgs
    BY <1>1
  <2> QED
    BY <1>1, <1>3, <1>9, <2>1, <2>2, OrgTypesKept
<1>11. OrgSteps'
  <2>1. ASSUME NEW k \in Handlers PROVE InPlace(orgCall'[k]) /\ InOrg(orgCall[k])'
    <3>1. orgCall'[k] = NoOrgCall \/ orgCall'[k] = orgCall[k]
      BY <1>3
    <3>2. InPlace(orgCall[k]) /\ InOrg(orgCall[k])
      BY OrgHere
    <3> QED
      BY <1>1, <3>1, <3>2, NoOrgCallIs DEF InOrg
  <2> QED
    BY <2>1 DEF OrgSteps, InPlace
<1>12. OrgThere' /\ SingleTenancy'
  BY <1>1 DEF OrgIInv, OrgThere, SingleTenancy
<1>13. OneFounds'
  <2>1. OneFounds
    BY DEF OrgIInv
  <2>2. \A k \in Handlers : orgCall'[k].op \in Founders => orgCall'[k] = orgCall[k]
    BY <1>3, <1>6
  <2> QED
    BY <1>1, <1>7, <2>1, <2>2 DEF OneFounds
<1>14. AccountsMade'
  <2>1. AccountsMade
    BY DEF OrgIInv
  <2> QED
    BY <1>1, <1>8, <2>1 DEF AccountsMade, MadeAccount, SignedIn
<1>15. AdminsSignIn'
  <2>1. ASSUME NEW k \in Handlers, NewAccount(orgCall[k])'
        PROVE  NewAccount(orgCall[k]) /\ orgCall'[k].user = orgCall[k].user
    <3>1. MadeAccount(orgCall'[k])
      BY <2>1 DEF NewAccount, MadeAccount
    <3> QED
      BY <1>1, <1>8, <2>1, <3>1 DEF NewAccount
  <2> QED
    BY <1>1, <2>1 DEF OrgIInv, AdminsSignIn
<1>16. AdminComes'
  <2>1. ASSUME ~orgHistory.failed
        PROVE  <<u, 1>> \notin admins
    <3>1. NewAccount(c)
      BY <1>1, <1>2, <2>1 DEF NewAccount
    <3> QED
      BY <3>1 DEF OrgIInv, AdminsSignIn, u
  <2>2. \A k \in Handlers : orgCall[k].pc = "founder" => k \notin ended
    <3>1. ASSUME NEW k \in Handlers, orgCall[k].pc = "founder" PROVE orgCall[k].op # "join" /\ k # h
      BY <1>1, <3>1, OrgHere DEF Founders
    <3> QED
      BY <1>3, <3>1
  <2> QED
    BY <1>1, <1>3, <2>1, <2>2 DEF OrgIInv, AdminComes
<1>17. invite[u] # "accepted"
  BY <1>2 DEF OrgIInv, InvitesUsed, u
<1>18. InvitesUsed'
  <2>1. InvitesUsed
    BY DEF OrgIInv
  <2>2. ASSUME NEW k \in Handlers, orgCall'[k].pc = "mark"
        PROVE  members'[<<orgCall'[k].user, 1>>] > 0
    <3>1. orgCall[k].pc = "mark" /\ orgCall'[k] = orgCall[k] /\ k \notin ended
      BY <1>7, <2>2
    <3>2. SignedIn(orgCall[k])
      BY <3>1, OrgHere DEF InPlace, SignedIn
    <3>3. orgCall[k].user # u
      BY <1>4, <3>1, <3>2
    <3>4. <<orgCall[k].user, 1>> \in Users \X Orgs
      BY <3>1, OrgHere
    <3> QED
      BY <1>5, <2>1, <3>1, <3>3, <3>4 DEF InvitesUsed
  <2>3. \A v \in Users \ accounts' : invite'[v] # "accepted"
    BY <1>1, <1>17, <2>1 DEF InvitesUsed
  <2>4. \A k \in Handlers : MadeAccount(orgCall'[k]) => invite'[orgCall'[k].user] # "accepted"
    BY <1>1, <1>8, <2>1 DEF InvitesUsed
  <2> QED
    BY <2>2, <2>3, <2>4 DEF InvitesUsed, MadeAccount
<1>19. AcceptedBelong'
  <2>1. ASSUME NEW v \in accounts \ {u}, invite[v] = "accepted"
        PROVE  members'[<<v, 1>>] > 0
    <3>1. <<v, 1>> \in Users \X Orgs /\ members[<<v, 1>>] > 0
      BY <2>1 DEF OrgIInv, AcceptedBelong
    <3> QED
      BY <1>5, <3>1
  <2> QED
    BY <1>1, <2>1 DEF AcceptedBelong
<1>20. OneMembership'
  <2>1. ASSUME NEW v \in Users \ orgHistory.joins, NEW s \in Orgs
        PROVE  members'[<<v, s>>] <= 1
    <3>1. <<v, s>> \in Users \X Orgs /\ members[<<v, s>>] <= 1
      BY DEF OrgIInv, OneMembership
    <3> QED
      BY <1>5, <3>1
  <2> QED
    BY <1>1, <2>1 DEF OneMembership
<1>21. ServedInTurn'
  <2>1. ServedInTurn
    BY DEF OrgIInv
  <2>2. \A k, l \in Handlers :
          /\ orgCall'[k].op # "idle" /\ orgCall'[l].op # "idle"
          /\ orgCall'[k].user = orgCall'[l].user /\ orgCall'[k].user \notin orgHistory'.joins
          => k = l
    BY <1>1, <1>7, <2>1 DEF ServedInTurn
  <2>3. ASSUME NEW k \in Handlers, orgCall'[k].user \notin orgHistory'.joins
        PROVE /\ orgCall'[k].pc = "insert" => members'[<<orgCall'[k].user, 1>>] = 0
              /\ orgCall'[k].pc = "founder" => members'[<<orgCall'[k].user, orgCall'[k].org>>] = 0
    <3>1. CASE orgCall'[k].pc \notin {"insert", "founder"}
      BY <3>1
    <3>2. CASE orgCall'[k].pc \in {"insert", "founder"}
      <4>1. orgCall'[k] = orgCall[k] /\ orgCall[k].pc \in {"insert", "founder"}
        BY <1>7, <3>2
      <4>2. /\ <<orgCall[k].user, 1>> \in Users \X Orgs
            /\ <<orgCall[k].user, orgCall[k].org>> \in Users \X Orgs
        BY <4>1, OrgHere DEF OrgCallType
      <4> QED
        BY <1>1, <1>5, <2>1, <2>3, <4>1, <4>2 DEF ServedInTurn
    <3> QED
      BY <3>1, <3>2
  <2> QED
    BY <2>2, <2>3 DEF ServedInTurn
<1> QED
  BY <1>9, <1>10, <1>11, <1>12, <1>13, <1>14, <1>15, <1>16, <1>18, <1>19, <1>20, <1>21 DEF OrgIInv

LEMMA OrgInvStart == OrganizationsInit => OrgIInv
<1> SUFFICES ASSUME OrganizationsInit PROVE OrgIInv
  OBVIOUS
<1>1. Cardinality(Handlers) \in Nat
  BY HandlersAssumption, FS_CardinalityType
<1>2. /\ \A h \in Handlers : orgCall[h] = NoOrgCall
      /\ \A u \in Users : invite[u] = "none"
      /\ \A m \in Users \X Orgs : members[m] = 0
      /\ accounts \subseteq Users /\ orgs = 0 /\ admins = {} /\ domain = FALSE
      /\ orgHistory = [joins |-> {}, founders |-> FALSE, failed |-> FALSE, faults |-> 0]
  BY DEF OrganizationsInit
<1>3. OrganizationsTypeOK
  <2>1. orgCall \in [Handlers -> OrgCallType]
    BY NoOrgCallIs DEF OrganizationsInit
  <2>2. orgHistory \in OrgHistoryType
    BY <1>2, OrganizationsAssumption DEF OrgHistoryType
  <2>3. members \in [Users \X Orgs -> 0..Cardinality(Handlers)]
    BY <1>1 DEF OrganizationsInit
  <2>4. invite \in [Users -> Invites]
    BY DEF OrganizationsInit, Invites
  <2>5. admins \subseteq Users \X Orgs /\ domain \in BOOLEAN /\ orgs \in Orgs \cup {0}
    BY <1>2
  <2>6. \A m \in Users \X Orgs : members[m] > 0 => m[2] <= orgs
    BY <1>2
  <2> HIDE DEF OrganizationsInit
  <2> QED
    BY <1>2, <2>1, <2>2, <2>3, <2>4, <2>5, <2>6 DEF OrganizationsTypeOK, OrgCallType, OrgHistoryType
<1>4. OrgSteps
  BY <1>2, NoOrgCallIs DEF OrgSteps
<1>5. /\ NoOrgCall.pc = "idle" /\ NoOrgCall.op = "idle" /\ NoOrgCall.op \notin Founders
      /\ ~MadeAccount(NoOrgCall) /\ ~SignedIn(NoOrgCall) /\ ~NewAccount(NoOrgCall)
  BY NoOrgCallIs DEF Founders, NewAccount
<1>6. OrgThere /\ OneFounds /\ SingleTenancy /\ AcceptedBelong /\ OneMembership
  BY <1>2, <1>5 DEF OrgThere, OneFounds, SingleTenancy, AcceptedBelong, OneMembership
<1>7. AccountsMade /\ AdminsSignIn /\ AdminComes /\ InvitesUsed /\ ServedInTurn
  BY <1>2, <1>5 DEF AccountsMade, AdminsSignIn, AdminComes, InvitesUsed, ServedInTurn
<1>8. RoomForAll
  <2>1. ASSUME NEW m \in Users \X Orgs PROVE Inserting(m) = {}
    BY <1>2, <1>5 DEF Inserting, Inserts
  <2> QED
    BY <1>1, <1>2, <2>1, FS_EmptySet DEF RoomForAll
<1> QED
  BY <1>3, <1>4, <1>6, <1>7, <1>8 DEF OrgIInv

LEMMA OrgStays == OrgIInv /\ [OrganizationsNext]_orgVars => OrgIInv'
<1> SUFFICES ASSUME OrgIInv, [OrganizationsNext]_orgVars PROVE OrgIInv'
  OBVIOUS
<1>1. CASE UNCHANGED orgVars
  <2>1. /\ accounts' = accounts /\ orgs' = orgs /\ members' = members /\ admins' = admins
        /\ invite' = invite /\ domain' = domain /\ orgCall' = orgCall /\ orgHistory' = orgHistory
    BY <1>1 DEF orgVars, orgTables
  <2>2. OrganizationsTypeOK' /\ SingleTenancy' /\ AcceptedBelong' /\ OneMembership'
    BY <2>1 DEF OrgIInv, OrganizationsTypeOK, SingleTenancy, AcceptedBelong, OneMembership
  <2>3. OrgSteps' /\ OrgThere' /\ OneFounds'
    BY <2>1 DEF OrgIInv, OrgSteps, InPlace, InOrg, OrgThere, OneFounds
  <2>4. AccountsMade' /\ InvitesUsed' /\ AdminComes'
    BY <2>1 DEF OrgIInv, AccountsMade, MadeAccount, SignedIn, InvitesUsed, AdminComes
  <2>5. AdminsSignIn' /\ ServedInTurn' /\ RoomForAll'
    BY <2>1 DEF OrgIInv, AdminsSignIn, NewAccount, ServedInTurn, RoomForAll, Inserting, Inserts
  <2> QED
    BY <2>2, <2>3, <2>4, <2>5 DEF OrgIInv
<1>2. ASSUME NEW h \in Handlers, HandleOrg(h)
      PROVE  OrgIInv'
  BY <1>2, StartSignupStays, StartSocialStays, StartAcceptStays, StartScimStays,
     StartCompleteStays, CreateAccountStays, RecountStays, InsertTenantStays,
     InsertFounderStays, ReloadForTenantStays, DropAccountStays, ReadDomainStays,
     FindPendingStays, SelectMembershipStays, InsertMembershipStays, MarkAcceptedStays,
     DecideStays, FailOrgCallStays
     DEF HandleOrg
<1>3. ASSUME NEW u \in Users, CreateInvite(u) \/ InviteExpires(u)
      PROVE  OrgIInv'
  BY <1>3, CreateInviteStays, InviteExpiresStays
<1> QED
  BY <1>1, <1>2, <1>3, SwitchDomainStays DEF OrganizationsNext, SecondOrganization

\* A single organisation stays single, a person belongs to it once, it has an
\* administrator, and an invite that is used up made its holder a member.
THEOREM OrganizationCorrect == OrganizationsSpec => []OrganizationRules
<1>1. OrgIInv => OrganizationRules
  <2> SUFFICES ASSUME OrgIInv PROVE OrganizationRules
    OBVIOUS
  <2>1. AdminExists
    <3> SUFFICES ASSUME ~Founding, ~orgHistory.failed, ~orgHistory.founders, NEW t \in 1..orgs
                 PROVE  \E u \in accounts : <<u, t>> \in admins
      BY DEF AdminExists
    <3>1. orgs = 1 /\ t = 1
      BY OrgTypes DEF OrgIInv, SingleTenancy
    <3> QED
      BY <3>1 DEF OrgIInv, AdminComes, Founding
  <2> QED
    BY <2>1 DEF OrgIInv, OrganizationRules
<1> QED
  BY <1>1, OrgInvStart, OrgStays, PTL DEF OrganizationsSpec

-----------------------------------------------------------------------------
(***************************************************************************)
(* AccessRequests.  A handler that decides a request found it pending;     *)
(* those that decide one together have read it together; and what a        *)
(* request has granted, a handler that approves it granted.                *)
(***************************************************************************)

DecideOps == {"approve", "deny", "cancel"}

AccessHandler ==
    [op : Ops, pc : PCs, req : Requests \cup {NoRequest}, tools : SUBSET Tools,
     todo : SUBSET Tools, at : SUBSET Tools, row : {"none", "current", "replaced"},
     was : Types, role : BOOLEAN, on : BOOLEAN]

AccessRow == [status : {"none", "pending"} \cup Decisions, tools : SUBSET Tools]

AccessHistory ==
    [granted : SUBSET Tools, missed : SUBSET Tools, raced : BOOLEAN,
     overlapped : BOOLEAN, broken : BOOLEAN]

AccessTypes ==
    /\ request \in [Requests -> AccessRow]
    /\ override \in [Tools -> Types]
    /\ roleGrant \subseteq Tools /\ gated \subseteq Tools /\ active \subseteq Tools
    /\ serverActive \in BOOLEAN /\ serverGated \in BOOLEAN
    /\ doing \in [Handlers -> AccessHandler]
    /\ history \in [Requests -> AccessHistory]
    /\ upsets \in 0..MaxUpsets

\* A handler x among these requests, overrides and histories.
HandlerOK(x, requests, overrides, histories) ==
    /\ x.op \in DecideOps => x.req \in Requests
    /\ x.op \notin DecideOps => x.req = NoRequest
    /\ x.op \in DecideOps => requests[x.req].status # "none"
    /\ x.op \in DecideOps /\ requests[x.req].status \in Decisions => histories[x.req].overlapped
    /\ x.row = "current" => \A t \in x.at : overrides[t] # "none"
    /\ x.op = "create" /\ x.pc = "insert" =>
          \A s \in Requests : requests[s].status = "pending" => histories[s].raced
    /\ x.op = "approve" =>
          x.tools \ x.todo \subseteq histories[x.req].granted \cup histories[x.req].missed
    /\ x.op = "approve" /\ x.pc = "finish" => x.todo = {}

HandlersOK == \A k \in Handlers : HandlerOK(doing[k], request, override, history)

\* Who decides a request with another is seen to.
DecideTogether ==
    \A k, g \in Handlers :
        k # g /\ doing[k].op \in DecideOps /\ doing[g].op \in DecideOps
              /\ doing[k].req = doing[g].req
        => history[doing[k].req].overlapped

GrantsExplained ==
    \A r \in Requests :
        \/ history[r].granted = {}
        \/ history[r].overlapped
        \/ history[r].broken
        \/ \E k \in Handlers : doing[k].op = "approve" /\ doing[k].req = r

AccessIInv ==
    /\ AccessTypes
    /\ HandlersOK
    /\ DecideTogether
    /\ GrantsExplained
    /\ OnePendingUnlessRaced

-----------------------------------------------------------------------------
LEMMA DecisionOps ==
    /\ DOMAIN DecisionOf = DecideOps
    /\ \A op \in DecideOps :
          /\ DecisionOf[op] \in Decisions
          /\ DecisionOf[op] = "approved" <=> op = "approve"
BY DEF DecisionOf, DecideOps, Decisions

LEMMA IdleHandler ==
    /\ IdleAccess \in AccessHandler /\ IdleAccess.op = "idle" /\ IdleAccess.pc = "idle"
    /\ IdleAccess.req = NoRequest /\ IdleAccess.row = "none"
    /\ IdleAccess.tools = {} /\ IdleAccess.todo = {} /\ IdleAccess.at = {}
BY DEF IdleAccess, AccessHandler, Ops, PCs, Types

LEMMA IdleOK ==
    ASSUME NEW R, NEW O, NEW H
    PROVE  HandlerOK(IdleAccess, R, O, H)
BY IdleHandler DEF HandlerOK, DecideOps

LEMMA HandlerFields ==
    ASSUME NEW x \in AccessHandler
    PROVE  /\ x.op \in Ops /\ x.pc \in PCs /\ x.req \in Requests \cup {NoRequest}
           /\ x.tools \subseteq Tools /\ x.todo \subseteq Tools /\ x.at \subseteq Tools
           /\ x.row \in {"none", "current", "replaced"} /\ x.was \in Types
           /\ x.role \in BOOLEAN /\ x.on \in BOOLEAN
BY DEF AccessHandler

\* A handler moves on, and nothing else does: it grants nothing, and decides
\* what it decided.
LEMMA HandlerMoves ==
    ASSUME AccessIInv, NEW k \in Handlers, NEW x \in AccessHandler,
           doing' = [doing EXCEPT ![k] = x],
           UNCHANGED <<request, override, roleGrant, gates, history>>,
           upsets' \in 0..MaxUpsets,
           HandlerOK(x, request, override, history),
           x.op \in DecideOps => doing[k].op \in DecideOps /\ x.req = doing[k].req,
           doing[k].op = "approve" => x.op = "approve" /\ x.req = doing[k].req
    PROVE  AccessIInv'
<1>1. /\ AccessTypes /\ HandlersOK /\ DecideTogether /\ GrantsExplained
      /\ OnePendingUnlessRaced
  BY DEF AccessIInv
<1>2. /\ doing \in [Handlers -> AccessHandler] /\ doing' \in [Handlers -> AccessHandler]
      /\ doing'[k] = x /\ \A g \in Handlers \ {k} : doing'[g] = doing[g]
  BY <1>1 DEF AccessTypes
<1>3. AccessTypes'
  BY <1>1, <1>2 DEF AccessTypes, gates
<1>4. HandlersOK'
  BY <1>1, <1>2 DEF HandlersOK
<1>5. DecideTogether'
  BY <1>1, <1>2 DEF DecideTogether
<1>6. GrantsExplained'
  BY <1>1, <1>2 DEF GrantsExplained
<1>7. OnePendingUnlessRaced'
  BY <1>1 DEF OnePendingUnlessRaced, Pending
<1> QED
  BY <1>3, <1>4, <1>5, <1>6, <1>7 DEF AccessIInv

LEMMA AccessFacts ==
    ASSUME AccessIInv, NEW k \in Handlers
    PROVE  /\ doing \in [Handlers -> AccessHandler] /\ doing[k] \in AccessHandler
           /\ HandlerOK(doing[k], request, override, history)
           /\ override \in [Tools -> Types] /\ request \in [Requests -> AccessRow]
           /\ history \in [Requests -> AccessHistory]
           /\ upsets' = upsets => upsets' \in 0..MaxUpsets
BY DEF AccessIInv, AccessTypes, HandlersOK

LEMMA StartCreateStays ==
    ASSUME AccessIInv, NEW k \in Handlers, StartCreate(k)
    PROVE  AccessIInv'
<1> DEFINE x == [IdleAccess EXCEPT !.op = "create", !.pc = "pending"]
<1>1. /\ doing[k] = IdleAccess /\ doing' = [doing EXCEPT ![k] = x]
      /\ UNCHANGED <<request, override, roleGrant, gates, upsets, history>>
  BY DEF StartCreate, StartAccess, ReadOnly
<1>2. /\ x \in AccessHandler /\ x.op = "create" /\ x.pc = "pending"
      /\ x.req = NoRequest /\ x.row = "none"
  BY IdleHandler DEF AccessHandler, Ops, PCs
<1>3. HandlerOK(x, request, override, history)
  BY <1>2 DEF HandlerOK, DecideOps
<1> HIDE DEF x
<1> QED
  BY <1>1, <1>2, <1>3, IdleHandler, HandlerMoves, AccessFacts DEF DecideOps

LEMMA CheckPendingStays ==
    ASSUME AccessIInv, NEW k \in Handlers, CheckPending(k)
    PROVE  AccessIInv'
<1> DEFINE x == [doing[k] EXCEPT !.pc = "insert"]
<1>1. /\ doing[k].op = "create"
      /\ UNCHANGED <<request, override, roleGrant, gates, upsets, history>>
  BY DEF CheckPending, AccessAt, ReadOnly
<1>2. doing[k] \in AccessHandler /\ HandlerOK(doing[k], request, override, history)
  BY AccessFacts
<1>3. CASE Pending = {} /\ doing' = [doing EXCEPT ![k].pc = "insert"]
  <2>1. doing' = [doing EXCEPT ![k] = x]
    BY <1>3, AccessFacts
  <2>2. /\ x \in AccessHandler /\ x.op = "create" /\ x.req = doing[k].req
        /\ x.row = doing[k].row /\ x.at = doing[k].at
    BY <1>1, <1>2 DEF AccessHandler, PCs
  <2>3. \A s \in Requests : request[s].status # "pending"
    BY <1>3 DEF Pending
  <2> HIDE DEF x
  <2>4. HandlerOK(x, request, override, history)
    BY <1>1, <1>2, <2>2, <2>3 DEF HandlerOK, DecideOps
  <2> QED
    BY <1>1, <2>1, <2>2, <2>4, HandlerMoves, AccessFacts DEF DecideOps
<1>4. CASE doing' = [doing EXCEPT ![k] = IdleAccess]
  BY <1>1, <1>4, IdleHandler, IdleOK, HandlerMoves, AccessFacts DEF DecideOps
<1> QED
  BY <1>3, <1>4 DEF CheckPending, StepAccess, DoneAccess

LEMMA StartAttachStays ==
    ASSUME AccessIInv, NEW k \in Handlers, StartAttach(k)
    PROVE  AccessIInv'
<1> DEFINE x == [IdleAccess EXCEPT !.op = "attach", !.pc = "tools"]
<1>1. /\ doing[k] = IdleAccess /\ doing' = [doing EXCEPT ![k] = x]
      /\ UNCHANGED <<request, override, roleGrant, gates, upsets, history>>
  BY DEF StartAttach, StartAccess, ReadOnly
<1>2. /\ x \in AccessHandler /\ x.op = "attach" /\ x.pc = "tools"
      /\ x.req = NoRequest /\ x.row = "none"
  BY IdleHandler DEF AccessHandler, Ops, PCs
<1>3. HandlerOK(x, request, override, history)
  BY <1>2 DEF HandlerOK, DecideOps
<1> HIDE DEF x
<1> QED
  BY <1>1, <1>2, <1>3, IdleHandler, HandlerMoves, AccessFacts DEF DecideOps

LEMMA StartToggleStays ==
    ASSUME AccessIInv, NEW k \in Handlers, NEW t \in Tools, NEW on \in BOOLEAN,
           StartToggle(k, t, on)
    PROVE  AccessIInv'
<1> DEFINE x == [IdleAccess EXCEPT !.op = "toggle", !.pc = "existing", !.at = {t},
                                   !.role = t \in roleGrant, !.on = on]
<1>1. /\ doing[k] = IdleAccess /\ doing' = [doing EXCEPT ![k] = x]
      /\ UNCHANGED <<request, override, roleGrant, gates, upsets, history>>
  BY DEF StartToggle, StartAccess, ReadOnly
<1>2. /\ x \in AccessHandler /\ x.op = "toggle" /\ x.pc = "existing"
      /\ x.req = NoRequest /\ x.row = "none"
  <2>1. (t \in roleGrant) \in BOOLEAN
    OBVIOUS
  <2> QED
    BY <2>1, IdleHandler DEF AccessHandler, Ops, PCs
<1>3. HandlerOK(x, request, override, history)
  BY <1>2 DEF HandlerOK, DecideOps
<1> HIDE DEF x
<1> QED
  BY <1>1, <1>2, <1>3, IdleHandler, HandlerMoves, AccessFacts DEF DecideOps

LEMMA ChooseToolsStays ==
    ASSUME AccessIInv, NEW k \in Handlers, NEW set \in SUBSET Tools, ChooseTools(k, set)
    PROVE  AccessIInv'
<1> DEFINE p == IF set = {} THEN "finish" ELSE "select"
           x == [doing[k] EXCEPT !.pc = p, !.tools = set, !.todo = set]
<1>1. /\ doing[k].op \in {"approve", "attach"}
      /\ UNCHANGED <<request, override, roleGrant, gates, upsets, history>>
      /\ doing' = [doing EXCEPT ![k] = x]
  BY AccessFacts DEF ChooseTools, AccessAt, ReadOnly
<1>2. doing[k] \in AccessHandler /\ HandlerOK(doing[k], request, override, history)
  BY AccessFacts
<1>3. p \in {"finish", "select"} /\ (p = "finish" => set = {})
  OBVIOUS
<1> HIDE DEF p
<1>4. /\ x \in AccessHandler /\ x.op = doing[k].op /\ x.req = doing[k].req /\ x.pc = p
      /\ x.row = doing[k].row /\ x.at = doing[k].at /\ x.tools = set /\ x.todo = set
  BY <1>1, <1>2, <1>3 DEF AccessHandler, PCs
<1> HIDE DEF x
<1>5. HandlerOK(x, request, override, history)
  BY <1>1, <1>2, <1>3, <1>4 DEF HandlerOK, DecideOps
<1> QED
  BY <1>1, <1>4, <1>5, HandlerMoves, AccessFacts

LEMMA SelectOverrideStays ==
    ASSUME AccessIInv, NEW k \in Handlers, NEW t \in Tools, SelectOverride(k, t)
    PROVE  AccessIInv'
<1> DEFINE x == [doing[k] EXCEPT !.pc = "write", !.at = {t}, !.row = Found(t)]
<1>1. /\ doing[k].op \in {"approve", "attach"}
      /\ UNCHANGED <<request, override, roleGrant, gates, upsets, history>>
      /\ doing' = [doing EXCEPT ![k] = x]
  BY AccessFacts DEF SelectOverride, AccessAt, ReadOnly
<1>2. doing[k] \in AccessHandler /\ HandlerOK(doing[k], request, override, history)
  BY AccessFacts
<1>3. Found(t) \in {"none", "current"} /\ (Found(t) = "current" => override[t] # "none")
  BY DEF Found
<1>4. /\ x \in AccessHandler /\ x.op = doing[k].op /\ x.req = doing[k].req /\ x.pc = "write"
      /\ x.row = Found(t) /\ x.at = {t} /\ x.tools = doing[k].tools /\ x.todo = doing[k].todo
  BY <1>1, <1>2, <1>3 DEF AccessHandler, PCs
<1> HIDE DEF x
<1>5. HandlerOK(x, request, override, history)
  BY <1>1, <1>2, <1>3, <1>4 DEF HandlerOK, DecideOps
<1> QED
  BY <1>1, <1>4, <1>5, HandlerMoves, AccessFacts

LEMMA FinishAttachStays ==
    ASSUME AccessIInv, NEW k \in Handlers, FinishAttach(k)
    PROVE  AccessIInv'
<1>1. /\ doing[k].op = "attach" /\ doing' = [doing EXCEPT ![k] = IdleAccess]
      /\ UNCHANGED <<request, override, roleGrant, gates, upsets, history>>
  BY DEF FinishAttach, AccessAt, ReadOnly, DoneAccess
<1> QED
  BY <1>1, IdleHandler, IdleOK, HandlerMoves, AccessFacts DEF DecideOps

LEMMA SelectExistingStays ==
    ASSUME AccessIInv, NEW k \in Handlers, NEW t \in Tools, SelectExisting(k, t)
    PROVE  AccessIInv'
<1> DEFINE x == [doing[k] EXCEPT !.pc = "set", !.row = Found(t), !.was = override[t]]
<1>1. /\ doing[k].op = "toggle" /\ doing[k].at = {t}
      /\ UNCHANGED <<request, override, roleGrant, gates, upsets, history>>
  BY DEF SelectExisting, AccessAt, ReadOnly
<1>2. doing[k] \in AccessHandler /\ HandlerOK(doing[k], request, override, history)
  BY AccessFacts
<1>3. CASE doing' = [doing EXCEPT ![k].pc = "set", ![k].row = Found(t), ![k].was = override[t]]
  <2>1. doing' = [doing EXCEPT ![k] = x]
    BY <1>3, AccessFacts
  <2>2. /\ Found(t) \in {"none", "current"} /\ (Found(t) = "current" => override[t] # "none")
        /\ override[t] \in Types
    BY AccessFacts DEF Found
  <2>3. /\ x \in AccessHandler /\ x.op = "toggle" /\ x.req = doing[k].req
        /\ x.row = Found(t) /\ x.at = {t}
    BY <1>1, <1>2, <2>2 DEF AccessHandler, PCs
  <2> HIDE DEF x
  <2>4. HandlerOK(x, request, override, history)
    BY <1>1, <1>2, <2>2, <2>3 DEF HandlerOK, DecideOps
  <2> QED
    BY <1>1, <2>1, <2>3, <2>4, HandlerMoves, AccessFacts DEF DecideOps
<1>4. CASE doing' = [doing EXCEPT ![k] = IdleAccess]
  BY <1>1, <1>4, IdleHandler, IdleOK, HandlerMoves, AccessFacts DEF DecideOps
<1> QED
  BY <1>3, <1>4 DEF SelectExisting, DoneAccess

\* A request is inserted: whoever is about to insert another has missed it.
LEMMA InsertRequestStays ==
    ASSUME AccessIInv, NEW k \in Handlers, NEW r \in Requests, InsertRequest(k, r)
    PROVE  AccessIInv'
<1> DEFINE b == \E g \in Handlers \ {k} : AccessAt(g, {"create"}, "insert")
           n == [request[r] EXCEPT !.status = "pending"]
           m == [history[r] EXCEPT !.raced = b]
<1>1. /\ AccessTypes /\ HandlersOK /\ DecideTogether /\ GrantsExplained
      /\ OnePendingUnlessRaced
  BY DEF AccessIInv
<1>2. /\ doing[k].op = "create" /\ doing[k].pc = "insert"
      /\ request[r].status = "none"
      /\ UNCHANGED <<override, roleGrant, gates, upsets>>
      /\ doing' = [doing EXCEPT ![k] = IdleAccess]
      /\ request' = [request EXCEPT ![r] = n]
      /\ history' = [history EXCEPT ![r] = m]
  BY AccessFacts DEF InsertRequest, AccessAt, DoneAccess
<1>3. b \in BOOLEAN /\ \A g \in Handlers \ {k} : doing[g].op = "create" /\ doing[g].pc = "insert" => b
  BY DEF AccessAt
<1> HIDE DEF b
<1>4. /\ n \in AccessRow /\ n.status = "pending"
      /\ m \in AccessHistory /\ (m.raced <=> b)
      /\ m.granted = history[r].granted /\ m.missed = history[r].missed
      /\ m.overlapped = history[r].overlapped /\ m.broken = history[r].broken
  BY <1>3, AccessFacts DEF AccessRow, AccessHistory
<1> HIDE DEF n, m
<1>5. /\ doing' \in [Handlers -> AccessHandler] /\ doing'[k] = IdleAccess
      /\ \A g \in Handlers \ {k} : doing'[g] = doing[g]
      /\ request' \in [Requests -> AccessRow] /\ request'[r] = n
      /\ \A s \in Requests \ {r} : request'[s] = request[s]
      /\ history' \in [Requests -> AccessHistory] /\ history'[r] = m
      /\ \A s \in Requests \ {r} : history'[s] = history[s]
  BY <1>2, <1>4, AccessFacts, IdleHandler
<1>6. AccessTypes'
  BY <1>1, <1>2, <1>5 DEF AccessTypes, gates
<1>7. ASSUME NEW g \in Handlers
      PROVE  HandlerOK(doing[g], request, override, history)'
  <2>1. CASE g = k
    BY <2>1, <1>5, IdleOK
  <2>2. CASE g # k
    <3> DEFINE y == doing[g]
    <3>1. HandlerOK(y, request, override, history) /\ doing'[g] = y
      BY <2>2, <1>1, <1>5 DEF HandlersOK
    <3>2. y.op = "create" /\ y.pc = "insert" => b
      BY <2>2, <1>3
    <3> HIDE DEF y
    <3>3. HandlerOK(y, request', override', history')
      BY <3>1, <3>2, <1>2, <1>4, <1>5 DEF HandlerOK, Decisions
    <3> QED
      BY <3>1, <3>3
  <2> QED
    BY <2>1, <2>2
<1>8. DecideTogether'
  <2>1. \A g \in Handlers : doing'[g].op \in DecideOps => g # k
    BY <1>5, IdleHandler DEF DecideOps
  <2>2. \A s \in Requests : history'[s].overlapped = history[s].overlapped
    BY <1>4, <1>5
  <2>3. \A g \in Handlers : doing[g].op \in DecideOps => doing[g].req \in Requests
    BY <1>1 DEF HandlersOK, HandlerOK
  <2> QED
    BY <1>1, <1>5, <2>1, <2>2, <2>3 DEF DecideTogether
<1>9. GrantsExplained'
  <2>1. \A g \in Handlers : doing[g].op = "approve" => g # k
    BY <1>2
  <2>2. \A s \in Requests : /\ history'[s].overlapped = history[s].overlapped
                            /\ history'[s].granted = history[s].granted
                            /\ history'[s].broken = history[s].broken
    BY <1>4, <1>5
  <2> QED
    BY <1>1, <1>5, <2>1, <2>2 DEF GrantsExplained
<1>10. OnePendingUnlessRaced'
  <2>1. ASSUME NEW s \in Requests \ {r}, request[s].status = "pending"
        PROVE  history[s].raced
    BY <2>1, <1>1, <1>2 DEF HandlersOK, HandlerOK
  <2> QED
    BY <1>1, <1>5, <2>1 DEF OnePendingUnlessRaced, Pending
<1> QED
  BY <1>6, <1>7, <1>8, <1>9, <1>10 DEF AccessIInv, HandlersOK

\* A request is found pending by one more.
LEMMA ReadPendingStays ==
    ASSUME AccessIInv, NEW k \in Handlers, NEW op \in DecideOps, NEW r \in Requests,
           ReadPending(k, op, r)
    PROVE  AccessIInv'
<1> DEFINE p == IF op = "approve" THEN "tools" ELSE "finish"
           x == [IdleAccess EXCEPT !.op = op, !.req = r, !.pc = p]
           b == history[r].overlapped \/ Deciding(r) # {}
           m == [history[r] EXCEPT !.overlapped = b]
<1>1. /\ AccessTypes /\ HandlersOK /\ DecideTogether /\ GrantsExplained
      /\ OnePendingUnlessRaced
  BY DEF AccessIInv
<1>2. /\ request[r].status = "pending" /\ doing[k] = IdleAccess
      /\ UNCHANGED <<request, override, roleGrant, gates, upsets>>
      /\ doing' = [doing EXCEPT ![k] = x]
      /\ history' = [history EXCEPT ![r] = m]
  BY AccessFacts DEF ReadPending, StartAccess, ReadOnly
<1>3. /\ b \in BOOLEAN /\ (history[r].overlapped => b)
      /\ \A g \in Handlers : doing[g].op \in DecideOps /\ doing[g].req = r => b
  BY DecisionOps DEF Deciding
<1> HIDE DEF b
<1>4. p \in {"tools", "finish"} /\ (p = "finish" => op # "approve")
  OBVIOUS
<1> HIDE DEF p
<1>5. /\ x \in AccessHandler /\ x.op = op /\ x.req = r /\ x.pc = p /\ x.row = "none"
      /\ x.tools = {} /\ x.todo = {}
  BY <1>4, IdleHandler DEF AccessHandler, Ops, PCs, DecideOps
<1>6. /\ m \in AccessHistory /\ m.raced = history[r].raced
      /\ m.granted = history[r].granted /\ m.missed = history[r].missed
      /\ (m.overlapped <=> b) /\ m.broken = history[r].broken
  BY <1>3, AccessFacts DEF AccessHistory
<1> HIDE DEF x, m
<1>7. /\ doing' \in [Handlers -> AccessHandler] /\ doing'[k] = x
      /\ \A g \in Handlers \ {k} : doing'[g] = doing[g]
      /\ history' \in [Requests -> AccessHistory] /\ history'[r] = m
      /\ \A s \in Requests \ {r} : history'[s] = history[s]
  BY <1>2, <1>5, <1>6, AccessFacts
<1>8. \A s \in Requests : /\ history'[s].raced = history[s].raced
                          /\ history'[s].granted = history[s].granted
                          /\ history'[s].missed = history[s].missed
                          /\ history'[s].broken = history[s].broken
                          /\ history[s].overlapped => history'[s].overlapped
  BY <1>3, <1>6, <1>7
<1>9. AccessTypes'
  BY <1>1, <1>2, <1>7 DEF AccessTypes, gates
<1>10. ASSUME NEW g \in Handlers
       PROVE  HandlerOK(doing[g], request, override, history)'
  <2>1. CASE g = k
    <3>1. HandlerOK(x, request', override', history')
      BY <1>2, <1>4, <1>5 DEF HandlerOK, DecideOps, Decisions
    <3> QED
      BY <2>1, <3>1, <1>7
  <2>2. CASE g # k
    <3> DEFINE y == doing[g]
    <3>1. HandlerOK(y, request, override, history) /\ doing'[g] = y
      BY <2>2, <1>1, <1>7 DEF HandlersOK
    <3> HIDE DEF y
    <3>2. HandlerOK(y, request', override', history')
      BY <3>1, <1>2, <1>8 DEF HandlerOK, DecideOps
    <3> QED
      BY <3>1, <3>2
  <2> QED
    BY <2>1, <2>2
<1>11. DecideTogether'
  <2> SUFFICES ASSUME NEW i \in Handlers, NEW j \in Handlers, i # j,
                      doing'[i].op \in DecideOps, doing'[j].op \in DecideOps,
                      doing'[i].req = doing'[j].req
               PROVE  history'[doing'[i].req].overlapped
    BY DEF DecideTogether
  <2>1. CASE i = k
    BY <2>1, <1>3, <1>5, <1>6, <1>7
  <2>2. CASE j = k
    BY <2>2, <1>3, <1>5, <1>6, <1>7
  <2>3. CASE i # k /\ j # k
    <3>1. doing[i].req \in Requests
      BY <2>3, <1>1, <1>7 DEF HandlersOK, HandlerOK
    <3>2. history[doing[i].req].overlapped
      BY <2>3, <1>1, <1>7 DEF DecideTogether
    <3> QED
      BY <2>3, <3>1, <3>2, <1>7, <1>8
  <2> QED
    BY <2>1, <2>2, <2>3
<1>12. GrantsExplained'
  <2>1. \A g \in Handlers : doing[g].op = "approve" => g # k
    BY <1>2, IdleHandler
  <2> QED
    BY <1>1, <1>7, <1>8, <2>1 DEF GrantsExplained
<1>13. OnePendingUnlessRaced'
  BY <1>1, <1>2, <1>8 DEF OnePendingUnlessRaced, Pending
<1> QED
  BY <1>9, <1>10, <1>11, <1>12, <1>13 DEF AccessIInv, HandlersOK

\* A decider leaves its request, decided or as it was: what it has granted is
\* still explained, and when it was the last of a decided one there is nothing
\* to explain any more.
LEMMA DeciderLeaves ==
    ASSUME AccessIInv, NEW k \in Handlers, NEW broke \in BOOLEAN,
           NEW r, r = doing[k].req, r \in Requests, doing[k].op \in DecideOps,
           SettleRequest(k, broke),
           doing' = [doing EXCEPT ![k] = IdleAccess],
           UNCHANGED <<override, roleGrant, gates>>,
           upsets' \in 0..MaxUpsets,
           request' \in [Requests -> AccessRow],
           \A s \in Requests \ {r} : request'[s] = request[s],
           request'[r].status = request[r].status \/ request'[r].status \in Decisions,
           doing[k].op = "approve" => broke = TRUE \/ request'[r].status \in Decisions
    PROVE  AccessIInv'
<1> DEFINE over == Deciding(r) = {k} /\ request'[r].status \in Decisions
           m == IF over THEN NoHistory ELSE [history[r] EXCEPT !.broken = history[r].broken \/ broke]
<1>1. /\ AccessTypes /\ HandlersOK /\ DecideTogether /\ GrantsExplained
      /\ OnePendingUnlessRaced
  BY DEF AccessIInv
<1>2. history' = [history EXCEPT ![r] = m]
  BY DEF SettleRequest
<1>3. over \in BOOLEAN /\ (over => request'[r].status \in Decisions)
  OBVIOUS
<1>4. ASSUME NEW g \in Handlers, g # k, doing[g].op \in DecideOps, doing[g].req = r
      PROVE  ~over /\ history[r].overlapped
  BY <1>1, <1>4, DecisionOps DEF Deciding, DecideTogether
<1>5. request'[r].status \in Decisions /\ ~over =>
          \E g \in Handlers : g # k /\ doing[g].op \in DecideOps /\ doing[g].req = r
  BY DecisionOps DEF Deciding
<1> HIDE DEF over
<1>6. /\ m \in AccessHistory
      /\ over => m.granted = {}
      /\ ~over => /\ m.raced = history[r].raced /\ m.overlapped = history[r].overlapped
                  /\ m.granted = history[r].granted /\ m.missed = history[r].missed
                  /\ history[r].broken => m.broken
                  /\ broke => m.broken
  <2>1. history[r] \in AccessHistory
    BY AccessFacts
  <2>2. CASE over
    <3>1. NoHistory \in AccessHistory /\ NoHistory.granted = {}
      BY DEF NoHistory, AccessHistory
    <3> QED
      BY <2>2, <3>1
  <2>3. CASE ~over
    <3> DEFINE c == history[r].broken \/ broke
    <3>1. c \in BOOLEAN /\ (history[r].broken => c) /\ (broke => c)
      OBVIOUS
    <3>2. m = [history[r] EXCEPT !.broken = c]
      BY <2>3
    <3> HIDE DEF c, m
    <3> QED
      BY <2>1, <2>3, <3>1, <3>2 DEF AccessHistory
  <2> QED
    BY <2>2, <2>3
<1> HIDE DEF m
<1>7. /\ doing' \in [Handlers -> AccessHandler] /\ doing'[k] = IdleAccess
      /\ \A g \in Handlers \ {k} : doing'[g] = doing[g]
      /\ history' \in [Requests -> AccessHistory] /\ history'[r] = m
      /\ \A s \in Requests \ {r} : history'[s] = history[s]
  BY <1>2, <1>6, AccessFacts, IdleHandler
<1>8. AccessTypes'
  BY <1>1, <1>7 DEF AccessTypes, gates
<1>9. \A g \in Handlers : doing[g].op \in DecideOps => doing[g].req \in Requests
  BY <1>1 DEF HandlersOK, HandlerOK
<1>10. ASSUME NEW g \in Handlers
       PROVE  HandlerOK(doing[g], request, override, history)'
  <2>1. CASE g = k
    BY <2>1, <1>7, IdleOK
  <2>2. CASE g # k
    <3> DEFINE y == doing[g]
    <3>1. HandlerOK(y, request, override, history) /\ doing'[g] = y
      BY <2>2, <1>1, <1>7 DEF HandlersOK
    <3>2. y.op \in DecideOps /\ y.req = r => ~over /\ history[r].overlapped
      BY <2>2, <1>4
    <3> HIDE DEF y
    <3>3. /\ "none" \notin Decisions /\ "pending" \notin Decisions
          /\ request[r].status # "none" /\ "approve" \in DecideOps
      BY <1>1 DEF Decisions, HandlersOK, HandlerOK, DecideOps
    <3>4. /\ y.op \in DecideOps => request'[y.req].status # "none"
          /\ y.op \in DecideOps /\ request'[y.req].status \in Decisions =>
                 history'[y.req].overlapped
      <4>1. CASE y.op \in DecideOps /\ y.req = r
        BY <4>1, <3>2, <3>3, <1>6, <1>7
      <4>2. CASE y.op \in DecideOps /\ y.req # r
        BY <4>2, <3>1, <1>7 DEF HandlerOK
      <4> QED
        BY <4>1, <4>2
    <3>5. y.op = "create" /\ y.pc = "insert" =>
              \A s \in Requests : request'[s].status = "pending" => history'[s].raced
      <4>1. request'[r].status = "pending" => ~over
        BY <3>3, <1>3
      <4>2. request'[r].status = "pending" => request[r].status = "pending"
        BY <3>3
      <4> QED
        BY <3>1, <4>1, <4>2, <1>6, <1>7 DEF HandlerOK
    <3>6. y.op = "approve" =>
              y.tools \ y.todo \subseteq history'[y.req].granted \cup history'[y.req].missed
      <4>1. CASE y.op = "approve" /\ y.req = r
        BY <4>1, <3>1, <3>2, <3>3, <1>6, <1>7 DEF HandlerOK
      <4>2. CASE y.op = "approve" /\ y.req # r
        BY <4>2, <3>1, <3>3, <1>7 DEF HandlerOK
      <4> QED
        BY <4>1, <4>2
    <3>7. HandlerOK(y, request', override', history')
      BY <3>1, <3>4, <3>5, <3>6 DEF HandlerOK
    <3> QED
      BY <3>1, <3>7
  <2> QED
    BY <2>1, <2>2
<1>11. DecideTogether'
  <2> SUFFICES ASSUME NEW i \in Handlers, NEW j \in Handlers, i # j,
                      doing'[i].op \in DecideOps, doing'[j].op \in DecideOps,
                      doing'[i].req = doing'[j].req
               PROVE  history'[doing'[i].req].overlapped
    BY DEF DecideTogether
  <2>1. i # k /\ j # k
    BY <1>7, IdleHandler DEF DecideOps
  <2>2. doing'[i] = doing[i] /\ doing'[j] = doing[j]
    BY <2>1, <1>7
  <2>3. history[doing[i].req].overlapped
    BY <2>1, <2>2, <1>1 DEF DecideTogether
  <2>4. CASE doing[i].req = r
    BY <2>1, <2>2, <2>3, <2>4, <1>4, <1>6, <1>7
  <2>5. CASE doing[i].req # r
    BY <2>2, <2>3, <2>5, <1>7, <1>9
  <2> QED
    BY <2>4, <2>5
<1>12. GrantsExplained'
  <2> SUFFICES ASSUME NEW s \in Requests, history'[s].granted # {}, ~history'[s].overlapped,
                      ~history'[s].broken
               PROVE  \E g \in Handlers : doing'[g].op = "approve" /\ doing'[g].req = s
    BY DEF GrantsExplained
  <2>1. CASE s = r
    <3>1. ~over /\ history[r].granted # {} /\ ~history[r].overlapped /\ ~history[r].broken /\ ~broke
      BY <2>1, <1>6, <1>7
    <3>2. PICK g \in Handlers : doing[g].op = "approve" /\ doing[g].req = r
      BY <3>1, <1>1 DEF GrantsExplained
    <3>3. g # k
      BY <3>1, <3>2, <1>4, <1>5
    <3> QED
      BY <2>1, <3>2, <3>3, <1>7
  <2>2. CASE s # r
    <3>1. PICK g \in Handlers : doing[g].op = "approve" /\ doing[g].req = s
      BY <2>2, <1>1, <1>7 DEF GrantsExplained
    <3> QED
      BY <2>2, <3>1, <1>7
  <2> QED
    BY <2>1, <2>2
<1>13. OnePendingUnlessRaced'
  <2>1. /\ request'[r].status = "pending" => request[r].status = "pending" /\ ~over
    BY <1>3 DEF Decisions
  <2>2. \A s \in Requests : request'[s].status = "pending" =>
            request[s].status = "pending" /\ (history[s].raced => history'[s].raced)
    BY <2>1, <1>6, <1>7
  <2> QED
    BY <2>2, <1>1 DEF OnePendingUnlessRaced, Pending
<1> QED
  BY <1>8, <1>10, <1>11, <1>12, <1>13 DEF AccessIInv, HandlersOK

LEMMA FinishStays ==
    ASSUME AccessIInv, NEW k \in Handlers, Finish(k)
    PROVE  AccessIInv'
<1> DEFINE r == doing[k].req
           n == [status |-> DecisionOf[doing[k].op],
                 tools |-> IF doing[k].op = "approve" THEN doing[k].tools ELSE request[r].tools]
<1>1. /\ doing[k].op \in DecideOps
      /\ doing' = [doing EXCEPT ![k] = IdleAccess]
      /\ request' = [request EXCEPT ![r] = n]
      /\ SettleRequest(k, FALSE)
      /\ UNCHANGED <<override, roleGrant, gates, upsets>>
  BY DEF Finish, AccessAt, DoneAccess, DecideOps
<1>2. /\ doing[k] \in AccessHandler /\ r \in Requests
      /\ request \in [Requests -> AccessRow] /\ upsets' \in 0..MaxUpsets
  BY <1>1, AccessFacts DEF HandlerOK
<1>3. n \in AccessRow /\ n.status \in Decisions
  <2>1. DecisionOf[doing[k].op] \in Decisions
    BY <1>1, DecisionOps
  <2>2. doing[k].tools \subseteq Tools /\ request[r].tools \subseteq Tools
    BY <1>2 DEF AccessHandler, AccessRow
  <2> QED
    BY <2>1, <2>2 DEF AccessRow
<1> HIDE DEF n
<1>4. /\ request' \in [Requests -> AccessRow] /\ request'[r] = n
      /\ \A s \in Requests \ {r} : request'[s] = request[s]
  BY <1>1, <1>2, <1>3
<1>5. /\ FALSE \in BOOLEAN /\ r = doing[k].req
  OBVIOUS
<1> HIDE DEF r
<1> QED
  BY <1>1, <1>2, <1>3, <1>4, <1>5, DeciderLeaves

LEMMA BreakOffStays ==
    ASSUME AccessIInv, NEW k \in Handlers, BreakOff(k),
           UNCHANGED <<override, roleGrant, gates>>, upsets' \in 0..MaxUpsets
    PROVE  AccessIInv'
<1>1. doing' = [doing EXCEPT ![k] = IdleAccess] /\ UNCHANGED request
  BY DEF BreakOff, DoneAccess
<1>2. /\ doing[k] \in AccessHandler /\ HandlerOK(doing[k], request, override, history)
      /\ request \in [Requests -> AccessRow]
  BY AccessFacts
<1>3. CASE doing[k].op \in DecideOps
  <2>1. doing[k].req \in Requests /\ doing[k].req # NoRequest
    BY <1>2, <1>3, AccessAssumption DEF HandlerOK, AccessAssumption
  <2>2. SettleRequest(k, doing[k].op = "approve") /\ (doing[k].op = "approve") \in BOOLEAN
    BY <2>1 DEF BreakOff
  <2> DEFINE r == doing[k].req
             b == doing[k].op = "approve"
  <2>3. r = doing[k].req /\ b \in BOOLEAN /\ SettleRequest(k, b) /\ (doing[k].op = "approve" => b = TRUE)
    BY <2>2
  <2> HIDE DEF r, b
  <2> QED
    BY <1>1, <1>2, <1>3, <2>1, <2>3, DeciderLeaves
<1>4. CASE doing[k].op \notin DecideOps
  <2>1. UNCHANGED history
    BY <1>2, <1>4 DEF HandlerOK, BreakOff
  <2> QED
    BY <1>1, <1>4, <2>1, IdleHandler, IdleOK, HandlerMoves DEF DecideOps
<1> QED
  BY <1>3, <1>4

\* A tool is allowed, or its row was replaced: the request it is for notes it.
LEMMA AllowOverrideStays ==
    ASSUME AccessIInv, NEW k \in Handlers, NEW t \in Tools, AllowOverride(k, t)
    PROVE  AccessIInv'
<1> DEFINE p == IF doing[k].todo = {t} THEN "finish" ELSE "select"
           x == [doing[k] EXCEPT !.pc = p, !.todo = doing[k].todo \ {t}, !.at = {}, !.row = "none"]
           r == doing[k].req
<1>1. /\ AccessTypes /\ HandlersOK /\ DecideTogether /\ GrantsExplained
      /\ OnePendingUnlessRaced
  BY DEF AccessIInv
<1>2. /\ doing[k] \in AccessHandler /\ HandlerOK(doing[k], request, override, history)
      /\ history \in [Requests -> AccessHistory] /\ override \in [Tools -> Types]
  BY AccessFacts
<1>3. /\ doing[k].op \in {"approve", "attach"}
      /\ UNCHANGED <<request, roleGrant, gates, upsets>>
      /\ doing' = [doing EXCEPT ![k] = x]
      /\ override' = [override EXCEPT ![t] = "allow"] \/ override' = override
      /\ Note(k, "granted", {t}) \/ Note(k, "missed", {t})
  BY AccessFacts DEF AllowOverride, AccessAt, NextTool
<1>4. p \in {"finish", "select"} /\ (p = "finish" => doing[k].todo \ {t} = {})
  OBVIOUS
<1> HIDE DEF p
<1>5. /\ x \in AccessHandler /\ x.op = doing[k].op /\ x.req = r /\ x.pc = p
      /\ x.row = "none" /\ x.at = {} /\ x.tools = doing[k].tools /\ x.todo = doing[k].todo \ {t}
  BY <1>2, <1>4 DEF AccessHandler, PCs
<1> HIDE DEF x
<1>6. /\ doing' \in [Handlers -> AccessHandler] /\ doing'[k] = x
      /\ \A g \in Handlers \ {k} : doing'[g] = doing[g]
      /\ override' \in [Tools -> Types]
      /\ \A s \in Tools : override[s] # "none" => override'[s] # "none"
  BY <1>2, <1>3, <1>5, AccessFacts DEF Types
<1>7. /\ history' \in [Requests -> AccessHistory]
      /\ \A s \in Requests :
            /\ history'[s].raced = history[s].raced
            /\ history'[s].overlapped = history[s].overlapped
            /\ history'[s].broken = history[s].broken
            /\ history[s].granted \subseteq history'[s].granted
            /\ history[s].missed \subseteq history'[s].missed
            /\ s # r => history'[s].granted = history[s].granted
      /\ r \in Requests => t \in history'[r].granted \cup history'[r].missed
  <2>1. CASE r \notin Requests
    <3>1. history' = history
      BY <2>1, <1>2, <1>3, HandlerFields DEF Note
    <3> QED
      BY <3>1, <2>1, <1>2
  <2>2. CASE r \in Requests /\ Note(k, "granted", {t})
    <3> DEFINE m == [history[r] EXCEPT !.granted = history[r].granted \cup {t}]
    <3>1. history' = [history EXCEPT ![r] = m]
      BY <2>2, <1>2, AccessAssumption DEF Note, AccessAssumption
    <3>2. /\ m \in AccessHistory /\ m.raced = history[r].raced
          /\ m.overlapped = history[r].overlapped /\ m.broken = history[r].broken
          /\ m.granted = history[r].granted \cup {t} /\ m.missed = history[r].missed
      BY <2>2, <1>2 DEF AccessHistory
    <3> HIDE DEF m, r
    <3> QED
      BY <2>2, <3>1, <3>2, <1>2
  <2>3. CASE r \in Requests /\ Note(k, "missed", {t})
    <3> DEFINE m == [history[r] EXCEPT !.missed = history[r].missed \cup {t}]
    <3>1. history' = [history EXCEPT ![r] = m]
      BY <2>3, <1>2, AccessAssumption DEF Note, AccessAssumption
    <3>2. /\ m \in AccessHistory /\ m.raced = history[r].raced
          /\ m.overlapped = history[r].overlapped /\ m.broken = history[r].broken
          /\ m.missed = history[r].missed \cup {t} /\ m.granted = history[r].granted
      BY <2>3, <1>2 DEF AccessHistory
    <3> HIDE DEF m, r
    <3> QED
      BY <2>3, <3>1, <3>2, <1>2
  <2> QED
    BY <2>1, <2>2, <2>3, <1>3
<1>8. AccessTypes'
  BY <1>1, <1>3, <1>6, <1>7 DEF AccessTypes, gates
<1>9. ASSUME NEW g \in Handlers
      PROVE  HandlerOK(doing[g], request, override, history)'
  <2>1. CASE g = k
    <3>1. HandlerOK(x, request', override', history')
      <4>1. x.op = "approve" =>
                x.tools \ x.todo \subseteq history'[x.req].granted \cup history'[x.req].missed
        <5>1. doing[k].op = "approve" =>
                  doing[k].tools \ doing[k].todo \subseteq history[r].granted \cup history[r].missed
          BY <1>2 DEF HandlerOK
        <5>2. doing[k].op = "approve" => r \in Requests
          BY <1>2 DEF HandlerOK, DecideOps
        <5> HIDE DEF r
        <5> QED
          BY <5>1, <5>2, <1>5, <1>7
      <4> QED
        BY <4>1, <1>2, <1>3, <1>4, <1>5, <1>7 DEF HandlerOK, DecideOps
    <3> QED
      BY <2>1, <3>1, <1>6
  <2>2. CASE g # k
    <3> DEFINE y == doing[g]
    <3>1. HandlerOK(y, request, override, history) /\ doing'[g] = y /\ y \in AccessHandler
      BY <2>2, <1>1, <1>6, AccessFacts DEF HandlersOK
    <3> HIDE DEF y, r
    <3>2. y.op = "approve" => y.tools \ y.todo \subseteq history'[y.req].granted \cup history'[y.req].missed
      BY <3>1, <1>7 DEF HandlerOK, DecideOps
    <3>3. y.row = "current" => \A s \in y.at : override'[s] # "none"
      BY <3>1, <1>6, HandlerFields DEF HandlerOK
    <3>4. HandlerOK(y, request', override', history')
      BY <3>1, <3>2, <3>3, <1>3, <1>7 DEF HandlerOK
    <3> QED
      BY <3>1, <3>4
  <2> QED
    BY <2>1, <2>2
<1>10. \A g \in Handlers : doing'[g].op = doing[g].op /\ doing'[g].req = doing[g].req
  BY <1>5, <1>6
<1>11. \A g \in Handlers : doing[g].op \in DecideOps => doing[g].req \in Requests
  BY <1>1 DEF HandlersOK, HandlerOK
<1>12. DecideTogether'
  BY <1>1, <1>7, <1>10, <1>11 DEF DecideTogether
<1>13. GrantsExplained'
  <2> SUFFICES ASSUME NEW s \in Requests, history'[s].granted # {}, ~history'[s].overlapped,
                      ~history'[s].broken
               PROVE  \E g \in Handlers : doing'[g].op = "approve" /\ doing'[g].req = s
    BY DEF GrantsExplained
  <2>1. CASE s = r
    <3>1. doing[k].op = "approve"
      BY <2>1, <1>2, <1>3, AccessAssumption DEF HandlerOK, AccessAssumption, DecideOps
    <3> QED
      BY <2>1, <3>1, <1>10
  <2>2. CASE s # r
    <3>1. PICK g \in Handlers : doing[g].op = "approve" /\ doing[g].req = s
      BY <2>2, <1>1, <1>7 DEF GrantsExplained
    <3> QED
      BY <3>1, <1>10
  <2> QED
    BY <2>1, <2>2
<1>14. OnePendingUnlessRaced'
  BY <1>1, <1>3, <1>7 DEF OnePendingUnlessRaced, Pending
<1> QED
  BY <1>8, <1>9, <1>12, <1>13, <1>14 DEF AccessIInv, HandlersOK

\* Overrides change, and handlers forget the rows they had selected.
LEMMA RowsForgotten ==
    ASSUME AccessIInv,
           override' \in [Tools -> Types], roleGrant' \subseteq Tools,
           gated' \subseteq Tools, active' \subseteq Tools,
           serverActive' \in BOOLEAN, serverGated' \in BOOLEAN, upsets' \in 0..MaxUpsets,
           UNCHANGED <<request, history>>,
           doing' \in [Handlers -> AccessHandler],
           \A g \in Handlers :
              \/ /\ doing'[g].op = doing[g].op /\ doing'[g].pc = doing[g].pc
                 /\ doing'[g].req = doing[g].req /\ doing'[g].tools = doing[g].tools
                 /\ doing'[g].todo = doing[g].todo
                 /\ doing'[g].row = "current" => \A t \in doing'[g].at : override'[t] # "none"
              \/ doing'[g] = IdleAccess /\ doing[g].op \notin DecideOps
    PROVE  AccessIInv'
<1>1. /\ AccessTypes /\ HandlersOK /\ DecideTogether /\ GrantsExplained
      /\ OnePendingUnlessRaced
  BY DEF AccessIInv
<1>2. AccessTypes'
  BY <1>1 DEF AccessTypes
<1>3. ASSUME NEW g \in Handlers
      PROVE  HandlerOK(doing[g], request, override, history)'
  <2>1. CASE doing'[g] = IdleAccess
    BY <2>1, IdleOK
  <2>2. CASE doing'[g] # IdleAccess
    <3> DEFINE y == doing[g]
               z == doing'[g]
    <3>1. HandlerOK(y, request, override, history)
      BY <1>1 DEF HandlersOK
    <3>2. /\ z.op = y.op /\ z.pc = y.pc /\ z.req = y.req /\ z.tools = y.tools /\ z.todo = y.todo
          /\ z.row = "current" => \A t \in z.at : override'[t] # "none"
      BY <2>2
    <3> HIDE DEF y, z
    <3>3. HandlerOK(z, request', override', history')
      BY <3>1, <3>2 DEF HandlerOK
    <3> QED
      BY <3>3 DEF z
  <2> QED
    BY <2>1, <2>2
<1>4. \A g \in Handlers :
          \/ doing'[g].op = doing[g].op /\ doing'[g].req = doing[g].req
          \/ doing'[g].op \notin DecideOps /\ doing[g].op \notin DecideOps
  BY IdleHandler DEF DecideOps
<1>5. DecideTogether'
  BY <1>1, <1>4 DEF DecideTogether
<1>6. GrantsExplained'
  BY <1>1, <1>4 DEF GrantsExplained, DecideOps
<1>7. OnePendingUnlessRaced'
  BY <1>1 DEF OnePendingUnlessRaced, Pending
<1> QED
  BY <1>2, <1>3, <1>5, <1>6, <1>7 DEF AccessIInv, HandlersOK

LEMMA AccessForgotten ==
    ASSUME NEW G \in [Handlers -> AccessHandler], NEW set \in SUBSET Tools
    PROVE  /\ Forget(G, set) \in [Handlers -> AccessHandler]
           /\ \A g \in Handlers :
                 /\ Forget(G, set)[g].op = G[g].op /\ Forget(G, set)[g].pc = G[g].pc
                 /\ Forget(G, set)[g].req = G[g].req /\ Forget(G, set)[g].tools = G[g].tools
                 /\ Forget(G, set)[g].todo = G[g].todo /\ Forget(G, set)[g].at = G[g].at
                 /\ Forget(G, set)[g].row = "current" =>
                       G[g].row = "current" /\ G[g].at \cap set = {}
                 /\ G[g] = IdleAccess => Forget(G, set)[g] = IdleAccess
<1> DEFINE F(g) == IF G[g].row = "current" /\ G[g].at \cap set # {}
                   THEN [G[g] EXCEPT !.row = "replaced"] ELSE G[g]
<1>1. Forget(G, set) = [g \in Handlers |-> F(g)]
  BY DEF Forget
<1>2. ASSUME NEW g \in Handlers
      PROVE  /\ F(g) \in AccessHandler
             /\ F(g).op = G[g].op /\ F(g).pc = G[g].pc
             /\ F(g).req = G[g].req /\ F(g).tools = G[g].tools
             /\ F(g).todo = G[g].todo /\ F(g).at = G[g].at
             /\ F(g).row = "current" => G[g].row = "current" /\ G[g].at \cap set = {}
             /\ G[g] = IdleAccess => F(g) = IdleAccess
  <2>1. G[g] \in AccessHandler
    OBVIOUS
  <2>2. CASE G[g].row = "current" /\ G[g].at \cap set # {}
    <3> DEFINE y == [G[g] EXCEPT !.row = "replaced"]
    <3>1. /\ y \in AccessHandler /\ y.op = G[g].op /\ y.pc = G[g].pc
          /\ y.req = G[g].req /\ y.tools = G[g].tools
          /\ y.todo = G[g].todo /\ y.at = G[g].at /\ y.row = "replaced"
      BY <2>1 DEF AccessHandler
    <3>2. F(g) = y /\ G[g] # IdleAccess
      BY <2>2, IdleHandler
    <3> HIDE DEF y, F
    <3> QED
      BY <3>1, <3>2
  <2>3. CASE ~(G[g].row = "current" /\ G[g].at \cap set # {})
    BY <2>1, <2>3
  <2> QED
    BY <2>2, <2>3
<1> HIDE DEF F
<1> QED
  BY <1>1, <1>2

LEMMA SetOverrideStays ==
    ASSUME AccessIInv, NEW k \in Handlers, NEW t \in Tools, SetOverride(k, t)
    PROVE  AccessIInv'
<1> DEFINE type == Toggled(k)
           lands == type # "kept" /\ doing[k].row # "replaced"
           I == [doing EXCEPT ![k] = IdleAccess]
<1>1. /\ doing[k].op = "toggle" /\ AccessTypes /\ HandlersOK
      /\ UNCHANGED <<request, roleGrant, gates, history, upsets>>
      /\ override' = [override EXCEPT ![t] = IF lands THEN type ELSE override[t]]
      /\ doing' = IF lands /\ type = "none" THEN Forget(I, {t}) ELSE I
  BY DEF SetOverride, AccessAt, AccessIInv
<1>2. type \in Types \cup {"kept"}
  BY DEF Toggled, Types
<1>3. /\ doing \in [Handlers -> AccessHandler] /\ override \in [Tools -> Types]
      /\ I \in [Handlers -> AccessHandler] /\ I[k] = IdleAccess
      /\ \A g \in Handlers \ {k} : I[g] = doing[g]
  BY AccessFacts, IdleHandler
<1> HIDE DEF type, I
<1>4. /\ override' \in [Tools -> Types]
      /\ \A s \in Tools : override[s] # "none" =>
            override'[s] # "none" \/ (s = t /\ lands /\ type = "none")
  <2> DEFINE o == IF lands THEN type ELSE override[t]
  <2>1. o \in Types /\ (o = "none" => override[t] = "none" \/ (lands /\ type = "none"))
    BY <1>2, <1>3
  <2>2. override' = [override EXCEPT ![t] = o]
    BY <1>1
  <2> HIDE DEF o, lands
  <2> QED
    BY <2>1, <2>2, <1>3
<1> HIDE DEF lands
<1>5. \A g \in Handlers : doing[g].row = "current" => \A s \in doing[g].at : override[s] # "none"
  BY <1>1 DEF HandlersOK, HandlerOK
<1>6. \A g \in Handlers : doing[g].at \subseteq Tools
  BY <1>3, HandlerFields
<1>7. CASE lands /\ type = "none"
  <2>1. /\ doing' = Forget(I, {t}) /\ {t} \in SUBSET Tools
    BY <1>1, <1>7
  <2>2. /\ doing' \in [Handlers -> AccessHandler] /\ doing'[k] = IdleAccess
        /\ \A g \in Handlers \ {k} :
              /\ doing'[g].op = doing[g].op /\ doing'[g].pc = doing[g].pc
              /\ doing'[g].req = doing[g].req /\ doing'[g].tools = doing[g].tools
              /\ doing'[g].todo = doing[g].todo /\ doing'[g].at = doing[g].at
              /\ doing'[g].row = "current" => doing[g].row = "current" /\ t \notin doing[g].at
    BY <1>3, <2>1, AccessForgotten
  <2>3. \A g \in Handlers \ {k} :
            doing'[g].row = "current" => \A s \in doing'[g].at : override'[s] # "none"
    BY <2>2, <1>4, <1>5, <1>6
  <2> QED
    BY <1>1, <1>4, <2>2, <2>3, RowsForgotten DEF AccessTypes, gates, DecideOps
<1>8. CASE ~(lands /\ type = "none")
  <2>1. doing' = I
    BY <1>1, <1>8
  <2>2. \A g \in Handlers \ {k} :
            doing'[g].row = "current" => \A s \in doing'[g].at : override'[s] # "none"
    BY <2>1, <1>3, <1>4, <1>5, <1>6, <1>8
  <2> QED
    BY <1>1, <1>3, <1>4, <2>1, <2>2, RowsForgotten DEF AccessTypes, gates, DecideOps
<1> QED
  BY <1>7, <1>8

LEMMA AdministerStays ==
    ASSUME AccessIInv, Administer
    PROVE  AccessIInv'
<1>1. /\ AccessTypes /\ HandlersOK
      /\ doing \in [Handlers -> AccessHandler] /\ override \in [Tools -> Types]
  BY DEF AccessIInv, AccessTypes
<1>2. \A g \in Handlers : doing[g].row = "current" => \A s \in doing[g].at : override[s] # "none"
  BY <1>1 DEF HandlersOK, HandlerOK
<1>3. \A g \in Handlers : doing[g].at \subseteq Tools
  BY <1>1, HandlerFields
<1>4. Upset => upsets' \in 0..MaxUpsets
  BY <1>1, AccessAssumption DEF AccessTypes, Upset, AccessAssumption
<1>5. ASSUME NEW t \in Tools, NEW type \in {"allow", "deny"}, AttachOverride(t, type)
      PROVE  AccessIInv'
  <2>1. /\ override' \in [Tools -> Types] /\ UNCHANGED <<request, roleGrant, gates, doing, history>>
        /\ \A s \in Tools : override[s] # "none" => override'[s] # "none"
        /\ upsets' \in 0..MaxUpsets
    BY <1>1, <1>4, <1>5 DEF AttachOverride, Types
  <2> QED
    BY <2>1, <1>1, <1>2, <1>3, RowsForgotten DEF AccessTypes, gates
<1>6. ASSUME NEW t \in Tools, DetachOverride(t)
      PROVE  AccessIInv'
  <2>1. /\ override' \in [Tools -> Types] /\ UNCHANGED <<request, roleGrant, gates, history>>
        /\ \A s \in Tools \ {t} : override'[s] = override[s]
        /\ doing' = Forget(doing, {t}) /\ upsets' \in 0..MaxUpsets /\ {t} \in SUBSET Tools
    BY <1>1, <1>4, <1>6 DEF DetachOverride, Types
  <2>2. /\ doing' \in [Handlers -> AccessHandler]
        /\ \A g \in Handlers :
              /\ doing'[g].op = doing[g].op /\ doing'[g].pc = doing[g].pc
              /\ doing'[g].req = doing[g].req /\ doing'[g].tools = doing[g].tools
              /\ doing'[g].todo = doing[g].todo /\ doing'[g].at = doing[g].at
              /\ doing'[g].row = "current" => doing[g].row = "current" /\ t \notin doing[g].at
    BY <1>1, <2>1, AccessForgotten
  <2>3. \A g \in Handlers :
            doing'[g].row = "current" => \A s \in doing'[g].at : override'[s] # "none"
    BY <2>1, <2>2, <1>2, <1>3
  <2> QED
    BY <1>1, <2>1, <2>2, <2>3, RowsForgotten DEF AccessTypes, gates
<1>7. ASSUME NEW types \in [Tools -> Types], SetOverrides(types)
      PROVE  AccessIInv'
  <2>1. /\ override' \in [Tools -> Types] /\ UNCHANGED <<request, roleGrant, gates, history>>
        /\ doing' = Forget(doing, Tools) /\ upsets' \in 0..MaxUpsets /\ Tools \in SUBSET Tools
    BY <1>4, <1>7 DEF SetOverrides
  <2>2. /\ doing' \in [Handlers -> AccessHandler]
        /\ \A g \in Handlers :
              /\ doing'[g].op = doing[g].op /\ doing'[g].pc = doing[g].pc
              /\ doing'[g].req = doing[g].req /\ doing'[g].tools = doing[g].tools
              /\ doing'[g].todo = doing[g].todo /\ doing'[g].at = doing[g].at
              /\ doing'[g].row = "current" => doing[g].at \cap Tools = {}
    BY <1>1, <2>1, AccessForgotten
  <2>3. \A g \in Handlers :
            doing'[g].row = "current" => \A s \in doing'[g].at : override'[s] # "none"
    BY <2>2, <1>3
  <2> QED
    BY <1>1, <2>1, <2>2, <2>3, RowsForgotten DEF AccessTypes, gates
<1>8. ASSUME /\ UNCHANGED <<request, override, doing, history>>
             /\ roleGrant' \subseteq Tools /\ gated' \subseteq Tools /\ active' \subseteq Tools
             /\ serverActive' \in BOOLEAN /\ serverGated' \in BOOLEAN
             /\ upsets' \in 0..MaxUpsets
      PROVE  AccessIInv'
  BY <1>1, <1>2, <1>8, RowsForgotten
<1>9. ASSUME NEW t \in Tools, EditTool(t)
      PROVE  AccessIInv'
  BY <1>1, <1>4, <1>8, <1>9 DEF EditTool, AccessTypes
<1>10. ASSUME NEW set \in SUBSET Tools, SetRoleTools(set)
       PROVE  AccessIInv'
  BY <1>1, <1>4, <1>8, <1>10 DEF SetRoleTools, AccessTypes, gates
<1>11. ASSUME NEW on \in BOOLEAN, NEW gate \in BOOLEAN, EditServer(on, gate)
       PROVE  AccessIInv'
  BY <1>1, <1>4, <1>8, <1>11 DEF EditServer, AccessTypes
<1> QED
  BY <1>5, <1>6, <1>7, <1>9, <1>10, <1>11 DEF Administer

LEMMA AccessStays ==
    ASSUME AccessIInv, [AccessNext]_accessVars
    PROVE  AccessIInv'
<1>1. ASSUME NEW k \in Handlers, Handle(k)
      PROVE  AccessIInv'
  <2>1. DOMAIN DecisionOf = DecideOps
    BY DecisionOps
  <2>2. ASSUME NEW t \in Tools, InsertRefused(k, t)
        PROVE  AccessIInv'
    BY <2>2, AccessFacts, BreakOffStays DEF InsertRefused
  <2>3. ASSUME FailAccess(k)
        PROVE  AccessIInv'
    <3>1. upsets' \in 0..MaxUpsets
      BY <2>3, AccessAssumption
         DEF FailAccess, Upset, AccessAssumption, AccessIInv, AccessTypes
    <3> QED
      BY <2>3, <3>1, BreakOffStays DEF FailAccess
  <2> QED
    BY <1>1, <2>1, <2>2, <2>3, StartCreateStays, CheckPendingStays, InsertRequestStays,
       ReadPendingStays, StartAttachStays, ChooseToolsStays, SelectOverrideStays,
       AllowOverrideStays, FinishStays, FinishAttachStays, StartToggleStays,
       SelectExistingStays, SetOverrideStays DEF Handle
<1>2. CASE UNCHANGED accessVars
  <2>1. UNCHANGED <<request, override, roleGrant, gates, doing, history, upsets>>
    BY <1>2 DEF accessVars
  <2> QED
    BY <2>1 DEF gates, AccessIInv, AccessTypes, HandlersOK, DecideTogether, GrantsExplained,
                OnePendingUnlessRaced, Pending
<1> QED
  BY <1>1, <1>2, AdministerStays DEF AccessNext

\* A request is decided by Finish alone.
LEMMA WhoDecides ==
    ASSUME [AccessNext]_accessVars
    PROVE  \/ UNCHANGED request
           \/ \E k \in Handlers, r \in Requests : InsertRequest(k, r)
           \/ \E k \in Handlers : Finish(k)
<1>1. ASSUME NEW k \in Handlers, Handle(k)
      PROVE  \/ UNCHANGED request
             \/ \E r \in Requests : InsertRequest(k, r)
             \/ Finish(k)
  BY <1>1 DEF Handle, StartCreate, CheckPending, ReadPending, StartAttach, ChooseTools,
              SelectOverride, AllowOverride, InsertRefused, BreakOff, FinishAttach,
              StartToggle, SelectExisting, SetOverride, FailAccess, ReadOnly
<1>2. Administer => UNCHANGED request
  BY DEF Administer, AttachOverride, DetachOverride, EditTool, SetOverrides, SetRoleTools,
         EditServer
<1>3. CASE UNCHANGED accessVars
  BY <1>3 DEF accessVars
<1> QED
  BY <1>1, <1>2, <1>3 DEF AccessNext

LEMMA DecidedWell ==
    ASSUME AccessIInv, [AccessNext]_accessVars, NEW r \in Requests
    PROVE  /\ request[r].status \in Decisions /\ ~history[r].overlapped
              => request'[r] = request[r]
           /\ Decided(r) /\ request'[r].status # "approved"
                  /\ ~history[r].overlapped /\ ~history[r].broken
              => history[r].granted = {}
           /\ Decided(r) /\ request'[r].status = "approved"
              => request'[r].tools \subseteq history[r].granted \cup history[r].missed
<1>1. CASE UNCHANGED request
  BY <1>1 DEF Decided
<1>2. ASSUME NEW k \in Handlers, NEW s \in Requests, InsertRequest(k, s)
      PROVE  /\ s = r => request[r].status = "none" /\ request'[r].status = "pending"
             /\ s # r => request'[r] = request[r]
  <2> DEFINE n == [request[s] EXCEPT !.status = "pending"]
  <2>1. /\ request[s].status = "none" /\ request \in [Requests -> AccessRow]
        /\ request' = [request EXCEPT ![s] = n]
    BY <1>2, AccessFacts DEF InsertRequest
  <2>2. n.status = "pending"
    BY <2>1 DEF AccessRow
  <2> HIDE DEF n
  <2> QED
    BY <2>1, <2>2
<1>3. ASSUME NEW k \in Handlers, Finish(k)
      PROVE  /\ request[r].status \in Decisions /\ ~history[r].overlapped
                => request'[r] = request[r]
             /\ Decided(r) /\ request'[r].status # "approved"
                    /\ ~history[r].overlapped /\ ~history[r].broken
                => history[r].granted = {}
             /\ Decided(r) /\ request'[r].status = "approved"
                => request'[r].tools \subseteq history[r].granted \cup history[r].missed
  <2> DEFINE y == doing[k]
             n == [status |-> DecisionOf[y.op],
                   tools |-> IF y.op = "approve" THEN y.tools ELSE request[y.req].tools]
  <2>1. /\ y.op \in DecideOps /\ y.pc = "finish"
        /\ request' = [request EXCEPT ![y.req] = n]
        /\ request \in [Requests -> AccessRow]
        /\ HandlerOK(y, request, override, history)
    BY <1>3, AccessFacts DEF Finish, AccessAt, DecideOps
  <2>2. /\ n.status = DecisionOf[y.op] /\ (n.status = "approved" <=> y.op = "approve")
        /\ y.op = "approve" => n.tools = y.tools
    BY <2>1, DecisionOps
  <2>3. CASE y.req # r
    <3>1. request'[r] = request[r]
      BY <2>1, <2>3
    <3> QED
      BY <3>1 DEF Decided
  <2>4. CASE y.req = r
    <3>1. request'[r] = n
      BY <2>1, <2>4
    <3>2. request[r].status \in Decisions => history[r].overlapped
      BY <2>1, <2>4 DEF HandlerOK
    <3>3. n.status = "approved" => n.tools \subseteq history[r].granted \cup history[r].missed
      BY <2>1, <2>2, <2>4 DEF HandlerOK
    <3>4. ASSUME n.status # "approved", ~history[r].overlapped, ~history[r].broken
          PROVE  history[r].granted = {}
      <4> SUFFICES ASSUME NEW g \in Handlers, doing[g].op = "approve", doing[g].req = r
                   PROVE  FALSE
        BY <3>4 DEF AccessIInv, GrantsExplained
      <4>1. g # k
        BY <2>2, <3>4
      <4> QED
        BY <2>1, <2>4, <3>4, <4>1 DEF AccessIInv, DecideTogether, DecideOps
    <3> HIDE DEF n, y
    <3> QED
      BY <3>1, <3>2, <3>3, <3>4 DEF Decided
  <2> QED
    BY <2>3, <2>4
<1> QED
  BY <1>1, <1>2, <1>3, WhoDecides DEF Decided, Decisions

LEMMA ToggledWell ==
    ASSUME AccessIInv, NEW k \in Handlers, NEW t \in Tools, SetOverride(k, t),
           doing[k].row # "replaced", doing[k].was = override[t],
           doing[k].role = (t \in roleGrant)
    PROVE  Enabled(t)' = doing[k].on
<1> DEFINE type == Toggled(k)
           o == IF type # "kept" THEN type ELSE override[t]
<1>1. /\ override \in [Tools -> Types] /\ doing[k].on \in BOOLEAN /\ doing[k].role \in BOOLEAN
      /\ override' = [override EXCEPT ![t] = o] /\ roleGrant' = roleGrant
  BY AccessFacts, HandlerFields DEF SetOverride
<1>2. override'[t] = o
  BY <1>1
<1>3. (o # "deny" /\ (o = "allow" \/ t \in roleGrant)) <=> doing[k].on
  <2>1. override[t] \in Types
    BY <1>1
  <2>2. CASE doing[k].role /\ doing[k].on
    BY <2>1, <2>2 DEF Toggled, Types
  <2>3. CASE ~doing[k].role /\ doing[k].on
    BY <2>1, <2>3 DEF Toggled, Types
  <2>4. CASE ~doing[k].on
    BY <2>1, <2>4 DEF Toggled, Types
  <2> QED
    BY <2>2, <2>3, <2>4, <1>1
<1> HIDE DEF o
<1>4. Enabled(t)' <=> (o # "deny" /\ (o = "allow" \/ t \in roleGrant))
  BY <1>1, <1>2 DEF Enabled
<1>5. Enabled(t)' \in BOOLEAN
  BY DEF Enabled
<1> QED
  BY <1>1, <1>3, <1>4, <1>5

\* Any number of requests, tools and handlers: one request is pending at a time, a
\* decision is final, a denial has granted nothing, an approval has granted what it
\* says and a toggle is honoured -- each unless handlers overlapped where nothing
\* keeps them apart, or one broke off.
THEOREM AccessCorrect == AccessSpec => AccessRules
<1>1. AccessInit => AccessIInv
  <2> SUFFICES ASSUME AccessInit PROVE AccessIInv
    OBVIOUS
  <2>1. /\ NoHistory \in AccessHistory /\ NoHistory.granted = {}
        /\ [status |-> "none", tools |-> {}] \in AccessRow
        /\ IdleAccess \in AccessHandler /\ "none" \in Types
    BY IdleHandler DEF NoHistory, AccessHistory, AccessRow, Types
  <2>2. AccessTypes
    BY <2>1, AccessAssumption DEF AccessInit, AccessTypes, AccessAssumption
  <2>3. HandlersOK
    BY IdleOK DEF HandlersOK, AccessInit
  <2>4. DecideTogether
    BY IdleHandler DEF DecideTogether, DecideOps, AccessInit
  <2>5. GrantsExplained
    BY <2>1 DEF GrantsExplained, AccessInit
  <2>6. OnePendingUnlessRaced
    BY DEF OnePendingUnlessRaced, Pending, AccessInit
  <2> QED
    BY <2>2, <2>3, <2>4, <2>5, <2>6 DEF AccessIInv
<1>2. AccessIInv => AccessTypeOK /\ OnePendingUnlessRaced
  <2> SUFFICES ASSUME AccessIInv PROVE AccessTypeOK /\ OnePendingUnlessRaced
    OBVIOUS
  <2>1. /\ AccessTypes /\ OnePendingUnlessRaced
        /\ \A k \in Handlers : doing[k].row = "current" => \A t \in doing[k].at : override[t] # "none"
    BY DEF AccessIInv, HandlersOK, HandlerOK
  <2> QED
    BY <2>1 DEF AccessTypes, AccessTypeOK, AccessHandler, AccessRow, AccessHistory
<1>3. AccessIInv /\ [AccessNext]_accessVars =>
          /\ AccessIInv'
          /\ [\A r \in Requests :
                request[r].status \in Decisions /\ ~history[r].overlapped
                => request'[r] = request[r]]_accessVars
          /\ [\A r \in Requests :
                Decided(r) /\ request'[r].status # "approved"
                    /\ ~history[r].overlapped /\ ~history[r].broken
                => history[r].granted = {}]_accessVars
          /\ [\A r \in Requests :
                Decided(r) /\ request'[r].status = "approved"
                => request'[r].tools \subseteq history[r].granted \cup history[r].missed]_accessVars
          /\ [\A k \in Handlers, t \in Tools :
                SetOverride(k, t) /\ doing[k].row # "replaced" /\ doing[k].was = override[t]
                    /\ doing[k].role = (t \in roleGrant)
                => Enabled(t)' = doing[k].on]_accessVars
  BY AccessStays, DecidedWell, ToggledWell
<1> QED
  BY <1>1, <1>2, <1>3, PTL
     DEF AccessSpec, AccessRules, FinalUnlessOverlapped, DeniedGrantsNothing,
         ApprovedWereGranted, ToggleHonoured

=============================================================================
