--------------------------- MODULE UpstreamProofs ---------------------------
(***************************************************************************)
(* Proofs about the credentials that lead upstream.                        *)
(*                                                                         *)
(* Credentials: a row is sealed under the slot it is found by, and a       *)
(* handler may rely on what it read until another one crosses it.          *)
(* CredIInv says so, handler by handler (CallOK); Cross is the history     *)
(* that tells when it no longer may.                                       *)
(*                                                                         *)
(* OAuthConnect: a Connect that began with the present configuration holds *)
(* the client this configuration resolves to (StartCurrent, StateOK,       *)
(* CallbackCurrent), and until a second callback overlaps the first one    *)
(* handler at most is at work on a state (Once).  ConnIInv joins them with *)
(* what the tables keep in step.                                           *)
(*                                                                         *)
(* SessionHub: what the sessions that no change has crossed follow is what *)
(* was seen last of the configuration file, or a refresh tells them.       *)
(*                                                                         *)
(* OAuthDiscovery: wherever a search does not ask any more it has asked.   *)
(*                                                                         *)
(* PersonalStore: until an init ran beside others, there is one key, and   *)
(* what is stored is encrypted under it.                                   *)
(***************************************************************************)
EXTENDS OAuthConnect, Credentials, SessionHub, OAuthDiscovery, PersonalStore,
        FiniteSetTheorems, SequenceTheorems, TLAPS

HostType == [present : BOOLEAN, auth : AuthMethods, mode : Modes]

CredCallType ==
    [op : {"idle", "upsert", "callback", "create", "update", "disconnect", "call", "sync"},
     pc : {"idle", "server", "find", "write", "delete", "first", "second"},
     host : HostType, owner : Members \cup {Shared}, slot : Slots, id : 0..(MaxCredChanges + 1),
     steady : SUBSET Slots, crossed : BOOLEAN,
     outcome : Members \cup {Shared, "none", "ok", "failed", "fault", "missing"}]

Connecting(c) == c.op \in {"upsert", "callback"} /\ c.pc \in {"find", "write"}

OwnersAsked(c) ==
    IF c.op = "call" THEN GatewayOrder(c.host.mode, c.owner) ELSE SyncOrder(c.owner)

\* What a handler that is c may rely on.
CallOK(c) ==
    /\ c.steady \subseteq Present
    /\ Connecting(c) /\ ~c.crossed => host.present
    /\ Connecting(c) /\ c.pc = "write" /\ ~c.crossed => vault[c.slot].id = c.id
    /\ Connecting(c) /\ c.op = "upsert" => c.host.mode # "shared"
    /\ c.op = "update" /\ c.pc = "write" => c.id # 0
    /\ c.op \in {"call", "sync"} /\ c.pc = "second" =>
          /\ Len(OwnersAsked(c)) = 2
          /\ SlotOf(OwnersAsked(c)[1], c.host.auth) \notin c.steady

\* A row is of its own slot, and a server that is gone has none.
RowsOK ==
    /\ \A s \in Slots : vault[s] = NoRow \/ (vault[s].id # 0 /\ vault[s].sealed = s)
    /\ ~host.present => Present = {}

CredIInv ==
    /\ host \in HostType
    /\ vault \in [Slots -> [id : 0..(MaxCredChanges + 1), sealed : Slots]]
    /\ changes \in 0..MaxCredChanges
    /\ cred \in [Handlers -> CredCallType]
    /\ RowsOK
    /\ \A h \in Handlers : CallOK(cred[h])

-----------------------------------------------------------------------------
(* Slots and what a step does to the handlers.                              *)

LEMMA SlotsOfOwners ==
  ASSUME NEW o \in Members \cup {Shared}, NEW k \in Kinds
  PROVE  SlotOf(o, k) \in Slots
<1> DEFINE b == [server |-> TRUE, owner |-> o, connection |-> FALSE]
<1>1. b \in Bindings /\ (b.server <=> TRUE) /\ (b.connection <=> FALSE)
  BY DEF Bindings
<1>2. SlotOf(o, k) = [binding |-> b, kind |-> k]
  BY DEF SlotOf
<1> HIDE DEF b
<1> QED
  BY <1>1, <1>2 DEF Slots, NormalizeBinding

LEMMA SlotIsOfOwner ==
  ASSUME NEW s \in Slots
  PROVE  \E o \in Members \cup {Shared} : s = SlotOf(o, s.kind)
<1> DEFINE b == s.binding
<1>1. /\ b \in Bindings /\ s = [binding |-> b, kind |-> s.kind]
      /\ b.server /\ ~b.connection
  BY DEF Slots, NormalizeBinding
<1>2. b = [server |-> b.server, owner |-> b.owner, connection |-> b.connection]
      /\ b.owner \in Members \cup {Shared}
  BY <1>1 DEF Bindings
<1>3. b = [server |-> TRUE, owner |-> b.owner, connection |-> FALSE]
  BY <1>1, <1>2 DEF Bindings
<1> HIDE DEF b
<1> QED
  BY <1>1, <1>2, <1>3 DEF SlotOf

LEMMA CredTypes ==
  /\ MaxCredChanges \in Nat /\ Shared \in Members \cup {Shared}
  /\ SlotOf(Shared, "api_key") \in Slots
  /\ NoHost \in HostType
  /\ NoRow \in [id : 0..(MaxCredChanges + 1), sealed : Slots] /\ NoRow.id = 0
  /\ IdleCred \in CredCallType /\ IdleCred.op = "idle" /\ IdleCred.pc = "idle"
  /\ IdleCred.steady = {} /\ ~IdleCred.crossed /\ IdleCred.outcome = "none"
  /\ IdleCred.id = 0 /\ IdleCred.owner = Shared
<1>1. SlotOf(Shared, "api_key") \in Slots /\ Shared \in Members \cup {Shared}
  BY SlotsOfOwners DEF Kinds
<1>2. NoHost \in HostType
  BY DEF NoHost, HostType, AuthMethods, Modes
<1>3. MaxCredChanges \in Nat /\ 0 \in 0..(MaxCredChanges + 1)
  BY CredentialsAssumption
<1> DEFINE s0 == SlotOf(Shared, "api_key")
<1>4. NoRow = [id |-> 0, sealed |-> s0]
  BY DEF NoRow
<1>5. IdleCred = [op |-> "idle", pc |-> "idle", host |-> NoHost, owner |-> Shared,
             slot |-> s0, id |-> 0, steady |-> {},
             crossed |-> FALSE, outcome |-> "none"]
  BY DEF IdleCred
<1> HIDE DEF s0
<1>6. s0 \in Slots
  BY <1>1 DEF s0
<1> QED
  BY <1>1, <1>2, <1>3, <1>4, <1>5, <1>6 DEF CredCallType

\* A handler but for its outcome.
SameCall(c, d) ==
    /\ d.op = c.op /\ d.pc = c.pc /\ d.host = c.host /\ d.owner = c.owner
    /\ d.slot = c.slot /\ d.id = c.id

LEMMA QuietIs ==
  ASSUME cred \in [Handlers -> CredCallType]
  PROVE  /\ Quiet \in [Handlers -> CredCallType]
         /\ \A g \in Handlers : /\ SameCall(cred[g], Quiet[g])
                                /\ Quiet[g].steady = cred[g].steady
                                /\ Quiet[g].crossed <=> cred[g].crossed
                                /\ Quiet[g].outcome = "none"
BY DEF Quiet, CredCallType, SameCall

LEMMA GotoCredIs ==
  ASSUME cred \in [Handlers -> CredCallType], NEW h \in Handlers,
         NEW c \in CredCallType, cred' = [Quiet EXCEPT ![h] = c]
  PROVE  /\ cred' \in [Handlers -> CredCallType] /\ cred'[h] = c
         /\ \A g \in Handlers \ {h} : /\ SameCall(cred[g], cred'[g])
                                      /\ cred'[g].steady = cred[g].steady
                                      /\ cred'[g].crossed <=> cred[g].crossed
                                      /\ cred'[g].outcome = "none"
BY QuietIs

\* Those who stay where they are may go on relying on what they did.
LEMMA OthersRely ==
  ASSUME CredIInv, NEW g \in Handlers, SameCall(cred[g], cred'[g]),
         cred'[g].steady \subseteq cred[g].steady,
         cred'[g].steady \subseteq Present',
         cred[g].crossed => cred'[g].crossed,
         ~cred'[g].crossed /\ cred[g].pc # "idle" =>
            /\ vault'[cred[g].slot].id = vault[cred[g].slot].id
            /\ host.present => host'.present
  PROVE  CallOK(cred[g])'
<1>1. CallOK(cred[g]) /\ cred[g] \in CredCallType
  BY DEF CredIInv
<1>2. OwnersAsked(cred[g])' = OwnersAsked(cred[g])
  BY DEF OwnersAsked, SameCall
<1> HIDE DEF OwnersAsked
<1>3. /\ Connecting(cred[g])' <=> Connecting(cred[g])
      /\ Connecting(cred[g]) => cred[g].pc # "idle"
  BY DEF Connecting, SameCall
<1> QED
  BY <1>1, <1>2, <1>3 DEF CallOK, SameCall

\* A step of a handler that leaves the rows as they are.
LEMMA CredStepKeeps ==
  ASSUME CredIInv, NEW h \in Handlers, NEW c \in CredCallType, CallOK(c),
         Goto(h, c), UNCHANGED <<host, vault, changes>>
  PROVE  CredIInv'
<1>1. cred' = [Quiet EXCEPT ![h] = c]
  BY DEF Goto
<1>2. /\ cred' \in [Handlers -> CredCallType] /\ cred'[h] = c
      /\ \A g \in Handlers \ {h} : /\ SameCall(cred[g], cred'[g])
                                   /\ cred'[g].steady = cred[g].steady
                                   /\ cred'[g].crossed <=> cred[g].crossed
  BY <1>1, GotoCredIs DEF CredIInv
<1>3. Present' = Present
  BY DEF Present
<1>4. \A g \in Handlers \ {h} : CallOK(cred[g])'
  BY <1>2, <1>3, OthersRely DEF CredIInv, CallOK
<1>5. CallOK(cred[h])'
  BY <1>2, <1>3 DEF CallOK
<1>6. RowsOK'
  BY <1>3 DEF CredIInv, RowsOK
<1> QED
  BY <1>2, <1>4, <1>5, <1>6 DEF CredIInv

\* Who has nothing to do relies on nothing.
LEMMA IdleRelies ==
  ASSUME NEW o \in Members \cup {Shared, "none", "ok", "failed", "fault", "missing"}
  PROVE  /\ Outcome(o) \in CredCallType /\ Outcome(o).op = "idle" /\ Outcome(o).pc = "idle"
         /\ Outcome(o).outcome = o /\ Outcome(o).steady = {} /\ ~Outcome(o).crossed
         /\ CallOK(Outcome(o))
<1>1. /\ Outcome(o) \in CredCallType /\ Outcome(o).op = "idle" /\ Outcome(o).pc = "idle"
      /\ Outcome(o).outcome = o /\ Outcome(o).steady = {} /\ ~Outcome(o).crossed
  BY CredTypes DEF Outcome, CredCallType
<1> QED
  BY <1>1 DEF CallOK, Connecting

LEMMA FinishKeeps ==
  ASSUME CredIInv, NEW h \in Handlers,
         NEW o \in Members \cup {Shared, "none", "ok", "failed", "fault", "missing"},
         Finish(h, o), UNCHANGED <<host, vault, changes>>
  PROVE  CredIInv'
BY IdleRelies, CredStepKeeps DEF Finish

-----------------------------------------------------------------------------
(* Steps that change no row.                                                *)

LEMMA BeginKeeps ==
  ASSUME CredIInv, NEW h \in Handlers, NEW m \in Callers,
         NEW op \in {"upsert", "callback", "disconnect", "call", "sync"},
         Begin(h, [IdleCred EXCEPT !.op = op, !.owner = m]),
         UNCHANGED <<host, vault, changes>>
  PROVE  CredIInv'
<1> DEFINE record == [IdleCred EXCEPT !.op = op, !.owner = m]
           before == IF op \notin {"call", "sync"} THEN {}
                     ELSE {s \in Present : s.binding.owner \in {m, Shared}}
           c == [record EXCEPT !.pc = "server", !.steady = before]
<1>1. record.op = op /\ record.owner = m /\ m \in Members
  BY CredTypes, CredentialsAssumption DEF CredCallType
<1>2. before \subseteq Present /\ before \in SUBSET Slots
  BY DEF Present
<1>3. Goto(h, c)
  BY <1>1 DEF Begin, Goto
<1> HIDE DEF before
<1>4. /\ c \in CredCallType /\ c.op = op /\ c.pc = "server" /\ c.steady = before
  BY <1>1, <1>2, CredTypes DEF CredCallType
<1> HIDE DEF c, record
<1>5. CallOK(c)
  BY <1>2, <1>4 DEF CallOK, Connecting
<1> QED
  BY <1>3, <1>4, <1>5, CredStepKeeps

LEMMA StartUpsertKeeps ==
  ASSUME CredIInv, NEW h \in Handlers, NEW m \in Callers, StartUpsert(h, m)
  PROVE  CredIInv'
BY BeginKeeps DEF StartUpsert

LEMMA StartCallbackKeeps ==
  ASSUME CredIInv, NEW h \in Handlers, NEW m \in Callers, StartCallback(h, m)
  PROVE  CredIInv'
BY BeginKeeps DEF StartCallback

LEMMA StartDisconnectKeeps ==
  ASSUME CredIInv, NEW h \in Handlers, NEW m \in Callers, StartDisconnect(h, m)
  PROVE  CredIInv'
BY BeginKeeps DEF StartDisconnect

LEMMA StartCallKeeps ==
  ASSUME CredIInv, NEW h \in Handlers, NEW m \in Callers, NEW op \in {"call", "sync"},
         StartCall(h, m, op)
  PROVE  CredIInv'
BY BeginKeeps DEF StartCall

LEMMA FindServerKeeps ==
  ASSUME CredIInv, NEW h \in Handlers, FindServer(h)
  PROVE  CredIInv'
<1>1. UNCHANGED <<host, vault, changes>> /\ cred[h].op = "upsert" /\ cred[h].pc = "server"
  BY DEF FindServer, CredAt
<1>2. CASE Finish(h, "failed")
  BY <1>1, <1>2, FinishKeeps
<1>3. CASE /\ host.present /\ host.mode # "shared" /\ host.auth # "mtls"
           /\ Goto(h, [cred[h] EXCEPT !.pc = "find", !.host = host,
                                      !.slot = SlotOf(cred[h].owner, host.auth)])
  <2>1. cred[h] \in CredCallType /\ CallOK(cred[h]) /\ host \in HostType
    BY DEF CredIInv
  <2> DEFINE slot == SlotOf(cred[h].owner, host.auth)
             c == [cred[h] EXCEPT !.pc = "find", !.host = host, !.slot = slot]
  <2>2. slot \in Slots
    BY <1>3, <2>1, SlotsOfOwners DEF CredCallType, HostType, AuthMethods, Kinds
  <2> HIDE DEF slot
  <2>3. /\ c \in CredCallType /\ c.op = "upsert" /\ c.pc = "find" /\ c.host = host
        /\ c.steady = cred[h].steady
    BY <1>1, <2>1, <2>2 DEF CredCallType
  <2>4. Goto(h, c)
    BY <1>3 DEF slot
  <2> HIDE DEF c
  <2>5. CallOK(c)
    BY <1>3, <2>1, <2>3 DEF CallOK, Connecting
  <2> QED
    BY <1>1, <2>3, <2>4, <2>5, CredStepKeeps
<1> QED
  BY <1>2, <1>3 DEF FindServer

LEMMA FindCallbackServerKeeps ==
  ASSUME CredIInv, NEW h \in Handlers, FindCallbackServer(h)
  PROVE  CredIInv'
<1>1. UNCHANGED <<host, vault, changes>> /\ cred[h].op = "callback" /\ cred[h].pc = "server"
  BY DEF FindCallbackServer, CredAt
<1>2. CASE Finish(h, "failed")
  BY <1>1, <1>2, FinishKeeps
<1>3. CASE /\ host.present
           /\ Goto(h, [cred[h] EXCEPT !.pc = "find", !.slot = SlotOf(cred[h].owner, "oauth")])
  <2>1. cred[h] \in CredCallType /\ CallOK(cred[h])
    BY DEF CredIInv
  <2> DEFINE slot == SlotOf(cred[h].owner, "oauth")
             c == [cred[h] EXCEPT !.pc = "find", !.slot = slot]
  <2>2. slot \in Slots
    BY <2>1, SlotsOfOwners DEF CredCallType, Kinds
  <2> HIDE DEF slot
  <2>3. /\ c \in CredCallType /\ c.op = "callback" /\ c.pc = "find"
        /\ c.steady = cred[h].steady
    BY <1>1, <2>1, <2>2 DEF CredCallType
  <2>4. Goto(h, c)
    BY <1>3 DEF slot
  <2> HIDE DEF c
  <2>5. CallOK(c)
    BY <1>3, <2>1, <2>3 DEF CallOK, Connecting
  <2> QED
    BY <1>1, <2>3, <2>4, <2>5, CredStepKeeps
<1> QED
  BY <1>2, <1>3 DEF FindCallbackServer

LEMMA FindExistingKeeps ==
  ASSUME CredIInv, NEW h \in Handlers, FindExisting(h)
  PROVE  CredIInv'
<1>1. /\ UNCHANGED <<host, vault, changes>>
      /\ cred[h].op \in {"upsert", "callback"} /\ cred[h].pc = "find"
  BY DEF FindExisting, CredAt
<1>2. cred[h] \in CredCallType /\ CallOK(cred[h]) /\ vault[cred[h].slot].id \in 0..(MaxCredChanges + 1)
  BY DEF CredIInv, CredCallType
<1> DEFINE id == vault[cred[h].slot].id
           c == [cred[h] EXCEPT !.pc = "write", !.id = id]
<1>3. Goto(h, c)
  BY DEF FindExisting
<1> HIDE DEF id
<1>4. /\ c \in CredCallType /\ c.op = cred[h].op /\ c.pc = "write" /\ c.id = id
      /\ c.slot = cred[h].slot /\ c.steady = cred[h].steady
      /\ c.crossed <=> cred[h].crossed
      /\ c.host = cred[h].host
  BY <1>1, <1>2 DEF CredCallType, id
<1> HIDE DEF c
<1>5. CallOK(c)
  BY <1>1, <1>2, <1>4 DEF CallOK, Connecting, id
<1> QED
  BY <1>1, <1>3, <1>4, <1>5, CredStepKeeps

LEMMA StartCreateKeeps ==
  ASSUME CredIInv, NEW h \in Handlers, NEW b \in Bindings, NEW k \in Kinds, StartCreate(h, b, k)
  PROVE  CredIInv'
<1>1. UNCHANGED <<host, vault, changes>>
  BY DEF StartCreate
<1>2. CASE Finish(h, "failed")
  BY <1>1, <1>2, FinishKeeps
<1> DEFINE slot == [binding |-> b, kind |-> k]
           c == [IdleCred EXCEPT !.op = "create", !.pc = "write", !.owner = b.owner,
                                 !.slot = slot]
<1>3. CASE NormalizeBinding(b) /\ Goto(h, c)
  <2>1. slot \in Slots /\ b.owner \in Members \cup {Shared}
    BY <1>3 DEF StartCreate, Slots, Bindings
  <2> HIDE DEF slot
  <2>2. c \in CredCallType /\ c.op = "create" /\ c.steady = {}
    BY <2>1, CredTypes DEF CredCallType
  <2> HIDE DEF c
  <2>3. CallOK(c)
    BY <2>2 DEF CallOK, Connecting
  <2> QED
    BY <1>1, <1>3, <2>2, <2>3, CredStepKeeps
<1> QED
  BY <1>2, <1>3 DEF StartCreate

LEMMA StartUpdateKeeps ==
  ASSUME CredIInv, NEW h \in Handlers, NEW s \in Slots, StartUpdate(h, s)
  PROVE  CredIInv'
<1> DEFINE id == vault[s].id
           c == [IdleCred EXCEPT !.op = "update", !.pc = "write", !.slot = s,
                                 !.owner = s.binding.owner, !.id = id]
<1>1. UNCHANGED <<host, vault, changes>> /\ Goto(h, c)
  BY DEF StartUpdate
<1>2. id \in 0..(MaxCredChanges + 1) /\ id # 0 /\ s.binding.owner \in Members \cup {Shared}
  BY DEF StartUpdate, CredIInv, RowsOK, Slots, Bindings
<1> HIDE DEF id
<1>3. c \in CredCallType /\ c.op = "update" /\ c.id = id /\ c.steady = {}
  BY <1>2, CredTypes DEF CredCallType
<1> HIDE DEF c
<1>4. CallOK(c)
  BY <1>2, <1>3 DEF CallOK, Connecting
<1> QED
  BY <1>1, <1>3, <1>4, CredStepKeeps

LEMMA FindDisconnectedKeeps ==
  ASSUME CredIInv, NEW h \in Handlers, FindDisconnected(h)
  PROVE  CredIInv'
<1>1. /\ UNCHANGED <<host, vault, changes>> /\ cred[h].op = "disconnect"
      /\ cred[h] \in CredCallType /\ CallOK(cred[h]) /\ host \in HostType
  BY DEF FindDisconnected, CredAt, CredIInv
<1>2. CASE Finish(h, "failed")
  BY <1>1, <1>2, FinishKeeps
<1> DEFINE slot == SlotOf(cred[h].owner, host.auth)
           c == [cred[h] EXCEPT !.pc = "delete", !.slot = slot]
<1>3. CASE host.auth # "mtls" /\ Goto(h, c)
  <2>1. slot \in Slots
    BY <1>1, <1>3, SlotsOfOwners DEF CredCallType, HostType, AuthMethods, Kinds
  <2> HIDE DEF slot
  <2>2. c \in CredCallType /\ c.op = "disconnect" /\ c.steady = cred[h].steady
    BY <1>1, <2>1 DEF CredCallType
  <2> HIDE DEF c
  <2>3. CallOK(c)
    BY <1>1, <2>2 DEF CallOK, Connecting
  <2> QED
    BY <1>1, <1>3, <2>2, <2>3, CredStepKeeps
<1> QED
  BY <1>2, <1>3 DEF FindDisconnected

LEMMA ReadCallServerKeeps ==
  ASSUME CredIInv, NEW h \in Handlers, ReadCallServer(h)
  PROVE  CredIInv'
<1>1. /\ UNCHANGED <<host, vault, changes>> /\ cred[h].op \in {"call", "sync"}
      /\ cred[h] \in CredCallType /\ CallOK(cred[h]) /\ host \in HostType
  BY DEF ReadCallServer, CredAt, CredIInv
<1>2. CASE Finish(h, "failed")
  BY <1>1, <1>2, FinishKeeps
<1> DEFINE c == [cred[h] EXCEPT !.pc = "first", !.host = host]
<1>3. CASE Goto(h, c)
  <2>1. c \in CredCallType /\ c.op = cred[h].op /\ c.pc = "first" /\ c.steady = cred[h].steady
    BY <1>1 DEF CredCallType
  <2> HIDE DEF c
  <2>2. CallOK(c)
    BY <1>1, <2>1 DEF CallOK, Connecting
  <2> QED
    BY <1>1, <1>3, <2>1, <2>2, CredStepKeeps
<1> QED
  BY <1>2, <1>3 DEF ReadCallServer

\* Whom a call asks for its credential.
LEMMA AskedIs ==
  ASSUME NEW c \in CredCallType, c.op \in {"call", "sync"}
  PROVE  /\ Len(OwnersAsked(c)) \in {1, 2}
         /\ \A n \in 1..Len(OwnersAsked(c)) : OwnersAsked(c)[n] \in {c.owner, Shared}
<1>1. c.host.mode \in Modes
  BY DEF CredCallType, HostType
<1> QED
  BY <1>1 DEF OwnersAsked, GatewayOrder, SyncOrder, Modes

LEMMA AskOwnerKeeps ==
  ASSUME CredIInv, NEW h \in Handlers,
         NEW n \in {1, 2}, AskOwner(h, IF n = 1 THEN "first" ELSE "second", n)
  PROVE  CredIInv'
<1>1. /\ UNCHANGED <<host, vault, changes>> /\ cred[h].op \in {"call", "sync"}
      /\ cred[h].pc = IF n = 1 THEN "first" ELSE "second"
      /\ cred[h] \in CredCallType /\ CallOK(cred[h])
  BY DEF AskOwner, CredAt, CredIInv
<1>2. OrderOf(h) = OwnersAsked(cred[h])
  BY <1>1 DEF OrderOf, OwnersAsked
<1>3. /\ Len(OwnersAsked(cred[h])) \in {1, 2} /\ n <= Len(OwnersAsked(cred[h]))
      /\ OwnersAsked(cred[h])[n] \in {cred[h].owner, Shared}
  <2>1. /\ Len(OwnersAsked(cred[h])) \in {1, 2}
        /\ \A k \in 1..Len(OwnersAsked(cred[h])) : OwnersAsked(cred[h])[k] \in {cred[h].owner, Shared}
    BY <1>1, AskedIs
  <2>2. n = 2 => Len(OwnersAsked(cred[h])) = 2
    BY <1>1 DEF CallOK
  <2> DEFINE len == Len(OwnersAsked(cred[h]))
  <2>3. len \in {1, 2} /\ (n = 2 => len = 2)
    BY <2>1, <2>2
  <2> HIDE DEF len
  <2>4. len \in {1, 2} /\ n <= len /\ n \in 1..len
    BY <2>3
  <2> QED
    BY <2>1, <2>4 DEF len
<1> DEFINE o == OwnersAsked(cred[h])[n]
           c == [cred[h] EXCEPT !.pc = "second"]
<1>4. CASE \E x \in {o, "missing"} : Finish(h, x)
  <2>1. o \in Members \cup {Shared, "none", "ok", "failed", "fault", "missing"}
    BY <1>1, <1>3 DEF CredCallType
  <2> QED
    BY <1>1, <1>4, <2>1, FinishKeeps
<1>5. CASE /\ ~(vault[SlotOf(o, cred[h].host.auth)] # NoRow)
           /\ Len(OwnersAsked(cred[h])) > n /\ Goto(h, c)
  <2> DEFINE len == Len(OwnersAsked(cred[h]))
  <2> HIDE DEF len
  <2>6. len \in {1, 2} /\ n <= len /\ len > n
    BY <1>3, <1>5 DEF len
  <2>7. n = 1 /\ len = 2
    BY <2>6
  <2>1. n = 1 /\ Len(OwnersAsked(cred[h])) = 2
    BY <2>7 DEF len
  <2>2. /\ c \in CredCallType /\ c.op = cred[h].op /\ c.pc = "second" /\ c.steady = cred[h].steady
        /\ c.host = cred[h].host /\ c.owner = cred[h].owner
    BY <1>1 DEF CredCallType
  <2>3. SlotOf(o, cred[h].host.auth) \notin cred[h].steady
    BY <1>1, <1>5 DEF CallOK, Present
  <2>4. OwnersAsked(c) = OwnersAsked(cred[h])
    BY <2>2 DEF OwnersAsked
  <2> HIDE DEF c
  <2>5. CallOK(c)
    BY <1>1, <2>1, <2>2, <2>3, <2>4 DEF CallOK, Connecting
  <2> QED
    BY <1>1, <1>5, <2>2, <2>5, CredStepKeeps
<1> QED
  BY <1>2, <1>4, <1>5 DEF AskOwner

-----------------------------------------------------------------------------
(* Steps that change a row.                                                 *)

LEMMA CrossWritten ==
  ASSUME cred \in [Handlers -> CredCallType], NEW s \in Slots
  PROVE  /\ Cross(s, FALSE) \in [Handlers -> CredCallType]
         /\ \A g \in Handlers :
               /\ SameCall(cred[g], Cross(s, FALSE)[g])
               /\ Cross(s, FALSE)[g].steady = cred[g].steady
               /\ Cross(s, FALSE)[g].crossed
                     <=> (cred[g].crossed \/ (cred[g].pc # "idle" /\ cred[g].slot = s))
<1> DEFINE steady(g) == Quiet[g].steady
           crossed(g) == Quiet[g].crossed \/ (~Ready(g) /\ cred[g].slot = s)
           c(g) == [Quiet[g] EXCEPT !.crossed = crossed(g), !.steady = steady(g)]
<1>1. Cross(s, FALSE) = [g \in Handlers |-> c(g)]
  BY DEF Cross
<1>2. ASSUME NEW g \in Handlers
      PROVE  /\ c(g) \in CredCallType
             /\ SameCall(cred[g], c(g))
             /\ c(g).steady = cred[g].steady
             /\ c(g).crossed <=> (cred[g].crossed \/ (cred[g].pc # "idle" /\ cred[g].slot = s))
  <2>1. /\ Quiet[g] \in CredCallType /\ SameCall(cred[g], Quiet[g])
        /\ Quiet[g].steady = cred[g].steady
        /\ Quiet[g].crossed <=> cred[g].crossed
    BY QuietIs
  <2>2. steady(g) = cred[g].steady /\ steady(g) \in SUBSET Slots
    BY <2>1 DEF CredCallType
  <2>3. /\ crossed(g) \in BOOLEAN
        /\ crossed(g) <=> (cred[g].crossed \/ (cred[g].pc # "idle" /\ cred[g].slot = s))
    BY <2>1 DEF Ready, CredCallType
  <2> HIDE DEF steady, crossed
  <2> QED
    BY <2>1, <2>2, <2>3 DEF CredCallType, SameCall
<1> HIDE DEF c
<1> QED
  BY <1>1, <1>2

LEMMA CrossGone ==
  ASSUME cred \in [Handlers -> CredCallType], NEW s \in Slots
  PROVE  /\ Cross(s, TRUE) \in [Handlers -> CredCallType]
         /\ \A g \in Handlers :
               /\ SameCall(cred[g], Cross(s, TRUE)[g])
               /\ Cross(s, TRUE)[g].steady = cred[g].steady \ {s}
               /\ Cross(s, TRUE)[g].crossed
                     <=> (cred[g].crossed \/ (cred[g].pc # "idle" /\ cred[g].slot = s))
<1> DEFINE steady(g) == Quiet[g].steady \ {s}
           crossed(g) == Quiet[g].crossed \/ (~Ready(g) /\ cred[g].slot = s)
           c(g) == [Quiet[g] EXCEPT !.crossed = crossed(g), !.steady = steady(g)]
<1>1. Cross(s, TRUE) = [g \in Handlers |-> c(g)]
  BY DEF Cross
<1>2. ASSUME NEW g \in Handlers
      PROVE  /\ c(g) \in CredCallType
             /\ SameCall(cred[g], c(g))
             /\ c(g).steady = cred[g].steady \ {s}
             /\ c(g).crossed <=> (cred[g].crossed \/ (cred[g].pc # "idle" /\ cred[g].slot = s))
  <2>1. /\ Quiet[g] \in CredCallType /\ SameCall(cred[g], Quiet[g])
        /\ Quiet[g].steady = cred[g].steady
        /\ Quiet[g].crossed <=> cred[g].crossed
    BY QuietIs
  <2>2. steady(g) = cred[g].steady \ {s} /\ steady(g) \in SUBSET Slots
    BY <2>1 DEF CredCallType
  <2>3. /\ crossed(g) \in BOOLEAN
        /\ crossed(g) <=> (cred[g].crossed \/ (cred[g].pc # "idle" /\ cred[g].slot = s))
    BY <2>1 DEF Ready, CredCallType
  <2> HIDE DEF steady, crossed
  <2> QED
    BY <2>1, <2>2, <2>3 DEF CredCallType, SameCall
<1> HIDE DEF c
<1> QED
  BY <1>1, <1>2

\* new is what becomes of the handlers when slot s gets this row.
CrossedAt(new, s, row) ==
    /\ new \in [Handlers -> CredCallType]
    /\ \A g \in Handlers :
          /\ SameCall(cred[g], new[g])
          /\ new[g].steady = IF row = NoRow THEN cred[g].steady \ {s} ELSE cred[g].steady
          /\ new[g].crossed <=> (cred[g].crossed \/ (cred[g].pc # "idle" /\ cred[g].slot = s))

\* A row is written, or goes, and the handler that did it is done.
LEMMA RowChanges ==
  ASSUME CredIInv, NEW h \in Handlers, NEW s \in Slots, NEW new,
         NEW o \in Members \cup {Shared, "none", "ok", "failed", "fault", "missing"},
         NEW row \in [id : 0..(MaxCredChanges + 1), sealed : Slots],
         row = NoRow \/ (row.id # 0 /\ row.sealed = s /\ host.present),
         vault' = [vault EXCEPT ![s] = row], CountChange, UNCHANGED host,
         CrossedAt(new, s, row),
         cred' = [new EXCEPT ![h] = Outcome(o)] \/ cred' = new
  PROVE  CredIInv'
<1>1. /\ cred \in [Handlers -> CredCallType] /\ changes \in 0..MaxCredChanges
      /\ vault \in [Slots -> [id : 0..(MaxCredChanges + 1), sealed : Slots]]
      /\ host \in HostType /\ RowsOK
      /\ \A g \in Handlers : CallOK(cred[g])
  BY DEF CredIInv
<1>2. changes' \in 0..MaxCredChanges
  BY <1>1, CredentialsAssumption DEF CountChange
<1>3. /\ vault' \in [Slots -> [id : 0..(MaxCredChanges + 1), sealed : Slots]]
      /\ vault'[s] = row /\ \A r \in Slots \ {s} : vault'[r] = vault[r]
  BY <1>1
<1>4. Present' \subseteq IF row = NoRow THEN Present \ {s} ELSE Present \cup {s}
  BY <1>3 DEF Present
<1>5. IF row = NoRow THEN Present \ {s} \subseteq Present' ELSE Present \subseteq Present'
  BY <1>3 DEF Present
<1>6. RowsOK'
  BY <1>1, <1>3, <1>4 DEF RowsOK
<1>7. /\ new \in [Handlers -> CredCallType]
      /\ \A g \in Handlers :
            /\ SameCall(cred[g], new[g])
            /\ new[g].steady = IF row = NoRow THEN cred[g].steady \ {s} ELSE cred[g].steady
            /\ new[g].crossed <=> (cred[g].crossed \/ (cred[g].pc # "idle" /\ cred[g].slot = s))
  BY DEF CrossedAt
<1>8. /\ cred' \in [Handlers -> CredCallType]
      /\ \A g \in Handlers : cred'[g] = new[g] \/ cred'[g] = Outcome(o)
  BY <1>7, IdleRelies
<1>9. ASSUME NEW g \in Handlers PROVE CallOK(cred[g])'
  <2>1. CASE cred'[g] = Outcome(o)
    BY <2>1, IdleRelies DEF CallOK, Connecting
  <2>2. CASE cred'[g] = new[g]
    <3>1. cred'[g].steady \subseteq cred[g].steady /\ cred'[g].steady \subseteq Present'
      BY <1>1, <1>5, <1>7, <2>2 DEF CallOK
    <3>2. ~cred'[g].crossed /\ cred[g].pc # "idle" => vault'[cred[g].slot] = vault[cred[g].slot]
      BY <1>1, <1>3, <1>7, <2>2 DEF CredCallType
    <3> QED
      BY <1>7, <2>2, <3>1, <3>2, OthersRely
  <2> QED
    BY <1>8, <2>1, <2>2
<1> QED
  BY <1>1, <1>2, <1>3, <1>6, <1>8, <1>9 DEF CredIInv

\* A row that is written is of the slot it is written to.
LEMMA WriteKeeps ==
  ASSUME CredIInv, NEW h \in Handlers, NEW s \in Slots,
         NEW id \in 1..(MaxCredChanges + 1), host.present,
         WriteRow(h, s, id, "ok"), CountChange, UNCHANGED host
  PROVE  CredIInv'
<1> DEFINE row == [id |-> id, sealed |-> s]
<1>1. /\ row \in [id : 0..(MaxCredChanges + 1), sealed : Slots] /\ row.id # 0 /\ row.sealed = s
  BY CredTypes
<1> DEFINE new == Cross(s, FALSE)
<1>2. vault' = [vault EXCEPT ![s] = row] /\ cred' = [new EXCEPT ![h] = Outcome("ok")]
  BY DEF WriteRow
<1>3. row # NoRow /\ CountChange /\ UNCHANGED host /\ host.present
  BY <1>1, CredTypes
<1>4. CrossedAt(new, s, row)
  BY <1>3, CrossWritten DEF CredIInv, CrossedAt
<1>5. "ok" \in Members \cup {Shared, "none", "ok", "failed", "fault", "missing"}
  OBVIOUS
<1> HIDE DEF row, new
<1> QED
  BY <1>1, <1>2, <1>3, <1>4, <1>5, RowChanges

\* Where there is a row there is a server.
LEMMA RowOfServer ==
  ASSUME CredIInv, NEW s \in Slots, vault[s].id # 0
  PROVE  host.present /\ vault[s].id \in 1..(MaxCredChanges + 1)
<1>1. s \in Present
  BY CredTypes DEF Present
<1>2. host \in HostType /\ vault[s].id \in 0..(MaxCredChanges + 1)
  BY DEF CredIInv
<1> QED
  BY <1>1, <1>2, CredTypes DEF CredIInv, RowsOK

LEMMA UpdateFoundKeeps ==
  ASSUME CredIInv, NEW h \in Handlers, UpdateFound(h)
  PROVE  CredIInv'
<1> DEFINE s == cred[h].slot
<1>1. s \in Slots /\ cred[h].id # 0 /\ UNCHANGED host
  BY DEF CredIInv, CredCallType, UpdateFound
<1>2. CASE vault[s].id = cred[h].id /\ CountChange /\ WriteRow(h, s, cred[h].id, "ok")
  <2> HIDE DEF s
  <2>1. host.present /\ cred[h].id \in 1..(MaxCredChanges + 1)
    BY <1>1, <1>2, RowOfServer
  <2> QED
    BY <1>1, <1>2, <2>1, WriteKeeps
<1>3. CASE (\E o \in {"failed", "ok"} : Finish(h, o)) /\ UNCHANGED <<vault, changes>>
  BY <1>1, <1>3, FinishKeeps
<1> QED
  BY <1>2, <1>3 DEF UpdateFound

LEMMA InsertNewKeeps ==
  ASSUME CredIInv, NEW h \in Handlers, InsertNew(h)
  PROVE  CredIInv'
<1> DEFINE s == cred[h].slot
<1>1. s \in Slots /\ UNCHANGED host
  BY DEF CredIInv, CredCallType, InsertNew
<1>2. CASE host.present /\ CountChange /\ WriteRow(h, s, FreshId, "ok")
  <2> HIDE DEF s
  <2>1. FreshId \in 1..(MaxCredChanges + 1)
    BY <1>2, CredTypes DEF CredIInv, CountChange, FreshId
  <2> QED
    BY <1>1, <1>2, <2>1, WriteKeeps
<1>3. CASE Finish(h, "failed") /\ UNCHANGED <<vault, changes>>
  BY <1>1, <1>3, FinishKeeps
<1> QED
  BY <1>2, <1>3 DEF InsertNew

LEMMA UpdateSecretKeeps ==
  ASSUME CredIInv, NEW h \in Handlers, UpdateSecret(h)
  PROVE  CredIInv'
<1> DEFINE s == cred[h].slot
<1>1. s \in Slots /\ UNCHANGED host /\ cred[h].id # 0
  BY DEF CredIInv, CredCallType, UpdateSecret, CredAt, CallOK
<1>2. CASE vault[s].id = cred[h].id /\ CountChange /\ WriteRow(h, s, cred[h].id, "ok")
  <2> HIDE DEF s
  <2>1. host.present /\ cred[h].id \in 1..(MaxCredChanges + 1)
    BY <1>1, <1>2, RowOfServer
  <2> QED
    BY <1>1, <1>2, <2>1, WriteKeeps
<1>3. CASE Finish(h, "failed") /\ UNCHANGED <<vault, changes>>
  BY <1>1, <1>3, FinishKeeps
<1> QED
  BY <1>2, <1>3 DEF UpdateSecret

LEMMA RemoveSecretKeeps ==
  ASSUME CredIInv, NEW s \in Slots, RemoveSecret(s)
  PROVE  CredIInv'
<1>1. /\ vault' = [vault EXCEPT ![s] = NoRow] /\ CountChange /\ UNCHANGED host
      /\ cred' = Cross(s, TRUE)
  BY DEF RemoveSecret
<1>2. CASE Handlers = {}
  <2>1. cred' \in [Handlers -> CredCallType]
    BY <1>1, CrossGone DEF CredIInv
  <2>2. RowsOK' /\ vault' \in [Slots -> [id : 0..(MaxCredChanges + 1), sealed : Slots]]
    BY <1>1, CredTypes DEF CredIInv, RowsOK, Present
  <2>3. changes' \in 0..MaxCredChanges
    BY <1>1, CredTypes DEF CredIInv, CountChange
  <2> QED
    BY <1>1, <1>2, <2>1, <2>2, <2>3 DEF CredIInv
<1> DEFINE new == Cross(s, TRUE)
<1>3. CrossedAt(new, s, NoRow)
  BY CrossGone DEF CredIInv, CrossedAt
<1>4. ASSUME NEW h \in Handlers PROVE CredIInv'
  <2>1. cred' = new
    BY <1>1
  <2>2. NoRow \in [id : 0..(MaxCredChanges + 1), sealed : Slots]
    BY CredTypes
  <2>3. "ok" \in Members \cup {Shared, "none", "ok", "failed", "fault", "missing"}
    OBVIOUS
  <2> HIDE DEF new
  <2> QED
    BY <1>1, <1>3, <2>1, <2>2, <2>3, RowChanges
<1> QED
  BY <1>2, <1>4

LEMMA DeleteMyCredentialKeeps ==
  ASSUME CredIInv, NEW h \in Handlers, DeleteMyCredential(h)
  PROVE  CredIInv'
<1> DEFINE s == cred[h].slot
<1>1. s \in Slots /\ UNCHANGED host
  BY DEF CredIInv, CredCallType, DeleteMyCredential
<1>2. CASE /\ CountChange /\ vault' = [vault EXCEPT ![s] = NoRow]
           /\ cred' = [Cross(s, TRUE) EXCEPT ![h] = Outcome("ok")]
  <2> HIDE DEF s
  <2> DEFINE new == Cross(s, TRUE)
  <2>1. CrossedAt(new, s, NoRow)
    BY <1>1, CrossGone DEF CredIInv, CrossedAt
  <2>2. cred' = [new EXCEPT ![h] = Outcome("ok")]
    BY <1>2
  <2>3. NoRow \in [id : 0..(MaxCredChanges + 1), sealed : Slots]
    BY CredTypes
  <2>4. "ok" \in Members \cup {Shared, "none", "ok", "failed", "fault", "missing"}
    OBVIOUS
  <2> HIDE DEF new
  <2> QED
    BY <1>1, <1>2, <2>1, <2>2, <2>3, <2>4, RowChanges
<1>3. CASE Finish(h, "failed") /\ UNCHANGED <<vault, changes>>
  BY <1>1, <1>3, FinishKeeps
<1> QED
  BY <1>2, <1>3 DEF DeleteMyCredential

LEMMA EditHostKeeps ==
  ASSUME CredIInv, NEW auth \in AuthMethods, NEW mode \in Modes, EditHost(auth, mode)
  PROVE  CredIInv'
<1>1. /\ host' = [host EXCEPT !.auth = auth, !.mode = mode] /\ host.present
      /\ CountChange /\ cred' = Quiet /\ vault' = vault
  BY DEF EditHost
<1>2. host' \in HostType /\ host'.present
  BY <1>1 DEF CredIInv, HostType
<1>3. changes' \in 0..MaxCredChanges
  BY <1>1, CredTypes DEF CredIInv, CountChange
<1>4. /\ cred' \in [Handlers -> CredCallType]
      /\ \A g \in Handlers : /\ SameCall(cred[g], cred'[g])
                             /\ cred'[g].steady = cred[g].steady
                             /\ cred'[g].crossed <=> cred[g].crossed
  BY <1>1, QuietIs DEF CredIInv
<1>5. Present' = Present
  BY <1>1 DEF Present
<1>6. \A g \in Handlers : CallOK(cred[g])'
  BY <1>1, <1>2, <1>4, <1>5, OthersRely DEF CredIInv, CallOK
<1>7. RowsOK'
  BY <1>1, <1>2, <1>5 DEF CredIInv, RowsOK
<1> QED
  BY <1>1, <1>2, <1>3, <1>4, <1>6, <1>7 DEF CredIInv

LEMMA DeleteHostKeeps ==
  ASSUME CredIInv, DeleteHost
  PROVE  CredIInv'
<1>1. changes' \in 0..MaxCredChanges /\ host' = NoHost
  <2>1. CountChange /\ host' = NoHost
    BY DEF DeleteHost
  <2>2. MaxCredChanges \in Nat /\ changes \in 0..MaxCredChanges
    BY CredTypes DEF CredIInv
  <2> QED
    BY <2>1, <2>2 DEF CountChange
<1>2. /\ vault' = [s \in Slots |-> NoRow]
      /\ vault' \in [Slots -> [id : 0..(MaxCredChanges + 1), sealed : Slots]]
      /\ Present' = {} /\ RowsOK'
  BY CredTypes DEF DeleteHost, Present, RowsOK
<1> DEFINE crossed(g) == Quiet[g].crossed \/ ~Ready(g)
           c(g) == [Quiet[g] EXCEPT !.crossed = crossed(g), !.steady = {}]
<1>3. cred' = [g \in Handlers |-> c(g)]
  BY DEF DeleteHost
<1>4. ASSUME NEW g \in Handlers
      PROVE  /\ c(g) \in CredCallType /\ SameCall(cred[g], c(g)) /\ c(g).steady = {}
             /\ c(g).crossed <=> (cred[g].crossed \/ cred[g].pc # "idle")
  <2>1. /\ Quiet[g] \in CredCallType /\ SameCall(cred[g], Quiet[g])
        /\ Quiet[g].crossed <=> cred[g].crossed
    BY QuietIs DEF CredIInv
  <2>2. /\ crossed(g) \in BOOLEAN
        /\ crossed(g) <=> (cred[g].crossed \/ cred[g].pc # "idle")
    BY <2>1 DEF Ready, CredCallType
  <2> HIDE DEF crossed
  <2> QED
    BY <2>1, <2>2 DEF CredCallType, SameCall
<1> HIDE DEF c
<1>5. /\ cred' \in [Handlers -> CredCallType]
      /\ \A g \in Handlers : cred'[g] = c(g)
  BY <1>3, <1>4
<1>6. \A g \in Handlers : CallOK(cred[g])'
  BY <1>2, <1>4, <1>5, OthersRely
<1> QED
  BY <1>1, <1>2, <1>5, <1>6, CredTypes DEF CredIInv

-----------------------------------------------------------------------------
(* The invariant, and what it says.                                         *)

LEMMA CredInitKeeps == CredInit => CredIInv
<1> SUFFICES ASSUME CredInit PROVE CredIInv
  OBVIOUS
<1>1. host \in HostType /\ host.present
  BY DEF CredInit, HostType, Kinds, AuthMethods
<1>2. changes \in 0..MaxCredChanges
  BY CredTypes DEF CredInit
<1>3. /\ cred \in [Handlers -> CredCallType]
      /\ \A h \in Handlers : CallOK(cred[h])
  BY CredTypes DEF CredInit, CallOK, Connecting
<1>4. PICK owners \in SUBSET (Callers \cup {Shared}), kind \in Kinds :
         vault = [s \in Slots |-> IF /\ s.kind = kind
                                     /\ s.binding.owner \in owners \cup (Members \ Callers)
                                  THEN [id |-> 1, sealed |-> s] ELSE NoRow]
  BY DEF CredInit
<1>5. ASSUME NEW s \in Slots
      PROVE  /\ [id |-> 1, sealed |-> s] \in [id : 0..(MaxCredChanges + 1), sealed : Slots]
             /\ vault[s] = NoRow \/ (vault[s].id # 0 /\ vault[s].sealed = s)
             /\ vault[s] \in {NoRow, [id |-> 1, sealed |-> s]}
  BY <1>4, CredTypes
<1>6. vault \in [Slots -> [id : 0..(MaxCredChanges + 1), sealed : Slots]]
  BY <1>4, <1>5, CredTypes
<1> QED
  BY <1>1, <1>2, <1>3, <1>5, <1>6 DEF CredIInv, RowsOK

LEMMA StutterKeeps == CredIInv /\ UNCHANGED credVars => CredIInv'
<1> SUFFICES ASSUME CredIInv, UNCHANGED credVars PROVE CredIInv'
  OBVIOUS
<1>1. host' = host /\ vault' = vault /\ cred' = cred /\ changes' = changes
  BY DEF credVars
<1>2. Present' = Present
  BY <1>1 DEF Present
<1>3. \A h \in Handlers : CallOK(cred[h])'
  BY <1>1, <1>2 DEF CredIInv, CallOK
<1> QED
  BY <1>1, <1>2, <1>3 DEF CredIInv, RowsOK

\* What h itself may do.
Acts(h) ==
    \/ \E m \in Callers :
          \/ StartUpsert(h, m) \/ StartCallback(h, m) \/ StartDisconnect(h, m)
          \/ \E op \in {"call", "sync"} : StartCall(h, m, op)
    \/ FindServer(h) \/ FindCallbackServer(h) \/ FindExisting(h)
    \/ UpdateFound(h) \/ InsertNew(h) \/ UpdateSecret(h)
    \/ FindDisconnected(h) \/ DeleteMyCredential(h)
    \/ FailCred(h) \/ ReadCallServer(h)
    \/ AskOwner(h, "first", 1) \/ AskOwner(h, "second", 2)
    \/ \E b \in Bindings, k \in Kinds : StartCreate(h, b, k)
    \/ \E s \in Slots : StartUpdate(h, s)

LEMMA CredNextIs ==
  ASSUME CredNext
  PROVE  \/ \E h \in Handlers : Acts(h)
         \/ \E s \in Slots : RemoveSecret(s)
         \/ \E auth \in AuthMethods, mode \in Modes : EditHost(auth, mode)
         \/ DeleteHost
BY DEF CredNext, Acts

LEMMA ActsKeeps ==
  ASSUME CredIInv, NEW h \in Handlers, Acts(h)
  PROVE  CredIInv'
<1>1. CASE \E m \in Callers :
             \/ StartUpsert(h, m) \/ StartCallback(h, m) \/ StartDisconnect(h, m)
             \/ \E op \in {"call", "sync"} : StartCall(h, m, op)
  BY <1>1, StartUpsertKeeps, StartCallbackKeeps, StartDisconnectKeeps, StartCallKeeps
<1>2. CASE FindServer(h) \/ FindCallbackServer(h) \/ FindExisting(h)
  BY <1>2, FindServerKeeps, FindCallbackServerKeeps, FindExistingKeeps
<1>3. CASE UpdateFound(h) \/ InsertNew(h) \/ UpdateSecret(h)
  BY <1>3, UpdateFoundKeeps, InsertNewKeeps, UpdateSecretKeeps
<1>4. CASE FindDisconnected(h) \/ DeleteMyCredential(h) \/ ReadCallServer(h)
  BY <1>4, FindDisconnectedKeeps, DeleteMyCredentialKeeps, ReadCallServerKeeps
<1>5. CASE FailCred(h)
  BY <1>5, FinishKeeps DEF FailCred
<1>6. CASE AskOwner(h, "first", 1)
  <2>1. AskOwner(h, IF 1 = 1 THEN "first" ELSE "second", 1)
    BY <1>6
  <2> QED
    BY <2>1, AskOwnerKeeps
<1>7. CASE AskOwner(h, "second", 2)
  <2>1. AskOwner(h, IF 2 = 1 THEN "first" ELSE "second", 2)
    BY <1>7
  <2> QED
    BY <2>1, AskOwnerKeeps
<1>8. CASE \E b \in Bindings, k \in Kinds : StartCreate(h, b, k)
  BY <1>8, StartCreateKeeps
<1>9. CASE \E s \in Slots : StartUpdate(h, s)
  BY <1>9, StartUpdateKeeps
<1> QED
  BY <1>1, <1>2, <1>3, <1>4, <1>5, <1>6, <1>7, <1>8, <1>9 DEF Acts

LEMMA CredNextKeeps == CredIInv /\ [CredNext]_credVars => CredIInv'
BY CredNextIs, ActsKeeps, RemoveSecretKeeps, EditHostKeeps, DeleteHostKeeps, StutterKeeps

\* A handler that does not act itself stays at what it does.
LEMMA ActsOrStays ==
  ASSUME CredIInv, [CredNext]_credVars, NEW h \in Handlers
  PROVE  Acts(h) \/ (cred'[h].op = cred[h].op /\ cred'[h].pc = cred[h].pc)
<1> DEFINE Stays(f) == f[h].op = cred[h].op /\ f[h].pc = cred[h].pc
<1>1. /\ cred \in [Handlers -> CredCallType]
      /\ Quiet \in [Handlers -> CredCallType] /\ Stays(Quiet)
      /\ \A s \in Slots :
            /\ Cross(s, TRUE) \in [Handlers -> CredCallType] /\ Stays(Cross(s, TRUE))
            /\ Cross(s, FALSE) \in [Handlers -> CredCallType] /\ Stays(Cross(s, FALSE))
  <2>1. cred \in [Handlers -> CredCallType]
    BY DEF CredIInv
  <2>2. Quiet \in [Handlers -> CredCallType] /\ SameCall(cred[h], Quiet[h])
    BY <2>1, QuietIs
  <2>3. ASSUME NEW s \in Slots
        PROVE  /\ Cross(s, TRUE) \in [Handlers -> CredCallType]
               /\ SameCall(cred[h], Cross(s, TRUE)[h])
    BY <2>1, CrossGone
  <2>4. ASSUME NEW s \in Slots
        PROVE  /\ Cross(s, FALSE) \in [Handlers -> CredCallType]
               /\ SameCall(cred[h], Cross(s, FALSE)[h])
    BY <2>1, CrossWritten
  <2> QED
    BY <2>1, <2>2, <2>3, <2>4 DEF SameCall
<1>2. CASE UNCHANGED credVars
  BY <1>2 DEF credVars
<1>3. ASSUME NEW s \in Slots, RemoveSecret(s) PROVE Stays(cred')
  BY <1>1, <1>3 DEF RemoveSecret
<1>4. ASSUME NEW auth \in AuthMethods, NEW mode \in Modes, EditHost(auth, mode)
      PROVE  Stays(cred')
  BY <1>1, <1>4 DEF EditHost
<1>5. CASE DeleteHost
  <2>1. cred'[h] = [Quiet[h] EXCEPT !.crossed = @ \/ ~Ready(h), !.steady = {}]
    BY <1>5 DEF DeleteHost
  <2> QED
    BY <1>1, <2>1 DEF CredCallType
<1>6. ASSUME NEW g \in Handlers \ {h}, Acts(g) PROVE Stays(cred')
  <2>1. ASSUME NEW c, Goto(g, c) PROVE Stays(cred')
    BY <1>1, <2>1 DEF Goto
  <2>2. ASSUME NEW record, Begin(g, record) PROVE Stays(cred')
    BY <1>1, <2>2 DEF Begin
  <2>3. \A o : Finish(g, o) => Stays(cred')
    BY <2>1 DEF Finish
  <2>4. ASSUME NEW s \in Slots, NEW id, NEW o, WriteRow(g, s, id, o) PROVE Stays(cred')
    BY <1>1, <2>4 DEF WriteRow
  <2>5. cred[g].slot \in Slots
    BY DEF CredIInv, CredCallType
  <2>6. ASSUME NEW o, cred' = [Cross(cred[g].slot, TRUE) EXCEPT ![g] = Outcome(o)] PROVE Stays(cred')
    BY <1>1, <2>5, <2>6
  <2> HIDE DEF Stays
  <2>7. CASE \E m \in Callers :
               \/ StartUpsert(g, m) \/ StartCallback(g, m) \/ StartDisconnect(g, m)
               \/ \E op \in {"call", "sync"} : StartCall(g, m, op)
    BY <2>2, <2>7 DEF StartUpsert, StartCallback, StartDisconnect, StartCall
  <2>8. CASE FindServer(g) \/ FindCallbackServer(g) \/ FindExisting(g)
    BY <2>1, <2>3, <2>8 DEF FindServer, FindCallbackServer, FindExisting
  <2>9. CASE UpdateFound(g) \/ InsertNew(g) \/ UpdateSecret(g)
    BY <2>3, <2>4, <2>5, <2>9 DEF UpdateFound, InsertNew, UpdateSecret
  <2>10. CASE FindDisconnected(g) \/ ReadCallServer(g) \/ FailCred(g)
    BY <2>1, <2>3, <2>10 DEF FindDisconnected, ReadCallServer, FailCred
  <2>11. CASE DeleteMyCredential(g)
    BY <2>3, <2>6, <2>11 DEF DeleteMyCredential
  <2>12. CASE AskOwner(g, "first", 1) \/ AskOwner(g, "second", 2)
    BY <2>1, <2>3, <2>12 DEF AskOwner
  <2>13. CASE \E b \in Bindings, k \in Kinds : StartCreate(g, b, k)
    BY <2>1, <2>3, <2>13 DEF StartCreate
  <2>14. CASE \E s \in Slots : StartUpdate(g, s)
    BY <2>1, <2>14 DEF StartUpdate
  <2> QED
    BY <1>6, <2>7, <2>8, <2>9, <2>10, <2>11, <2>12, <2>13, <2>14 DEF Acts
<1> QED
  BY <1>2, <1>3, <1>4, <1>5, <1>6, CredNextIs

LEMMA CredTypeFollows == CredIInv => CredTypeOK
BY DEF CredIInv, CredTypeOK, HostType, RowsOK, CredCallType, Slots

LEMMA SealedFollows == CredIInv => SealedForReaders
<1> SUFFICES ASSUME CredIInv, NEW s \in Present
             PROVE  vault[s].sealed = s /\ \E o \in Members \cup {Shared} : s = SlotOf(o, s.kind)
  BY DEF SealedForReaders
<1>1. s \in Slots /\ vault[s] # NoRow
  BY DEF Present
<1> QED
  BY <1>1, SlotIsOfOwner DEF CredIInv, RowsOK

LEMMA ReadinessFollows == CredIInv => ReadinessAgrees
<1> SUFFICES ASSUME CredIInv, NEW m \in Members
             PROVE  Readiness(m) = GatewayFinds(m)
  BY DEF ReadinessAgrees
<1> DEFINE order == GatewayOrder(host.mode, m)
           has(o) == SlotOf(o, host.auth) \in Present
           hits == {n \in 1..Len(order) : has(order[n])}
           first == CHOOSE n \in hits : \A k \in hits : n <= k
<1>1. GatewayFinds(m) = IF hits = {} THEN "missing" ELSE order[first]
  BY DEF GatewayFinds
<1>2. Readiness(m) = IF host.mode = "shared" THEN IF has(Shared) THEN Shared ELSE "missing"
                     ELSE IF host.mode = "subject_required" THEN IF has(m) THEN m ELSE "missing"
                     ELSE IF has(m) THEN m ELSE IF has(Shared) THEN Shared ELSE "missing"
  BY DEF Readiness
<1>3. ASSUME NEW n \in hits, \A k \in hits : n <= k
      PROVE  first = n
  <2>1. first \in hits /\ \A k \in hits : first <= k
    BY <1>3
  <2>2. hits \subseteq Int
    OBVIOUS
  <2> HIDE DEF hits, first
  <2> QED
    BY <1>3, <2>1, <2>2
<1> HIDE DEF first
<1>4. CASE host.mode = "shared"
  <2>1. order = <<Shared>>
    BY <1>4 DEF GatewayOrder
  <2>2. hits = IF has(Shared) THEN {1} ELSE {}
    BY <2>1
  <2> HIDE DEF has, hits, order
  <2> QED
    BY <1>1, <1>2, <1>3, <1>4, <2>1, <2>2
<1>5. CASE host.mode = "subject_required"
  <2>1. order = <<m>>
    BY <1>5 DEF GatewayOrder
  <2>2. hits = IF has(m) THEN {1} ELSE {}
    BY <2>1
  <2> HIDE DEF has, hits, order
  <2> QED
    BY <1>1, <1>2, <1>3, <1>5, <2>1, <2>2
<1>6. CASE host.mode = "either"
  <2>1. order = <<m, Shared>>
    BY <1>6 DEF GatewayOrder
  <2>2. /\ 1 \in hits <=> has(m)
        /\ 2 \in hits <=> has(Shared)
        /\ hits \subseteq {1, 2}
    BY <2>1
  <2> HIDE DEF has, hits, order
  <2>3. CASE has(m)
    BY <1>1, <1>2, <1>3, <1>6, <2>1, <2>2, <2>3
  <2>4. CASE ~has(m) /\ has(Shared)
    <3>1. hits = {2}
      BY <2>2, <2>4
    <3> QED
      BY <1>1, <1>2, <1>3, <1>6, <2>1, <2>4, <3>1
  <2>5. CASE ~has(m) /\ ~has(Shared)
    <3>1. hits = {}
      BY <2>2, <2>5
    <3> QED
      BY <1>1, <1>2, <1>6, <2>5, <3>1
  <2> QED
    BY <2>3, <2>4, <2>5
<1> QED
  BY <1>4, <1>5, <1>6 DEF CredIInv, HostType, Modes

-----------------------------------------------------------------------------
(* What a step may never do.                                                *)

\* How a search for a credential ends.
LEMMA SearchEnds ==
  ASSUME CredIInv, [CredNext]_credVars, NEW h \in Handlers, Asking(h), cred'[h].pc = "idle"
  PROVE  \/ cred'[h].outcome \in {cred[h].owner, Shared, "fault"}
         \/ /\ cred'[h].outcome = "missing"
            /\ \A n \in 1..Len(OrderOf(h)) :
                  SlotOf(OrderOf(h)[n], cred[h].host.auth) \notin cred[h].steady
<1>1. /\ cred[h].op \in {"call", "sync"} /\ cred[h].pc \in {"first", "second"}
      /\ cred[h] \in CredCallType /\ CallOK(cred[h]) /\ cred \in [Handlers -> CredCallType]
  BY DEF Asking, CredIInv
<1>2. Acts(h)
  BY <1>1, ActsOrStays
<1>3. FailCred(h) \/ AskOwner(h, "first", 1) \/ AskOwner(h, "second", 2)
  BY <1>1, <1>2 DEF Acts, StartUpsert, StartCallback, StartDisconnect, StartCall, Begin, Ready,
     FindServer, FindCallbackServer, FindExisting, UpdateFound, InsertNew, UpdateSecret,
     FindDisconnected, DeleteMyCredential, ReadCallServer, StartCreate, StartUpdate, CredAt
<1>4. ASSUME NEW o, Finish(h, o) PROVE cred'[h] = Outcome(o)
  BY <1>1, <1>4, QuietIs DEF Finish, Goto
<1>5. CASE FailCred(h)
  BY <1>4, <1>5, IdleRelies DEF FailCred
<1>6. OrderOf(h) = OwnersAsked(cred[h])
  BY <1>1 DEF OrderOf, OwnersAsked
<1> DEFINE owners == OwnersAsked(cred[h])
           slot(n) == SlotOf(owners[n], cred[h].host.auth)
<1>7. /\ Len(owners) \in {1, 2}
      /\ \A n \in 1..Len(owners) : owners[n] \in {cred[h].owner, Shared}
  BY <1>1, AskedIs
<1> HIDE DEF owners
<1>8. ASSUME NEW n \in {1, 2}, n \in 1..Len(owners),
             \/ vault[slot(n)] # NoRow /\ Finish(h, owners[n])
             \/ ~(vault[slot(n)] # NoRow) /\ Len(owners) > n
                /\ Goto(h, [cred[h] EXCEPT !.pc = "second"])
             \/ ~(vault[slot(n)] # NoRow) /\ ~(Len(owners) > n) /\ Finish(h, "missing")
      PROVE  \/ cred'[h].outcome \in {cred[h].owner, Shared, "fault"}
             \/ /\ cred'[h].outcome = "missing" /\ Len(owners) = n
                /\ slot(n) \notin cred[h].steady
  <2>1. CASE Finish(h, owners[n])
    <3>1. owners[n] \in {cred[h].owner, Shared} /\ cred[h].owner \in Members \cup {Shared}
      BY <1>1, <1>7, <1>8 DEF CredCallType
    <3> QED
      BY <1>4, <2>1, <3>1, IdleRelies
  <2>2. CASE Goto(h, [cred[h] EXCEPT !.pc = "second"])
    <3>1. cred'[h] = [cred[h] EXCEPT !.pc = "second"]
      BY <1>1, <2>2, QuietIs DEF Goto
    <3> QED
      BY <1>1, <3>1 DEF CredCallType
  <2>3. CASE ~(vault[slot(n)] # NoRow) /\ ~(Len(owners) > n) /\ Finish(h, "missing")
    <3>1. slot(n) \notin cred[h].steady
      BY <1>1, <2>3 DEF CallOK, Present
    <3> DEFINE len == Len(owners)
    <3>2. len \in {1, 2} /\ n \in 1..len /\ ~(len > n)
      BY <1>7, <1>8, <2>3
    <3> HIDE DEF len
    <3>3. len = n
      BY <3>2
    <3> QED
      BY <1>4, <2>3, <3>1, <3>3, IdleRelies DEF len
  <2> QED
    BY <1>8, <2>1, <2>2, <2>3
<1>9. CASE AskOwner(h, "first", 1)
  <2> DEFINE len == Len(owners)
  <2>10. len \in {1, 2}
    BY <1>7
  <2> HIDE DEF len
  <2>11. 1 \in 1..len
    BY <2>10
  <2>1. 1 \in 1..Len(owners)
    BY <2>11 DEF len
  <2>2. \/ vault[slot(1)] # NoRow /\ Finish(h, owners[1])
        \/ ~(vault[slot(1)] # NoRow) /\ Len(owners) > 1
           /\ Goto(h, [cred[h] EXCEPT !.pc = "second"])
        \/ ~(vault[slot(1)] # NoRow) /\ ~(Len(owners) > 1) /\ Finish(h, "missing")
    BY <1>6, <1>9 DEF AskOwner, owners
  <2>3. \/ cred'[h].outcome \in {cred[h].owner, Shared, "fault"}
        \/ /\ cred'[h].outcome = "missing" /\ Len(owners) = 1
           /\ slot(1) \notin cred[h].steady
    BY <1>8, <2>1, <2>2
  <2>4. Len(owners) = 1 => \A n \in 1..Len(owners) : n = 1
    OBVIOUS
  <2> QED
    BY <1>6, <2>3, <2>4 DEF owners
<1>10. CASE AskOwner(h, "second", 2)
  <2>1. Len(owners) = 2 /\ slot(1) \notin cred[h].steady
    BY <1>1, <1>10 DEF AskOwner, CredAt, CallOK, owners
  <2>2. 2 \in 1..Len(owners)
    BY <2>1
  <2>3. \/ vault[slot(2)] # NoRow /\ Finish(h, owners[2])
        \/ ~(vault[slot(2)] # NoRow) /\ Len(owners) > 2
           /\ Goto(h, [cred[h] EXCEPT !.pc = "second"])
        \/ ~(vault[slot(2)] # NoRow) /\ ~(Len(owners) > 2) /\ Finish(h, "missing")
    BY <1>6, <1>10 DEF AskOwner, owners
  <2>4. \/ cred'[h].outcome \in {cred[h].owner, Shared, "fault"}
        \/ /\ cred'[h].outcome = "missing"
           /\ slot(2) \notin cred[h].steady
    BY <1>8, <2>2, <2>3
  <2>5. \A n \in 1..Len(owners) : n = 1 \/ n = 2
    BY <2>1
  <2> QED
    BY <1>6, <2>1, <2>4, <2>5 DEF owners
<1> QED
  BY <1>3, <1>5, <1>9, <1>10

LEMMA NobodyElses ==
  ASSUME CredIInv, [CredNext]_credVars, NEW h \in Handlers, Asking(h), cred'[h].pc = "idle"
  PROVE  cred'[h].outcome \in {cred[h].owner, Shared, "missing", "fault"}
BY SearchEnds

LEMMA MissesNone ==
  ASSUME CredIInv, [CredNext]_credVars, NEW h \in Handlers, Asking(h),
         cred'[h] = Outcome("missing"), NEW n \in 1..Len(OrderOf(h))
  PROVE  SlotOf(OrderOf(h)[n], cred[h].host.auth) \notin cred[h].steady
<1>1. cred'[h].pc = "idle" /\ cred'[h].outcome = "missing"
  BY IdleRelies
<1>2. cred[h].owner # "missing" /\ Shared # "missing"
  BY CredentialsAssumption DEF CredIInv, CredCallType, Shared
<1> QED
  BY <1>1, <1>2, SearchEnds

LEMMA AloneStores ==
  ASSUME CredIInv, [CredNext]_credVars, NEW h \in Handlers,
         cred[h].op \in {"upsert", "callback"}, cred[h].pc = "write",
         cred'[h].pc = "idle", ~cred[h].crossed, cred'[h].outcome # "fault"
  PROVE  cred'[h].outcome = "ok" /\ vault'[cred[h].slot] # NoRow
<1> DEFINE s == cred[h].slot
<1>1. /\ cred[h] \in CredCallType /\ CallOK(cred[h]) /\ cred \in [Handlers -> CredCallType]
      /\ vault \in [Slots -> [id : 0..(MaxCredChanges + 1), sealed : Slots]]
      /\ s \in Slots
  BY DEF CredIInv, CredCallType
<1>2. host.present /\ vault[s].id = cred[h].id
  BY <1>1 DEF CallOK, Connecting
<1>3. Acts(h)
  BY <1>1, ActsOrStays
<1>4. FailCred(h) \/ UpdateFound(h) \/ InsertNew(h)
  BY <1>1, <1>3 DEF Acts, StartUpsert, StartCallback, StartDisconnect, StartCall, Begin, Ready,
     FindServer, FindCallbackServer, FindExisting, UpdateSecret, AskOwner,
     FindDisconnected, DeleteMyCredential, ReadCallServer, StartCreate, StartUpdate, CredAt
<1>5. ~FailCred(h)
  <2>1. ASSUME FailCred(h) PROVE cred'[h] = Outcome("fault")
    BY <1>1, <2>1, QuietIs DEF FailCred, Finish, Goto
  <2> QED
    BY <2>1, IdleRelies
<1>6. ASSUME NEW id \in Int, id # 0, WriteRow(h, s, id, "ok")
      PROVE  cred'[h].outcome = "ok" /\ vault'[s] # NoRow
  <2>1. vault'[s] = [id |-> id, sealed |-> s]
    BY <1>1, <1>6 DEF WriteRow
  <2>2. cred'[h] = Outcome("ok")
    BY <1>1, <1>6, CrossWritten DEF WriteRow
  <2> QED
    BY <1>6, <2>1, <2>2, IdleRelies, CredTypes
<1>7. CASE UpdateFound(h)
  <2>1. cred[h].id \in Int /\ cred[h].id # 0
    BY <1>1, <1>7 DEF CredCallType, UpdateFound
  <2> QED
    BY <1>2, <1>6, <1>7, <2>1 DEF UpdateFound
<1>8. CASE InsertNew(h)
  <2>1. vault[s] = NoRow
    BY <1>1, <1>2, <1>8 DEF InsertNew, CredIInv, RowsOK
  <2>2. FreshId \in Int /\ FreshId # 0
    BY CredTypes DEF CredIInv, FreshId
  <2> QED
    BY <1>2, <1>6, <1>8, <2>1, <2>2 DEF InsertNew
<1> QED
  BY <1>4, <1>5, <1>7, <1>8

LEMMA SharedOnly ==
  ASSUME CredIInv, NEW h \in Handlers, CredAt(h, "upsert", "write")
  PROVE  cred[h].host.mode # "shared"
BY DEF CredIInv, CallOK, Connecting, CredAt

\* The four action properties of CredentialRules, step by step.
LEMMA CredStepRules ==
  CredIInv /\ [CredNext]_credVars =>
     /\ [\A h \in Handlers :
            Asking(h) /\ cred'[h].pc = "idle" =>
               cred'[h].outcome \in {cred[h].owner, Shared, "missing", "fault"}]_credVars
     /\ [\A h \in Handlers :
            Asking(h) /\ cred'[h] = Outcome("missing") =>
               \A n \in 1..Len(OrderOf(h)) :
                  SlotOf(OrderOf(h)[n], cred[h].host.auth) \notin cred[h].steady]_credVars
     /\ [\A h \in Handlers :
            /\ cred[h].op \in {"upsert", "callback"} /\ cred[h].pc = "write"
            /\ cred'[h].pc = "idle"
            /\ ~cred[h].crossed /\ cred'[h].outcome # "fault"
            => cred'[h].outcome = "ok" /\ vault'[cred[h].slot] # NoRow]_credVars
     /\ [\A h \in Handlers :
            CredAt(h, "upsert", "write") /\ cred'[h] = Outcome("ok") =>
               cred[h].host.mode # "shared"]_credVars
BY NobodyElses, MissesNone, AloneStores, SharedOnly

\* The proven form of CredentialRules, for every number of members, callers,
\* handlers and changes: rows are sealed as they are found, the readiness shown
\* is what a call finds, a call uses nobody else's credential and misses none
\* that stays, a Connect alone stores, and shared means shared.
THEOREM CredCorrect == CredSpec => CredentialRules
<1>1. CredInit => CredIInv
  BY CredInitKeeps
<1>2. CredIInv /\ [CredNext]_credVars => CredIInv'
  BY CredNextKeeps
<1>3. CredIInv => CredTypeOK /\ SealedForReaders /\ ReadinessAgrees
  BY CredTypeFollows, SealedFollows, ReadinessFollows
<1>4. CredIInv /\ [CredNext]_credVars =>
     /\ [\A h \in Handlers :
            Asking(h) /\ cred'[h].pc = "idle" =>
               cred'[h].outcome \in {cred[h].owner, Shared, "missing", "fault"}]_credVars
     /\ [\A h \in Handlers :
            Asking(h) /\ cred'[h] = Outcome("missing") =>
               \A n \in 1..Len(OrderOf(h)) :
                  SlotOf(OrderOf(h)[n], cred[h].host.auth) \notin cred[h].steady]_credVars
     /\ [\A h \in Handlers :
            /\ cred[h].op \in {"upsert", "callback"} /\ cred[h].pc = "write"
            /\ cred'[h].pc = "idle"
            /\ ~cred[h].crossed /\ cred'[h].outcome # "fault"
            => cred'[h].outcome = "ok" /\ vault'[cred[h].slot] # NoRow]_credVars
     /\ [\A h \in Handlers :
            CredAt(h, "upsert", "write") /\ cred'[h] = Outcome("ok") =>
               cred[h].host.mode # "shared"]_credVars
  BY CredStepRules
<1> QED
  BY <1>1, <1>2, <1>3, <1>4, PTL
     DEF CredSpec, CredentialRules, NeverAnothers, MissingWasMissing, ConnectAloneStores,
         SharedMeansShared

-----------------------------------------------------------------------------
(* OAuthConnect                                                             *)

ConnSecrets == 0..(MaxEdits + 1)

ConnClients == ClientIds \cup {NoClient}

SrvType ==
    [present : BOOLEAN, own : ConnClients, secret : ConnSecrets, link : AppIds \cup {0},
     public : BOOLEAN, personal : BOOLEAN]

StateType ==
    [row : {"none", "pending", "deleted"}, client : ConnClients,
     code : {"none", "issued", "spent"}, exchanges : Nat, since : Nat, twice : BOOLEAN]

FlowType ==
    [op : {"idle", "start", "callback", "remove", "link", "save"},
     pc : {"idle", "resolve", "register", "persist", "insert", "delete", "server",
           "exchange", "store", "link", "secret"},
     srv : SrvType, client : ConnClients, secret : ConnSecrets, state : Connects \cup {0},
     app : AppIds \cup {0}, since : Nat, raced : BOOLEAN]

\* A callback that has yet to exchange the code of state s, ...
AtWork(c, s) ==
    /\ c.op = "callback" /\ c.state = s
    /\ c.pc \in {"delete", "server", "resolve", "exchange"}

\* ... and has deleted the state.
PastDelete(c, s) == AtWork(c, s) /\ c.pc # "delete"

\* What a handler that is c holds while the configuration it began with stands.
StartCurrent(c) ==
    c.op = "start" /\ c.since = version =>
        /\ c.pc \in {"resolve", "register", "persist"} => c.srv = srv
        /\ c.pc \in {"register", "persist"} => LinkedApp(srv) = NoApp
        /\ c.pc = "insert" => c.client = ResolvedClient(srv)

CallbackCurrent(c) ==
    c.op = "callback" /\ states[c.state].since = version =>
        /\ c.pc = "resolve" => c.srv = srv
        /\ c.pc = "exchange" => c.client = ResolvedClient(srv)

FlowOK(c) ==
    /\ c.op = "callback" => c.state \in Connects /\ states[c.state].code # "none"
    /\ c.op = "callback" /\ c.pc \in {"exchange", "store"} => c.client # NoClient
    /\ c.op = "save" => c.client # NoClient
    /\ c.op \in {"remove", "link"} => c.app \in AppIds
    /\ c.op = "remove" => c.pc = "delete" /\ (srv.link = c.app => c.raced)
    /\ c.op = "start" => c.since <= version
    /\ StartCurrent(c)
    /\ CallbackCurrent(c)

StateOK(s) ==
    /\ states[s].code # "none" => states[s].client # NoClient
    /\ states[s].code = "spent" => states[s].exchanges > 0
    /\ states[s].since <= version
    /\ states[s].client # NoClient /\ states[s].since = version =>
          states[s].client = ResolvedClient(srv)

Once(s) ==
    ~states[s].twice =>
        /\ states[s].exchanges <= 1
        /\ \A g, h \in Handlers : AtWork(flow[g], s) /\ AtWork(flow[h], s) => g = h
        /\ \A g \in Handlers : AtWork(flow[g], s) => states[s].exchanges = 0
        /\ states[s].row = "pending" =>
              states[s].exchanges = 0 /\ \A g \in Handlers : ~PastDelete(flow[g], s)

\* What is on record here and at the provider.
TablesOK ==
    /\ srv \in SrvType
    /\ apps \in [AppIds -> [client : ConnClients, secret : ConnSecrets]]
    /\ \A a \in AppIds : apps[a] # NoApp => apps[a].client # NoClient
    /\ srv.link # 0 => apps[srv.link] # NoApp
    /\ stored \in [kind : {"none", "access_token", "refreshable"},
                   client : ConnClients, secret : ConnSecrets]
    /\ stored.kind = "refreshable" <=> stored.client # NoClient
    /\ ~srv.present => stored = NoCredential

ProviderOK ==
    /\ used \in [edits : Nat, faults : Nat]
    /\ used.edits + used.faults <= MaxEdits
    /\ provider \in [registered : 0..2, secret : [Confidential -> Nat \ {0}]]
    /\ \A c \in Confidential : provider.secret[c] <= used.edits + 1

ConnIInv ==
    /\ TablesOK
    /\ ProviderOK
    /\ version \in Nat
    /\ states \in [Connects -> StateType]
    /\ flow \in [Handlers -> FlowType]
    /\ \A h \in Handlers : FlowOK(flow[h])
    /\ \A s \in Connects : StateOK(s) /\ Once(s)

\* A step leaves handler g no more at work on state s than it was.
FollowsAt(g, s) ==
    /\ AtWork(flow'[g], s) => AtWork(flow[g], s)
    /\ PastDelete(flow'[g], s) => PastDelete(flow[g], s)

\* As far as Once is concerned, state s stays as it is.
SameOnce(s) ==
    /\ states'[s].twice = states[s].twice
    /\ states'[s].exchanges = states[s].exchanges
    /\ states'[s].row = "pending" => states[s].row = "pending"

-----------------------------------------------------------------------------
(* What the steps share.                                                    *)

LEMMA DynamicIsTwo == Cardinality(Dynamic) = 2
<1>1. IsFiniteSet({}) /\ Cardinality({}) = 0
  BY FS_EmptySet
<1>2. IsFiniteSet({"dynamic1"}) /\ Cardinality({"dynamic1"}) = 1
  BY FS_Singleton
<1>3. Cardinality({"dynamic1"} \cup {"dynamic2"}) = 2
  BY <1>2, FS_AddElement, "dynamic2" \notin {"dynamic1"}
<1>4. Dynamic = {"dynamic1"} \cup {"dynamic2"}
  BY DEF Dynamic
<1> QED
  BY <1>3, <1>4

LEMMA IdleFlowIsOK == IdleFlow \in FlowType /\ FlowOK(IdleFlow)
<1>1. IdleFlow \in FlowType
  BY ConnectAssumption
     DEF IdleFlow, FlowType, NoServer, SrvType, ConnClients, ConnSecrets, NoClient
<1>2. IdleFlow.op = "idle"
  BY DEF IdleFlow
<1> QED
  BY <1>1, <1>2 DEF FlowOK, StartCurrent, CallbackCurrent

LEMMA SecretFits ==
  ASSUME ConnIInv, NEW c \in ConnClients
  PROVE  SecretAt(c) \in ConnSecrets
<1>1. used.edits + 1 <= MaxEdits + 1 /\ used.edits \in Nat
  BY ConnectAssumption DEF ConnIInv, ProviderOK
<1>2. ASSUME c \in Confidential
      PROVE  provider.secret[c] \in Nat /\ provider.secret[c] <= used.edits + 1
  BY <1>2 DEF ConnIInv, ProviderOK
<1> QED
  BY <1>1, <1>2, ConnectAssumption DEF SecretAt, ConnSecrets

LEMMA LinkedAppOK ==
  ASSUME ConnIInv
  PROVE  /\ LinkedApp(srv) \in [client : ConnClients, secret : ConnSecrets]
         /\ LinkedApp(srv) # NoApp => LinkedApp(srv).client # NoClient
         /\ ResolvedClient(srv) \in ConnClients
<1>1. NoApp \in [client : ConnClients, secret : ConnSecrets]
  BY ConnectAssumption DEF NoApp, ConnClients, ConnSecrets
<1>2. srv.link \in AppIds \cup {0} /\ srv.own \in ConnClients
  BY DEF ConnIInv, TablesOK, SrvType
<1> QED
  BY <1>1, <1>2 DEF ConnIInv, TablesOK, LinkedApp, ResolvedClient

\* A row read earlier may link to an app deleted since.
LEMMA RowAppOK ==
  ASSUME ConnIInv, NEW r \in SrvType
  PROVE  /\ LinkedApp(r) \in [client : ConnClients, secret : ConnSecrets]
         /\ LinkedApp(r) # NoApp => LinkedApp(r).client # NoClient
         /\ ResolvedClient(r) \in ConnClients
         /\ EnsuredClient(r) = ResolvedClient(r)
<1>1. NoApp \in [client : ConnClients, secret : ConnSecrets]
  BY ConnectAssumption DEF NoApp, ConnClients, ConnSecrets
<1>2. r.link \in AppIds \cup {0} /\ r.own \in ConnClients
  BY DEF SrvType
<1> QED
  BY <1>1, <1>2 DEF ConnIInv, TablesOK, LinkedApp, ResolvedClient, EnsuredClient

LEMMA FlowMoved ==
  ASSUME ConnIInv, NEW h \in Handlers, NEW c \in FlowType, FlowTo(h, c)
  PROVE  /\ flow' \in [Handlers -> FlowType]
         /\ flow'[h] = c
         /\ \A g \in Handlers : g # h => flow'[g] = flow[g]
BY DEF ConnIInv, FlowTo

\* A state that stays is exchanged once if its handlers follow.
LEMMA OnceFollows ==
  ASSUME NEW s \in Connects, Once(s), SameOnce(s), \A g \in Handlers : FollowsAt(g, s)
  PROVE  Once(s)'
<1> SUFFICES ASSUME ~states'[s].twice PROVE Once(s)'
  BY DEF Once
<1>1. ~states[s].twice /\ states'[s].exchanges = states[s].exchanges
  BY DEF SameOnce
<1>2. \A g \in Handlers : AtWork(flow[g], s)' => AtWork(flow[g], s)
  BY DEF FollowsAt, AtWork
<1>3. \A g \in Handlers : PastDelete(flow[g], s)' => PastDelete(flow[g], s)
  BY DEF FollowsAt, AtWork, PastDelete
<1>4. states'[s].row = "pending" => states[s].row = "pending"
  BY DEF SameOnce
<1> QED
  BY <1>1, <1>2, <1>3, <1>4 DEF Once

\* Handler h alone moves, and no other handler could tell.
LEMMA LinkedStepKeeps ==
  ASSUME ConnIInv, TablesOK', ProviderOK', UNCHANGED <<srv, states, version>>,
         LinkedApp(srv)' = LinkedApp(srv),
         NEW h \in Handlers, NEW c \in FlowType, FlowTo(h, c), FlowOK(c),
         \A s \in Connects :
            /\ AtWork(c, s) => AtWork(flow[h], s)
            /\ PastDelete(c, s) => PastDelete(flow[h], s)
  PROVE  ConnIInv'
<1>1. /\ flow' \in [Handlers -> FlowType]
      /\ flow'[h] = c
      /\ \A g \in Handlers : g # h => flow'[g] = flow[g]
  BY FlowMoved
<1>2. ResolvedClient(srv)' = ResolvedClient(srv)
  BY DEF ResolvedClient
<1>3. ASSUME NEW g \in Handlers PROVE FlowOK(flow[g])'
  <2>1. FlowOK(flow'[g])
    BY <1>1 DEF ConnIInv
  <2> QED
    BY <1>2, <2>1 DEF FlowOK, StartCurrent, CallbackCurrent
<1>4. \A g \in Handlers, s \in Connects : FollowsAt(g, s)
  BY <1>1 DEF FollowsAt
<1>5. ASSUME NEW s \in Connects PROVE StateOK(s)' /\ Once(s)'
  <2>1. Once(s)'
    BY <1>4, OnceFollows DEF ConnIInv, SameOnce
  <2>2. StateOK(s)'
    BY <1>2 DEF ConnIInv, StateOK
  <2> QED
    BY <2>1, <2>2
<1> QED
  BY <1>1, <1>3, <1>5 DEF ConnIInv

\* Handler h alone moves, and nothing it could have read does.
LEMMA FlowStepKeeps ==
  ASSUME ConnIInv, TablesOK', ProviderOK', UNCHANGED <<srv, apps, states, version>>,
         NEW h \in Handlers, NEW c \in FlowType, FlowTo(h, c), FlowOK(c),
         \A s \in Connects :
            /\ AtWork(c, s) => AtWork(flow[h], s)
            /\ PastDelete(c, s) => PastDelete(flow[h], s)
  PROVE  ConnIInv'
<1>1. LinkedApp(srv)' = LinkedApp(srv)
  BY DEF LinkedApp
<1> QED
  BY <1>1, LinkedStepKeeps

LEMMA EndFlowKeeps ==
  ASSUME ConnIInv, TablesOK', ProviderOK', UNCHANGED <<srv, apps, states, version>>,
         NEW h \in Handlers, EndFlow(h)
  PROVE  ConnIInv'
<1>1. IdleFlow.op = "idle"
  BY DEF IdleFlow
<1>2. FlowTo(h, IdleFlow)
  BY DEF EndFlow
<1>3. \A s \in Connects : ~AtWork(IdleFlow, s) /\ ~PastDelete(IdleFlow, s)
  BY <1>1 DEF AtWork, PastDelete
<1> QED
  BY <1>2, <1>3, IdleFlowIsOK, FlowStepKeeps

LEMMA ConnStutterKeeps ==
  ASSUME ConnIInv, UNCHANGED connectVars
  PROVE  ConnIInv'
<1>1. TablesOK' /\ ProviderOK' /\ version' \in Nat
  BY DEF ConnIInv, TablesOK, ProviderOK, connectVars
<1>2. \A h \in Handlers : FlowOK(flow[h])'
  BY DEF ConnIInv, FlowOK, StartCurrent, CallbackCurrent, ResolvedClient, LinkedApp, connectVars
<1>3. \A s \in Connects : StateOK(s)' /\ Once(s)'
  BY DEF ConnIInv, StateOK, Once, AtWork, PastDelete, ResolvedClient, LinkedApp, connectVars
<1> QED
  BY <1>1, <1>2, <1>3 DEF ConnIInv, connectVars

LEMMA TablesStay ==
  ASSUME ConnIInv, UNCHANGED <<srv, apps, stored>>
  PROVE  TablesOK'
BY DEF ConnIInv, TablesOK

LEMMA ProviderStays ==
  ASSUME ConnIInv, UNCHANGED <<provider, used>>
  PROVE  ProviderOK'
BY DEF ConnIInv, ProviderOK

\* An edit counts one more, within the bound.
LEMMA EditFits ==
  ASSUME ConnIInv, Edit
  PROVE  /\ used' \in [edits : Nat, faults : Nat]
         /\ used'.edits = used.edits + 1
         /\ used'.edits + used'.faults <= MaxEdits
<1>1. used \in [edits : Nat, faults : Nat] /\ used.edits + used.faults < MaxEdits
  BY DEF ConnIInv, ProviderOK, Edit, BudgetLeft
<1>2. /\ used' \in [edits : Nat, faults : Nat]
      /\ used'.edits = used.edits + 1 /\ used'.faults = used.faults
  BY <1>1 DEF Edit
<1> QED
  BY <1>1, <1>2, ConnectAssumption

LEMMA EditProvider ==
  ASSUME ConnIInv, Edit, UNCHANGED provider
  PROVE  ProviderOK'
<1>1. /\ used' \in [edits : Nat, faults : Nat]
      /\ used'.edits = used.edits + 1
      /\ used'.edits + used'.faults <= MaxEdits
  BY EditFits
<1>2. \A c \in Confidential :
         provider.secret[c] \in Nat \ {0} /\ provider.secret[c] <= used.edits + 1
  BY DEF ConnIInv, ProviderOK
<1>3. used.edits \in Nat
  BY DEF ConnIInv, ProviderOK
<1>4. \A c \in Confidential : provider.secret[c] <= used'.edits + 1
  BY <1>1, <1>2, <1>3
<1> QED
  BY <1>1, <1>4 DEF ConnIInv, ProviderOK

-----------------------------------------------------------------------------
(* The steps that move one handler only.                                    *)

LEMMA StartConnectKeeps ==
  ASSUME ConnIInv, NEW h \in Handlers, StartConnect(h)
  PROVE  ConnIInv'
<1>1. CASE ~(srv.present /\ srv.personal)
  <2>1. UNCHANGED connectVars
    BY <1>1 DEF StartConnect, TableVars, connectVars
  <2> QED
    BY <2>1, ConnStutterKeeps
<1>2. CASE srv.present /\ srv.personal
  <2> DEFINE c == [IdleFlow EXCEPT !.op = "start", !.pc = "resolve",
                                   !.srv = srv, !.since = version]
  <2>1. FlowTo(h, c)
    BY <1>2 DEF StartConnect
  <2>2. c \in FlowType
    BY IdleFlowIsOK DEF ConnIInv, TablesOK, FlowType
  <2>3. c.op = "start" /\ c.pc = "resolve" /\ c.srv = srv /\ c.since = version
    BY DEF IdleFlow
  <2> HIDE DEF c
  <2>4. FlowOK(c)
    BY <2>3 DEF ConnIInv, FlowOK, StartCurrent, CallbackCurrent
  <2>5. \A s \in Connects : ~AtWork(c, s) /\ ~PastDelete(c, s)
    BY <2>3 DEF AtWork, PastDelete
  <2>6. TablesOK' /\ ProviderOK' /\ UNCHANGED <<srv, apps, states, version>>
    BY TablesStay, ProviderStays DEF StartConnect, TableVars
  <2> QED
    BY <2>1, <2>2, <2>4, <2>5, <2>6, FlowStepKeeps
<1> QED
  BY <1>1, <1>2

LEMMA ResolveForStartKeeps ==
  ASSUME ConnIInv, NEW h \in Handlers, ResolveForStart(h)
  PROVE  ConnIInv'
<1> DEFINE r == flow[h].srv
           c == [flow[h] EXCEPT !.client = EnsuredClient(r),
                                !.pc = IF EnsuredClient(r) = NoClient THEN "register"
                                       ELSE "insert"]
<1>1. TablesOK' /\ ProviderOK' /\ UNCHANGED <<srv, apps, states, version>>
  BY TablesStay, ProviderStays DEF ResolveForStart, TableVars
<1>2. CASE ~Configured(r)
  BY <1>1, <1>2, EndFlowKeeps DEF ResolveForStart
<1>3. CASE Configured(r)
  <2>1. FlowTo(h, c)
    BY <1>3 DEF ResolveForStart
  <2>2. flow[h] \in FlowType /\ FlowOK(flow[h]) /\ r \in SrvType
    BY DEF ConnIInv, FlowType
  <2>3. flow[h].op = "start" /\ flow[h].pc = "resolve"
    BY DEF ResolveForStart, FlowAt
  <2>4. /\ EnsuredClient(r) = ResolvedClient(r) /\ ResolvedClient(r) \in ConnClients
        /\ LinkedApp(r) # NoApp => EnsuredClient(r) # NoClient
    BY <2>2, RowAppOK DEF EnsuredClient
  <2>5. c \in FlowType
    BY <2>2, <2>4 DEF FlowType
  <2>6. /\ c.op = "start" /\ c.since = flow[h].since /\ c.srv = r
        /\ c.client = EnsuredClient(r)
        /\ c.pc = IF EnsuredClient(r) = NoClient THEN "register" ELSE "insert"
    BY <2>2, <2>3 DEF FlowType
  <2> HIDE DEF c
  <2>7. c.since = version => r = srv
    BY <2>2, <2>3, <2>6 DEF FlowOK, StartCurrent
  <2>8. StartCurrent(c)
    <3> SUFFICES ASSUME c.since = version PROVE StartCurrent(c)
      BY DEF StartCurrent
    <3>1. r = srv
      BY <2>7
    <3> HIDE DEF r
    <3>2. CASE EnsuredClient(r) = NoClient
      BY <2>4, <2>6, <3>1, <3>2 DEF StartCurrent
    <3>3. CASE EnsuredClient(r) # NoClient
      BY <2>4, <2>6, <3>1, <3>3 DEF StartCurrent
    <3> QED
      BY <3>2, <3>3
  <2>9. FlowOK(c)
    BY <2>2, <2>3, <2>6, <2>8 DEF FlowOK, CallbackCurrent
  <2>10. \A s \in Connects : ~AtWork(c, s) /\ ~PastDelete(c, s)
    BY <2>6 DEF AtWork, PastDelete
  <2> QED
    BY <1>1, <2>1, <2>5, <2>9, <2>10, FlowStepKeeps
<1> QED
  BY <1>2, <1>3

LEMMA RegisterClientKeeps ==
  ASSUME ConnIInv, NEW h \in Handlers, RegisterClient(h)
  PROVE  ConnIInv'
<1>1. TablesOK' /\ UNCHANGED <<srv, apps, states, version, used>>
  BY TablesStay DEF RegisterClient
<1>2. CASE EndFlow(h) /\ UNCHANGED provider
  BY <1>1, <1>2, ProviderStays, EndFlowKeeps
<1>3. CASE ~(EndFlow(h) /\ UNCHANGED provider)
  <2> DEFINE n == IF provider.registered = 0 THEN "dynamic1" ELSE "dynamic2"
             c == [flow[h] EXCEPT !.pc = "persist", !.client = n]
  <2>1. /\ provider.registered < Cardinality(Dynamic)
        /\ provider' = [provider EXCEPT !.registered = @ + 1]
        /\ FlowTo(h, c)
    BY <1>3 DEF RegisterClient
  <2>2. ProviderOK'
    BY <1>1, <2>1, DynamicIsTwo DEF ConnIInv, ProviderOK
  <2>3. flow[h] \in FlowType /\ FlowOK(flow[h]) /\ n \in ConnClients
    BY DEF ConnIInv, ConnClients, ClientIds, Dynamic
  <2> HIDE DEF n
  <2>4. flow[h].op = "start" /\ flow[h].pc = "register"
    BY DEF RegisterClient, FlowAt
  <2>5. c \in FlowType
    BY <2>3 DEF FlowType
  <2>6. c.op = "start" /\ c.since = flow[h].since /\ c.srv = flow[h].srv /\ c.pc = "persist"
    BY <2>3, <2>4 DEF FlowType
  <2> HIDE DEF c
  <2>7. FlowOK(c)
    BY <2>3, <2>4, <2>6 DEF FlowOK, StartCurrent, CallbackCurrent
  <2>8. \A s \in Connects : ~AtWork(c, s) /\ ~PastDelete(c, s)
    BY <2>6 DEF AtWork, PastDelete
  <2> QED
    BY <1>1, <2>1, <2>2, <2>5, <2>7, <2>8, FlowStepKeeps
<1> QED
  BY <1>2, <1>3

LEMMA ReadServerKeeps ==
  ASSUME ConnIInv, NEW h \in Handlers, ReadServer(h)
  PROVE  ConnIInv'
<1>1. TablesOK' /\ ProviderOK' /\ UNCHANGED <<srv, apps, states, version>>
  BY TablesStay, ProviderStays DEF ReadServer, TableVars
<1>2. CASE ~srv.present
  BY <1>1, <1>2, EndFlowKeeps DEF ReadServer
<1>3. CASE srv.present
  <2> DEFINE c == [flow[h] EXCEPT !.pc = "resolve", !.srv = srv]
  <2>1. FlowTo(h, c)
    BY <1>3 DEF ReadServer
  <2>2. flow[h] \in FlowType /\ FlowOK(flow[h]) /\ srv \in SrvType
    BY DEF ConnIInv, TablesOK
  <2>3. flow[h].op = "callback" /\ flow[h].pc = "server"
    BY DEF ReadServer, FlowAt
  <2>4. c \in FlowType
    BY <2>2 DEF FlowType
  <2>5. c.op = "callback" /\ c.state = flow[h].state /\ c.srv = srv /\ c.pc = "resolve"
    BY <2>2, <2>3 DEF FlowType
  <2> HIDE DEF c
  <2>6. FlowOK(c)
    BY <2>2, <2>3, <2>5 DEF FlowOK, StartCurrent, CallbackCurrent
  <2>7. \A s \in Connects : /\ AtWork(c, s) => AtWork(flow[h], s)
                            /\ PastDelete(c, s) => PastDelete(flow[h], s)
    BY <2>3, <2>5 DEF AtWork, PastDelete
  <2> QED
    BY <1>1, <2>1, <2>4, <2>6, <2>7, FlowStepKeeps
<1> QED
  BY <1>2, <1>3

LEMMA ResolveForCallbackKeeps ==
  ASSUME ConnIInv, NEW h \in Handlers, ResolveForCallback(h)
  PROVE  ConnIInv'
<1> DEFINE r == flow[h].srv
           secret == IF LinkedApp(r) # NoApp THEN LinkedApp(r).secret
                     ELSE IF r.public THEN 0 ELSE srv.secret
           c == [flow[h] EXCEPT !.pc = "exchange", !.client = ResolvedClient(r),
                                !.secret = secret]
<1>1. TablesOK' /\ ProviderOK' /\ UNCHANGED <<srv, apps, states, version>>
  BY TablesStay, ProviderStays DEF ResolveForCallback, TableVars
<1>2. CASE EndFlow(h)
  BY <1>1, <1>2, EndFlowKeeps
<1>3. CASE ~EndFlow(h)
  <2>1. FlowTo(h, c) /\ ResolvedClient(r) # NoClient
    BY <1>3 DEF ResolveForCallback
  <2>2. flow[h] \in FlowType /\ FlowOK(flow[h]) /\ r \in SrvType
    BY DEF ConnIInv, FlowType
  <2>3. flow[h].op = "callback" /\ flow[h].pc = "resolve"
    BY DEF ResolveForCallback, FlowAt
  <2>4. ResolvedClient(r) \in ConnClients /\ secret \in ConnSecrets
    <3>1. srv.secret \in ConnSecrets /\ 0 \in ConnSecrets
      BY ConnectAssumption DEF ConnIInv, TablesOK, SrvType, ConnSecrets
    <3> QED
      BY <2>2, <3>1, RowAppOK
  <2> HIDE DEF secret
  <2>5. c \in FlowType
    BY <2>2, <2>4 DEF FlowType
  <2>6. /\ c.op = "callback" /\ c.state = flow[h].state /\ c.pc = "exchange"
        /\ c.client = ResolvedClient(r)
    BY <2>2, <2>3 DEF FlowType
  <2> HIDE DEF c
  <2>7. CallbackCurrent(c)
    <3> SUFFICES ASSUME states[c.state].since = version PROVE CallbackCurrent(c)
      BY DEF CallbackCurrent
    <3>1. r = srv
      BY <2>2, <2>3, <2>6 DEF FlowOK, CallbackCurrent
    <3> QED
      BY <2>6, <3>1 DEF CallbackCurrent
  <2>8. FlowOK(c)
    BY <2>1, <2>2, <2>3, <2>6, <2>7 DEF FlowOK, StartCurrent
  <2>9. \A s \in Connects : /\ AtWork(c, s) => AtWork(flow[h], s)
                            /\ PastDelete(c, s) => PastDelete(flow[h], s)
    BY <2>3, <2>6 DEF AtWork, PastDelete
  <2> QED
    BY <1>1, <2>1, <2>5, <2>8, <2>9, FlowStepKeeps
<1> QED
  BY <1>2, <1>3

LEMMA StoreCredentialKeeps ==
  ASSUME ConnIInv, NEW h \in Handlers, StoreCredential(h)
  PROVE  ConnIInv'
<1> DEFINE kept == [kind |-> "refreshable", client |-> flow[h].client,
                    secret |-> flow[h].secret]
           token == [NoCredential EXCEPT !.kind = "access_token"]
<1>1. UNCHANGED <<srv, apps, states, version, provider, used>> /\ EndFlow(h)
  BY DEF StoreCredential, ConfigVars
<1>2. /\ flow[h].client \in ConnClients /\ flow[h].secret \in ConnSecrets
      /\ flow[h].client # NoClient
  BY DEF ConnIInv, StoreCredential, FlowAt, FlowOK, FlowType
<1>3. /\ kept \in [kind : {"none", "access_token", "refreshable"},
                   client : ConnClients, secret : ConnSecrets]
      /\ kept.kind = "refreshable" /\ kept.client # NoClient
  BY <1>2
<1>4. /\ token \in [kind : {"none", "access_token", "refreshable"},
                    client : ConnClients, secret : ConnSecrets]
      /\ token.kind # "refreshable" /\ token.client = NoClient
  BY ConnectAssumption DEF NoCredential, ConnClients, ConnSecrets
<1>5. CASE ~srv.present
  <2>1. UNCHANGED stored
    BY <1>5 DEF StoreCredential
  <2> QED
    BY <1>1, <2>1, TablesStay, ProviderStays, EndFlowKeeps
<1>6. CASE srv.present
  <2>1. stored' = kept \/ stored' = token
    BY <1>6 DEF StoreCredential
  <2> HIDE DEF kept, token
  <2>2. TablesOK'
    BY <1>1, <1>3, <1>4, <1>6, <2>1 DEF ConnIInv, TablesOK
  <2> QED
    BY <1>1, <2>2, ProviderStays, EndFlowKeeps
<1> QED
  BY <1>5, <1>6

LEMMA FailFlowKeeps ==
  ASSUME ConnIInv, NEW h \in Handlers, FailFlow(h)
  PROVE  ConnIInv'
<1>1. TablesOK' /\ UNCHANGED <<srv, apps, states, version, provider>> /\ EndFlow(h)
  BY TablesStay DEF FailFlow, TableVars
<1>2. used \in [edits : Nat, faults : Nat] /\ used.edits + used.faults < MaxEdits
  BY DEF ConnIInv, ProviderOK, FailFlow, BudgetLeft
<1>3. /\ used' \in [edits : Nat, faults : Nat]
      /\ used'.edits = used.edits /\ used'.faults = used.faults + 1
  BY <1>2 DEF FailFlow
<1>4. used'.edits + used'.faults <= MaxEdits
  BY <1>2, <1>3, ConnectAssumption
<1>5. ProviderOK'
  BY <1>1, <1>3, <1>4 DEF ConnIInv, ProviderOK
<1> QED
  BY <1>1, <1>5, EndFlowKeeps

\* An idle handler becomes c, of a kind that touches no state.
LEMMA BeginFlowKeeps ==
  ASSUME ConnIInv, ProviderOK', UNCHANGED <<TableVars, version>>,
         NEW h \in Handlers, NEW c \in FlowType, FlowTo(h, c),
         c.op \in {"remove", "link", "save"},
         FlowOK(c)
  PROVE  ConnIInv'
<1>1. TablesOK' /\ UNCHANGED <<srv, apps, states, version>>
  BY TablesStay DEF TableVars
<1>2. \A s \in Connects : ~AtWork(c, s) /\ ~PastDelete(c, s)
  BY DEF AtWork, PastDelete
<1> QED
  BY <1>1, <1>2, FlowStepKeeps

LEMMA CountLinkedKeeps ==
  ASSUME ConnIInv, NEW h \in Handlers, NEW a \in AppIds, NEW detach \in BOOLEAN,
         CountLinked(h, a, detach)
  PROVE  ConnIInv'
<1> DEFINE c == [IdleFlow EXCEPT !.op = "remove", !.pc = "delete", !.app = a,
                                 !.raced = detach]
<1>1. FlowTo(h, c) /\ UNCHANGED <<TableVars, version>> /\ ProviderOK'
  BY EditProvider DEF CountLinked, TableVars
<1>2. c \in FlowType
  BY IdleFlowIsOK DEF FlowType
<1>3. c.op = "remove" /\ c.pc = "delete" /\ c.app = a /\ (c.raced <=> detach)
  BY DEF IdleFlow
<1>4. srv.link = a => detach
  BY DEF CountLinked
<1> HIDE DEF c
<1>5. FlowOK(c)
  BY <1>3, <1>4 DEF FlowOK, StartCurrent, CallbackCurrent
<1> QED
  BY <1>1, <1>2, <1>3, <1>5, BeginFlowKeeps

LEMMA AssertAppKeeps ==
  ASSUME ConnIInv, NEW h \in Handlers, NEW a \in AppIds, AssertApp(h, a)
  PROVE  ConnIInv'
<1> DEFINE c == [IdleFlow EXCEPT !.op = "link", !.pc = "link", !.app = a]
<1>1. FlowTo(h, c) /\ UNCHANGED <<TableVars, version>> /\ ProviderOK'
  BY EditProvider DEF AssertApp, TableVars
<1>2. c \in FlowType
  BY IdleFlowIsOK DEF FlowType
<1>3. c.op = "link" /\ c.app = a
  BY DEF IdleFlow
<1> HIDE DEF c
<1>4. FlowOK(c)
  BY <1>3 DEF FlowOK, StartCurrent, CallbackCurrent
<1> QED
  BY <1>1, <1>2, <1>3, <1>4, BeginFlowKeeps

LEMMA ReadOwnClientKeeps ==
  ASSUME ConnIInv, NEW h \in Handlers, ReadOwnClient(h)
  PROVE  ConnIInv'
<1> DEFINE c == [IdleFlow EXCEPT !.op = "save", !.pc = "secret", !.client = srv.own]
<1>1. FlowTo(h, c) /\ UNCHANGED <<TableVars, version>> /\ ProviderOK'
  BY EditProvider DEF ReadOwnClient, TableVars
<1>2. c \in FlowType
  BY IdleFlowIsOK DEF FlowType, ConnIInv, TablesOK, SrvType
<1>3. c.op = "save" /\ c.client = srv.own
  BY DEF IdleFlow
<1>4. srv.own # NoClient
  BY DEF ReadOwnClient
<1> HIDE DEF c
<1>5. FlowOK(c)
  BY <1>3, <1>4 DEF FlowOK, StartCurrent, CallbackCurrent
<1> QED
  BY <1>1, <1>2, <1>3, <1>5, BeginFlowKeeps

LEMMA ReadOwnSecretKeeps ==
  ASSUME ConnIInv, NEW h \in Handlers, ReadOwnSecret(h)
  PROVE  ConnIInv'
<1> DEFINE c == [flow[h] EXCEPT !.pc = "insert", !.secret = srv.secret]
<1>1. FlowTo(h, c) /\ UNCHANGED <<TableVars, version>> /\ ProviderOK'
  BY ProviderStays DEF ReadOwnSecret, TableVars
<1>2. flow[h] \in FlowType /\ FlowOK(flow[h]) /\ srv.secret \in ConnSecrets
  BY DEF ConnIInv, TablesOK, SrvType
<1>3. flow[h].op = "save"
  BY DEF ReadOwnSecret, FlowAt
<1>4. c \in FlowType
  BY <1>2 DEF FlowType
<1>5. c.op = "save" /\ c.client = flow[h].client
  BY <1>2, <1>3 DEF FlowType
<1> HIDE DEF c
<1>6. FlowOK(c)
  BY <1>2, <1>3, <1>5 DEF FlowOK, StartCurrent, CallbackCurrent
<1> QED
  BY <1>1, <1>4, <1>5, <1>6, BeginFlowKeeps

\* The new app takes a free place: the server is not linked to it.
LEMMA InsertAppKeeps ==
  ASSUME ConnIInv, NEW h \in Handlers, NEW a \in AppIds, InsertApp(h, a)
  PROVE  ConnIInv'
<1> DEFINE c == [flow[h] EXCEPT !.op = "link", !.pc = "link", !.app = a]
           row == [client |-> flow[h].client, secret |-> flow[h].secret]
<1>1. /\ FlowTo(h, c) /\ apps' = [apps EXCEPT ![a] = row] /\ apps[a] = NoApp
      /\ UNCHANGED <<srv, provider, states, stored, version, used>>
  BY DEF InsertApp
<1>2. flow[h] \in FlowType /\ FlowOK(flow[h])
  BY DEF ConnIInv
<1>3. flow[h].op = "save" /\ flow[h].client # NoClient
  BY <1>2 DEF InsertApp, FlowAt, FlowOK
<1>4. row \in [client : ConnClients, secret : ConnSecrets] /\ row.client # NoClient
  BY <1>2, <1>3 DEF FlowType
<1>5. row # NoApp
  BY <1>4 DEF NoApp
<1> HIDE DEF row
<1>6. c \in FlowType
  BY <1>2 DEF FlowType
<1>7. c.op = "link" /\ c.app = a
  BY <1>2 DEF FlowType
<1> HIDE DEF c
<1>8. FlowOK(c)
  BY <1>7 DEF FlowOK, StartCurrent, CallbackCurrent
<1>9. srv.link # a /\ srv.link \in AppIds \cup {0}
  BY <1>1 DEF ConnIInv, TablesOK, SrvType, AppIds
<1>10. LinkedApp(srv)' = LinkedApp(srv)
  BY <1>1, <1>9 DEF ConnIInv, TablesOK, LinkedApp
<1>11. TablesOK'
  BY <1>1, <1>4, <1>5, <1>9 DEF ConnIInv, TablesOK
<1>12. ProviderOK'
  BY <1>1, ProviderStays
<1>13. \A s \in Connects : ~AtWork(c, s) /\ ~PastDelete(c, s)
  BY <1>7 DEF AtWork, PastDelete
<1> QED
  BY <1>1, <1>6, <1>8, <1>10, <1>11, <1>12, <1>13, LinkedStepKeeps

-----------------------------------------------------------------------------
(* The steps that change one state.                                         *)

\* State z becomes n; what is asked of z itself is shown of each step.
LEMMA StateStepKeeps ==
  ASSUME ConnIInv, UNCHANGED <<ConfigVars, stored, used>>,
         NEW z \in Connects, NEW n \in StateType, states' = [states EXCEPT ![z] = n],
         states[z].code # "none" => n.code # "none" /\ n.since = states[z].since,
         flow' \in [Handlers -> FlowType],
         \A g \in Handlers : FlowOK(flow'[g]),
         \A g \in Handlers, s \in Connects : s # z => FollowsAt(g, s),
         StateOK(z)', Once(z)'
  PROVE  ConnIInv'
<1>1. UNCHANGED <<srv, apps, stored, provider, used, version>>
  BY DEF ConfigVars
<1>2. TablesOK' /\ ProviderOK'
  BY <1>1, TablesStay, ProviderStays
<1>3. ResolvedClient(srv)' = ResolvedClient(srv) /\ LinkedApp(srv)' = LinkedApp(srv)
  BY <1>1 DEF ResolvedClient, LinkedApp
<1>4. states \in [Connects -> StateType]
  BY DEF ConnIInv
<1>5. states' \in [Connects -> StateType]
  BY <1>4
<1>6. ASSUME NEW g \in Handlers PROVE FlowOK(flow[g])'
  <2>1. FlowOK(flow'[g])
    OBVIOUS
  <2>2. flow'[g].op = "callback" =>
           /\ flow'[g].state \in Connects
           /\ states[flow'[g].state].code # "none"
    BY <2>1 DEF FlowOK
  <2>3. flow'[g].op = "callback" =>
           /\ states'[flow'[g].state].code # "none"
           /\ states'[flow'[g].state].since = states[flow'[g].state].since
    BY <1>4, <2>2
  <2> QED
    BY <1>1, <1>3, <2>1, <2>2, <2>3 DEF FlowOK, StartCurrent, CallbackCurrent
<1>7. ASSUME NEW s \in Connects PROVE StateOK(s)' /\ Once(s)'
  <2>1. CASE s = z
    BY <2>1
  <2>2. CASE s # z
    <3>1. states'[s] = states[s]
      BY <1>4, <2>2
    <3>2. Once(s)'
      BY <2>2, <3>1, OnceFollows DEF ConnIInv, SameOnce
    <3>3. StateOK(s)'
      BY <1>1, <1>3, <3>1 DEF ConnIInv, StateOK
    <3> QED
      BY <3>2, <3>3
  <2> QED
    BY <2>1, <2>2
<1> QED
  BY <1>1, <1>2, <1>5, <1>6, <1>7 DEF ConnIInv

\* Nobody is at work on a state no code was issued for.
LEMMA NobodyAtWork ==
  ASSUME ConnIInv, NEW s \in Connects, states[s].code = "none", NEW g \in Handlers
  PROVE  ~AtWork(flow[g], s) /\ ~PastDelete(flow[g], s)
BY DEF ConnIInv, FlowOK, AtWork, PastDelete

LEMMA InsertStateKeeps ==
  ASSUME ConnIInv, NEW h \in Handlers, InsertState(h)
  PROVE  ConnIInv'
<1>1. UNCHANGED <<ConfigVars, stored, used>> /\ EndFlow(h)
  BY DEF InsertState
<1>2. CASE ~srv.present
  <2>1. UNCHANGED <<srv, apps, states, version, provider, stored, used>>
    BY <1>1, <1>2 DEF InsertState, ConfigVars
  <2> QED
    BY <1>1, <2>1, TablesStay, ProviderStays, EndFlowKeeps
<1>3. CASE srv.present
  <2> DEFINE n == [NoState EXCEPT !.row = "pending", !.client = flow[h].client,
                                  !.since = flow[h].since]
  <2>1. PICK z \in Connects : /\ states[z] = NoState
                              /\ states' = [states EXCEPT ![z] = n]
    BY <1>3 DEF InsertState
  <2>2. flow[h] \in FlowType /\ FlowOK(flow[h])
    BY DEF ConnIInv
  <2>3. flow[h].op = "start" /\ flow[h].pc = "insert"
    BY DEF InsertState, FlowAt
  <2>4. n \in StateType
    BY <2>2 DEF NoState, StateType, FlowType
  <2>5. /\ n.row = "pending" /\ n.client = flow[h].client /\ n.since = flow[h].since
        /\ n.code = "none" /\ n.exchanges = 0 /\ n.twice = FALSE
    BY DEF NoState
  <2> HIDE DEF n
  <2>6. states[z].code = "none"
    BY <2>1 DEF NoState
  <2>7. states'[z] = n
    BY <2>1 DEF ConnIInv
  <2>8. /\ flow' \in [Handlers -> FlowType] /\ flow'[h] = IdleFlow
        /\ \A g \in Handlers : g # h => flow'[g] = flow[g]
    BY <1>1, IdleFlowIsOK, FlowMoved DEF EndFlow
  <2>9. \A g \in Handlers : FlowOK(flow'[g])
    BY <2>8, IdleFlowIsOK DEF ConnIInv
  <2>10. \A s \in Connects : ~AtWork(IdleFlow, s) /\ ~PastDelete(IdleFlow, s)
    BY DEF AtWork, PastDelete, IdleFlow
  <2>11. \A g \in Handlers, s \in Connects : FollowsAt(g, s)
    BY <2>8, <2>10 DEF FollowsAt
  <2>12. \A g \in Handlers : ~AtWork(flow[g], z) /\ ~PastDelete(flow[g], z)
    BY <2>6, NobodyAtWork
  <2>13. \A g \in Handlers : ~AtWork(flow[g], z)' /\ ~PastDelete(flow[g], z)'
    BY <2>11, <2>12 DEF FollowsAt, AtWork, PastDelete
  <2>14. Once(z)'
    BY <2>5, <2>7, <2>13 DEF Once
  <2>15. version' = version /\ ResolvedClient(srv)' = ResolvedClient(srv)
    BY <1>1 DEF ConfigVars, ResolvedClient, LinkedApp
  <2>16. StateOK(z)'
    BY <2>2, <2>3, <2>5, <2>7, <2>15 DEF StateOK, FlowOK, StartCurrent
  <2> QED
    BY <1>1, <2>1, <2>4, <2>6, <2>8, <2>9, <2>11, <2>14, <2>16, StateStepKeeps
<1> QED
  BY <1>2, <1>3

LEMMA ConsentKeeps ==
  ASSUME ConnIInv, NEW z \in Connects, Consent(z)
  PROVE  ConnIInv'
<1> DEFINE n == [states[z] EXCEPT !.code = "issued"]
<1>1. UNCHANGED <<ConfigVars, stored, flow, used>> /\ states' = [states EXCEPT ![z] = n]
  BY DEF Consent
<1>2. states[z] \in StateType /\ StateOK(z) /\ Once(z)
  BY DEF ConnIInv
<1>3. n \in StateType
  BY <1>2 DEF StateType
<1>4. /\ n.code = "issued" /\ n.client = states[z].client /\ n.since = states[z].since
      /\ n.row = states[z].row /\ n.exchanges = states[z].exchanges
      /\ n.twice = states[z].twice
  BY <1>2 DEF StateType
<1> HIDE DEF n
<1>5. states'[z] = n
  BY <1>1 DEF ConnIInv
<1>6. \A g \in Handlers, s \in Connects : FollowsAt(g, s)
  BY <1>1 DEF FollowsAt
<1>7. Once(z)'
  BY <1>2, <1>4, <1>5, <1>6, OnceFollows DEF SameOnce
<1>8. version' = version /\ ResolvedClient(srv)' = ResolvedClient(srv)
  BY <1>1 DEF ConfigVars, ResolvedClient, LinkedApp
<1>9. states[z].client # NoClient
  BY DEF Consent
<1>10. StateOK(z)'
  BY <1>2, <1>4, <1>5, <1>8, <1>9 DEF StateOK
<1>11. flow' \in [Handlers -> FlowType] /\ \A g \in Handlers : FlowOK(flow'[g])
  BY <1>1 DEF ConnIInv
<1> QED
  BY <1>1, <1>3, <1>4, <1>6, <1>7, <1>10, <1>11, StateStepKeeps

\* The first callback to find the row is alone on the state; a second one that
\* finds it before the first has deleted it makes the state one used twice.
LEMMA SelectStateKeeps ==
  ASSUME ConnIInv, NEW h \in Handlers, NEW z \in Connects, SelectState(h, z)
  PROVE  ConnIInv'
<1>1. CASE states[z].row # "pending"
  <2>1. UNCHANGED connectVars
    BY <1>1 DEF SelectState, ConfigVars, connectVars
  <2> QED
    BY <2>1, ConnStutterKeeps
<1>2. CASE states[z].row = "pending"
  <2> DEFINE other == \E g \in Handlers : FlowAt(g, "callback", "delete") /\ flow[g].state = z
             n == [states[z] EXCEPT !.twice = states[z].twice \/ other]
             c == [IdleFlow EXCEPT !.op = "callback", !.pc = "delete", !.state = z]
  <2>1. /\ UNCHANGED <<ConfigVars, stored, used>> /\ FlowTo(h, c)
        /\ states' = [states EXCEPT ![z] = n]
        /\ states[z].code # "none"
    BY <1>2 DEF SelectState
  <2>2. states[z] \in StateType /\ StateOK(z) /\ Once(z)
    BY DEF ConnIInv
  <2>3. n \in StateType
    BY <2>2 DEF StateType
  <2>4. /\ n.code = states[z].code /\ n.client = states[z].client
        /\ n.since = states[z].since /\ n.row = states[z].row
        /\ n.exchanges = states[z].exchanges
        /\ n.twice <=> (states[z].twice \/ other)
    BY <2>2 DEF StateType
  <2> HIDE DEF n
  <2>5. c \in FlowType
    BY IdleFlowIsOK DEF FlowType
  <2>6. c.op = "callback" /\ c.pc = "delete" /\ c.state = z
    BY DEF IdleFlow
  <2> HIDE DEF c
  <2>7. FlowOK(c)
    BY <2>1, <2>6 DEF FlowOK, StartCurrent, CallbackCurrent
  <2>8. /\ flow' \in [Handlers -> FlowType] /\ flow'[h] = c
        /\ \A g \in Handlers : g # h => flow'[g] = flow[g]
    BY <2>1, <2>5, FlowMoved
  <2>9. \A g \in Handlers : FlowOK(flow'[g])
    BY <2>7, <2>8 DEF ConnIInv
  <2>10. \A s \in Connects : s # z => ~AtWork(c, s) /\ ~PastDelete(c, s)
    BY <2>6 DEF AtWork, PastDelete
  <2>11. \A g \in Handlers, s \in Connects : s # z => FollowsAt(g, s)
    BY <2>8, <2>10 DEF FollowsAt
  <2>12. states'[z] = n
    BY <2>1 DEF ConnIInv
  <2>13. Once(z)'
    <3> SUFFICES ASSUME ~n.twice PROVE Once(z)'
      BY <2>12 DEF Once
    <3>1. ~states[z].twice /\ ~other
      BY <2>4
    <3>2. states[z].exchanges = 0 /\ \A g \in Handlers : ~PastDelete(flow[g], z)
      BY <1>2, <2>2, <3>1 DEF Once
    <3>3. \A g \in Handlers : ~AtWork(flow[g], z)
      BY <3>1, <3>2 DEF AtWork, PastDelete, FlowAt
    <3>4. \A g \in Handlers : AtWork(flow[g], z)' => g = h
      BY <2>8, <3>3 DEF AtWork
    <3>5. \A g \in Handlers : ~PastDelete(flow[g], z)'
      BY <2>6, <2>8, <3>2 DEF PastDelete, AtWork
    <3> QED
      BY <2>4, <2>12, <3>2, <3>4, <3>5 DEF Once
  <2>14. version' = version /\ ResolvedClient(srv)' = ResolvedClient(srv)
    BY <2>1 DEF ConfigVars, ResolvedClient, LinkedApp
  <2>15. StateOK(z)'
    BY <2>2, <2>4, <2>12, <2>14 DEF StateOK
  <2> QED
    BY <2>1, <2>3, <2>4, <2>8, <2>9, <2>11, <2>13, <2>15, StateStepKeeps
<1> QED
  BY <1>1, <1>2

LEMMA DeleteStateKeeps ==
  ASSUME ConnIInv, NEW h \in Handlers, DeleteState(h)
  PROVE  ConnIInv'
<1> DEFINE on == [flow[h] EXCEPT !.pc = "server"]
<1>1. flow[h] \in FlowType /\ FlowOK(flow[h])
  BY DEF ConnIInv
<1>2. flow[h].op = "callback" /\ flow[h].pc = "delete"
  BY DEF DeleteState, FlowAt
<1>3. PICK z \in Connects : z = flow[h].state /\ states[z].code # "none"
  BY <1>1, <1>2 DEF FlowOK
<1> DEFINE n == [states[z] EXCEPT !.row = "deleted"]
<1>4. PICK c \in {on, IdleFlow} :
         /\ FlowTo(h, c) /\ states' = [states EXCEPT ![z] = n]
         /\ UNCHANGED <<ConfigVars, stored, used>>
  BY <1>3 DEF DeleteState, EndFlow
<1>5. on \in FlowType
  BY <1>1 DEF FlowType
<1>6. on.op = "callback" /\ on.pc = "server" /\ on.state = z
  BY <1>1, <1>2, <1>3 DEF FlowType
<1> HIDE DEF on
<1>7. FlowOK(on)
  BY <1>3, <1>6 DEF FlowOK, StartCurrent, CallbackCurrent
<1>8. c \in FlowType /\ FlowOK(c)
  BY <1>4, <1>5, <1>7, IdleFlowIsOK
<1>9. \A s \in Connects : /\ AtWork(c, s) => AtWork(flow[h], s)
                          /\ s # z => ~AtWork(c, s)
  BY <1>2, <1>3, <1>4, <1>6 DEF AtWork, IdleFlow
<1>10. /\ flow' \in [Handlers -> FlowType] /\ flow'[h] = c
       /\ \A g \in Handlers : g # h => flow'[g] = flow[g]
  BY <1>4, <1>8, FlowMoved
<1>11. states[z] \in StateType /\ StateOK(z) /\ Once(z)
  BY DEF ConnIInv
<1>12. n \in StateType
  BY <1>11 DEF StateType
<1>13. /\ n.code = states[z].code /\ n.client = states[z].client
       /\ n.since = states[z].since /\ n.row = "deleted"
       /\ n.exchanges = states[z].exchanges
       /\ n.twice = states[z].twice
  BY <1>11 DEF StateType
<1> HIDE DEF n
<1>14. states'[z] = n
  BY <1>4 DEF ConnIInv
<1>15. \A g \in Handlers : FlowOK(flow'[g])
  BY <1>8, <1>10 DEF ConnIInv
<1>16. \A g \in Handlers, s \in Connects : s # z => FollowsAt(g, s)
  BY <1>9, <1>10 DEF FollowsAt, PastDelete
<1>17. Once(z)'
  <2>1. \A g \in Handlers : AtWork(flow'[g], z) => AtWork(flow[g], z)
    BY <1>9, <1>10
  <2>2. \A g \in Handlers : AtWork(flow[g], z)' => AtWork(flow[g], z)
    BY <2>1 DEF AtWork
  <2> QED
    BY <1>11, <1>13, <1>14, <2>2 DEF Once
<1>18. version' = version /\ ResolvedClient(srv)' = ResolvedClient(srv)
  BY <1>4 DEF ConfigVars, ResolvedClient, LinkedApp
<1>19. StateOK(z)'
  BY <1>11, <1>13, <1>14, <1>18 DEF StateOK
<1> QED
  BY <1>4, <1>10, <1>12, <1>13, <1>15, <1>16, <1>17, <1>19, StateStepKeeps

\* The code of a state that was never used twice has been tried by nobody.
LEMMA ExchangeKeeps ==
  ASSUME ConnIInv, NEW h \in Handlers, Exchange(h)
  PROVE  ConnIInv'
<1> DEFINE on == [flow[h] EXCEPT !.pc = "store"]
<1>1. flow[h] \in FlowType /\ FlowOK(flow[h])
  BY DEF ConnIInv
<1>2. flow[h].op = "callback" /\ flow[h].pc = "exchange"
  BY DEF Exchange, FlowAt
<1>3. PICK z \in Connects : z = flow[h].state /\ states[z].code # "none"
  BY <1>1, <1>2 DEF FlowOK
<1>4. states[z] \in StateType /\ StateOK(z) /\ Once(z) /\ states \in [Connects -> StateType]
  BY DEF ConnIInv
<1> DEFINE tried == [states[z] EXCEPT !.exchanges = @ + 1]
           taken == [states[z] EXCEPT !.code = "spent", !.exchanges = @ + 1]
<1>5. PICK c \in {on, IdleFlow}, n \in {tried, taken} :
         /\ FlowTo(h, c) /\ states' = [states EXCEPT ![z] = n]
         /\ UNCHANGED <<ConfigVars, stored, used>>
  <2>1. UNCHANGED <<ConfigVars, stored, used>>
    BY DEF Exchange
  <2>2. CASE ExchangeAccepted(h)
    BY <1>3, <1>4, <2>1, <2>2 DEF Exchange
  <2>3. CASE ~ExchangeAccepted(h)
    BY <1>3, <1>4, <2>1, <2>3 DEF Exchange, EndFlow
  <2> QED
    BY <2>2, <2>3
<1>6. on \in FlowType
  BY <1>1 DEF FlowType
<1>7. /\ on.op = "callback" /\ on.pc = "store" /\ on.state = z
      /\ on.client = flow[h].client
  BY <1>1, <1>2, <1>3 DEF FlowType
<1> HIDE DEF on
<1>8. FlowOK(on)
  BY <1>1, <1>2, <1>3, <1>7 DEF FlowOK, StartCurrent, CallbackCurrent
<1>9. c \in FlowType /\ FlowOK(c)
  BY <1>5, <1>6, <1>8, IdleFlowIsOK
<1>10. \A s \in Connects : ~AtWork(c, s)
  BY <1>5, <1>7 DEF AtWork, IdleFlow
<1>11. /\ flow' \in [Handlers -> FlowType] /\ flow'[h] = c
       /\ \A g \in Handlers : g # h => flow'[g] = flow[g]
  BY <1>5, <1>9, FlowMoved
<1>12. n \in StateType
  <2>1. states[z].exchanges + 1 \in Nat
    BY <1>4 DEF StateType
  <2>2. tried \in StateType
    BY <1>4, <2>1 DEF StateType
  <2>3. taken \in StateType
    BY <1>4, <2>1 DEF StateType
  <2> HIDE DEF tried, taken
  <2> QED
    BY <1>5, <2>2, <2>3
<1>13. /\ n.code \in {"spent", states[z].code} /\ n.client = states[z].client
       /\ n.since = states[z].since /\ n.row = states[z].row
       /\ n.exchanges = states[z].exchanges + 1
       /\ n.twice = states[z].twice
  BY <1>4, <1>5 DEF StateType
<1> HIDE DEF tried, taken
<1>14. states'[z] = n /\ states[z].exchanges \in Nat
  BY <1>4, <1>5 DEF StateType
<1>15. \A g \in Handlers : FlowOK(flow'[g])
  BY <1>9, <1>11 DEF ConnIInv
<1>16. \A g \in Handlers, s \in Connects : s # z => FollowsAt(g, s)
  BY <1>10, <1>11 DEF FollowsAt, PastDelete
<1>17. Once(z)'
  <2> SUFFICES ASSUME ~n.twice PROVE Once(z)'
    BY <1>14 DEF Once
  <2>1. AtWork(flow[h], z) /\ PastDelete(flow[h], z)
    BY <1>2, <1>3 DEF AtWork, PastDelete
  <2>2. /\ states[z].exchanges = 0 /\ states[z].row # "pending"
        /\ \A g \in Handlers : AtWork(flow[g], z) => g = h
    BY <1>4, <1>13, <2>1 DEF Once
  <2>3. \A g \in Handlers : ~AtWork(flow'[g], z)
    BY <1>10, <1>11, <2>2
  <2>4. \A g \in Handlers : ~AtWork(flow[g], z)'
    BY <2>3 DEF AtWork
  <2>5. n.exchanges <= 1 /\ n.row # "pending"
    BY <1>13, <2>2
  <2> QED
    BY <1>14, <2>4, <2>5 DEF Once
<1>18. version' = version /\ ResolvedClient(srv)' = ResolvedClient(srv)
  BY <1>5 DEF ConfigVars, ResolvedClient, LinkedApp
<1>19. StateOK(z)'
  <2>1. n.exchanges > 0
    BY <1>13, <1>14
  <2> QED
    BY <1>3, <1>4, <1>13, <1>14, <1>18, <2>1 DEF StateOK
<1>20. n.code # "none"
  BY <1>3, <1>13
<1> QED
  BY <1>5, <1>11, <1>12, <1>13, <1>15, <1>16, <1>17, <1>19, <1>20, StateStepKeeps

-----------------------------------------------------------------------------
(* The steps that change the configuration.                                 *)

\* The states keep what their handlers and the provider know of them.
StatesStand ==
    /\ states' \in [Connects -> StateType]
    /\ \A s \in Connects :
          /\ SameOnce(s)
          /\ states'[s].code = states[s].code
          /\ states'[s].client = states[s].client
          /\ states'[s].since = states[s].since

\* What began before the change is no longer current.
LEMMA ChangedAnyFlow ==
  ASSUME ConnIInv, version' = version + 1, StatesStand, NEW g \in Handlers,
         flow'[g] \in FlowType, FlowOK(flow'[g]),
         flow'[g].op = "remove" /\ srv'.link = flow'[g].app => flow'[g].raced
  PROVE  FlowOK(flow[g])'
<1> DEFINE c == flow'[g]
<1>1. FlowOK(c) /\ c \in FlowType /\ version \in Nat
  BY DEF ConnIInv
<1>2. c.op = "start" => c.since \in Nat /\ c.since <= version
  BY <1>1 DEF FlowOK, FlowType
<1>3. c.op = "callback" =>
         /\ c.state \in Connects
         /\ states[c.state].code # "none"
         /\ states[c.state].since \in Nat
         /\ states[c.state].since <= version
  BY <1>1 DEF FlowOK, ConnIInv, StateOK, StateType
<1>4. c.op = "start" => c.since # version'
  BY <1>1, <1>2
<1>5. c.op = "callback" => states'[c.state].since # version'
  BY <1>1, <1>3 DEF StatesStand
<1>6. StartCurrent(flow[g])' /\ CallbackCurrent(flow[g])'
  BY <1>4, <1>5 DEF StartCurrent, CallbackCurrent
<1>7. c.op = "callback" => states'[c.state].code # "none"
  BY <1>3 DEF StatesStand
<1>8. c.op = "start" => c.since <= version'
  BY <1>1, <1>2
<1> QED
  BY <1>1, <1>6, <1>7, <1>8 DEF FlowOK

LEMMA ChangedFlow ==
  ASSUME ConnIInv, version' = version + 1, StatesStand, NEW g \in Handlers,
         flow'[g] = flow[g],
         flow[g].op = "remove" /\ srv'.link = flow[g].app => flow[g].raced
  PROVE  FlowOK(flow[g])'
<1>1. flow'[g] \in FlowType /\ FlowOK(flow'[g])
  BY DEF ConnIInv
<1> QED
  BY <1>1, ChangedAnyFlow

LEMMA ChangedState ==
  ASSUME ConnIInv, version' = version + 1, StatesStand, NEW s \in Connects,
         \A g \in Handlers : FollowsAt(g, s)
  PROVE  StateOK(s)' /\ Once(s)'
<1>1. StateOK(s) /\ Once(s) /\ version \in Nat /\ states[s] \in StateType
  BY DEF ConnIInv
<1>2. Once(s)'
  BY <1>1, OnceFollows DEF StatesStand
<1>3. states[s].since \in Nat /\ states[s].since <= version
  BY <1>1 DEF StateOK, StateType
<1>4. states'[s].since <= version' /\ states'[s].since # version'
  BY <1>1, <1>3 DEF StatesStand
<1>5. StateOK(s)'
  BY <1>1, <1>4 DEF StateOK, StatesStand, SameOnce
<1> QED
  BY <1>2, <1>5

\* A change that moves no handler, and links the server to nothing new.
LEMMA ChangeKeeps ==
  ASSUME ConnIInv, version' = version + 1, StatesStand, UNCHANGED flow,
         TablesOK', ProviderOK', srv'.link \in {srv.link, 0}
  PROVE  ConnIInv'
<1>1. \A g \in Handlers : flow[g].op = "remove" => flow[g].app \in AppIds
  BY DEF ConnIInv, FlowOK
<1>2. ASSUME NEW g \in Handlers PROVE FlowOK(flow[g])'
  <2>1. flow[g].op = "remove" /\ srv'.link = flow[g].app => flow[g].raced
    BY <1>1 DEF ConnIInv, FlowOK, AppIds
  <2> QED
    BY <2>1, ChangedFlow
<1>3. \A g \in Handlers, s \in Connects : FollowsAt(g, s)
  BY DEF FollowsAt
<1>4. \A s \in Connects : StateOK(s)' /\ Once(s)'
  BY <1>3, ChangedState
<1>5. version' \in Nat /\ flow' \in [Handlers -> FlowType]
  BY DEF ConnIInv
<1> QED
  BY <1>2, <1>4, <1>5 DEF ConnIInv, StatesStand

LEMMA SameStatesStand ==
  ASSUME ConnIInv, UNCHANGED states
  PROVE  StatesStand
BY DEF ConnIInv, StatesStand, SameOnce

LEMMA UpdateServerFieldsKeeps ==
  ASSUME ConnIInv, UpdateServerFields
  PROVE  ConnIInv'
<1>1. /\ version' = version + 1 /\ UNCHANGED <<apps, provider, states, stored, flow>>
      /\ Edit /\ srv.present
      /\ srv' \in {[srv EXCEPT !.own = "own"], [srv EXCEPT !.secret = SecretAt("own")],
                   [srv EXCEPT !.public = ~@], [srv EXCEPT !.personal = ~@],
                   [srv EXCEPT !.link = 0]}
  BY DEF UpdateServerFields
<1>2. srv \in SrvType
  BY DEF ConnIInv, TablesOK
<1>3. SecretAt("own") \in ConnSecrets /\ "own" \in ConnClients
  BY SecretFits DEF ConnClients, ClientIds, Confidential
<1>4. srv' \in SrvType /\ srv'.link \in {srv.link, 0} /\ (srv'.present <=> srv.present)
  BY <1>1, <1>2, <1>3 DEF SrvType
<1>5. TablesOK'
  BY <1>1, <1>4 DEF ConnIInv, TablesOK
<1>6. ProviderOK' /\ StatesStand
  BY <1>1, EditProvider, SameStatesStand
<1> QED
  BY <1>1, <1>4, <1>5, <1>6, ChangeKeeps

LEMMA UpdateAppKeeps ==
  ASSUME ConnIInv, NEW a \in AppIds, UpdateApp(a)
  PROVE  ConnIInv'
<1>1. /\ version' = version + 1 /\ UNCHANGED <<srv, provider, states, stored, flow>>
      /\ Edit /\ apps[a] # NoApp
  BY DEF UpdateApp
<1>2. PICK row \in {[client |-> "shared", secret |-> SecretAt("shared")],
                    [apps[a] EXCEPT !.secret = SecretAt(apps[a].client)],
                    [apps[a] EXCEPT !.secret = 0]} :
         apps' = [apps EXCEPT ![a] = row]
  BY DEF UpdateApp
<1>3. /\ apps[a] \in [client : ConnClients, secret : ConnSecrets]
      /\ apps[a].client # NoClient
  BY <1>1 DEF ConnIInv, TablesOK
<1>4. /\ SecretAt("shared") \in ConnSecrets /\ SecretAt(apps[a].client) \in ConnSecrets
      /\ 0 \in ConnSecrets /\ "shared" \in ConnClients /\ "shared" # NoClient
  BY <1>3, SecretFits, ConnectAssumption
     DEF ConnClients, ClientIds, Confidential, ConnSecrets, NoClient
<1>5. row \in [client : ConnClients, secret : ConnSecrets] /\ row.client # NoClient
  BY <1>2, <1>3, <1>4
<1>6. row # NoApp
  BY <1>5 DEF NoApp
<1>7. TablesOK'
  BY <1>1, <1>2, <1>5, <1>6 DEF ConnIInv, TablesOK
<1>8. ProviderOK' /\ StatesStand
  BY <1>1, EditProvider, SameStatesStand
<1> QED
  BY <1>1, <1>7, <1>8, ChangeKeeps

LEMMA RotateSecretKeeps ==
  ASSUME ConnIInv, NEW c \in Confidential, RotateSecret(c)
  PROVE  ConnIInv'
<1>1. /\ version' = version + 1 /\ UNCHANGED <<srv, apps, states, stored, flow>>
      /\ provider' = [provider EXCEPT !.secret[c] = @ + 1]
      /\ Edit
  BY DEF RotateSecret
<1>2. /\ used' \in [edits : Nat, faults : Nat]
      /\ used'.edits = used.edits + 1
      /\ used'.edits + used'.faults <= MaxEdits
  BY <1>1, EditFits
<1>3. /\ used.edits \in Nat
      /\ provider \in [registered : 0..2, secret : [Confidential -> Nat \ {0}]]
      /\ \A k \in Confidential : provider.secret[k] <= used.edits + 1
  BY DEF ConnIInv, ProviderOK
<1>4. /\ provider'.registered = provider.registered
      /\ provider'.secret = [provider.secret EXCEPT ![c] = @ + 1]
      /\ provider' = [registered |-> provider'.registered, secret |-> provider'.secret]
  BY <1>1, <1>3
<1>5. provider.secret[c] + 1 \in Nat \ {0}
  BY <1>3
<1>6. provider'.secret \in [Confidential -> Nat \ {0}]
  BY <1>3, <1>4, <1>5
<1>7. \A k \in Confidential : provider'.secret[k] <= used'.edits + 1
  BY <1>2, <1>3, <1>4
<1>8. ProviderOK'
  BY <1>2, <1>3, <1>4, <1>6, <1>7 DEF ProviderOK
<1>9. TablesOK' /\ StatesStand
  BY <1>1, TablesStay, SameStatesStand
<1> QED
  BY <1>1, <1>8, <1>9, ChangeKeeps

LEMMA DeleteConnectServerKeeps ==
  ASSUME ConnIInv, DeleteConnectServer
  PROVE  ConnIInv'
<1>1. /\ version' = version + 1 /\ UNCHANGED <<apps, provider, flow>>
      /\ srv' = NoServer /\ stored' = NoCredential /\ Edit
      /\ states' = [s \in Connects |->
            IF states[s].row = "pending" THEN [states[s] EXCEPT !.row = "deleted"]
            ELSE states[s]]
  BY DEF DeleteConnectServer
<1>2. NoServer \in SrvType /\ NoServer.link = 0 /\ NoServer.present = FALSE
  BY ConnectAssumption DEF NoServer, SrvType, ConnClients, ConnSecrets
<1>3. /\ NoCredential \in [kind : {"none", "access_token", "refreshable"},
                           client : ConnClients, secret : ConnSecrets]
      /\ NoCredential.kind = "none" /\ NoCredential.client = NoClient
  BY ConnectAssumption DEF NoCredential, ConnClients, ConnSecrets
<1>4. TablesOK'
  BY <1>1, <1>2, <1>3 DEF ConnIInv, TablesOK
<1>5. ASSUME NEW s \in Connects
      PROVE  /\ states'[s] \in StateType /\ SameOnce(s)
             /\ states'[s].code = states[s].code
             /\ states'[s].client = states[s].client
             /\ states'[s].since = states[s].since
  <2>1. states[s] \in StateType
    BY DEF ConnIInv
  <2>2. states'[s] \in {states[s], [states[s] EXCEPT !.row = "deleted"]}
    BY <1>1
  <2> QED
    BY <2>1, <2>2 DEF StateType, SameOnce
<1>6. states' \in [Connects -> StateType]
  BY <1>1, <1>5
<1>7. StatesStand
  BY <1>5, <1>6 DEF StatesStand
<1>8. ProviderOK'
  BY <1>1, EditProvider
<1> QED
  BY <1>1, <1>2, <1>4, <1>7, <1>8, ChangeKeeps

\* The client just registered is the one this server resolves to now, if
\* nothing has changed since the Connect began.
LEMMA PersistClientKeeps ==
  ASSUME ConnIInv, NEW h \in Handlers, PersistClient(h)
  PROVE  ConnIInv'
<1>1. UNCHANGED <<apps, provider, states, stored, used>>
  BY DEF PersistClient
<1>2. CASE ~srv.present
  <2>1. EndFlow(h) /\ UNCHANGED <<srv, version>>
    BY <1>2 DEF PersistClient
  <2> QED
    BY <1>1, <2>1, TablesStay, ProviderStays, EndFlowKeeps
<1>3. CASE srv.present
  <2> DEFINE begun == IF flow[h].since = version THEN version + 1 ELSE flow[h].since
             c == [flow[h] EXCEPT !.pc = "insert", !.since = begun]
  <2>1. /\ srv' = [srv EXCEPT !.own = flow[h].client] /\ version' = version + 1
        /\ FlowTo(h, c)
    <3>1. flow[h] \in FlowType
      BY DEF ConnIInv
    <3> QED
      BY <1>3, <3>1 DEF PersistClient, FlowType
  <2>2. flow[h] \in FlowType /\ FlowOK(flow[h]) /\ version \in Nat /\ srv \in SrvType
    BY DEF ConnIInv, TablesOK
  <2>3. flow[h].op = "start" /\ flow[h].pc = "persist"
    BY DEF PersistClient, FlowAt
  <2>4. /\ begun \in Nat /\ begun <= version'
        /\ begun = version' => flow[h].since = version
    BY <2>1, <2>2, <2>3 DEF FlowOK, FlowType
  <2> HIDE DEF begun
  <2>5. c \in FlowType
    BY <2>2, <2>4 DEF FlowType
  <2>6. /\ c.op = "start" /\ c.pc = "insert" /\ c.since = begun
        /\ c.client = flow[h].client
    BY <2>2, <2>3 DEF FlowType
  <2> HIDE DEF c
  <2>7. /\ flow' \in [Handlers -> FlowType] /\ flow'[h] = c
        /\ \A g \in Handlers : g # h => flow'[g] = flow[g]
    BY <2>1, <2>5, FlowMoved
  <2>8. /\ srv' \in SrvType /\ srv'.link = srv.link /\ srv'.own = flow[h].client
        /\ srv'.present
    BY <1>3, <2>1, <2>2 DEF SrvType, FlowType
  <2>9. TablesOK' /\ ProviderOK' /\ StatesStand
    BY <1>1, <1>3, <2>8, ProviderStays, SameStatesStand DEF ConnIInv, TablesOK
  <2>10. begun = version' => ResolvedClient(srv)' = flow[h].client
    <3> SUFFICES ASSUME begun = version' PROVE ResolvedClient(srv)' = flow[h].client
      OBVIOUS
    <3>1. LinkedApp(srv) = NoApp
      BY <2>2, <2>3, <2>4 DEF FlowOK, StartCurrent
    <3>2. LinkedApp(srv)' = NoApp
      BY <1>1, <2>8, <3>1 DEF LinkedApp
    <3> QED
      BY <2>8, <3>2 DEF ResolvedClient
  <2>11. FlowOK(flow[h])'
    <3>1. StartCurrent(flow[h])'
      BY <2>6, <2>7, <2>10 DEF StartCurrent
    <3>2. CallbackCurrent(flow[h])'
      BY <2>6, <2>7 DEF CallbackCurrent
    <3> QED
      BY <2>4, <2>6, <2>7, <3>1, <3>2 DEF FlowOK
  <2>12. ASSUME NEW g \in Handlers, g # h PROVE FlowOK(flow[g])'
    <3>1. flow[g].op = "remove" /\ srv'.link = flow[g].app => flow[g].raced
      BY <2>8 DEF ConnIInv, FlowOK
    <3> QED
      BY <2>1, <2>7, <2>9, <2>12, <3>1, ChangedFlow
  <2>13. \A s \in Connects : ~AtWork(c, s) /\ ~PastDelete(c, s)
    BY <2>6 DEF AtWork, PastDelete
  <2>14. \A g \in Handlers, s \in Connects : FollowsAt(g, s)
    BY <2>7, <2>13 DEF FollowsAt
  <2>15. \A s \in Connects : StateOK(s)' /\ Once(s)'
    BY <2>1, <2>9, <2>14, ChangedState
  <2>16. version' \in Nat
    BY <2>1, <2>2
  <2> QED
    BY <2>7, <2>9, <2>11, <2>12, <2>15, <2>16 DEF ConnIInv, StatesStand
<1> QED
  BY <1>2, <1>3

LEMMA DeleteAppKeeps ==
  ASSUME ConnIInv, NEW h \in Handlers, DeleteApp(h)
  PROVE  ConnIInv'
<1> DEFINE a == flow[h].app
<1>1. /\ UNCHANGED <<provider, states, stored, used>> /\ version' = version + 1
      /\ apps' = [apps EXCEPT ![a] = NoApp]
      /\ srv' = [srv EXCEPT !.link = IF srv.link = a THEN 0 ELSE srv.link]
      /\ FlowTo(h, IdleFlow)
  BY DEF DeleteApp, EndFlow
<1>2. a \in AppIds
  BY DEF ConnIInv, FlowOK, DeleteApp, FlowAt
<1> HIDE DEF a
<1>3. NoApp \in [client : ConnClients, secret : ConnSecrets] /\ srv \in SrvType
  BY ConnectAssumption DEF NoApp, ConnClients, ConnSecrets, ConnIInv, TablesOK
<1>4. /\ srv' \in SrvType /\ (srv'.present <=> srv.present)
      /\ srv'.link \in {srv.link, 0} /\ srv'.link # a
  BY <1>1, <1>2, <1>3 DEF SrvType, AppIds
<1>5. TablesOK'
  BY <1>1, <1>2, <1>3, <1>4 DEF ConnIInv, TablesOK, SrvType
<1>6. ProviderOK' /\ StatesStand
  BY <1>1, ProviderStays, SameStatesStand
<1>7. /\ flow' \in [Handlers -> FlowType] /\ flow'[h] = IdleFlow
      /\ \A g \in Handlers : g # h => flow'[g] = flow[g]
  BY <1>1, IdleFlowIsOK, FlowMoved
<1>8. FlowOK(flow[h])'
  BY <1>7 DEF FlowOK, StartCurrent, CallbackCurrent, IdleFlow
<1>9. ASSUME NEW g \in Handlers, g # h PROVE FlowOK(flow[g])'
  <2>1. flow[g].op = "remove" /\ srv'.link = flow[g].app => flow[g].raced
    BY <1>4 DEF ConnIInv, FlowOK, AppIds
  <2> QED
    BY <1>1, <1>6, <1>7, <1>9, <2>1, ChangedFlow
<1>10. \A s \in Connects : ~AtWork(IdleFlow, s) /\ ~PastDelete(IdleFlow, s)
  BY DEF AtWork, PastDelete, IdleFlow
<1>11. \A g \in Handlers, s \in Connects : FollowsAt(g, s)
  BY <1>7, <1>10 DEF FollowsAt
<1>12. \A s \in Connects : StateOK(s)' /\ Once(s)'
  BY <1>1, <1>6, <1>11, ChangedState
<1>13. version' \in Nat
  BY <1>1 DEF ConnIInv
<1> QED
  BY <1>5, <1>6, <1>7, <1>8, <1>9, <1>12, <1>13 DEF ConnIInv, StatesStand

\* Whoever is deleting the app has counted before this link: it is marked.
LEMMA LinkAppFlows ==
  ASSUME ConnIInv, NEW h \in Handlers, LinkApp(h)
  PROVE  /\ flow' \in [Handlers -> FlowType]
         /\ \A g \in Handlers : FlowOK(flow'[g])
         /\ \A g \in Handlers : \/ flow'[g] = IdleFlow
                                \/ flow'[g] = flow[g]
                                \/ flow'[g].op = "remove"
         /\ \A g \in Handlers :
               flow'[g].op = "remove" /\ flow'[g].app = flow[h].app => flow'[g].raced
<1> DEFINE a == flow[h].app
<1>1. flow' = [g \in Handlers |->
                 IF g = h THEN IdleFlow
                 ELSE IF FlowAt(g, "remove", "delete") /\ flow[g].app = a
                 THEN [flow[g] EXCEPT !.raced = TRUE] ELSE flow[g]]
  BY DEF LinkApp
<1> HIDE DEF a
<1>2. ASSUME NEW g \in Handlers
      PROVE  /\ flow'[g] \in FlowType /\ FlowOK(flow'[g])
             /\ flow'[g] = IdleFlow \/ flow'[g] = flow[g] \/ flow'[g].op = "remove"
             /\ flow'[g].op = "remove" /\ flow'[g].app = a => flow'[g].raced
  <2>1. flow[g] \in FlowType /\ FlowOK(flow[g])
    BY DEF ConnIInv
  <2>2. CASE g = h
    BY <1>1, <2>2, IdleFlowIsOK DEF IdleFlow
  <2>3. CASE g # h /\ FlowAt(g, "remove", "delete") /\ flow[g].app = a
    <3> DEFINE c == [flow[g] EXCEPT !.raced = TRUE]
    <3>1. flow'[g] = c
      BY <1>1, <2>3
    <3>2. c \in FlowType /\ c.op = "remove" /\ c.pc = "delete" /\ c.app = a /\ c.raced = TRUE
      BY <2>1, <2>3 DEF FlowType, FlowAt
    <3> HIDE DEF c
    <3>3. a \in AppIds
      BY <2>1, <2>3 DEF FlowOK, FlowAt
    <3>4. FlowOK(c)
      BY <3>2, <3>3 DEF FlowOK, StartCurrent, CallbackCurrent
    <3> QED
      BY <3>1, <3>2, <3>4
  <2>4. CASE g # h /\ ~(FlowAt(g, "remove", "delete") /\ flow[g].app = a)
    <3>1. flow'[g] = flow[g]
      BY <1>1, <2>4
    <3> QED
      BY <2>1, <2>4, <3>1 DEF FlowOK, FlowAt
  <2> QED
    BY <2>2, <2>3, <2>4
<1>3. flow' \in [Handlers -> FlowType]
  BY <1>1, <1>2
<1> QED
  BY <1>2, <1>3 DEF a

LEMMA LinkAppKeeps ==
  ASSUME ConnIInv, NEW h \in Handlers, LinkApp(h)
  PROVE  ConnIInv'
<1> DEFINE a == flow[h].app
           links == srv.present /\ apps[a] # NoApp
<1>1. /\ UNCHANGED <<apps, provider, states, stored, used>>
      /\ srv' = IF links THEN [srv EXCEPT !.link = a] ELSE srv
      /\ version' = IF links THEN version + 1 ELSE version
  BY DEF LinkApp
<1>2. a \in AppIds /\ flow[h].op = "link"
  BY DEF ConnIInv, FlowOK, LinkApp, FlowAt
<1>3. /\ flow' \in [Handlers -> FlowType]
      /\ \A g \in Handlers : FlowOK(flow'[g])
      /\ \A g \in Handlers : \/ flow'[g] = IdleFlow
                             \/ flow'[g] = flow[g]
                             \/ flow'[g].op = "remove"
      /\ \A g \in Handlers :
            flow'[g].op = "remove" /\ flow'[g].app = a => flow'[g].raced
  BY LinkAppFlows
<1> HIDE DEF a
<1>4. \A g \in Handlers, s \in Connects : FollowsAt(g, s)
  BY <1>3 DEF FollowsAt, AtWork, PastDelete, IdleFlow
<1>5. ProviderOK' /\ StatesStand
  BY <1>1, ProviderStays, SameStatesStand
<1>6. CASE links
  <2>1. srv \in SrvType
    BY DEF ConnIInv, TablesOK
  <2>2. /\ srv' \in SrvType /\ srv'.link = a /\ (srv'.present <=> srv.present)
        /\ version' = version + 1
    BY <1>1, <1>2, <1>6, <2>1 DEF SrvType
  <2>3. TablesOK'
    BY <1>1, <1>6, <2>2 DEF ConnIInv, TablesOK
  <2>4. ASSUME NEW g \in Handlers PROVE FlowOK(flow[g])'
    BY <1>3, <1>5, <2>2, ChangedAnyFlow
  <2>5. \A s \in Connects : StateOK(s)' /\ Once(s)'
    BY <1>4, <1>5, <2>2, ChangedState
  <2>6. version' \in Nat
    BY <2>2 DEF ConnIInv
  <2> QED
    BY <1>3, <1>5, <2>3, <2>4, <2>5, <2>6 DEF ConnIInv, StatesStand
<1>7. CASE ~links
  <2>1. UNCHANGED <<srv, version>>
    BY <1>1, <1>7
  <2>2. TablesOK' /\ version' \in Nat
    BY <1>1, <2>1, TablesStay DEF ConnIInv
  <2>3. ResolvedClient(srv)' = ResolvedClient(srv) /\ LinkedApp(srv)' = LinkedApp(srv)
    BY <1>1, <2>1 DEF ResolvedClient, LinkedApp
  <2>4. ASSUME NEW g \in Handlers PROVE FlowOK(flow[g])'
    <3>1. FlowOK(flow'[g])
      BY <1>3
    <3> QED
      BY <1>1, <2>1, <2>3, <3>1 DEF FlowOK, StartCurrent, CallbackCurrent
  <2>5. ASSUME NEW s \in Connects PROVE StateOK(s)' /\ Once(s)'
    <3>1. Once(s)'
      BY <1>4, <1>5, OnceFollows DEF ConnIInv, StatesStand
    <3>2. StateOK(s)'
      BY <1>1, <2>1, <2>3 DEF ConnIInv, StateOK
    <3> QED
      BY <3>1, <3>2
  <2> QED
    BY <1>3, <1>5, <2>2, <2>4, <2>5 DEF ConnIInv, StatesStand
<1> QED
  BY <1>6, <1>7

-----------------------------------------------------------------------------
(* The invariant, and what follows from it.                                 *)

LEMMA ConnInitKeeps == ConnectInit => ConnIInv
<1> SUFFICES ASSUME ConnectInit PROVE ConnIInv
  OBVIOUS
<1>1. /\ srv.present = TRUE /\ srv \in SrvType /\ srv.link \in {0, 1}
  <2>1. srv \in [present : {TRUE}, own : {NoClient, "own"}, secret : {0, 1},
                 link : {0, 1}, public : BOOLEAN, personal : {TRUE}]
    BY DEF ConnectInit
  <2>2. 0 \in ConnSecrets /\ 1 \in ConnSecrets
    BY ConnectAssumption DEF ConnSecrets
  <2>3. NoClient \in ConnClients /\ "own" \in ConnClients /\ 1 \in AppIds
    BY DEF ConnClients, ClientIds, Confidential, AppIds
  <2> QED
    BY <2>1, <2>2, <2>3 DEF SrvType
<1>2. /\ apps \in [AppIds -> [client : ConnClients, secret : ConnSecrets]]
      /\ apps[1].client = "shared" /\ apps[2] = NoApp
  <2>1. 0 \in ConnSecrets /\ 1 \in ConnSecrets
    BY ConnectAssumption DEF ConnSecrets
  <2>2. NoClient \in ConnClients /\ "shared" \in ConnClients
    BY DEF ConnClients, ClientIds, Confidential
  <2> QED
    BY <2>1, <2>2 DEF ConnectInit, AppIds, NoApp
<1>3. NoCredential \in [kind : {"none", "access_token", "refreshable"},
                        client : ConnClients, secret : ConnSecrets]
  BY ConnectAssumption DEF NoCredential, ConnClients, ConnSecrets
<1>4. TablesOK
  <2>1. stored = NoCredential
    BY DEF ConnectInit
  <2>2. NoCredential.kind # "refreshable" /\ NoCredential.client = NoClient
    BY DEF NoCredential
  <2>3. apps[1] # NoApp /\ apps[1].client # NoClient
    BY <1>2 DEF NoApp, NoClient
  <2>4. \A b \in AppIds : b = 1 \/ b = 2
    BY DEF AppIds
  <2> QED
    BY <1>1, <1>2, <1>3, <2>1, <2>2, <2>3, <2>4 DEF TablesOK
<1>5. ProviderOK
  BY ConnectAssumption DEF ConnectInit, ProviderOK
<1>6. states \in [Connects -> StateType] /\ version = 0
  BY ConnectAssumption DEF ConnectInit, StateType, NoState, ConnClients
<1>7. flow \in [Handlers -> FlowType] /\ \A h \in Handlers : flow[h] = IdleFlow
  BY IdleFlowIsOK DEF ConnectInit
<1>8. \A h \in Handlers : FlowOK(flow[h])
  BY <1>7, IdleFlowIsOK
<1>9. \A g \in Handlers, s \in Connects : ~AtWork(flow[g], s) /\ ~PastDelete(flow[g], s)
  BY <1>7 DEF AtWork, PastDelete, IdleFlow
<1>10. ASSUME NEW s \in Connects PROVE StateOK(s) /\ Once(s)
  <2>1. states[s] = NoState
    BY DEF ConnectInit
  <2>2. /\ NoState.row = "none" /\ NoState.client = NoClient /\ NoState.code = "none"
        /\ NoState.exchanges = 0 /\ NoState.since = 0 /\ NoState.twice = FALSE
    BY DEF NoState
  <2> QED
    BY <1>6, <1>9, <2>1, <2>2 DEF StateOK, Once
<1> QED
  BY <1>4, <1>5, <1>6, <1>7, <1>8, <1>10 DEF ConnIInv

LEMMA ConnNextKeeps == ConnIInv /\ [ConnectNext]_connectVars => ConnIInv'
<1> SUFFICES ASSUME ConnIInv, [ConnectNext]_connectVars PROVE ConnIInv'
  OBVIOUS
<1>1. CASE UNCHANGED connectVars
  BY <1>1, ConnStutterKeeps
<1>2. ASSUME NEW h \in Handlers, StartConnect(h) PROVE ConnIInv'
  BY <1>2, StartConnectKeeps
<1>3. ASSUME NEW h \in Handlers, ResolveForStart(h) PROVE ConnIInv'
  BY <1>3, ResolveForStartKeeps
<1>4. ASSUME NEW h \in Handlers, RegisterClient(h) PROVE ConnIInv'
  BY <1>4, RegisterClientKeeps
<1>5. ASSUME NEW h \in Handlers, PersistClient(h) PROVE ConnIInv'
  BY <1>5, PersistClientKeeps
<1>6. ASSUME NEW h \in Handlers, InsertState(h) PROVE ConnIInv'
  BY <1>6, InsertStateKeeps
<1>7. ASSUME NEW h \in Handlers, DeleteState(h) PROVE ConnIInv'
  BY <1>7, DeleteStateKeeps
<1>8. ASSUME NEW h \in Handlers, ReadServer(h) PROVE ConnIInv'
  BY <1>8, ReadServerKeeps
<1>9. ASSUME NEW h \in Handlers, ResolveForCallback(h) PROVE ConnIInv'
  BY <1>9, ResolveForCallbackKeeps
<1>10. ASSUME NEW h \in Handlers, Exchange(h) PROVE ConnIInv'
  BY <1>10, ExchangeKeeps
<1>11. ASSUME NEW h \in Handlers, StoreCredential(h) PROVE ConnIInv'
  BY <1>11, StoreCredentialKeeps
<1>12. ASSUME NEW h \in Handlers, FailFlow(h) PROVE ConnIInv'
  BY <1>12, FailFlowKeeps
<1>13. ASSUME NEW h \in Handlers, DeleteApp(h) PROVE ConnIInv'
  BY <1>13, DeleteAppKeeps
<1>14. ASSUME NEW h \in Handlers, ReadOwnClient(h) PROVE ConnIInv'
  BY <1>14, ReadOwnClientKeeps
<1>15. ASSUME NEW h \in Handlers, ReadOwnSecret(h) PROVE ConnIInv'
  BY <1>15, ReadOwnSecretKeeps
<1>16. ASSUME NEW h \in Handlers, LinkApp(h) PROVE ConnIInv'
  BY <1>16, LinkAppKeeps
<1>17. ASSUME NEW h \in Handlers, NEW s \in Connects, SelectState(h, s) PROVE ConnIInv'
  BY <1>17, SelectStateKeeps
<1>18. ASSUME NEW h \in Handlers, NEW a \in AppIds, AssertApp(h, a) PROVE ConnIInv'
  BY <1>18, AssertAppKeeps
<1>19. ASSUME NEW h \in Handlers, NEW a \in AppIds, InsertApp(h, a) PROVE ConnIInv'
  BY <1>19, InsertAppKeeps
<1>20. ASSUME NEW h \in Handlers, NEW a \in AppIds, NEW detach \in BOOLEAN,
              CountLinked(h, a, detach)
       PROVE  ConnIInv'
  BY <1>20, CountLinkedKeeps, Zenon
<1>21. ASSUME NEW s \in Connects, Consent(s) PROVE ConnIInv'
  BY <1>21, ConsentKeeps
<1>22. ASSUME NEW a \in AppIds, UpdateApp(a) PROVE ConnIInv'
  BY <1>22, UpdateAppKeeps
<1>23. ASSUME NEW c \in Confidential, RotateSecret(c) PROVE ConnIInv'
  BY <1>23, RotateSecretKeeps
<1>24. CASE UpdateServerFields
  BY <1>24, UpdateServerFieldsKeeps
<1>25. CASE DeleteConnectServer
  BY <1>25, DeleteConnectServerKeeps
<1> QED
  BY <1>1, <1>2, <1>3, <1>4, <1>5, <1>6, <1>7, <1>8, <1>9, <1>10, <1>11, <1>12, <1>13,
     <1>14, <1>15, <1>16, <1>17, <1>18, <1>19, <1>20, <1>21, <1>22, <1>23, <1>24, <1>25,
     Zenon
     DEF ConnectNext

LEMMA ConnStateFollows == ConnIInv => ConnectTypeOK /\ StateSpentOnce
<1> SUFFICES ASSUME ConnIInv PROVE ConnectTypeOK /\ StateSpentOnce
  OBVIOUS
<1>1. StateSpentOnce
  BY DEF ConnIInv, Once, StateSpentOnce, StateType
<1>2. provider \in [registered : 0..2, secret : [Confidential -> 1..(MaxEdits + 1)]]
  <2>1. /\ provider \in [registered : 0..2, secret : [Confidential -> Nat \ {0}]]
        /\ \A c \in Confidential : provider.secret[c] <= used.edits + 1
        /\ used.edits \in Nat /\ used.edits <= MaxEdits
    BY ConnectAssumption DEF ConnIInv, ProviderOK
  <2>2. \A c \in Confidential : provider.secret[c] \in 1..(MaxEdits + 1)
    BY <2>1, ConnectAssumption
  <2>3. provider.secret \in [Confidential -> 1..(MaxEdits + 1)]
    BY <2>1, <2>2
  <2> QED
    BY <2>1, <2>3
<1>3. ASSUME NEW s \in Connects
      PROVE  /\ states[s].row \in {"none", "pending", "deleted"}
             /\ states[s].code \in {"none", "issued", "spent"}
             /\ states[s].client \in ClientIds \cup {NoClient}
  BY DEF ConnIInv, StateType, ConnClients
<1>4. ASSUME NEW h \in Handlers
      PROVE  /\ flow[h].client \in ClientIds \cup {NoClient}
             /\ flow[h].state \in Connects \cup {0}
  BY DEF ConnIInv, FlowType, ConnClients
<1>5. ConnectTypeOK
  BY <1>2, <1>3, <1>4 DEF ConnIInv, TablesOK, ConnectTypeOK, SrvType, ConnClients, ConnSecrets
<1> QED
  BY <1>1, <1>5

LEMMA RefreshFollows == ConnIInv => RefreshKeepsClient
BY DEF ConnIInv, TablesOK, RefreshKeepsClient, Presented, Overridden

LEMMA ElsewhereStays ==
  ASSUME NEW g, NEW h \in Handlers, g # h, flow \in [Handlers -> FlowType], NEW c,
         FlowTo(g, c)
  PROVE  flow'[h] = flow[h]
BY DEF FlowTo

\* Unless it fails, a handler that is exchanging leaves off by the exchange.
LEMMA OnlyExchangeEnds ==
  ASSUME ConnIInv, ConnectNext, NEW h \in Handlers, FlowAt(h, "callback", "exchange"),
         flow'[h] = IdleFlow, used'.faults = used.faults
  PROVE  Exchange(h)
<1>1. /\ flow[h].op = "callback" /\ flow[h].pc = "exchange" /\ flow[h] # IdleFlow
      /\ flow \in [Handlers -> FlowType] /\ flow'[h] # flow[h]
  BY DEF FlowAt, IdleFlow, ConnIInv
<1>2. ASSUME NEW g \in Handlers, ResolveForStart(g)
      PROVE  FALSE
  BY <1>1, <1>2, ElsewhereStays DEF ResolveForStart, FlowAt, EndFlow
<1>3. ASSUME NEW g \in Handlers, RegisterClient(g)
      PROVE  FALSE
  BY <1>1, <1>3, ElsewhereStays DEF RegisterClient, FlowAt, EndFlow
<1>4. ASSUME NEW g \in Handlers, PersistClient(g)
      PROVE  FALSE
  BY <1>1, <1>4, ElsewhereStays DEF PersistClient, FlowAt, EndFlow
<1>5. ASSUME NEW g \in Handlers, InsertState(g)
      PROVE  FALSE
  BY <1>1, <1>5, ElsewhereStays DEF InsertState, FlowAt, EndFlow
<1>6. ASSUME NEW g \in Handlers, DeleteState(g)
      PROVE  FALSE
  BY <1>1, <1>6, ElsewhereStays DEF DeleteState, FlowAt, EndFlow
<1>7. ASSUME NEW g \in Handlers, ReadServer(g)
      PROVE  FALSE
  BY <1>1, <1>7, ElsewhereStays DEF ReadServer, FlowAt, EndFlow
<1>8. ASSUME NEW g \in Handlers, ResolveForCallback(g)
      PROVE  FALSE
  BY <1>1, <1>8, ElsewhereStays DEF ResolveForCallback, FlowAt, EndFlow
<1>9. ASSUME NEW g \in Handlers, StoreCredential(g)
      PROVE  FALSE
  BY <1>1, <1>9, ElsewhereStays DEF StoreCredential, FlowAt, EndFlow
<1>10. ASSUME NEW g \in Handlers, DeleteApp(g)
      PROVE  FALSE
  BY <1>1, <1>10, ElsewhereStays DEF DeleteApp, FlowAt, EndFlow
<1>11. ASSUME NEW g \in Handlers, ReadOwnSecret(g)
      PROVE  FALSE
  BY <1>1, <1>11, ElsewhereStays DEF ReadOwnSecret, FlowAt, EndFlow
<1>12. ASSUME NEW g \in Handlers, ReadOwnClient(g)
      PROVE  FALSE
  BY <1>1, <1>12, ElsewhereStays DEF ReadOwnClient, FlowAt, EndFlow
<1>13. ASSUME NEW g \in Handlers, StartConnect(g)
      PROVE  FALSE
  BY <1>1, <1>13, ElsewhereStays DEF StartConnect
<1>14. ASSUME NEW g \in Handlers, g # h, Exchange(g)
      PROVE  FALSE
  BY <1>1, <1>14, ElsewhereStays DEF Exchange, EndFlow
<1>15. ASSUME NEW g \in Handlers, FailFlow(g)
      PROVE  FALSE
  <2>1. used'.faults = used.faults + 1 /\ used.faults \in Nat
    BY <1>15 DEF ConnIInv, ProviderOK, FailFlow
  <2> QED
    BY <2>1
<1>16. ASSUME NEW g \in Handlers, LinkApp(g)
      PROVE  FALSE
  BY <1>1, <1>16 DEF LinkApp, FlowAt
<1>17. ASSUME NEW g \in Handlers, NEW s \in Connects, SelectState(g, s)
      PROVE  FALSE
  BY <1>1, <1>17, ElsewhereStays DEF SelectState
<1>18. ASSUME NEW g \in Handlers, NEW a \in AppIds, AssertApp(g, a)
      PROVE  FALSE
  BY <1>1, <1>18, ElsewhereStays DEF AssertApp
<1>19. ASSUME NEW g \in Handlers, NEW a \in AppIds, InsertApp(g, a)
      PROVE  FALSE
  BY <1>1, <1>19, ElsewhereStays DEF InsertApp, FlowAt
<1>20. ASSUME NEW g \in Handlers, NEW a \in AppIds, NEW detach \in BOOLEAN,
             CountLinked(g, a, detach)
      PROVE  FALSE
  BY <1>1, <1>20, ElsewhereStays DEF CountLinked
<1>21. ASSUME flow' = flow PROVE FALSE
  BY <1>1, <1>21
<1>22. ASSUME NEW s \in Connects, Consent(s) PROVE flow' = flow
  BY <1>22 DEF Consent
<1>23. ASSUME NEW a \in AppIds, UpdateApp(a) PROVE flow' = flow
  BY <1>23 DEF UpdateApp
<1>24. ASSUME NEW c \in Confidential, RotateSecret(c) PROVE flow' = flow
  BY <1>24 DEF RotateSecret
<1>25. UpdateServerFields \/ DeleteConnectServer => flow' = flow
  BY DEF UpdateServerFields, DeleteConnectServer
<1> QED
  BY <1>2, <1>3, <1>4, <1>5, <1>6, <1>7, <1>8, <1>9, <1>10, <1>11, <1>12, <1>13,
     <1>14, <1>15, <1>16, <1>17, <1>18, <1>19, <1>20, <1>21, <1>22, <1>23, <1>24,
     <1>25, Zenon
     DEF ConnectNext

LEMMA RefusedExchange ==
  ASSUME ConnIInv, ConnectNext, NEW h \in Handlers, FlowAt(h, "callback", "exchange"),
         flow'[h] = IdleFlow, used'.faults = used.faults
  PROVE  \/ states[flow[h].state].since # version
         \/ states[flow[h].state].twice
         \/ SecretAt(flow[h].client) # flow[h].secret
<1> DEFINE z == flow[h].state
<1>1. flow[h].op = "callback" /\ flow[h].pc = "exchange"
  BY DEF FlowAt
<1>2. z \in Connects /\ FlowOK(flow[h]) /\ states[z].code # "none"
  BY <1>1 DEF ConnIInv, FlowOK
<1>3. states[z] \in StateType /\ StateOK(z) /\ Once(z)
  BY <1>2 DEF ConnIInv
<1>4. ~ExchangeAccepted(h)
  <2> SUFFICES ASSUME ExchangeAccepted(h) PROVE FALSE
    OBVIOUS
  <2>1. Exchange(h)
    BY OnlyExchangeEnds
  <2>2. flow[h] \in FlowType
    BY DEF ConnIInv
  <2>3. flow' = [flow EXCEPT ![h] = [flow[h] EXCEPT !.pc = "store"]]
    BY <2>1 DEF Exchange, FlowTo
  <2>4. flow'[h].pc = "store"
    BY <2>2, <2>3 DEF ConnIInv, FlowType
  <2> QED
    BY <2>4 DEF IdleFlow
<1> HIDE DEF z
<1>5. ASSUME states[z].since = version, ~states[z].twice
      PROVE  states[z].code = "issued" /\ states[z].client = flow[h].client
  <2>1. AtWork(flow[h], z)
    BY <1>1 DEF AtWork, z
  <2>2. states[z].exchanges = 0
    BY <1>3, <1>5, <2>1 DEF Once
  <2>3. states[z].code = "issued"
    BY <1>2, <1>3, <2>2 DEF StateOK, StateType
  <2>4. flow[h].client = ResolvedClient(srv)
    BY <1>1, <1>2, <1>5 DEF FlowOK, CallbackCurrent, z
  <2> QED
    BY <1>2, <1>3, <1>5, <2>3, <2>4 DEF StateOK
<1> QED
  BY <1>4, <1>5 DEF ExchangeAccepted, z

LEMMA CountedBefore ==
  ASSUME ConnIInv, NEW h \in Handlers, FlowAt(h, "remove", "delete"),
         srv.link = flow[h].app
  PROVE  flow[h].raced
BY DEF ConnIInv, FlowOK, FlowAt

\* The two action properties of ConnectRules, step by step.
LEMMA ConnStepRules ==
  ConnIInv /\ [ConnectNext]_connectVars =>
     /\ [\A h \in Handlers :
            FlowAt(h, "callback", "exchange") /\ flow'[h] = IdleFlow
                /\ used'.faults = used.faults
            => LET s == states[flow[h].state]
               IN  \/ s.since # version
                   \/ s.twice
                   \/ SecretAt(flow[h].client) # flow[h].secret]_connectVars
     /\ [\A h \in Handlers :
            FlowAt(h, "remove", "delete") /\ flow'[h] = IdleFlow
                /\ srv.link = flow[h].app /\ srv'.link = 0 /\ used' = used
            => flow[h].raced]_connectVars
BY RefusedExchange, CountedBefore

\* The proven form of ConnectRules, for every number of handlers, Connects and
\* changes: a state is spent once, a credential is refreshed with the client it
\* was issued to, an app is deleted only unlinked, and the code comes back to
\* the client it was issued to.
THEOREM ConnectCorrect == ConnectSpec => ConnectRules
<1>1. ConnectInit => ConnIInv
  BY ConnInitKeeps
<1>2. ConnIInv /\ [ConnectNext]_connectVars => ConnIInv'
  BY ConnNextKeeps
<1>3. ConnIInv => ConnectTypeOK /\ StateSpentOnce /\ RefreshKeepsClient
  BY ConnStateFollows, RefreshFollows
<1>4. ConnIInv /\ [ConnectNext]_connectVars =>
     /\ [\A h \in Handlers :
            FlowAt(h, "callback", "exchange") /\ flow'[h] = IdleFlow
                /\ used'.faults = used.faults
            => LET s == states[flow[h].state]
               IN  \/ s.since # version
                   \/ s.twice
                   \/ SecretAt(flow[h].client) # flow[h].secret]_connectVars
     /\ [\A h \in Handlers :
            FlowAt(h, "remove", "delete") /\ flow'[h] = IdleFlow
                /\ srv.link = flow[h].app /\ srv'.link = 0 /\ used' = used
            => flow[h].raced]_connectVars
  BY ConnStepRules
<1> QED
  BY <1>1, <1>2, <1>3, <1>4, PTL
     DEF ConnectSpec, ConnectRules, ConnectCompletes, UnlinkedKnowingly

(***************************************************************************)
(* SessionHub.  What the sessions that no change has crossed follow is     *)
(* what was seen last, or a refresh is under way that tells them, and only *)
(* that; and what was seen last is the file, or somebody looks.            *)
(***************************************************************************)

SessionPCs == {"none", "seen", "discover", "live", "closed"}

SessionType ==
    [pc : SessionPCs, config : Configs \cup {NoConfig},
     tool : [url : Urls \cup {0}, on : BOOLEAN], topology : Urls \cup {0}, crossed : BOOLEAN]

RefreshType ==
    [pc : {"idle", "read", "compare", "apply", "discover"}, config : Configs \cup {NoConfig},
     done : SUBSET Sessions, on : Sessions \cup {"none"}]

HubTypes ==
    /\ file \in Configs
    /\ lastSeen \in Configs \cup {NoConfig}
    /\ timer \in BOOLEAN
    /\ session \in [Sessions -> SessionType]
    /\ refresh \in [Reruns -> RefreshType]
    /\ startup \in [pc : {"read", "seen", "done"}, config : Configs \cup {NoConfig}]

\* An open session that no change has crossed.
Steady(s) == session[s].pc \in {"discover", "live"} /\ ~session[s].crossed

\* r is about to read the file, or to compare it with the fingerprint.
Looks(r) == refresh[r].pc \in {"read", "compare"}

\* r has s forget its tools, and discovers them.
Discovers(r, s) == refresh[r].pc = "discover" /\ refresh[r].on = s

\* What a session and a refresh have before they begin.
HubSteps ==
    /\ startup.pc = "seen" => startup.config \in Configs
    /\ \A s \in Sessions :
          /\ Opening(s) => session[s].tool = NoTool
          /\ Opening(s) \/ Live(s) => session[s].config \in Configs
          /\ Live(s) => session[s].topology = session[s].config.url
    /\ \A r \in Reruns :
          /\ refresh[r].pc = "compare" \/ Applying(r) => refresh[r].config \in Configs
          /\ Looks(r) => refresh[r].done = {}
          /\ refresh[r].pc = "discover" => refresh[r].on \in Sessions
    /\ \A q, r \in Reruns : Looks(q) /\ Looks(r) => q = r

\* Whoever is told anything is told what was seen last, and a session that does
\* not follow it yet is going to be told.
OneConfig ==
    \A s \in Sessions : Steady(s) =>
        /\ \A r \in Reruns : Applying(r) => refresh[r].config = lastSeen
        /\ \/ session[s].config = lastSeen
           \/ Live(s) /\ \E r \in Reruns : Applying(r) /\ s \notin refresh[r].done

\* What a session offers is of the configuration it follows; while it offers
\* nothing, somebody discovers.
ToolsKnown ==
    \A s \in Sessions : Steady(s) /\ Live(s) =>
        /\ session[s].tool \in {NoTool, ToolOf(session[s].config)}
        /\ session[s].tool = NoTool => \E r \in Reruns : Discovers(r, s)
        /\ \A r \in Reruns : Discovers(r, s) =>
              session[s].tool = NoTool \/ session[s].config = lastSeen

\* A change of the file is going to be looked at, until it is what was seen.
ChangeNoticed ==
    /\ \A r \in Reruns : refresh[r].pc = "compare" => timer \/ refresh[r].config = file
    /\ ~timer /\ (\A r \in Reruns : ~Looks(r)) =>
          \A s \in Sessions :
             /\ Steady(s) => lastSeen = file
             /\ session[s].pc = "seen" /\ ~session[s].crossed => session[s].config = file

HubIInv ==
    /\ HubTypes
    /\ HubSteps
    /\ OneConfig
    /\ ToolsKnown
    /\ ChangeNoticed

LEMMA HubConfigs ==
  /\ \A c \in Configs : /\ c # NoConfig /\ ToolOf(c) # NoTool /\ c.url \in Urls
                        /\ ToolOf(c) \in [url : Urls \cup {0}, on : BOOLEAN]
                        /\ c.url \in Urls \cup {0} /\ Fingerprint(c) = c
  /\ NoTool \in [url : Urls \cup {0}, on : BOOLEAN]
  /\ NoSession \in SessionType /\ IdleRefresh \in RefreshType
  /\ NoSession.pc = "none" /\ NoSession.crossed = FALSE /\ NoSession.tool = NoTool
  /\ IdleRefresh.pc = "idle" /\ IdleRefresh.done = {}
<1>1. ASSUME NEW c \in Configs
      PROVE  /\ c # NoConfig /\ ToolOf(c) # NoTool /\ c.url \in Urls
             /\ ToolOf(c) \in [url : Urls \cup {0}, on : BOOLEAN]
  <2>1. c.url \in {1, 2} /\ c.off \in BOOLEAN
    BY DEF Configs, Urls
  <2>2. (~c.off) \in BOOLEAN
    OBVIOUS
  <2>3. ToolOf(c).url = c.url
    BY DEF ToolOf
  <2>4. c # NoConfig
    BY <2>1 DEF NoConfig
  <2>5. NoTool.url = 0
    BY DEF NoTool
  <2> QED
    BY <2>1, <2>2, <2>3, <2>4, <2>5 DEF ToolOf, Urls
<1>2. NoTool \in [url : Urls \cup {0}, on : BOOLEAN]
  BY DEF NoTool
<1>3. NoSession \in SessionType /\ IdleRefresh \in RefreshType
  BY <1>2 DEF NoSession, SessionType, SessionPCs, IdleRefresh, RefreshType
<1> QED
  BY <1>1, <1>2, <1>3 DEF NoSession, IdleRefresh, Fingerprint

LEMMA HubFacts ==
  ASSUME HubIInv
  PROVE  /\ HubTypes /\ HubSteps
         /\ \A s \in Sessions : session[s] \in SessionType
         /\ \A r \in Reruns : refresh[r] \in RefreshType
         /\ \A s \in Sessions : /\ session[s].config \in Configs \cup {NoConfig}
                                /\ session[s].pc \in SessionPCs
                                /\ session[s].crossed \in BOOLEAN
  BY DEF HubIInv, HubTypes, SessionType

\* Whom a change to c does not cross.
LEMMA CrossedIs ==
  ASSUME HubIInv, NEW c
  PROVE  /\ Crossed(c) \in [Sessions -> SessionType]
         /\ \A s \in Sessions :
               /\ Crossed(c)[s].pc = session[s].pc /\ Crossed(c)[s].config = session[s].config
               /\ Crossed(c)[s].tool = session[s].tool
               /\ Crossed(c)[s].topology = session[s].topology
               /\ session[s].crossed => Crossed(c)[s].crossed
               /\ ~Crossed(c)[s].crossed /\ session[s].pc \in {"seen", "discover", "live"} =>
                     /\ session[s].config = c
                     /\ \A r \in Reruns : Applying(r) => refresh[r].config = c
<1> DEFINE CrossedNow(s) == session[s].crossed
                       \/ /\ Live(s) \/ Opening(s)
                          /\ \/ session[s].config # c
                             \/ \E r \in Reruns : Applying(r) /\ refresh[r].config # c
<1>1. Crossed(c) = [s \in Sessions |-> [session[s] EXCEPT !.crossed = CrossedNow(s)]]
  BY Zenon DEF Crossed
<1>2. \A s \in Sessions : CrossedNow(s) \in BOOLEAN
  BY HubFacts
<1>3. \A s \in Sessions :
         /\ session[s].crossed => CrossedNow(s)
         /\ ~CrossedNow(s) /\ session[s].pc \in {"seen", "discover", "live"} =>
               /\ session[s].config = c
               /\ \A r \in Reruns : Applying(r) => refresh[r].config = c
  BY DEF Live, Opening
<1> HIDE DEF CrossedNow
<1>4. ASSUME NEW s \in Sessions
      PROVE  /\ Crossed(c)[s] \in SessionType /\ Crossed(c)[s].crossed = CrossedNow(s)
             /\ Crossed(c)[s].pc = session[s].pc /\ Crossed(c)[s].config = session[s].config
             /\ Crossed(c)[s].tool = session[s].tool
             /\ Crossed(c)[s].topology = session[s].topology
  <2> DEFINE x == CrossedNow(s)
  <2>1. Crossed(c)[s] = [session[s] EXCEPT !.crossed = x]
    BY <1>1
  <2>2. x \in BOOLEAN
    BY <1>2
  <2>3. x = CrossedNow(s)
    OBVIOUS
  <2> HIDE DEF x
  <2>4. session[s] \in SessionType
    BY HubFacts
  <2> QED
    BY <2>1, <2>2, <2>3, <2>4 DEF SessionType
<1>5. Crossed(c) \in [Sessions -> SessionType]
  BY <1>1, <1>4
<1> QED
  BY <1>3, <1>4, <1>5

\* Whoever sees a configuration has told all that stay uncrossed.
LEMMA AllTold ==
  ASSUME HubIInv, NEW c \in Configs, lastSeen' = c,
         \A s \in Sessions :
            /\ session'[s].config = session[s].config /\ session'[s].tool = session[s].tool
            /\ \/ session'[s].pc = session[s].pc
               \/ session[s].pc = "seen" /\ session'[s].pc = "discover"
            /\ session[s].crossed => session'[s].crossed
            /\ ~session'[s].crossed /\ session[s].pc \in {"seen", "discover", "live"} =>
                  /\ session[s].config = c
                  /\ \A r \in Reruns : Applying(r) => refresh[r].config = c,
         \A r \in Reruns :
            \/ refresh'[r] = refresh[r]
            \/ ~Applying(r) /\ refresh'[r].pc = "idle"
            \/ ~Applying(r) /\ refresh'[r].pc = "apply" /\ refresh'[r].config = c
  PROVE  OneConfig' /\ ToolsKnown'
<1>1. ASSUME NEW s \in Sessions, Steady(s)'
      PROVE  /\ session[s].config = c /\ ~session[s].crossed
             /\ \A r \in Reruns : Applying(r) => refresh[r].config = c
  BY <1>1 DEF Steady
<1>2. \A r \in Reruns : Applying(r)' => \/ Applying(r) /\ refresh'[r] = refresh[r]
                                        \/ refresh'[r].config = c
  BY DEF Applying
<1>3. OneConfig'
  BY <1>1, <1>2 DEF OneConfig
<1>4. \A r \in Reruns, s \in Sessions : Discovers(r, s)' <=> Discovers(r, s)
  BY DEF Discovers, Applying
<1>5. ASSUME NEW s \in Sessions, Steady(s)', Live(s)'
      PROVE  Steady(s) /\ Live(s)
  BY <1>1, <1>5 DEF Steady, Live
<1> QED
  BY <1>1, <1>3, <1>4, <1>5 DEF ToolsKnown, HubIInv

\* What is seen, by the hub or for a session, is no older than what was.
LEMMA SeenIsFile ==
  ASSUME HubIInv, NEW c \in Configs, ~timer, \A r \in Reruns : ~Looks(r),
         NEW s \in Sessions, ~session[s].crossed, session[s].pc \in {"seen", "discover", "live"},
         session[s].config = c, \A r \in Reruns : Applying(r) => refresh[r].config = c
  PROVE  c = file
<1>1. CASE session[s].pc = "seen"
  BY <1>1 DEF HubIInv, ChangeNoticed
<1>2. CASE session[s].pc \in {"discover", "live"}
  <2>1. Steady(s)
    BY <1>2 DEF Steady
  <2>2. lastSeen = file
    BY <2>1 DEF HubIInv, ChangeNoticed
  <2>3. lastSeen = c
    BY <2>1 DEF HubIInv, OneConfig
  <2> QED
    BY <2>2, <2>3
<1> QED
  BY <1>1, <1>2

LEMMA SeeAtStartupStays ==
  ASSUME HubIInv, SeeAtStartup
  PROVE  HubIInv'
<1> DEFINE c == startup.config
           started == [pc |-> "done", config |-> NoConfig]
<1>1. /\ startup.pc = "seen" /\ c \in Configs /\ lastSeen' = c /\ session' = Crossed(c)
      /\ startup' = started /\ file' = file /\ timer' = timer /\ refresh' = refresh
  BY HubFacts, HubConfigs DEF SeeAtStartup, HubSteps
<1> HIDE DEF c
<1>2. HubTypes'
  BY <1>1, HubFacts, CrossedIs DEF HubTypes
<1>3. HubSteps'
  <2>1. \A s \in Sessions : /\ Opening(s)' <=> Opening(s)
                            /\ Live(s)' <=> Live(s)
                            /\ session'[s].tool = session[s].tool
                            /\ session'[s].config = session[s].config
                            /\ session'[s].topology = session[s].topology
    BY <1>1, CrossedIs DEF Opening, Live
  <2> QED
    BY <1>1, <2>1, HubFacts DEF HubSteps, Looks, Applying
<1>4. OneConfig' /\ ToolsKnown'
  BY <1>1, CrossedIs, AllTold
<1>5. ChangeNoticed'
  <2>1. ASSUME NEW s \in Sessions, ~timer, \A r \in Reruns : ~Looks(r), Steady(s)'
        PROVE  c = file
    BY <1>1, <2>1, CrossedIs, SeenIsFile DEF Steady
  <2> QED
    BY <1>1, <2>1, CrossedIs DEF ChangeNoticed, Looks, HubIInv
<1> QED
  BY <1>2, <1>3, <1>4, <1>5 DEF HubIInv

LEMMA SeeForSessionStays ==
  ASSUME HubIInv, NEW s \in Sessions, SeeForSession(s)
  PROVE  HubIInv'
<1> DEFINE c == session[s].config
           x == [Crossed(c)[s] EXCEPT !.pc = "discover"]
<1>1. /\ session[s].pc = "seen" /\ c \in Configs /\ lastSeen' = c
      /\ session' = [Crossed(c) EXCEPT ![s] = x]
      /\ startup' = startup /\ file' = file /\ timer' = timer /\ refresh' = refresh
  <2>1. session' = [Crossed(c) EXCEPT ![s] = x]
    BY Zenon DEF SeeForSession
  <2> QED
    BY <2>1, HubFacts, HubConfigs DEF SeeForSession, HubSteps, Opening
<1> HIDE DEF c
<1>2. /\ x \in SessionType /\ x.pc = "discover" /\ x.config = session[s].config
      /\ x.tool = session[s].tool /\ x.crossed = Crossed(c)[s].crossed
  BY CrossedIs DEF SessionType, SessionPCs
<1> HIDE DEF x
<1>3. /\ session' \in [Sessions -> SessionType] /\ session'[s] = x
      /\ \A t \in Sessions \ {s} : session'[t] = Crossed(c)[t]
  BY <1>1, <1>2, CrossedIs
<1>4. \A t \in Sessions :
         /\ session'[t].config = session[t].config /\ session'[t].tool = session[t].tool
         /\ \/ session'[t].pc = session[t].pc
            \/ session[t].pc = "seen" /\ session'[t].pc = "discover"
         /\ session[t].crossed => session'[t].crossed
         /\ ~session'[t].crossed /\ session[t].pc \in {"seen", "discover", "live"} =>
               /\ session[t].config = c
               /\ \A r \in Reruns : Applying(r) => refresh[r].config = c
  BY <1>1, <1>2, <1>3, CrossedIs
<1>5. HubTypes'
  BY <1>1, <1>3, HubFacts DEF HubTypes
<1>6. HubSteps'
  <2>1. \A t \in Sessions : /\ Opening(t)' <=> Opening(t)
                            /\ Live(t)' <=> Live(t)
                            /\ Live(t) => session'[t].topology = session[t].topology
    BY <1>1, <1>2, <1>3, CrossedIs DEF Opening, Live
  <2> QED
    BY <1>1, <1>4, <2>1, HubFacts DEF HubSteps, Looks, Applying
<1>7. OneConfig' /\ ToolsKnown'
  BY <1>1, <1>4, AllTold
<1>8. ChangeNoticed'
  <2>1. ASSUME NEW t \in Sessions, ~timer, \A r \in Reruns : ~Looks(r), Steady(t)'
        PROVE  c = file
    BY <1>1, <1>4, <2>1, SeenIsFile DEF Steady
  <2> QED
    BY <1>1, <1>4, <2>1 DEF ChangeNoticed, Looks, HubIInv
<1> QED
  BY <1>5, <1>6, <1>7, <1>8 DEF HubIInv

LEMMA EditFileStays ==
  ASSUME HubIInv, NEW c \in Configs, EditFile(c)
  PROVE  HubIInv'
<1>1. /\ file' = c /\ timer' = TRUE /\ lastSeen' = lastSeen /\ session' = session
      /\ refresh' = refresh /\ startup' = startup
  BY DEF EditFile
<1>2. HubTypes' /\ HubSteps'
  BY <1>1, HubFacts DEF HubTypes, HubSteps, Opening, Live, Looks, Applying
<1>3. OneConfig' /\ ToolsKnown'
  BY <1>1 DEF HubIInv, OneConfig, ToolsKnown, Steady, Live, Applying, Discovers
<1>4. ChangeNoticed'
  BY <1>1 DEF ChangeNoticed
<1> QED
  BY <1>2, <1>3, <1>4 DEF HubIInv

LEMMA ReadAtStartupStays ==
  ASSUME HubIInv, ReadAtStartup
  PROVE  HubIInv'
<1>1. /\ startup' = [pc |-> "seen", config |-> file] /\ file' = file /\ timer' = timer
      /\ lastSeen' = lastSeen /\ session' = session /\ refresh' = refresh
  BY DEF ReadAtStartup
<1>2. HubTypes' /\ HubSteps'
  BY <1>1, HubFacts DEF HubTypes, HubSteps, Opening, Live, Looks, Applying
<1>3. OneConfig' /\ ToolsKnown' /\ ChangeNoticed'
  BY <1>1 DEF HubIInv, OneConfig, ToolsKnown, ChangeNoticed, Steady, Live, Applying, Discovers,
     Looks
<1> QED
  BY <1>2, <1>3 DEF HubIInv

LEMMA ReadForSessionStays ==
  ASSUME HubIInv, NEW s \in Sessions, ReadForSession(s)
  PROVE  HubIInv'
<1> DEFINE x == [NoSession EXCEPT !.pc = "seen", !.config = file]
<1>1. /\ session' = [session EXCEPT ![s] = x] /\ startup' = startup /\ file' = file
      /\ timer' = timer /\ lastSeen' = lastSeen /\ refresh' = refresh
  BY DEF ReadForSession
<1>2. /\ x \in SessionType /\ x.pc = "seen" /\ x.config = file /\ x.tool = NoTool
      /\ file \in Configs
  BY HubConfigs, HubFacts DEF SessionType, SessionPCs, HubTypes
<1> HIDE DEF x
<1>3. /\ session' \in [Sessions -> SessionType] /\ session'[s] = x
      /\ \A t \in Sessions \ {s} : session'[t] = session[t]
  BY <1>1, <1>2, HubFacts DEF HubTypes
<1>4. HubTypes' /\ HubSteps'
  BY <1>1, <1>2, <1>3, HubFacts DEF HubTypes, HubSteps, Opening, Live, Looks, Applying
<1>5. \A t \in Sessions : Steady(t)' => t # s
  BY <1>2, <1>3 DEF Steady
<1>6. OneConfig' /\ ToolsKnown'
  BY <1>1, <1>3, <1>5 DEF HubIInv, OneConfig, ToolsKnown, Steady, Live, Applying, Discovers
<1>7. ChangeNoticed'
  BY <1>1, <1>2, <1>3, <1>5 DEF HubIInv, ChangeNoticed, Steady, Looks
<1> QED
  BY <1>4, <1>6, <1>7 DEF HubIInv

\* What discover leaves a session with.
LEMMA RegisteredIs ==
  ASSUME HubIInv, NEW s \in Sessions, NEW c \in Configs, NEW up \in BOOLEAN
  PROVE  \E x \in SessionType :
            /\ x = Registered(s, c, up) /\ x.pc = session[s].pc
            /\ x.topology = c.url /\ x.config = c
            /\ up => x.tool = IF session[s].tool = NoTool THEN ToolOf(c) ELSE session[s].tool
            /\ ~x.crossed => up /\ ~session[s].crossed
<1> DEFINE tool == IF up /\ session[s].tool = NoTool THEN ToolOf(c) ELSE session[s].tool
           cross == session[s].crossed \/ ~up
           x == [session[s] EXCEPT !.tool = tool, !.topology = c.url, !.config = c,
                                   !.crossed = cross]
<1>1. x = Registered(s, c, up)
  BY DEF Registered
<1>2. /\ tool \in [url : Urls \cup {0}, on : BOOLEAN] /\ cross \in BOOLEAN
      /\ ~cross => up /\ ~session[s].crossed
      /\ up => tool = IF session[s].tool = NoTool THEN ToolOf(c) ELSE session[s].tool
  BY HubFacts, HubConfigs DEF SessionType
<1> HIDE DEF tool, cross
<1>3. /\ x \in SessionType /\ x.pc = session[s].pc /\ x.topology = c.url /\ x.config = c
      /\ x.tool = tool /\ x.crossed = cross
  BY <1>2, HubFacts, HubConfigs DEF SessionType
<1> HIDE DEF x
<1> QED
  BY <1>1, <1>2, <1>3

LEMMA DiscoverForSessionStays ==
  ASSUME HubIInv, NEW s \in Sessions, DiscoverForSession(s)
  PROVE  HubIInv'
<1> DEFINE c == session[s].config
<1>1. /\ session[s].pc = "discover" /\ c \in Configs /\ session[s].tool = NoTool
      /\ startup' = startup /\ file' = file /\ timer' = timer /\ lastSeen' = lastSeen
      /\ refresh' = refresh
  BY HubFacts DEF DiscoverForSession, HubSteps, Opening
<1>2. PICK up \in BOOLEAN : Serve(s, up)
  BY DEF DiscoverForSession
<1>3. PICK y \in SessionType :
         /\ y = Registered(s, c, up) /\ y.pc = session[s].pc
         /\ y.topology = c.url /\ y.config = c
         /\ up => y.tool = IF session[s].tool = NoTool THEN ToolOf(c) ELSE session[s].tool
         /\ ~y.crossed => up /\ ~session[s].crossed
  BY <1>1, RegisteredIs
<1> DEFINE x == [y EXCEPT !.pc = "live"]
<1>4. session' = [session EXCEPT ![s] = x]
  BY <1>2, <1>3 DEF Serve
<1>5. /\ x \in SessionType /\ x.pc = "live" /\ x.topology = c.url /\ x.config = c
      /\ x.tool = y.tool /\ x.crossed = y.crossed
  BY <1>3 DEF SessionType, SessionPCs
<1> HIDE DEF x, c
<1>6. /\ session' \in [Sessions -> SessionType] /\ session'[s] = x
      /\ \A t \in Sessions \ {s} : session'[t] = session[t]
  BY <1>4, <1>5, HubFacts DEF HubTypes
<1>7. /\ ~x.crossed => x.tool = ToolOf(c) /\ ~session[s].crossed
      /\ ToolOf(c) # NoTool
  BY <1>1, <1>3, <1>5, HubConfigs
<1>8. HubTypes' /\ HubSteps'
  BY <1>1, <1>5, <1>6, HubFacts DEF HubTypes, HubSteps, Opening, Live, Looks, Applying
<1>9. \A t \in Sessions : Steady(t)' => Steady(t)
  BY <1>1, <1>5, <1>6, <1>7 DEF Steady
<1>10. Steady(s)' => c = lastSeen
  BY <1>1, <1>9 DEF HubIInv, OneConfig, Live, c
<1>11. OneConfig'
  BY <1>1, <1>5, <1>6, <1>9, <1>10 DEF HubIInv, OneConfig, Live, Applying
<1>12. ToolsKnown'
  <2>1. ASSUME NEW t \in Sessions, t # s, Steady(t)', Live(t)'
        PROVE  /\ Steady(t) /\ Live(t) /\ session'[t] = session[t]
               /\ \A r \in Reruns : Discovers(r, t)' <=> Discovers(r, t)
    BY <1>1, <1>6, <1>9, <2>1 DEF Live, Discovers
  <2>2. Steady(s)' => session'[s].tool = ToolOf(session'[s].config) /\ session'[s].config = lastSeen'
    BY <1>1, <1>5, <1>6, <1>7, <1>10 DEF Steady
  <2>3. session'[s].config = c
    BY <1>5, <1>6
  <2> QED
    BY <1>1, <1>7, <2>1, <2>2, <2>3 DEF HubIInv, ToolsKnown
<1>13. ChangeNoticed'
  <2>1. session'[s].pc # "seen"
    BY <1>5, <1>6
  <2> QED
    BY <1>1, <1>6, <1>9, <2>1 DEF HubIInv, ChangeNoticed, Looks
<1> QED
  BY <1>8, <1>11, <1>12, <1>13 DEF HubIInv

LEMMA CloseSessionStays ==
  ASSUME HubIInv, NEW s \in Sessions, CloseSession(s)
  PROVE  HubIInv'
<1> DEFINE x == [NoSession EXCEPT !.pc = "closed"]
<1>1. /\ session' = [session EXCEPT ![s] = x] /\ startup' = startup /\ file' = file
      /\ timer' = timer /\ lastSeen' = lastSeen /\ refresh' = refresh
  BY DEF CloseSession
<1>2. x \in SessionType /\ x.pc = "closed"
  BY HubConfigs DEF SessionType, SessionPCs
<1> HIDE DEF x
<1>3. /\ session' \in [Sessions -> SessionType] /\ session'[s] = x
      /\ \A t \in Sessions \ {s} : session'[t] = session[t]
  BY <1>1, <1>2, HubFacts DEF HubTypes
<1>4. HubTypes' /\ HubSteps'
  BY <1>1, <1>2, <1>3, HubFacts DEF HubTypes, HubSteps, Opening, Live, Looks, Applying
<1>5. \A t \in Sessions : Steady(t)' => t # s
  BY <1>2, <1>3 DEF Steady
<1>6. OneConfig' /\ ToolsKnown'
  BY <1>1, <1>3, <1>5 DEF HubIInv, OneConfig, ToolsKnown, Steady, Live, Applying, Discovers
<1>7. ChangeNoticed'
  BY <1>1, <1>2, <1>3, <1>5 DEF HubIInv, ChangeNoticed, Steady, Looks
<1> QED
  BY <1>4, <1>6, <1>7 DEF HubIInv

LEMMA FireTimerStays ==
  ASSUME HubIInv, NEW r \in Reruns, FireTimer(r)
  PROVE  HubIInv'
<1> DEFINE x == [IdleRefresh EXCEPT !.pc = "read"]
<1>1. /\ refresh[r] = IdleRefresh /\ refresh' = [refresh EXCEPT ![r] = x]
      /\ \A q \in Reruns : ~Looks(q)
      /\ startup' = startup /\ file' = file /\ timer' = FALSE /\ lastSeen' = lastSeen
      /\ session' = session
  BY HubFacts DEF FireTimer, Looks, HubTypes
<1>2. x \in RefreshType /\ x.pc = "read" /\ x.done = {}
  BY HubConfigs DEF RefreshType
<1> HIDE DEF x
<1>3. /\ refresh' \in [Reruns -> RefreshType] /\ refresh'[r] = x
      /\ \A q \in Reruns \ {r} : refresh'[q] = refresh[q]
  BY <1>1, <1>2, HubFacts DEF HubTypes
<1>4. HubTypes'
  BY <1>1, <1>3, HubFacts DEF HubTypes
<1>5. HubSteps'
  <2>1. \A q, p \in Reruns : Looks(q)' /\ Looks(p)' => q = p
    BY <1>1, <1>2, <1>3 DEF Looks
  <2> QED
    BY <1>1, <1>2, <1>3, <2>1, HubFacts DEF HubSteps, Opening, Live, Looks, Applying
<1>6. \A q \in Reruns :
         /\ Applying(q)' <=> Applying(q)
         /\ Applying(q) => refresh'[q] = refresh[q]
         /\ \A s \in Sessions : Discovers(q, s)' <=> Discovers(q, s)
  BY <1>1, <1>2, <1>3, HubConfigs DEF Applying, Discovers
<1>7. OneConfig' /\ ToolsKnown'
  BY <1>1, <1>6 DEF HubIInv, OneConfig, ToolsKnown, Steady, Live
<1>8. ChangeNoticed'
  BY <1>1, <1>2, <1>3 DEF ChangeNoticed, Looks
<1> QED
  BY <1>4, <1>5, <1>7, <1>8 DEF HubIInv

LEMMA ReadForRefreshStays ==
  ASSUME HubIInv, NEW r \in Reruns, ReadForRefresh(r)
  PROVE  HubIInv'
<1>1. /\ refresh[r].pc = "read" /\ Looks(r) /\ refresh[r].done = {}
      /\ \A q \in Reruns : Looks(q) => q = r
      /\ startup' = startup /\ file' = file /\ timer' = timer /\ lastSeen' = lastSeen
  BY HubFacts DEF ReadForRefresh, Looks, HubSteps
<1>2. ASSUME NEW x \in RefreshType, refresh' = [refresh EXCEPT ![r] = x],
             x.pc \in {"compare", "idle"}, x.done = {}, x.pc = "compare" => x.config = file,
             session' \in [Sessions -> SessionType],
             \A s \in Sessions :
                /\ session'[s].pc = session[s].pc /\ session'[s].config = session[s].config
                /\ session'[s].tool = session[s].tool
                /\ session'[s].topology = session[s].topology
                /\ session[s].crossed => session'[s].crossed,
             \/ x.pc = "compare"
             \/ \A s \in Sessions : session[s].pc \in {"seen", "discover", "live"}
                                      => session'[s].crossed
      PROVE  HubIInv'
  <2>1. /\ refresh' \in [Reruns -> RefreshType] /\ refresh'[r] = x
        /\ \A q \in Reruns \ {r} : refresh'[q] = refresh[q]
    BY <1>2, HubFacts DEF HubTypes
  <2>2. HubTypes' /\ file \in Configs
    BY <1>1, <1>2, <2>1, HubFacts DEF HubTypes
  <2>3. HubSteps'
    <3>1. \A s \in Sessions : (Opening(s)' <=> Opening(s)) /\ (Live(s)' <=> Live(s))
      BY <1>2 DEF Opening, Live
    <3>2. \A q \in Reruns : Looks(q)' => q = r
      BY <1>1, <2>1 DEF Looks
    <3> QED
      BY <1>1, <1>2, <2>1, <2>2, <3>1, <3>2, HubFacts DEF HubSteps, Looks, Applying
  <2>4. \A q \in Reruns :
           /\ Applying(q)' <=> Applying(q)
           /\ Applying(q) => refresh'[q] = refresh[q]
           /\ \A s \in Sessions : Discovers(q, s)' <=> Discovers(q, s)
    BY <1>1, <1>2, <2>1 DEF Applying, Discovers
  <2>5. \A s \in Sessions : /\ Steady(s)' => Steady(s)
                            /\ Live(s)' <=> Live(s)
    BY <1>2 DEF Steady, Live
  <2>6. OneConfig' /\ ToolsKnown'
    BY <1>1, <1>2, <2>4, <2>5 DEF HubIInv, OneConfig, ToolsKnown
  <2>7. ChangeNoticed'
    <3>1. \A q \in Reruns : refresh'[q].pc = "compare" => refresh'[q].config = file
      BY <1>1, <1>2, <2>1 DEF Looks
    <3>2. CASE x.pc = "compare"
      <4>1. Looks(r)'
        BY <2>1, <3>2 DEF Looks
      <4> QED
        BY <1>1, <3>1, <4>1 DEF ChangeNoticed
    <3>3. CASE \A s \in Sessions : session[s].pc \in {"seen", "discover", "live"}
                                      => session'[s].crossed
      <4>1. \A s \in Sessions : ~Steady(s)' /\ ~(session'[s].pc = "seen" /\ ~session'[s].crossed)
        BY <1>2, <3>3 DEF Steady
      <4> QED
        BY <1>1, <3>1, <4>1 DEF ChangeNoticed
    <3> QED
      BY <1>2, <3>2, <3>3
  <2> QED
    BY <2>2, <2>3, <2>6, <2>7 DEF HubIInv
<1>3. CASE refresh' = [refresh EXCEPT ![r] = [@ EXCEPT !.pc = "compare", !.config = file]]
           /\ session' = session
  <2> DEFINE x == [refresh[r] EXCEPT !.pc = "compare", !.config = file]
  <2>1. refresh' = [refresh EXCEPT ![r] = x]
    BY <1>3
  <2>2. x \in RefreshType /\ x.pc = "compare" /\ x.config = file /\ x.done = {}
    BY <1>1, HubFacts DEF RefreshType, HubTypes
  <2> HIDE DEF x
  <2> QED
    BY <1>2, <1>3, <2>1, <2>2, HubFacts DEF HubTypes
<1>4. CASE /\ refresh' = [refresh EXCEPT ![r] = IdleRefresh]
           /\ session' = [s \in Sessions |-> [session[s] EXCEPT !.crossed = @ \/ Live(s) \/ Opening(s)]]
  <2> DEFINE CrossedNow(s) == session[s].crossed \/ Live(s) \/ Opening(s)
  <2>1. session' = [s \in Sessions |-> [session[s] EXCEPT !.crossed = CrossedNow(s)]]
    BY Zenon, <1>4
  <2>2. \A s \in Sessions :
           /\ CrossedNow(s) \in BOOLEAN /\ (session[s].crossed => CrossedNow(s))
           /\ session[s].pc \in {"seen", "discover", "live"} => CrossedNow(s)
    BY HubFacts DEF Live, Opening
  <2> HIDE DEF CrossedNow
  <2>3. ASSUME NEW s \in Sessions
        PROVE  /\ session'[s] \in SessionType /\ session'[s].crossed = CrossedNow(s)
               /\ session'[s].pc = session[s].pc /\ session'[s].config = session[s].config
               /\ session'[s].tool = session[s].tool
               /\ session'[s].topology = session[s].topology
    <3> DEFINE x == CrossedNow(s)
    <3>1. session'[s] = [session[s] EXCEPT !.crossed = x]
      BY <2>1
    <3>2. x \in BOOLEAN
      BY <2>2
    <3>3. x = CrossedNow(s)
      OBVIOUS
    <3> HIDE DEF x
    <3>4. session[s] \in SessionType
      BY HubFacts
    <3> QED
      BY <3>1, <3>2, <3>3, <3>4 DEF SessionType
  <2>4. session' \in [Sessions -> SessionType]
    BY <2>1, <2>3
  <2> DEFINE x == IdleRefresh
  <2>5. x \in RefreshType /\ x.pc = "idle" /\ x.done = {}
    BY HubConfigs DEF IdleRefresh
  <2>6. refresh' = [refresh EXCEPT ![r] = x]
    BY <1>4
  <2>7. \A s \in Sessions :
           /\ session'[s].pc = session[s].pc /\ session'[s].config = session[s].config
           /\ session'[s].tool = session[s].tool
           /\ session'[s].topology = session[s].topology
           /\ session[s].crossed => session'[s].crossed
    BY <2>2, <2>3
  <2>8. \A s \in Sessions : session[s].pc \in {"seen", "discover", "live"}
                              => session'[s].crossed
    BY <2>2, <2>3
  <2> HIDE DEF x
  <2> QED
    BY <1>2, <2>4, <2>5, <2>6, <2>7, <2>8
<1> QED
  BY <1>3, <1>4 DEF ReadForRefresh

LEMMA CompareFingerprintStays ==
  ASSUME HubIInv, NEW r \in Reruns, CompareFingerprint(r)
  PROVE  HubIInv'
<1> DEFINE c == refresh[r].config
           y == [refresh[r] EXCEPT !.pc = "apply"]
           x == IF c = lastSeen THEN IdleRefresh ELSE y
<1>1. /\ refresh[r].pc = "compare" /\ Looks(r) /\ refresh[r].done = {} /\ c \in Configs
      /\ \A q \in Reruns : Looks(q) => q = r
      /\ startup' = startup /\ file' = file /\ timer' = timer /\ lastSeen' = c
      /\ refresh' = [refresh EXCEPT ![r] = x]
      /\ session' = [s \in Sessions |->
                       IF Opening(s) \/ \E q \in Reruns : Applying(q)
                       THEN Crossed(c)[s] ELSE session[s]]
  BY HubFacts, HubConfigs DEF CompareFingerprint, Looks, HubSteps
<1> HIDE DEF c
<1>2. y \in RefreshType /\ y.pc = "apply" /\ y.config = c /\ y.done = {}
  BY <1>1, HubFacts DEF RefreshType, c
<1> HIDE DEF y
<1>3. /\ x \in RefreshType /\ x.pc \in {"apply", "idle"} /\ x.done = {}
      /\ x.pc = "apply" => x.config = c
      /\ x.pc = "idle" => lastSeen = c
  BY <1>2, HubConfigs
<1> HIDE DEF x
<1>4. /\ refresh' \in [Reruns -> RefreshType] /\ refresh'[r] = x
      /\ \A q \in Reruns \ {r} : refresh'[q] = refresh[q]
  BY <1>1, <1>3, HubFacts DEF HubTypes
<1>5. /\ session' \in [Sessions -> SessionType]
      /\ \A s \in Sessions :
            /\ session'[s].pc = session[s].pc /\ session'[s].config = session[s].config
            /\ session'[s].tool = session[s].tool
            /\ session'[s].topology = session[s].topology
            /\ session[s].crossed => session'[s].crossed
            /\ (Opening(s) \/ \E q \in Reruns : Applying(q)) => session'[s] = Crossed(c)[s]
  BY <1>1, HubFacts, CrossedIs
<1>6. HubTypes'
  BY <1>1, <1>4, <1>5, HubFacts DEF HubTypes
<1>7. HubSteps'
  <2>1. \A s \in Sessions : (Opening(s)' <=> Opening(s)) /\ (Live(s)' <=> Live(s))
    BY <1>5 DEF Opening, Live
  <2>2. \A q \in Reruns : ~Looks(q)'
    BY <1>1, <1>3, <1>4 DEF Looks
  <2> QED
    BY <1>1, <1>3, <1>4, <1>5, <2>1, <2>2, HubFacts DEF HubSteps, Looks, Applying
<1>8. \A s \in Sessions : /\ Steady(s)' => Steady(s)
                          /\ Live(s)' <=> Live(s)
                          /\ Opening(s)' <=> Opening(s)
  BY <1>5 DEF Steady, Live, Opening
<1>9. \A q \in Reruns :
         /\ Applying(q)' => \/ Applying(q) /\ refresh'[q] = refresh[q]
                            \/ q = r /\ refresh'[q] = x
         /\ \A s \in Sessions : Discovers(q, s)' <=> Discovers(q, s)
         /\ Applying(q) => q # r
  BY <1>1, <1>3, <1>4 DEF Applying, Discovers
<1>10. OneConfig' /\ ToolsKnown'
  <2>1. ASSUME NEW s \in Sessions, Steady(s)'
        PROVE  /\ \A q \in Reruns : Applying(q) => refresh[q].config = c
               /\ \/ session[s].config = c
                  \/ Live(s) /\ x.pc = "apply"
    <3>1. CASE Opening(s) \/ \E q \in Reruns : Applying(q)
      <4>1. ~Crossed(c)[s].crossed /\ session[s].pc \in {"seen", "discover", "live"}
        BY <1>5, <1>8, <2>1, <3>1 DEF Steady
      <4> QED
        BY <4>1, CrossedIs
    <3>2. CASE ~Opening(s) /\ \A q \in Reruns : ~Applying(q)
      <4>1. Live(s)
        BY <1>8, <2>1, <3>2 DEF Steady, Live, Opening
      <4>2. session[s].config = lastSeen
        BY <1>8, <2>1, <3>2 DEF HubIInv, OneConfig
      <4> QED
        BY <1>3, <3>2, <4>1, <4>2
    <3> QED
      BY <3>1, <3>2
  <2>2. OneConfig'
    <3>1. ASSUME NEW s \in Sessions, Steady(s)', NEW q \in Reruns, Applying(q)'
          PROVE  refresh'[q].config = lastSeen'
      BY <1>1, <1>3, <1>4, <1>9, <2>1, <3>1 DEF Applying
    <3>2. x.pc = "apply" => Applying(r)' /\ \A s \in Sessions : s \notin refresh'[r].done
      BY <1>3, <1>4 DEF Applying
    <3> QED
      BY <1>1, <1>5, <1>8, <2>1, <3>1, <3>2 DEF OneConfig
  <2>3. ToolsKnown'
    <3>1. ASSUME NEW s \in Sessions, Steady(s)', Live(s)', NEW q \in Reruns, Discovers(q, s)'
          PROVE  session'[s].tool = NoTool \/ session'[s].config = lastSeen'
      <4>1. Discovers(q, s) /\ Applying(q)
        BY <1>9, <3>1 DEF Discovers, Applying
      <4>2. ~Crossed(c)[s].crossed /\ session[s].pc \in {"seen", "discover", "live"}
        BY <1>5, <1>8, <3>1, <4>1 DEF Steady
      <4> QED
        BY <1>1, <1>5, <4>2, CrossedIs
    <3> QED
      BY <1>5, <1>8, <1>9, <3>1 DEF HubIInv, ToolsKnown
  <2> QED
    BY <2>2, <2>3
<1>11. ChangeNoticed'
  <2>1. ~timer => c = file
    BY <1>1 DEF HubIInv, ChangeNoticed, c
  <2>2. \A q \in Reruns : refresh'[q].pc # "compare"
    BY <1>1, <1>3, <1>4 DEF Looks
  <2>3. ASSUME NEW s \in Sessions, session'[s].pc = "seen", ~session'[s].crossed
        PROVE  session'[s].config = c
    <3>1. Opening(s) /\ ~Crossed(c)[s].crossed /\ session[s].pc = "seen"
      BY <1>5, <2>3 DEF Opening
    <3> QED
      BY <1>5, <3>1, CrossedIs
  <2> QED
    BY <1>1, <2>1, <2>2, <2>3 DEF ChangeNoticed
<1> QED
  BY <1>6, <1>7, <1>10, <1>11 DEF HubIInv

LEMMA ApplyToSessionStays ==
  ASSUME HubIInv, NEW r \in Reruns, NEW s \in Sessions, ApplyToSession(r, s)
  PROVE  HubIInv'
<1> DEFINE c == refresh[r].config
           tool == IF session[s].tool = NoTool THEN NoTool ELSE ToolOf(c)
           told == [session[s] EXCEPT !.config = c, !.tool = tool]
           bare == [session[s] EXCEPT !.tool = NoTool]
           done == [refresh[r] EXCEPT !.done = refresh[r].done \cup {s}]
           on == [refresh[r] EXCEPT !.pc = "discover", !.on = s]
<1>1. /\ refresh[r].pc = "apply" /\ Applying(r) /\ Live(s) /\ session[s].pc = "live"
      /\ s \notin refresh[r].done /\ c \in Configs /\ session[s].config \in Configs
      /\ session[s].topology = session[s].config.url
      /\ startup' = startup /\ file' = file /\ timer' = timer /\ lastSeen' = lastSeen
  BY HubFacts DEF ApplyToSession, Applying, HubSteps, Live
<1>2. IF session[s].topology = c.url
      THEN session' = [session EXCEPT ![s] = told] /\ refresh' = [refresh EXCEPT ![r] = done]
      ELSE session' = [session EXCEPT ![s] = bare] /\ refresh' = [refresh EXCEPT ![r] = on]
  <2>1. refresh' = [refresh EXCEPT ![r].done = @ \cup {s}]
           => refresh' = [refresh EXCEPT ![r] = done]
    BY Zenon
  <2> QED
    BY <2>1 DEF ApplyToSession
<1>3. /\ session[s] \in SessionType /\ refresh[r] \in RefreshType
      /\ tool \in [url : Urls \cup {0}, on : BOOLEAN]
  BY <1>1, HubFacts, HubConfigs
<1>4. Steady(s) => c = lastSeen
  BY <1>1 DEF HubIInv, OneConfig
<1>5. /\ tool = NoTool <=> session[s].tool = NoTool
      /\ tool # NoTool => tool = ToolOf(c)
  BY <1>1, HubConfigs
<1> HIDE DEF c, tool
<1>6. CASE session[s].topology = c.url
  <2>1. /\ told \in SessionType /\ told.config = c /\ told.tool = tool /\ told.pc = "live"
        /\ told.topology = c.url /\ told.crossed = session[s].crossed
    BY <1>1, <1>3, <1>6 DEF SessionType
  <2>2. /\ done \in RefreshType /\ done.pc = "apply" /\ done.config = c
        /\ done.done = refresh[r].done \cup {s}
    BY <1>1, <1>3 DEF RefreshType, c
  <2> HIDE DEF told, done
  <2>3. /\ session' \in [Sessions -> SessionType] /\ session'[s] = told
        /\ \A t \in Sessions \ {s} : session'[t] = session[t]
        /\ refresh' \in [Reruns -> RefreshType] /\ refresh'[r] = done
        /\ \A q \in Reruns \ {r} : refresh'[q] = refresh[q]
    BY <1>2, <1>6, <2>1, <2>2, HubFacts DEF HubTypes
  <2>4. HubTypes'
    BY <1>1, <2>3, HubFacts DEF HubTypes
  <2>5. /\ \A t \in Sessions : /\ Opening(t)' <=> Opening(t)
                               /\ Live(t)' <=> Live(t)
                               /\ Steady(t)' <=> Steady(t)
        /\ \A q \in Reruns : /\ Applying(q)' <=> Applying(q)
                             /\ Looks(q)' <=> Looks(q)
                             /\ refresh'[q].config = refresh[q].config
                             /\ refresh'[q].pc = refresh[q].pc
                             /\ Looks(q) => refresh'[q] = refresh[q]
                             /\ \A t \in Sessions : Discovers(q, t)' <=> Discovers(q, t)
    BY <1>1, <2>1, <2>2, <2>3 DEF Opening, Live, Steady, Applying, Looks, Discovers, c
  <2>6. ~Opening(s)
    BY <1>1 DEF Opening
  <2>7. HubSteps'
    BY <1>1, <2>1, <2>2, <2>3, <2>5, <2>6, HubFacts DEF HubSteps
  <2>8. OneConfig'
    <3>1. ASSUME NEW t \in Sessions, t # s, NEW q \in Reruns, Applying(q), t \notin refresh[q].done
          PROVE  Applying(q)' /\ t \notin refresh'[q].done
      BY <2>2, <2>3, <2>5, <3>1
    <3>2. Steady(s)' => session'[s].config = lastSeen'
      BY <1>1, <1>4, <2>1, <2>3, <2>5
    <3> QED
      BY <1>1, <2>3, <2>5, <3>1, <3>2 DEF HubIInv, OneConfig
  <2>9. ToolsKnown'
    <3>1. Steady(s)' => /\ session'[s].tool \in {NoTool, ToolOf(session'[s].config)}
                        /\ session'[s].config = lastSeen'
                        /\ session'[s].tool = NoTool => session[s].tool = NoTool
      BY <1>1, <1>4, <1>5, <2>1, <2>3, <2>5
    <3>2. \A t \in Sessions \ {s} : session'[t] = session[t]
      BY <2>3
    <3> QED
      BY <1>1, <2>5, <3>1, <3>2 DEF HubIInv, ToolsKnown
  <2>10. ChangeNoticed'
    <3>1. session'[s].pc # "seen"
      BY <2>1, <2>3
    <3> QED
      BY <1>1, <2>3, <2>5, <3>1 DEF HubIInv, ChangeNoticed
  <2> QED
    BY <2>4, <2>7, <2>8, <2>9, <2>10 DEF HubIInv
<1>7. CASE session[s].topology # c.url
  <2>1. /\ bare \in SessionType /\ bare.config = session[s].config /\ bare.tool = NoTool
        /\ bare.pc = "live" /\ bare.topology = session[s].topology
        /\ bare.crossed = session[s].crossed
    BY <1>1, <1>3, HubConfigs DEF SessionType
  <2>2. /\ on \in RefreshType /\ on.pc = "discover" /\ on.config = c /\ on.on = s
        /\ on.done = refresh[r].done
    BY <1>1, <1>3 DEF RefreshType, c
  <2> HIDE DEF bare, on
  <2>3. /\ session' \in [Sessions -> SessionType] /\ session'[s] = bare
        /\ \A t \in Sessions \ {s} : session'[t] = session[t]
        /\ refresh' \in [Reruns -> RefreshType] /\ refresh'[r] = on
        /\ \A q \in Reruns \ {r} : refresh'[q] = refresh[q]
    BY <1>2, <1>7, <2>1, <2>2, HubFacts DEF HubTypes
  <2>4. HubTypes'
    BY <1>1, <2>3, HubFacts DEF HubTypes
  <2>5. /\ \A t \in Sessions : /\ Opening(t)' <=> Opening(t)
                               /\ Live(t)' <=> Live(t)
                               /\ Steady(t)' <=> Steady(t)
                               /\ session'[t].config = session[t].config
        /\ \A q \in Reruns : /\ Applying(q)' <=> Applying(q)
                             /\ Looks(q)' <=> Looks(q)
                             /\ refresh'[q].config = refresh[q].config
                             /\ refresh'[q].done = refresh[q].done
                             /\ Looks(q) => refresh'[q] = refresh[q]
                             /\ q # r => refresh'[q].on = refresh[q].on
                             /\ q # r => refresh'[q].pc = refresh[q].pc
        /\ Discovers(r, s)'
    BY <1>1, <2>1, <2>2, <2>3 DEF Opening, Live, Steady, Applying, Looks, Discovers, c
  <2>6. ~Opening(s) /\ refresh[r].pc # "discover"
    BY <1>1 DEF Opening
  <2>7. HubSteps'
    <3>1. \A q \in Reruns : refresh'[q].pc = "discover" => refresh'[q].on \in Sessions
      BY <2>2, <2>3, HubFacts DEF HubSteps
    <3>2. \A q \in Reruns : refresh'[q].pc = "compare" => refresh[q].pc = "compare"
      BY <2>2, <2>3
    <3> QED
      BY <1>1, <2>1, <2>3, <2>5, <2>6, <3>1, <3>2, HubFacts DEF HubSteps
  <2>8. OneConfig'
    BY <1>1, <2>5 DEF HubIInv, OneConfig
  <2>9. ToolsKnown'
    <3>1. ASSUME NEW t \in Sessions \ {s}, NEW q \in Reruns
          PROVE  Discovers(q, t)' <=> Discovers(q, t)
      BY <2>2, <2>3, <2>6 DEF Discovers
    <3>2. session'[s].tool = NoTool /\ \A t \in Sessions \ {s} : session'[t] = session[t]
      BY <2>1, <2>3
    <3> QED
      BY <1>1, <2>5, <3>1, <3>2 DEF HubIInv, ToolsKnown
  <2>10. ChangeNoticed'
    <3>1. session'[s].pc # "seen"
      BY <2>1, <2>3
    <3>2. \A q \in Reruns : refresh'[q].pc = "compare" => Looks(q)
      BY <2>5 DEF Looks
    <3> QED
      BY <1>1, <2>3, <2>5, <3>1, <3>2 DEF HubIInv, ChangeNoticed
  <2> QED
    BY <2>4, <2>7, <2>8, <2>9, <2>10 DEF HubIInv
<1> QED
  BY <1>6, <1>7

LEMMA DiscoverForRefreshStays ==
  ASSUME HubIInv, NEW r \in Reruns, DiscoverForRefresh(r)
  PROVE  HubIInv'
<1>0. PICK s \in Sessions, c \in Configs : s = refresh[r].on /\ c = refresh[r].config
  BY HubFacts DEF DiscoverForRefresh, Applying, HubSteps
<1> DEFINE done == [refresh[r] EXCEPT !.pc = "apply", !.done = refresh[r].done \cup {s}]
<1>1. /\ refresh[r].pc = "discover" /\ Applying(r)
      /\ refresh' = [refresh EXCEPT ![r] = done]
      /\ startup' = startup /\ file' = file /\ timer' = timer /\ lastSeen' = lastSeen
  BY <1>0, HubFacts DEF DiscoverForRefresh, Applying
<1>2. PICK up \in BOOLEAN : IF Live(s) THEN Register(s, c, up) ELSE UNCHANGED session
  BY <1>0 DEF DiscoverForRefresh
<1>3. /\ done \in RefreshType /\ done.pc = "apply" /\ done.config = c
      /\ done.done = refresh[r].done \cup {s}
  BY <1>0, <1>1, HubFacts DEF RefreshType
<1> HIDE DEF done
<1>4. /\ refresh' \in [Reruns -> RefreshType] /\ refresh'[r] = done
      /\ \A q \in Reruns \ {r} : refresh'[q] = refresh[q]
  BY <1>1, <1>3, HubFacts DEF HubTypes
<1>5. Discovers(r, s)
  BY <1>0, <1>1 DEF Discovers
<1>6. \A q \in Reruns : /\ Applying(q)' <=> Applying(q)
                        /\ Looks(q)' <=> Looks(q)
                        /\ refresh'[q].config = refresh[q].config
                        /\ Looks(q) => refresh'[q] = refresh[q]
                        /\ \A t \in Sessions : Discovers(q, t)' <=> q # r /\ Discovers(q, t)
  BY <1>0, <1>1, <1>3, <1>4 DEF Applying, Looks, Discovers
<1>7. PICK x \in SessionType :
         /\ session' = [session EXCEPT ![s] = x] /\ x.pc = session[s].pc
         /\ ~Live(s) => x = session[s]
         /\ Live(s) =>
               /\ x.topology = c.url /\ x.config = c
               /\ ~x.crossed =>
                     /\ ~session[s].crossed
                     /\ x.tool = IF session[s].tool = NoTool THEN ToolOf(c) ELSE session[s].tool
  <2>1. CASE Live(s)
    <3>1. PICK x \in SessionType :
             /\ x = Registered(s, c, up) /\ x.pc = session[s].pc
             /\ x.topology = c.url /\ x.config = c
             /\ up => x.tool = IF session[s].tool = NoTool THEN ToolOf(c) ELSE session[s].tool
             /\ ~x.crossed => up /\ ~session[s].crossed
      BY <1>1, RegisteredIs
    <3>2. session' = [session EXCEPT ![s] = x]
      BY <1>2, <2>1, <3>1 DEF Register
    <3> QED
      BY <2>1, <3>1, <3>2
  <2>2. CASE ~Live(s)
    <3>1. session' = session /\ session[s] \in SessionType
      BY <1>1, <1>2, <2>2, HubFacts
    <3>2. session' = [session EXCEPT ![s] = session[s]]
      BY <3>1, HubFacts DEF HubTypes
    <3> QED
      BY <2>2, <3>1, <3>2
  <2> QED
    BY <2>1, <2>2
<1>8. /\ session' \in [Sessions -> SessionType] /\ session'[s] = x
      /\ \A t \in Sessions \ {s} : session'[t] = session[t]
  BY <1>1, <1>7, HubFacts DEF HubTypes
<1>9. \A t \in Sessions : /\ Opening(t)' <=> Opening(t)
                          /\ Live(t)' <=> Live(t)
                          /\ Steady(t)' => Steady(t)
                          /\ session'[t].pc = session[t].pc
  BY <1>7, <1>8 DEF Opening, Live, Steady
<1>10. HubTypes'
  BY <1>1, <1>4, <1>8, HubFacts DEF HubTypes
<1>11. HubSteps'
  <2>1. \A t \in Sessions :
           /\ Opening(t) => session'[t].tool = NoTool
           /\ Opening(t) \/ Live(t) => session'[t].config \in Configs
           /\ Live(t) => session'[t].topology = session'[t].config.url
    BY <1>1, <1>7, <1>8, HubFacts DEF HubSteps, Opening, Live
  <2>2. \A q \in Reruns : refresh'[q].pc = "discover" => refresh'[q].on \in Sessions
    BY <1>3, <1>4, HubFacts DEF HubSteps
  <2>3. \A q \in Reruns : refresh'[q].pc = "compare" => refresh[q].pc = "compare"
    BY <1>3, <1>4
  <2> QED
    BY <1>1, <1>6, <1>9, <2>1, <2>2, <2>3, HubFacts DEF HubSteps
<1>12. Steady(s)' /\ Live(s) => /\ c = lastSeen /\ Steady(s)
                                /\ x.tool = ToolOf(c) /\ x.config = c
  <2>1. SUFFICES ASSUME Steady(s)', Live(s)
                 PROVE  c = lastSeen /\ Steady(s) /\ x.tool = ToolOf(c) /\ x.config = c
    OBVIOUS
  <2>2. Steady(s) /\ c = lastSeen
    BY <1>0, <1>1, <1>9, <2>1 DEF HubIInv, OneConfig
  <2>3. ~x.crossed
    BY <1>1, <1>8, <2>1 DEF Steady
  <2>4. /\ session[s].tool \in {NoTool, ToolOf(session[s].config)}
        /\ session[s].tool = NoTool \/ session[s].config = lastSeen
    BY <1>1, <1>5, <2>1, <2>2 DEF HubIInv, ToolsKnown
  <2> QED
    BY <1>7, <2>1, <2>2, <2>3, <2>4
<1>13. OneConfig'
  <2>1. ASSUME NEW t \in Sessions, t # s, NEW q \in Reruns, Applying(q), t \notin refresh[q].done
        PROVE  Applying(q)' /\ t \notin refresh'[q].done
    BY <1>3, <1>4, <1>6, <2>1
  <2>2. ASSUME Steady(s)' PROVE session'[s].config = lastSeen'
    <3>1. CASE Live(s)
      BY <1>1, <1>8, <1>12, <2>2, <3>1
    <3>2. CASE ~Live(s)
      BY <1>1, <1>7, <1>8, <1>9, <2>2, <3>2 DEF HubIInv, OneConfig
    <3> QED
      BY <3>1, <3>2
  <2> QED
    BY <1>1, <1>6, <1>8, <1>9, <2>1, <2>2 DEF HubIInv, OneConfig
<1>14. ToolsKnown'
  <2>1. ASSUME NEW t \in Sessions, t # s, Steady(t)', Live(t)'
        PROVE  /\ Steady(t) /\ Live(t) /\ session'[t] = session[t]
               /\ \A q \in Reruns : Discovers(q, t)' <=> Discovers(q, t)
    <3>1. ~Discovers(r, t)
      BY <1>0, <2>1 DEF Discovers
    <3> QED
      BY <1>6, <1>8, <1>9, <2>1, <3>1
  <2>2. ToolOf(c) # NoTool
    BY <1>1, HubConfigs
  <2>3. Steady(s)' /\ Live(s)' => /\ session'[s].tool = ToolOf(session'[s].config)
                                  /\ session'[s].tool # NoTool
                                  /\ session'[s].config = lastSeen'
    BY <1>1, <1>8, <1>9, <1>12, <2>2
  <2> QED
    BY <1>1, <2>1, <2>3 DEF HubIInv, ToolsKnown
<1>15. ChangeNoticed'
  <2>1. ASSUME NEW t \in Sessions, session'[t].pc = "seen"
        PROVE  session'[t] = session[t]
    BY <1>7, <1>8, <1>9, <2>1 DEF Live
  <2>2. \A q \in Reruns : refresh'[q].pc = "compare" => Looks(q)
    BY <1>6 DEF Looks
  <2> QED
    BY <1>1, <1>6, <1>9, <2>1, <2>2 DEF HubIInv, ChangeNoticed
<1> QED
  BY <1>10, <1>11, <1>13, <1>14, <1>15 DEF HubIInv

LEMMA EndRefreshStays ==
  ASSUME HubIInv, NEW r \in Reruns, EndRefresh(r)
  PROVE  HubIInv'
<1>1. /\ refresh[r].pc = "apply" /\ \A s \in Sessions : Live(s) => s \in refresh[r].done
      /\ refresh' = [refresh EXCEPT ![r] = IdleRefresh] /\ session' = session
      /\ startup' = startup /\ file' = file /\ timer' = timer /\ lastSeen' = lastSeen
  BY DEF EndRefresh
<1>2. /\ refresh' \in [Reruns -> RefreshType] /\ refresh'[r] = IdleRefresh
      /\ IdleRefresh.pc = "idle"
      /\ \A q \in Reruns \ {r} : refresh'[q] = refresh[q]
  BY <1>1, HubFacts, HubConfigs DEF HubTypes
<1>3. HubTypes'
  BY <1>1, <1>2, HubFacts DEF HubTypes
<1>4. \A q \in Reruns : /\ Applying(q)' <=> q # r /\ Applying(q)
                        /\ Looks(q)' <=> Looks(q)
                        /\ Looks(q) => q # r
                        /\ \A t \in Sessions : Discovers(q, t)' <=> Discovers(q, t)
  BY <1>1, <1>2 DEF Applying, Looks, Discovers
<1>5. HubSteps'
  BY <1>1, <1>2, <1>4, HubFacts DEF HubSteps, Opening, Live, Looks, Applying
<1>6. OneConfig' /\ ToolsKnown'
  BY <1>1, <1>2, <1>4 DEF HubIInv, OneConfig, ToolsKnown, Steady, Live
<1>7. ChangeNoticed'
  <2>1. \A q \in Reruns : refresh'[q].pc = "compare" => Looks(q) /\ refresh'[q] = refresh[q]
    BY <1>2, <1>4 DEF Looks
  <2> QED
    BY <1>1, <1>4, <2>1 DEF HubIInv, ChangeNoticed, Steady, Looks
<1> QED
  BY <1>3, <1>5, <1>6, <1>7 DEF HubIInv

LEMMA HubStart == HubInit => HubIInv
<1> SUFFICES ASSUME HubInit PROVE HubIInv
  OBVIOUS
<1>1. HubTypes
  <2>1. [url |-> 1, off |-> FALSE] \in Configs
    BY DEF Configs, Urls
  <2>2. [pc |-> "read", config |-> NoConfig]
           \in [pc : {"read", "seen", "done"}, config : Configs \cup {NoConfig}]
    OBVIOUS
  <2>3. /\ session \in [Sessions -> SessionType] /\ refresh \in [Reruns -> RefreshType]
    BY HubConfigs DEF HubInit
  <2> QED
    BY <2>1, <2>2, <2>3 DEF HubInit, HubTypes
<1>2. /\ \A s \in Sessions : ~Opening(s) /\ ~Live(s) /\ ~Steady(s) /\ session[s].pc # "seen"
      /\ \A r \in Reruns : ~Applying(r) /\ ~Looks(r) /\ refresh[r].pc \notin {"compare", "discover"}
      /\ startup.pc # "seen"
  BY HubConfigs DEF HubInit, Opening, Live, Steady, Applying, Looks
<1>3. HubSteps
  BY <1>2 DEF HubSteps
<1> QED
  BY <1>1, <1>2, <1>3 DEF HubIInv, OneConfig, ToolsKnown, ChangeNoticed

LEMMA HubStays == HubIInv /\ [HubNext]_hubVars => HubIInv'
<1> SUFFICES ASSUME HubIInv, [HubNext]_hubVars PROVE HubIInv'
  OBVIOUS
<1>1. CASE UNCHANGED hubVars
  <2>1. /\ file' = file /\ lastSeen' = lastSeen /\ timer' = timer /\ session' = session
        /\ refresh' = refresh /\ startup' = startup
    BY <1>1 DEF hubVars
  <2>2. HubTypes' /\ HubSteps'
    BY <2>1, HubFacts DEF HubTypes, HubSteps, Opening, Live, Looks, Applying
  <2> QED
    BY <2>1, <2>2 DEF HubIInv, OneConfig, ToolsKnown, ChangeNoticed, Steady, Live, Applying,
       Discovers, Looks
<1>2. CASE HubNext
  BY <1>1, <1>2, SeeAtStartupStays, SeeForSessionStays, EditFileStays, ReadAtStartupStays,
     ReadForSessionStays, DiscoverForSessionStays, CloseSessionStays, FireTimerStays,
     ReadForRefreshStays, CompareFingerprintStays, ApplyToSessionStays,
     DiscoverForRefreshStays, EndRefreshStays
     DEF HubNext, NobodyConnected
<1> QED
  BY <1>1, <1>2

\* When nothing is under way, every open session offers what the file says,
\* but for those that a change crossed.
THEOREM HubCorrect == HubSpec => []HubRules
<1>1. HubIInv => HubRules
  <2> SUFFICES ASSUME HubIInv PROVE HubRules
    OBVIOUS
  <2>1. HubTypeOK
    <3>1. \A s \in Sessions : session[s].tool.url \in Urls \cup {0}
      BY HubFacts DEF SessionType
    <3>2. \A s \in Sessions : Live(s) => session[s].topology \in Urls
      BY HubFacts, HubConfigs DEF HubSteps
    <3>3. \A r \in Reruns : refresh[r].done \subseteq Sessions
      BY HubFacts DEF RefreshType
    <3> QED
      BY <3>1, <3>2, <3>3, HubFacts DEF HubTypeOK, HubTypes
  <2>2. SessionsFollowFile
    <3> SUFFICES ASSUME HubQuiet, NEW s \in Sessions, Live(s), ~session[s].crossed
                 PROVE  session[s].tool = ToolOf(file)
      BY DEF SessionsFollowFile
    <3>1. Steady(s) /\ ~timer /\ \A r \in Reruns : refresh[r].pc = "idle"
      BY HubConfigs DEF Steady, Live, HubQuiet
    <3>2. \A r \in Reruns : ~Applying(r) /\ ~Looks(r) /\ ~Discovers(r, s)
      BY <3>1 DEF Applying, Looks, Discovers
    <3>3. lastSeen = file
      BY <3>1, <3>2 DEF HubIInv, ChangeNoticed
    <3>4. session[s].config = lastSeen
      BY <3>1, <3>2 DEF HubIInv, OneConfig
    <3> QED
      BY <3>1, <3>2, <3>3, <3>4 DEF HubIInv, ToolsKnown
  <2> QED
    BY <2>1, <2>2 DEF HubRules
<1> QED
  BY <1>1, HubStart, HubStays, PTL DEF HubSpec

(***************************************************************************)
(* OAuthDiscovery.  The search has asked wherever it does not ask any more *)
(* (PrmAsked, MetadataAsked); unless an answer was lost, there was none.   *)
(***************************************************************************)

Issuers == {"first", "second", "origin"}

MetadataHosts == {"first", "second", "origin", "legacy"}

\* Where metadata is asked for, given the PRM the search goes by.
MetadataPlaceType == [issuer : Issuers, place : MetadataHosts]

MetadataAskable(prm) ==
    {p \in MetadataPlaceType :
        \/ p.place = p.issuer /\ p.issuer \in Range(IssuersOf(prm))
        \/ prm = "none" /\ p.place = "legacy" /\ p.issuer = "origin"}

HostsType == [hint : SUBSET {"GET", "POST"}, prm : [{"hint", "path", "root"} -> Served],
              metadata : SUBSET MetadataHosts]

\* Before there is anything to ask for.
Probing == search.pc \in {"GET", "POST"} =>
    /\ search.prm = "none"
    /\ search.pc = "POST" /\ lost = 0 => "GET" \notin hosts.hint

PrmAsked == search.pc = "prm" =>
    /\ search.prm = "none"
    /\ search.todo \in Seq({"hint", "path", "root"})
    /\ Range(search.todo) \subseteq AskedPlaces
    /\ lost = 0 => \A p \in AskedPlaces \ Range(search.todo) : ~hosts.prm[p].json

MetadataAsked == search.pc \in {"metadata", "found", "failed"} =>
    /\ search.prm # "none" => search.prm \in AskedPlaces /\ hosts.prm[search.prm].json
    /\ search.prm = "none" /\ lost = 0 => \A p \in AskedPlaces : ~hosts.prm[p].json
    /\ search.todo \in Seq(MetadataPlaceType)
    /\ Range(search.todo) \subseteq MetadataAskable(search.prm)
    /\ search.pc = "found" => search.issuer \in Range(IssuersOf(search.prm))
    /\ search.pc = "failed" => search.todo = <<>>
    /\ search.pc # "found" /\ lost = 0 =>
          \A p \in MetadataAskable(search.prm) \ Range(search.todo) : p.place \notin hosts.metadata

DiscoveryIInv ==
    /\ hosts \in HostsType
    /\ search = [pc |-> search.pc, todo |-> search.todo, prm |-> search.prm,
                 issuer |-> search.issuer]
    /\ DiscoveryTypeOK
    /\ Probing
    /\ PrmAsked
    /\ MetadataAsked

\* Of the first of a sequence, and of the rest.
LEMMA HeadAndTail ==
  ASSUME NEW S, NEW q \in Seq(S), q # <<>>
  PROVE  /\ Head(q) \in S /\ Tail(q) \in Seq(S)
         /\ Head(q) \in Range(q)
         /\ Range(Tail(q)) \subseteq Range(q)
         /\ Range(q) \subseteq Range(Tail(q)) \cup {Head(q)}
<1>1. /\ Len(q) \in Nat /\ Len(q) > 0 /\ DOMAIN q = 1..Len(q) /\ Head(q) = q[1]
      /\ Tail(q) \in Seq(S) /\ DOMAIN Tail(q) = 1..(Len(q) - 1)
      /\ \A i \in 1..(Len(q) - 1) : Tail(q)[i] = q[i + 1]
      /\ \A i \in 1..Len(q) : q[i] \in S
  OBVIOUS
<1>2. Head(q) \in Range(q) /\ Head(q) \in S
  BY <1>1 DEF Range
<1>3. Range(Tail(q)) \subseteq Range(q)
  <2> SUFFICES ASSUME NEW i \in DOMAIN Tail(q) PROVE Tail(q)[i] \in Range(q)
    BY DEF Range
  <2>1. i + 1 \in DOMAIN q /\ Tail(q)[i] = q[i + 1]
    BY <1>1
  <2> QED
    BY <2>1 DEF Range
<1>4. Range(q) \subseteq Range(Tail(q)) \cup {Head(q)}
  <2> SUFFICES ASSUME NEW i \in DOMAIN q PROVE q[i] \in Range(Tail(q)) \cup {Head(q)}
    BY DEF Range
  <2>1. CASE i = 1
    BY <1>1, <2>1
  <2>2. CASE i # 1
    <3>1. i - 1 \in DOMAIN Tail(q) /\ Tail(q)[i - 1] = q[i]
      BY <1>1, <2>2
    <3> QED
      BY <3>1 DEF Range
  <2> QED
    BY <2>1, <2>2
<1> QED
  BY <1>1, <1>2, <1>3, <1>4

LEMMA EmptyRange == Range(<<>>) = {}
  BY DEF Range

\* Of what a place may serve.
LEMMA ServedIs ==
  ASSUME NEW doc \in Served
  PROVE  doc.json \in BOOLEAN /\ doc.issuers \in Seq(Issuers)
<1>1. "first" \in Issuers /\ "second" \in Issuers
  BY DEF Issuers
<1>2. /\ <<>> \in Seq(Issuers) /\ <<"first">> \in Seq(Issuers)
      /\ <<"second", "first">> \in Seq(Issuers)
  BY <1>1
<1>3. doc.json \in BOOLEAN /\ doc.issuers \in {<<>>, <<"first">>, <<"second", "first">>}
  <2> DEFINE a == <<"first">>
             b == <<"second", "first">>
             n == <<>>
  <2>1. \/ doc = [json |-> FALSE, issuers |-> n] \/ doc = [json |-> TRUE, issuers |-> n]
        \/ doc = [json |-> TRUE, issuers |-> a] \/ doc = [json |-> TRUE, issuers |-> b]
    BY Zenon DEF Served
  <2> HIDE DEF a, b, n
  <2>2. \E j \in BOOLEAN, q \in {n, a, b} : doc = [json |-> j, issuers |-> q]
    BY <2>1, Zenon
  <2>3. PICK j \in BOOLEAN, q \in {n, a, b} : doc = [json |-> j, issuers |-> q]
    BY <2>2, Zenon
  <2>4. doc.json = j /\ doc.issuers = q
    BY <2>3
  <2> QED
    BY <2>3, <2>4, Zenon DEF a, b, n
<1> QED
  BY <1>2, <1>3

LEMMA IssuersAre ==
  ASSUME hosts \in HostsType, NEW prm \in {"none", "hint", "path", "root"}
  PROVE  IssuersOf(prm) \in Seq(Issuers)
<1>1. <<"origin">> \in Seq(Issuers)
  <2>1. "origin" \in Issuers
    BY DEF Issuers
  <2> QED
    BY <2>1
<1>2. CASE IssuersOf(prm) = <<"origin">>
  BY <1>1, <1>2
<1>3. CASE prm # "none" /\ IssuersOf(prm) = hosts.prm[prm].issuers
  <2>1. hosts.prm[prm] \in Served
    BY <1>3 DEF HostsType
  <2> QED
    BY <1>3, <2>1, ServedIs
<1> QED
  BY <1>2, <1>3 DEF IssuersOf

\* What is asked for metadata is what there is to be asked.
LEMMA PlacesAre ==
  ASSUME hosts \in HostsType, NEW prm \in {"none", "hint", "path", "root"}
  PROVE  /\ MetadataPlaces(prm, IssuersOf(prm)) \in Seq(MetadataPlaceType)
         /\ Range(MetadataPlaces(prm, IssuersOf(prm))) = MetadataAskable(prm)
<1> DEFINE issuers == IssuersOf(prm)
           places == IssuerPlaces(issuers)
           legacy == [issuer |-> "origin", place |-> "legacy"]
           all == MetadataPlaces(prm, issuers)
<1>1. issuers \in Seq(Issuers)
  BY IssuersAre
<1>2. /\ Len(issuers) \in Nat /\ DOMAIN issuers = 1..Len(issuers)
      /\ \A i \in 1..Len(issuers) : issuers[i] \in Issuers
  BY <1>1
<1>3. /\ places \in Seq(MetadataPlaceType) /\ Len(places) = Len(issuers)
      /\ \A i \in 1..Len(issuers) : places[i] = [issuer |-> issuers[i], place |-> issuers[i]]
  <2>1. places = [i \in 1..Len(issuers) |-> [issuer |-> issuers[i], place |-> issuers[i]]]
    BY <1>2 DEF IssuerPlaces
  <2> HIDE DEF issuers, places
  <2>2. \A i \in 1..Len(issuers) : places[i] \in MetadataPlaceType
    BY <1>2, <2>1 DEF MetadataPlaceType, Issuers, MetadataHosts
  <2> QED
    BY <1>2, <2>1, <2>2
<1>4. legacy \in MetadataPlaceType
  BY DEF MetadataPlaceType, Issuers, MetadataHosts
<1>5. all = (IF prm = "none" THEN <<legacy>> ELSE <<>>) \o places
  BY DEF MetadataPlaces
<1> HIDE DEF places, legacy, all
<1>6. CASE prm # "none"
  <2>1. all = places
    BY <1>3, <1>5, <1>6
  <2>2. Range(all) = {[issuer |-> issuers[i], place |-> issuers[i]] : i \in 1..Len(issuers)}
    <3>1. DOMAIN all = 1..Len(issuers)
      BY <1>2, <1>3, <2>1
    <3>2. \A i \in 1..Len(issuers) : all[i] = [issuer |-> issuers[i], place |-> issuers[i]]
      BY <1>3, <2>1
    <3> HIDE DEF issuers
    <3> QED
      BY <3>1, <3>2 DEF Range
  <2>3. MetadataAskable(prm) = {p \in MetadataPlaceType : p.place = p.issuer /\ p.issuer \in Range(issuers)}
    BY <1>6 DEF MetadataAskable
  <2> HIDE DEF issuers
  <2>4. Range(issuers) = {issuers[i] : i \in 1..Len(issuers)}
    BY <1>2 DEF Range
  <2>5. Range(all) \subseteq MetadataAskable(prm)
    BY <1>2, <2>2, <2>3, <2>4 DEF MetadataPlaceType, Issuers, MetadataHosts
  <2>6. ASSUME NEW p \in MetadataAskable(prm) PROVE p \in Range(all)
    <3>1. p \in MetadataPlaceType /\ p.place = p.issuer
      BY <2>3
    <3>2. PICK i \in 1..Len(issuers) : p.issuer = issuers[i]
      BY <2>3, <2>4
    <3>3. p = [issuer |-> issuers[i], place |-> issuers[i]]
      BY <3>1, <3>2 DEF MetadataPlaceType
    <3> QED
      BY <2>2, <3>3
  <2> QED
    BY <1>3, <2>1, <2>5, <2>6 DEF issuers, all
<1>7. CASE prm = "none"
  <2>1. issuers = <<"origin">> /\ Len(issuers) = 1
    BY <1>7 DEF IssuersOf
  <2>2. places[1] = [issuer |-> "origin", place |-> "origin"] /\ Len(places) = 1
    BY <1>3, <2>1
  <2>3. all = <<legacy>> \o places
    BY <1>5, <1>7
  <2>4. /\ all \in Seq(MetadataPlaceType) /\ DOMAIN all = {1, 2}
        /\ all[1] = legacy /\ all[2] = [issuer |-> "origin", place |-> "origin"]
    <3> DEFINE origin == [issuer |-> "origin", place |-> "origin"]
    <3>1. <<legacy>> \in Seq(MetadataPlaceType) /\ Len(<<legacy>>) = 1 /\ <<legacy>>[1] = legacy
      BY <1>4
    <3>2. places \in Seq(MetadataPlaceType) /\ Len(places) = 1 /\ places[1] = origin
      BY <1>3, <2>1, <2>2
    <3> HIDE DEF origin
    <3>3. /\ all \in Seq(MetadataPlaceType) /\ Len(all) = 2
          /\ all[1] = legacy /\ all[2] = origin
      <4> DEFINE one == <<legacy>>
      <4>1. all = one \o places
        BY <2>3
      <4>2. one \in Seq(MetadataPlaceType) /\ Len(one) = 1 /\ one[1] = legacy
        BY <3>1
      <4> HIDE DEF one
      <4>3. /\ one \o places \in Seq(MetadataPlaceType) /\ Len(one \o places) = 2
            /\ \A i \in 1..2 : (one \o places)[i] = IF i <= 1 THEN one[i] ELSE places[i - 1]
        BY <3>2, <4>2, ConcatProperties
      <4> QED
        BY <3>2, <4>1, <4>2, <4>3
    <3>4. DOMAIN all = {1, 2}
      BY <3>3
    <3> QED
      BY <3>3, <3>4 DEF origin
  <2>5. Range(all) = {legacy, [issuer |-> "origin", place |-> "origin"]}
    BY <2>4 DEF Range
  <2>6. Range(issuers) = {"origin"}
    BY <2>1 DEF Range
  <2>7. MetadataAskable(prm) = {p \in MetadataPlaceType :
           \/ p.place = p.issuer /\ p.issuer = "origin"
           \/ p.place = "legacy" /\ p.issuer = "origin"}
    BY <1>7, <2>6 DEF MetadataAskable
  <2>8. Range(all) = MetadataAskable(prm)
    BY <2>5, <2>7 DEF legacy, MetadataPlaceType, Issuers, MetadataHosts
  <2> QED
    BY <2>4, <2>8 DEF all
<1> QED
  BY <1>6, <1>7

LEMMA PrmPlacesAre ==
  ASSUME NEW hinted \in BOOLEAN
  PROVE  /\ PrmPlaces(hinted) \in Seq({"hint", "path", "root"})
         /\ Range(PrmPlaces(hinted)) = {"path", "root"} \cup (IF hinted THEN {"hint"} ELSE {})
<1> DEFINE S == {"hint", "path", "root"}
           hint == <<"hint">>
           rest == <<"path", "root">>
<1>1. /\ rest \in Seq(S) /\ Len(rest) = 2 /\ rest[1] = "path" /\ rest[2] = "root"
      /\ hint \in Seq(S) /\ Len(hint) = 1 /\ hint[1] = "hint"
  OBVIOUS
<1>2. PrmPlaces(hinted) = (IF hinted THEN hint ELSE <<>>) \o rest
  BY DEF PrmPlaces
<1> HIDE DEF hint, rest
<1>3. CASE hinted
  <2>1. PrmPlaces(hinted) = hint \o rest
    BY <1>2, <1>3
  <2>2. /\ hint \o rest \in Seq(S) /\ Len(hint \o rest) = 3
        /\ \A i \in 1..3 : (hint \o rest)[i] = IF i <= 1 THEN hint[i] ELSE rest[i - 1]
    <3> HIDE DEF S
    <3>1. /\ hint \o rest \in Seq(S) /\ Len(hint \o rest) = Len(hint) + Len(rest)
          /\ \A i \in 1..(Len(hint) + Len(rest)) :
                (hint \o rest)[i] = IF i <= Len(hint) THEN hint[i] ELSE rest[i - Len(hint)]
      BY <1>1, ConcatProperties
    <3>2. Len(hint) + Len(rest) = 3
      BY <1>1
    <3> QED
      BY <1>1, <3>1, <3>2
  <2>3. /\ DOMAIN (hint \o rest) = {1, 2, 3}
        /\ (hint \o rest)[1] = "hint" /\ (hint \o rest)[2] = "path" /\ (hint \o rest)[3] = "root"
    BY <1>1, <2>2
  <2>4. Range(hint \o rest) = {"hint", "path", "root"}
    BY <2>3 DEF Range
  <2> QED
    BY <1>3, <2>1, <2>2, <2>4
<1>4. CASE ~hinted
  <2>1. PrmPlaces(hinted) = <<>> \o rest
    BY <1>2, <1>4
  <2>2. <<>> \o rest = rest
    BY <1>1
  <2>3. DOMAIN rest = {1, 2}
    BY <1>1
  <2>4. Range(rest) = {"path", "root"}
    BY <1>1, <2>3 DEF Range
  <2> QED
    BY <1>1, <1>4, <2>1, <2>2, <2>4
<1> QED
  BY <1>3, <1>4

LEMMA DiscoveryFacts ==
  ASSUME DiscoveryIInv
  PROVE  /\ hosts \in HostsType
         /\ search = [pc |-> search.pc, todo |-> search.todo, prm |-> search.prm,
                      issuer |-> search.issuer]
         /\ search.pc \in {"GET", "POST", "prm", "metadata", "found", "failed"}
         /\ search.prm \in {"none", "hint", "path", "root"}
         /\ search.pc # "found" => search.issuer = "none"
         /\ lost \in Nat
  BY DiscoveryAssumption DEF DiscoveryIInv, DiscoveryTypeOK

LEMMA AnsweredIs ==
  ASSUME DiscoveryIInv, NEW answered \in BOOLEAN, Answered(answered)
  PROVE  lost' \in 0..MaxLost /\ (lost' = 0 => lost = 0 /\ answered)
  BY DiscoveryAssumption DEF Answered, DiscoveryIInv, DiscoveryTypeOK

LEMMA ProbeStays ==
  ASSUME DiscoveryIInv, NEW method \in {"GET", "POST"}, NEW answered \in BOOLEAN,
         Probe(method, answered)
  PROVE  DiscoveryIInv'
<1> DEFINE hinted == answered /\ method \in hosts.hint
<1>1. /\ search.pc = method /\ search.prm = "none" /\ search.issuer = "none" /\ hosts' = hosts
      /\ lost' \in 0..MaxLost /\ (lost' = 0 => lost = 0 /\ answered)
      /\ search.pc = "POST" /\ lost = 0 => "GET" \notin hosts.hint
  BY DiscoveryFacts, AnsweredIs DEF Probe, DiscoveryIInv, Probing
<1>2. hinted \in BOOLEAN /\ (hinted => hosts.hint # {})
      /\ (answered /\ ~hinted => method \notin hosts.hint)
  OBVIOUS
<1>3. search' = IF hinted \/ method = "POST"
                THEN [search EXCEPT !.pc = "prm", !.todo = PrmPlaces(hinted)]
                ELSE [search EXCEPT !.pc = "POST"]
  BY DEF Probe
<1> HIDE DEF hinted
<1>4. CASE hinted \/ method = "POST"
  <2>1. search' = [pc |-> "prm", todo |-> PrmPlaces(hinted), prm |-> "none", issuer |-> "none"]
    BY <1>1, <1>3, <1>4, DiscoveryFacts
  <2>2. /\ PrmPlaces(hinted) \in Seq({"hint", "path", "root"})
        /\ Range(PrmPlaces(hinted)) = {"path", "root"} \cup (IF hinted THEN {"hint"} ELSE {})
    BY <1>2, PrmPlacesAre
  <2> DEFINE places == PrmPlaces(hinted)
  <2> HIDE DEF places
  <2>3. Range(places) \subseteq AskedPlaces
    BY <1>2, <2>2 DEF places, AskedPlaces
  <2>4. lost' = 0 => AskedPlaces \ Range(places) \subseteq {p \in {"hint"} : hosts.hint = {}}
    <3> SUFFICES ASSUME lost' = 0, ~hinted PROVE hosts.hint = {}
      BY <2>2 DEF places, AskedPlaces
    <3>1. method = "POST" /\ "GET" \notin hosts.hint /\ "POST" \notin hosts.hint
      BY <1>1, <1>2, <1>4
    <3> QED
      BY <3>1, DiscoveryFacts DEF HostsType
  <2>5. lost' = 0 => \A p \in AskedPlaces \ Range(places) : ~hosts.prm[p].json
    BY <2>4 DEF AskedPlaces
  <2>6. AskedPlaces' = AskedPlaces
    BY <1>1 DEF AskedPlaces
  <2>7. /\ search'.pc = "prm" /\ search'.todo = places /\ search'.prm = "none"
        /\ search'.issuer = "none"
    BY <2>1 DEF places
  <2>8. PrmAsked'
    BY <1>1, <2>2, <2>3, <2>5, <2>6, <2>7 DEF PrmAsked, places
  <2> QED
    BY <1>1, <2>7, <2>8, <2>1, DiscoveryFacts
       DEF DiscoveryIInv, DiscoveryTypeOK, Probing, MetadataAsked, places
<1>5. CASE ~(hinted \/ method = "POST")
  <2>1. search' = [pc |-> "POST", todo |-> search.todo, prm |-> "none", issuer |-> "none"]
    BY <1>1, <1>3, <1>5, DiscoveryFacts
  <2>2. lost' = 0 => "GET" \notin hosts.hint
    BY <1>1, <1>2, <1>5
  <2>3. /\ search'.pc = "POST" /\ search'.todo = search.todo /\ search'.prm = "none"
        /\ search'.issuer = "none"
    BY <2>1
  <2> QED
    BY <1>1, <2>1, <2>2, <2>3, DiscoveryFacts
       DEF DiscoveryIInv, DiscoveryTypeOK, Probing, PrmAsked, MetadataAsked
<1> QED
  BY <1>4, <1>5

\* A search that has PRM, or has found none, asks all there is to be asked.
LEMMA ToMetadataKeeps ==
  ASSUME DiscoveryIInv, NEW prm \in {"none", "hint", "path", "root"}, search.pc = "prm",
         search' = ToMetadata(prm), hosts' = hosts,
         lost' \in 0..MaxLost,
         prm # "none" => prm \in AskedPlaces /\ hosts.prm[prm].json,
         prm = "none" /\ lost' = 0 => \A p \in AskedPlaces : ~hosts.prm[p].json
  PROVE  DiscoveryIInv'
<1> DEFINE all == MetadataPlaces(prm, IssuersOf(prm))
<1>1. /\ all \in Seq(MetadataPlaceType) /\ Range(all) = MetadataAskable(prm)
  BY PlacesAre, DiscoveryFacts
<1>2. search' = [search EXCEPT !.pc = "metadata", !.prm = prm, !.todo = all]
  BY DEF ToMetadata
<1> HIDE DEF all
<1>3. search' = [pc |-> "metadata", todo |-> all, prm |-> prm, issuer |-> "none"]
  BY <1>2, DiscoveryFacts
<1>4. /\ search'.pc = "metadata" /\ search'.todo = all /\ search'.prm = prm
      /\ search'.issuer = "none"
  BY <1>3
<1>5. AskedPlaces' = AskedPlaces /\ MetadataAskable(prm)' = MetadataAskable(prm)
  BY DEF AskedPlaces, MetadataAskable, IssuersOf
<1>6. MetadataAskable(search.prm)' = MetadataAskable(prm)
  BY <1>4 DEF MetadataAskable, IssuersOf
<1> QED
  BY <1>1, <1>3, <1>4, <1>5, <1>6, DiscoveryFacts
     DEF DiscoveryIInv, DiscoveryTypeOK, Probing, PrmAsked, MetadataAsked

LEMMA ReadPrmStays ==
  ASSUME DiscoveryIInv, NEW answered \in BOOLEAN, ReadPrm(answered)
  PROVE  DiscoveryIInv'
<1> DEFINE q == search.todo
           place == Head(q)
<1>1. /\ search.pc = "prm" /\ q # <<>> /\ hosts' = hosts /\ search.prm = "none"
      /\ lost' \in 0..MaxLost /\ (lost' = 0 => lost = 0 /\ answered)
      /\ search' = IF answered /\ hosts.prm[place].json THEN ToMetadata(place)
                   ELSE [search EXCEPT !.todo = Tail(q)]
  BY AnsweredIs DEF ReadPrm, DiscoveryIInv, PrmAsked
<1>2. /\ q \in Seq({"hint", "path", "root"}) /\ Range(q) \subseteq AskedPlaces
      /\ lost = 0 => \A p \in AskedPlaces \ Range(q) : ~hosts.prm[p].json
  BY <1>1 DEF DiscoveryIInv, PrmAsked
<1>3. /\ place \in {"hint", "path", "root"} /\ Tail(q) \in Seq({"hint", "path", "root"})
      /\ place \in Range(q) /\ Range(Tail(q)) \subseteq Range(q)
      /\ Range(q) \subseteq Range(Tail(q)) \cup {place}
  BY <1>1, <1>2, HeadAndTail
<1> HIDE DEF place
<1>4. CASE answered /\ hosts.prm[place].json
  <2>1. search' = ToMetadata(place) /\ place # "none" /\ place \in AskedPlaces
    BY <1>1, <1>2, <1>3, <1>4
  <2> QED
    BY <1>1, <1>3, <1>4, <2>1, ToMetadataKeeps
<1>5. CASE ~(answered /\ hosts.prm[place].json)
  <2> DEFINE rest == Tail(q)
  <2>1. search' = [pc |-> "prm", todo |-> rest, prm |-> "none", issuer |-> "none"]
    BY <1>1, <1>5, DiscoveryFacts
  <2>2. rest \in Seq({"hint", "path", "root"}) /\ Range(rest) \subseteq AskedPlaces
    BY <1>2, <1>3
  <2>3. lost' = 0 => \A p \in AskedPlaces \ Range(rest) : ~hosts.prm[p].json
    BY <1>1, <1>2, <1>3, <1>5
  <2> HIDE DEF rest
  <2>4. /\ search'.pc = "prm" /\ search'.todo = rest /\ search'.prm = "none"
        /\ search'.issuer = "none"
    BY <2>1
  <2>5. AskedPlaces' = AskedPlaces
    BY <1>1 DEF AskedPlaces
  <2>6. PrmAsked'
    BY <1>1, <2>2, <2>3, <2>4, <2>5 DEF PrmAsked
  <2> QED
    BY <1>1, <2>1, <2>4, <2>6, DiscoveryFacts
       DEF DiscoveryIInv, DiscoveryTypeOK, Probing, MetadataAsked
<1> QED
  BY <1>4, <1>5

LEMMA NoPrmStays ==
  ASSUME DiscoveryIInv, NoPrm
  PROVE  DiscoveryIInv'
<1>1. /\ search.pc = "prm" /\ search.todo = <<>> /\ search' = ToMetadata("none")
      /\ hosts' = hosts /\ lost' = lost /\ lost \in 0..MaxLost
  BY DEF NoPrm, DiscoveryIInv, DiscoveryTypeOK
<1>2. lost = 0 => \A p \in AskedPlaces : ~hosts.prm[p].json
  BY <1>1, EmptyRange DEF DiscoveryIInv, PrmAsked
<1> QED
  BY <1>1, <1>2, ToMetadataKeeps

\* A search that asks for metadata, and after a step asks for the rest.
LEMMA MetadataKeeps ==
  ASSUME DiscoveryIInv, search.pc = "metadata", hosts' = hosts, lost' \in 0..MaxLost,
         NEW pc \in {"metadata", "found", "failed"}, NEW rest \in Seq(MetadataPlaceType),
         NEW issuer,
         search' = [pc |-> pc, todo |-> rest, prm |-> search.prm, issuer |-> issuer],
         lost' = 0 => lost = 0,
         Range(rest) \subseteq MetadataAskable(search.prm),
         pc = "found" => issuer \in Range(IssuersOf(search.prm)),
         pc # "found" => issuer = "none",
         pc = "failed" => rest = <<>>,
         pc # "found" /\ lost' = 0 =>
            \A p \in MetadataAskable(search.prm) \ Range(rest) : p.place \notin hosts.metadata
  PROVE  DiscoveryIInv'
<1>1. /\ search'.pc = pc /\ search'.todo = rest /\ search'.prm = search.prm
      /\ search'.issuer = issuer
  OBVIOUS
<1>2. AskedPlaces' = AskedPlaces
  BY DEF AskedPlaces
<1>3. /\ MetadataAskable(search.prm)' = MetadataAskable(search.prm)
      /\ IssuersOf(search.prm)' = IssuersOf(search.prm)
  BY <1>1 DEF MetadataAskable, IssuersOf
<1>4. pc = "found" => issuer # "none"
  <2> SUFFICES ASSUME pc = "found" PROVE issuer # "none"
    OBVIOUS
  <2>1. IssuersOf(search.prm) \in Seq(Issuers)
    BY IssuersAre, DiscoveryFacts
  <2>2. issuer \in Issuers
    BY <2>1 DEF Range
  <2> QED
    BY <2>2 DEF Issuers
<1>5. /\ search.prm # "none" => search.prm \in AskedPlaces /\ hosts.prm[search.prm].json
      /\ search.prm = "none" /\ lost = 0 => \A p \in AskedPlaces : ~hosts.prm[p].json
  BY DEF DiscoveryIInv, MetadataAsked
<1>6. MetadataAsked'
  BY <1>1, <1>2, <1>3, <1>5 DEF MetadataAsked
<1>7. search' = [pc |-> search'.pc, todo |-> search'.todo, prm |-> search'.prm,
                 issuer |-> search'.issuer]
  BY <1>1
<1>8. DiscoveryTypeOK'
  BY <1>1, <1>4, DiscoveryFacts DEF DiscoveryTypeOK
<1> QED
  BY <1>1, <1>6, <1>7, <1>8, DiscoveryFacts DEF DiscoveryIInv, Probing, PrmAsked

LEMMA ReadMetadataStays ==
  ASSUME DiscoveryIInv, NEW answered \in BOOLEAN, ReadMetadata(answered)
  PROVE  DiscoveryIInv'
<1> DEFINE q == search.todo
           asked == Head(q)
<1>1. /\ search.pc = "metadata" /\ q # <<>> /\ hosts' = hosts
      /\ lost' \in 0..MaxLost /\ (lost' = 0 => lost = 0 /\ answered)
      /\ search' = IF answered /\ asked.place \in hosts.metadata
                   THEN [search EXCEPT !.pc = "found", !.issuer = asked.issuer]
                   ELSE [search EXCEPT !.todo = Tail(q)]
  BY AnsweredIs DEF ReadMetadata
<1>2. /\ q \in Seq(MetadataPlaceType) /\ Range(q) \subseteq MetadataAskable(search.prm)
      /\ lost = 0 => \A p \in MetadataAskable(search.prm) \ Range(q) : p.place \notin hosts.metadata
  BY <1>1 DEF DiscoveryIInv, MetadataAsked
<1>3. /\ asked \in MetadataPlaceType /\ Tail(q) \in Seq(MetadataPlaceType)
      /\ asked \in Range(q) /\ Range(Tail(q)) \subseteq Range(q)
      /\ Range(q) \subseteq Range(Tail(q)) \cup {asked}
  BY <1>1, <1>2, HeadAndTail
<1> HIDE DEF asked
<1>4. CASE answered /\ asked.place \in hosts.metadata
  <2> DEFINE issuer == asked.issuer
  <2>1. search' = [pc |-> "found", todo |-> q, prm |-> search.prm, issuer |-> issuer]
    BY <1>1, <1>4, DiscoveryFacts
  <2>2. issuer \in Range(IssuersOf(search.prm))
    <3>1. asked \in MetadataAskable(search.prm)
      BY <1>2, <1>3
    <3>2. search.prm = "none" => "origin" \in Range(IssuersOf(search.prm))
      BY DEF IssuersOf, Range
    <3> QED
      BY <3>1, <3>2 DEF MetadataAskable
  <2> HIDE DEF issuer, q
  <2> QED
    BY <1>1, <1>2, <2>1, <2>2, MetadataKeeps
<1>5. CASE ~(answered /\ asked.place \in hosts.metadata)
  <2> DEFINE rest == Tail(q)
  <2>1. search' = [pc |-> "metadata", todo |-> rest, prm |-> search.prm, issuer |-> "none"]
    BY <1>1, <1>5, DiscoveryFacts
  <2>2. rest \in Seq(MetadataPlaceType) /\ Range(rest) \subseteq MetadataAskable(search.prm)
    BY <1>2, <1>3
  <2>3. lost' = 0 =>
           \A p \in MetadataAskable(search.prm) \ Range(rest) : p.place \notin hosts.metadata
    BY <1>1, <1>2, <1>3, <1>5
  <2> HIDE DEF rest, q
  <2> QED
    BY <1>1, <2>1, <2>2, <2>3, MetadataKeeps
<1> QED
  BY <1>4, <1>5

LEMMA FailSearchStays ==
  ASSUME DiscoveryIInv, FailSearch
  PROVE  DiscoveryIInv'
<1>1. /\ search.pc = "metadata" /\ search.todo = <<>> /\ hosts' = hosts /\ lost' = lost
      /\ search' = [search EXCEPT !.pc = "failed"] /\ lost \in 0..MaxLost
  BY DEF FailSearch, DiscoveryIInv, DiscoveryTypeOK
<1>2. search' = [pc |-> "failed", todo |-> <<>>, prm |-> search.prm, issuer |-> "none"]
  BY <1>1, DiscoveryFacts
<1>3. /\ <<>> \in Seq(MetadataPlaceType) /\ Range(<<>>) \subseteq MetadataAskable(search.prm)
      /\ lost = 0 => \A p \in MetadataAskable(search.prm) \ Range(<<>>) : p.place \notin hosts.metadata
  BY <1>1, EmptyRange DEF DiscoveryIInv, MetadataAsked
<1> QED
  BY <1>1, <1>2, <1>3, MetadataKeeps

LEMMA DiscoveryStart == DiscoveryInit => DiscoveryIInv
  BY DiscoveryAssumption
     DEF DiscoveryInit, DiscoveryIInv, HostsType, MetadataHosts, DiscoveryTypeOK, Probing,
         PrmAsked, MetadataAsked

LEMMA DiscoveryStays == DiscoveryIInv /\ [DiscoveryNext]_searchVars => DiscoveryIInv'
<1> SUFFICES ASSUME DiscoveryIInv, [DiscoveryNext]_searchVars PROVE DiscoveryIInv'
  OBVIOUS
<1>1. CASE UNCHANGED searchVars
  <2>1. hosts' = hosts /\ search' = search /\ lost' = lost
    BY <1>1 DEF searchVars
  <2>2. AskedPlaces' = AskedPlaces /\ MetadataAskable(search.prm)' = MetadataAskable(search.prm)
        /\ IssuersOf(search.prm)' = IssuersOf(search.prm)
    BY <2>1 DEF AskedPlaces, MetadataAskable, IssuersOf
  <2>3. PrmAsked' /\ MetadataAsked' /\ Probing'
    BY <2>1, <2>2 DEF DiscoveryIInv, PrmAsked, MetadataAsked, Probing
  <2> QED
    BY <2>1, <2>3 DEF DiscoveryIInv, DiscoveryTypeOK
<1>2. CASE DiscoveryNext
  BY <1>1, <1>2, ProbeStays, ReadPrmStays, NoPrmStays, ReadMetadataStays, FailSearchStays
     DEF DiscoveryNext, Searched
<1> QED
  BY <1>1, <1>2

\* Whatever is served, and however many answers are lost.
THEOREM DiscoveryCorrect == DiscoverySpec => []DiscoveryRules
<1>1. DiscoveryIInv => DiscoveryRules
  <2> SUFFICES ASSUME DiscoveryIInv PROVE FailureMeansNothing /\ IssuerWasNamed
    BY DEF DiscoveryRules, DiscoveryIInv
  <2> DEFINE prm == search.prm
             issuers == hosts.prm[prm].issuers
  <2>1. CASE search.pc = "failed"
    <3>1. lost = 0 => \A p \in MetadataAskable(prm) : p.place \notin hosts.metadata
      BY <2>1, EmptyRange DEF DiscoveryIInv, MetadataAsked
    <3>2. SUFFICES ASSUME lost = 0, ~Misled PROVE FailureMeansNothing
      BY <2>1 DEF FailureMeansNothing, IssuerWasNamed
    <3>3. ASSUME prm = "none" PROVE {"origin", "legacy"} \cap hosts.metadata = {}
      <4>1. Range(IssuersOf(prm)) = {"origin"}
        BY <3>3 DEF IssuersOf, Range
      <4>2. [issuer |-> "origin", place |-> "origin"] \in MetadataAskable(prm)
        BY <4>1 DEF MetadataAskable, MetadataPlaceType, Issuers, MetadataHosts
      <4>3. [issuer |-> "origin", place |-> "legacy"] \in MetadataAskable(prm)
        BY <3>3 DEF MetadataAskable, MetadataPlaceType, Issuers, MetadataHosts
      <4> QED
        BY <3>1, <3>2, <4>2, <4>3
    <3>4. ASSUME prm # "none" PROVE Range(issuers) \cap hosts.metadata = {}
      <4>1. prm \in AskedPlaces /\ hosts.prm[prm].json
        BY <2>1, <3>4 DEF DiscoveryIInv, MetadataAsked
      <4>2. issuers # <<>>
        BY <3>2, <4>1 DEF Misled
      <4>3. IssuersOf(prm) = issuers
        BY <3>4, <4>2 DEF IssuersOf
      <4>4. issuers \in Seq(Issuers)
        BY <4>3, IssuersAre, DiscoveryFacts
      <4> HIDE DEF issuers
      <4>5. ASSUME NEW i \in Range(issuers) PROVE i \notin hosts.metadata
        <5>1. i \in Issuers
          BY <4>4 DEF Range
        <5>2. [issuer |-> i, place |-> i] \in MetadataAskable(prm)
          BY <4>3, <5>1 DEF MetadataAskable, MetadataPlaceType, Issuers, MetadataHosts
        <5> QED
          BY <3>1, <3>2, <5>2
      <4> QED
        BY <4>5
    <3> QED
      BY <3>3, <3>4 DEF FailureMeansNothing
  <2>2. CASE search.pc = "found"
    <3>1. /\ search.issuer \in Range(IssuersOf(prm))
          /\ prm # "none" => prm \in AskedPlaces /\ hosts.prm[prm].json
          /\ prm = "none" /\ lost = 0 => \A p \in AskedPlaces : ~hosts.prm[p].json
      BY <2>2 DEF DiscoveryIInv, MetadataAsked
    <3>2. IssuersOf(prm) = <<"origin">> => search.issuer = "origin"
      BY <3>1 DEF Range
    <3>3. CASE prm # "none" /\ issuers # <<>>
      BY <2>2, <3>1, <3>3 DEF IssuersOf, IssuerWasNamed, FailureMeansNothing
    <3>4. CASE prm # "none" /\ issuers = <<>>
      BY <2>2, <3>1, <3>2, <3>4 DEF IssuersOf, IssuerWasNamed, FailureMeansNothing, Misled
    <3>5. CASE prm = "none"
      <4>1. lost > 0 \/ \A p \in AskedPlaces : ~hosts.prm[p].json
        BY <3>1, <3>5, DiscoveryFacts
      <4> QED
        BY <2>2, <3>2, <3>5, <4>1 DEF IssuersOf, IssuerWasNamed, FailureMeansNothing
    <3> QED
      BY <3>3, <3>4, <3>5
  <2>3. CASE search.pc \notin {"found", "failed"}
    BY <2>3 DEF FailureMeansNothing, IssuerWasNamed
  <2> QED
    BY <2>1, <2>2, <2>3
<1> QED
  BY <1>1, DiscoveryStart, DiscoveryStays, PTL DEF DiscoverySpec

(***************************************************************************)
(* PersonalStore.  Until files were overwritten blindly, processes killed  *)
(* or an init run beside others (Clean), the stored secrets are encrypted  *)
(* under the one key there is, and the token of each is one the provider   *)
(* accepts or a refresh is about to replace it.                            *)
(***************************************************************************)

KeyNumbers == 0..(MaxUpheavals + 1)

SecretType == {s \in [key : KeyNumbers, token : 0..MaxTokens] : s.key = 0 => s = NoSecret}

ConfigType == {c \in [present : BOOLEAN, storage : {"none", "file", "keychain"},
                      token : Ids \cup {0}, servers : SUBSET Ids] :
                  ~c.present => c = NoConfigFile}

ProcType ==
    [op : {"idle", "init", "serve", "add", "connect", "tools", "refresh"},
     pc : {"idle", "clear", "empty", "store", "config", "load", "browser", "id", "exchange",
           "key", "aside", "read", "save", "list"},
     force : BOOLEAN, storage : {"none", "file", "keychain"}, config : ConfigType,
     secrets : [Ids -> SecretType], key : KeyNumbers, id : Ids \cup {0}, token : 0..MaxTokens]

\* A process that replaces the key and all that is encrypted under it.
Resets(f) ==
    f.op = "init" /\ f.id = 0 /\ f.pc \in {"clear", "empty", "store", "aside", "config"}

\* What a process f has done before it comes to a step.
ProcSteps(f) ==
    /\ f.op = "idle" \/ f.pc = "idle" => f = IdleProc
    /\ f.op = "init" =>
          /\ f.storage \in {"file", "keychain"}
          /\ f.pc \in {"clear", "empty", "store", "aside", "config", "load", "id", "key",
                       "read", "save", "list"}
          /\ Resets(f) => f.key # 0
          /\ f.pc \in {"clear", "empty", "store", "config", "load"} => f.id = 0
    /\ f.op = "serve" => f.pc \in {"id", "key", "aside", "read", "save", "list"}
    /\ f.op = "add" => f.pc \in {"browser", "id", "key", "aside", "read", "save", "list"}
    /\ f.op = "connect" => f.pc \in {"browser", "key", "aside", "read", "save"} /\ f.id # 0
    /\ f.op = "tools" => f.pc = "list"
    /\ f.op = "refresh" =>
          f.pc \in {"exchange", "key", "aside", "read", "save"} /\ f.id # 0 /\ f.token # 0
    /\ f.op \in {"serve", "add", "tools"} \/ f.pc \in {"id", "list"} => f.config.present
    /\ f.op = "init" /\ f.id # 0 => f.config.present
    /\ f.op \in {"init", "serve"} => f.token = 0
    /\ f.pc = "clear" => f.force
    /\ f.pc = "browser" => f.token = 0
    /\ f.pc \in {"aside", "read", "save"} => f.key # 0
    /\ f.pc \in {"key", "read", "save"} => f.id # 0
    /\ f.pc = "aside" /\ f.op # "init" => f.id # 0
    /\ f.pc = "list" /\ f.op # "tools" => f.id # 0

StoreTypes ==
    /\ config \in ConfigType
    /\ secrets \in [Ids -> SecretType]
    /\ keys \in [file : KeyNumbers, chain : KeyNumbers, up : BOOLEAN]
    /\ proc \in [Procs -> ProcType]
    /\ lapse \in BOOLEAN
    /\ met \in BOOLEAN
    /\ spent \in [ids : 0..MaxIds, tokens : 0..MaxTokens, upheavals : 0..MaxUpheavals]
    /\ live \subseteq 1..spent.tokens

Processes ==
    \A p \in Procs :
        /\ ProcSteps(proc[p])
        /\ proc[p] # IdleProc /\ ~met => Alone(p)

\* An init that began where nothing was, finds nothing until it stores the key.
NothingYet ==
    \A p \in Procs :
        proc[p].op = "init" /\ proc[p].pc \in {"empty", "store"} /\ ~proc[p].force /\ ~met =>
            config = NoConfigFile /\ keys.file = 0

Resetting == \E p \in Procs : Resets(proc[p])

Clean == ~lapse /\ (met => ~Resetting)

\* An init that has removed the secrets stores the key it brings.
KeyReplaced ==
    Clean => \A p \in Procs : Resets(proc[p]) =>
        /\ proc[p].pc \in {"store", "aside", "config"} => secrets = NoSecrets
        /\ proc[p].pc = "aside" => keys.chain = proc[p].key /\ proc[p].storage = "keychain"
        /\ proc[p].pc = "config" =>
              IF proc[p].storage = "file" THEN keys.file = proc[p].key
              ELSE keys.chain = proc[p].key /\ keys.file = 0

\* There is one key, wherever it is found, and what is stored is encrypted under it.
KeysAgree ==
    Clean /\ ~Resetting =>
        /\ Storage = "keychain" /\ keys.file # 0 /\ keys.chain # 0 => keys.file = keys.chain
        /\ \A i \in Ids : secrets[i] # NoSecret =>
              /\ keys.file # 0 => secrets[i].key = keys.file
              /\ Storage = "keychain" /\ keys.chain # 0 => secrets[i].key = keys.chain
        /\ \A p \in Procs :
              proc[p].pc = "aside" => config.storage = "keychain" /\ keys.chain # 0

\* What is named, or about to be, has been stored.
NamesStored ==
    Clean /\ ~Resetting =>
        /\ \A i \in config.servers \cup ({config.token} \ {0}) : secrets[i] # NoSecret
        /\ \A p \in Procs : proc[p].pc = "list" /\ proc[p].op # "tools" =>
              secrets[proc[p].id] # NoSecret

\* A process that holds a token the provider has issued to it and that is not
\* stored yet, and one that has spent the stored one.
HoldsFresh(f) ==
    /\ f.op \in {"add", "connect", "refresh"}
    /\ f.pc \in {"id", "key", "aside", "read", "save"}
    /\ f.token # 0

Exchanged(f) == f.op = "refresh" /\ f.pc # "exchange"

\* A stored token is accepted or about to be replaced; no two places hold one
\* token but the refresh and the entry it is for.
TokensLive ==
    Clean =>
        /\ \A i \in Ids :
              /\ secrets[i].token <= spent.tokens
              /\ \/ secrets[i].token \in live \cup {0}
                 \/ \E p \in Procs : Exchanged(proc[p]) /\ proc[p].id = i
        /\ \A p \in Procs : proc[p].token <= spent.tokens
        /\ \A i, j \in Ids : secrets[i].token = secrets[j].token /\ secrets[i].token # 0 => i = j
        /\ \A p \in Procs : HoldsFresh(proc[p]) =>
              /\ proc[p].token \in live
              /\ \A i \in Ids : secrets[i].token # proc[p].token
              /\ \A q \in Procs \ {p} : proc[q].token # proc[p].token
        /\ \A p \in Procs : proc[p].op = "refresh" =>
              \A i \in Ids \ {proc[p].id} : secrets[i].token # proc[p].token

StoreIInv ==
    /\ StoreTypes
    /\ Processes
    /\ NothingYet
    /\ KeyReplaced
    /\ KeysAgree
    /\ NamesStored
    /\ TokensLive

-----------------------------------------------------------------------------
LEMMA StoreIdle ==
    /\ IdleProc \in ProcType
    /\ ProcSteps(IdleProc)
    /\ ~Resets(IdleProc) /\ ~HoldsFresh(IdleProc) /\ ~Exchanged(IdleProc)
    /\ IdleProc.op = "idle" /\ IdleProc.pc = "idle" /\ IdleProc.token = 0 /\ IdleProc.id = 0
<1>1. NoSecret \in SecretType
  BY StoreAssumption DEF StoreAssumption, NoSecret, SecretType, KeyNumbers
<1>2. NoSecrets \in [Ids -> SecretType]
  BY <1>1 DEF NoSecrets
<1>3. NoConfigFile \in ConfigType
  BY DEF NoConfigFile, ConfigType
<1>4. IdleProc \in ProcType
  BY <1>2, <1>3, StoreAssumption DEF StoreAssumption, IdleProc, ProcType, KeyNumbers
<1>5. IdleProc.op = "idle" /\ IdleProc.pc = "idle" /\ IdleProc.token = 0 /\ IdleProc.id = 0
  BY DEF IdleProc
<1>6. ProcSteps(IdleProc)
  BY <1>5 DEF ProcSteps, Resets
<1> QED
  BY <1>4, <1>5, <1>6 DEF Resets, HoldsFresh, Exchanged

LEMMA StoredSecrets ==
    /\ NoSecret \in SecretType /\ NoSecret.key = 0 /\ NoSecret.token = 0
    /\ NoSecrets \in [Ids -> SecretType]
    /\ \A i \in Ids : NoSecrets[i] = NoSecret
    /\ \A s \in SecretType : s # NoSecret <=> s.key # 0
<1>1. NoSecret \in SecretType /\ NoSecret.key = 0 /\ NoSecret.token = 0
  BY StoreAssumption DEF StoreAssumption, NoSecret, SecretType, KeyNumbers
<1>2. NoSecrets \in [Ids -> SecretType] /\ \A i \in Ids : NoSecrets[i] = NoSecret
  BY <1>1 DEF NoSecrets
<1>3. \A s \in SecretType : s # NoSecret <=> s.key # 0
  BY <1>1 DEF SecretType
<1> QED
  BY <1>1, <1>2, <1>3

LEMMA StoreFields ==
    ASSUME StoreTypes
    PROVE  /\ spent.tokens \in 0..MaxTokens /\ spent.tokens \in Nat
           /\ spent.ids \in 0..MaxIds /\ spent.upheavals \in 0..MaxUpheavals
           /\ keys.file \in KeyNumbers /\ keys.chain \in KeyNumbers /\ keys.up \in BOOLEAN
           /\ MasterKey \in KeyNumbers
           /\ config \in ConfigType /\ secrets \in [Ids -> SecretType]
           /\ MaxIds \in Nat /\ MaxTokens \in Nat /\ MaxUpheavals \in Nat
<1>1. MaxIds \in Nat /\ MaxTokens \in Nat /\ MaxUpheavals \in Nat
  BY StoreAssumption DEF StoreAssumption
<1>2. spent.tokens \in 0..MaxTokens /\ spent.ids \in 0..MaxIds
      /\ spent.upheavals \in 0..MaxUpheavals
  BY DEF StoreTypes
<1>3. keys.file \in KeyNumbers /\ keys.chain \in KeyNumbers /\ keys.up \in BOOLEAN
  BY DEF StoreTypes
<1> QED
  BY <1>1, <1>2, <1>3 DEF StoreTypes, MasterKey

\* A step of p leaves it as x; the files are clean only if they were, and p resets
\* them only alone.
Moved(p, x) ==
    /\ proc'[p] = x /\ \A q \in Procs \ {p} : proc'[q] = proc[q]
    /\ Clean' => Clean
    /\ ~Resetting' /\ ~Resets(proc[p]) => ~Resetting
    /\ Clean' /\ (Resets(proc[p]) \/ Resets(x)) => ~met' /\ Alone(p)
    /\ \A q \in Procs \ {p} :
          /\ Clean' /\ proc[p] # IdleProc => ~Resets(proc[q])
          /\ ~met' /\ proc[q] # IdleProc => ~met /\ proc[p] = IdleProc /\ x = IdleProc

\* A step of p that leaves it as x: what the processes have done stays told, and
\* and Moved.
LEMMA StoreMoves ==
    ASSUME StoreTypes, Processes, NEW p \in Procs, NEW x \in ProcType,
           ProcSteps(x), proc' = [proc EXCEPT ![p] = x],
           lapse' \in BOOLEAN, lapse => lapse',
           \/ met' = met /\ (proc[p] # IdleProc \/ x = IdleProc)
           \/ proc[p] = IdleProc /\ met' = ~Alone(p),
           Resets(proc[p]) /\ met /\ ~lapse' => Resets(x)
    PROVE  /\ proc' \in [Procs -> ProcType] /\ met' \in BOOLEAN
           /\ Processes'
           /\ Moved(p, x)
<1>1. proc \in [Procs -> ProcType] /\ met \in BOOLEAN /\ lapse \in BOOLEAN
  BY DEF StoreTypes
<1>2. proc' \in [Procs -> ProcType] /\ proc'[p] = x
      /\ \A q \in Procs \ {p} : proc'[q] = proc[q]
  BY <1>1
<1>3. \A q \in Procs : ProcSteps(proc[q]) /\ (proc[q] # IdleProc /\ ~met => Alone(q))
  BY DEF Processes
<1>4. ~Resets(IdleProc)
  BY StoreIdle
<1>5. met' \in BOOLEAN
  BY <1>1
<1>6. \A q \in Procs \ {p} :
          ~met' /\ proc[q] # IdleProc => ~met /\ proc[p] = IdleProc /\ x = IdleProc
  <2> SUFFICES ASSUME NEW q \in Procs \ {p}, ~met', proc[q] # IdleProc
               PROVE  ~met /\ proc[p] = IdleProc /\ x = IdleProc
    OBVIOUS
  <2>1. ~Alone(p)
    BY DEF Alone
  <2>2. met' = met /\ (proc[p] # IdleProc \/ x = IdleProc)
    BY <2>1
  <2>3. ~met /\ proc[p] = IdleProc
    BY <2>1, <2>2, <1>3
  <2> QED
    BY <2>2, <2>3
<1>7. Processes'
  <2> SUFFICES ASSUME NEW q \in Procs
               PROVE  /\ ProcSteps(proc'[q])
                      /\ proc'[q] # IdleProc /\ ~met' => \A r \in Procs \ {q} : proc'[r] = IdleProc
    BY DEF Processes, Alone
  <2>1. ProcSteps(proc'[q])
    BY <1>2, <1>3
  <2>2. ASSUME proc'[q] # IdleProc, ~met', NEW r \in Procs \ {q}
        PROVE  proc'[r] = IdleProc
    <3>1. CASE q = p
      BY <3>1, <2>2, <1>2, <1>6
    <3>2. CASE q # p
      <4>1. ~met /\ proc[p] = IdleProc /\ x = IdleProc
        BY <3>2, <2>2, <1>2, <1>6
      <4>2. Alone(q)
        BY <4>1, <3>2, <2>2, <1>2, <1>3
      <4> QED
        BY <4>1, <4>2, <1>2 DEF Alone
    <3> QED
      BY <3>1, <3>2
  <2> QED
    BY <2>1, <2>2
<1>8. Clean' => Clean
  <2> SUFFICES ASSUME ~lapse', met' => ~Resetting', met, NEW q \in Procs, Resets(proc[q])
               PROVE  FALSE
    BY <1>1 DEF Clean, Resetting
  <2>1. CASE q = p
    <3>1. Resets(x) /\ proc[p] # IdleProc
      BY <2>1, <1>4
    <3>2. met' = met
      BY <3>1
    <3> QED
      BY <3>1, <3>2, <1>2 DEF Resetting
  <2>2. CASE q # p
    <3>1. proc[q] # IdleProc /\ Resets(proc'[q])
      BY <2>2, <1>2, <1>4
    <3>2. met'
      BY <3>1, <2>2, <1>6
    <3> QED
      BY <3>1, <3>2 DEF Resetting
  <2> QED
    BY <2>1, <2>2
<1>9. ~Resetting' /\ ~Resets(proc[p]) => ~Resetting
  BY <1>2 DEF Resetting
<1>10. Clean' /\ (Resets(proc[p]) \/ Resets(x)) => ~met' /\ Alone(p)
  <2> SUFFICES ASSUME Clean', Resets(proc[p]) \/ Resets(x)
               PROVE  ~met' /\ Alone(p)
    OBVIOUS
  <2>1. ~met'
    <3>1. CASE Resets(x)
      BY <3>1, <1>2 DEF Clean, Resetting
    <3>2. CASE ~Resets(x)
      <4>1. Resets(proc[p]) /\ ~lapse'
        BY <3>2 DEF Clean
      <4>2. ~met /\ proc[p] # IdleProc
        BY <4>1, <3>2, <1>4
      <4> QED
        BY <4>2
    <3> QED
      BY <3>1, <3>2
  <2>2. x # IdleProc \/ proc[p] # IdleProc
    BY <1>4
  <2> QED
    BY <2>1, <2>2, <1>6 DEF Alone
<1>11. ASSUME NEW q \in Procs \ {p}, Clean', proc[p] # IdleProc
       PROVE  ~Resets(proc[q])
  <2> SUFFICES ASSUME Resets(proc[q]) PROVE FALSE
    OBVIOUS
  <2>1. proc[q] # IdleProc /\ Resets(proc'[q])
    BY <1>2, <1>4
  <2>2. met'
    BY <2>1, <1>6, <1>11
  <2> QED
    BY <2>1, <2>2, <1>11 DEF Clean, Resetting
<1> QED
  BY <1>2, <1>5, <1>6, <1>7, <1>8, <1>9, <1>10, <1>11 DEF Moved

\* A step that neither stores nor spends a token.
LEMMA TokensStay ==
    ASSUME StoreTypes, Processes, TokensLive, Clean' => Clean,
           NEW p \in Procs, NEW x \in ProcType,
           proc'[p] = x, \A q \in Procs \ {p} : proc'[q] = proc[q],
           secrets' = secrets, live' = live, spent'.tokens = spent.tokens,
           x.token \in {0, proc[p].token},
           HoldsFresh(x) => HoldsFresh(proc[p]),
           Exchanged(proc[p]) /\ ~lapse' => Exchanged(x) /\ x.id = proc[p].id,
           x.op = "refresh" => proc[p].op = "refresh" /\ x.id = proc[p].id /\ x.token # 0
    PROVE  TokensLive'
<1> SUFFICES ASSUME Clean' PROVE TokensLive'
  BY DEF TokensLive
<1>1. Clean /\ ~lapse'
  BY DEF Clean
<1>2. HoldsFresh(x) => x.token = proc[p].token
  BY DEF HoldsFresh
<1>3. \A i \in Ids :
          /\ secrets'[i].token <= spent'.tokens
          /\ \/ secrets'[i].token \in live' \cup {0}
             \/ \E q \in Procs : Exchanged(proc'[q]) /\ proc'[q].id = i
  BY <1>1 DEF TokensLive
<1>7. \A q \in Procs : proc'[q].token <= spent'.tokens
  <2>1. \A q \in Procs : proc[q].token <= spent.tokens
    BY <1>1 DEF TokensLive
  <2>2. 0 <= spent.tokens
    BY StoreFields
  <2> QED
    BY <2>1, <2>2
<1>4. \A i, j \in Ids :
          secrets'[i].token = secrets'[j].token /\ secrets'[i].token # 0 => i = j
  BY <1>1 DEF TokensLive
<1>5. ASSUME NEW q \in Procs, HoldsFresh(proc'[q])
      PROVE  /\ proc'[q].token \in live'
             /\ \A i \in Ids : secrets'[i].token # proc'[q].token
             /\ \A r \in Procs \ {q} : proc'[r].token # proc'[q].token
  <2>1. HoldsFresh(proc[q]) /\ proc'[q].token = proc[q].token /\ proc[q].token # 0
    BY <1>5, <1>2 DEF HoldsFresh
  <2> QED
    BY <2>1, <1>1 DEF TokensLive
<1>6. ASSUME NEW q \in Procs, proc'[q].op = "refresh", NEW i \in Ids \ {proc'[q].id}
      PROVE  secrets'[i].token # proc'[q].token
  <2>1. proc[q].op = "refresh" /\ proc'[q].id = proc[q].id /\ proc'[q].token = proc[q].token
    BY <1>6
  <2> QED
    BY <2>1, <1>1 DEF TokensLive
<1> QED
  BY <1>3, <1>4, <1>5, <1>6, <1>7 DEF TokensLive

\* A step of p that changes no file.
LEMMA FilesStay ==
    ASSUME StoreIInv, NEW p \in Procs, NEW x \in ProcType,
           ProcSteps(x), proc' = [proc EXCEPT ![p] = x],
           UNCHANGED <<config, secrets, keys>>,
           spent' \in [ids : 0..MaxIds, tokens : 0..MaxTokens, upheavals : 0..MaxUpheavals],
           live' \subseteq 1..spent'.tokens,
           lapse' \in BOOLEAN, lapse => lapse',
           \/ met' = met /\ (proc[p] # IdleProc \/ x = IdleProc)
           \/ proc[p] = IdleProc /\ met' = ~Alone(p),
           Resets(proc[p]) => lapse',
           Resets(x) => proc[p] = IdleProc /\ x.pc \in {"clear", "empty"},
           x.op = "init" /\ x.pc \in {"empty", "store"} /\ ~x.force =>
              config = NoConfigFile /\ keys.file = 0,
           x.pc # "aside", x.pc = "list" => x.op = "tools"
    PROVE  Moved(p, x) /\ (TokensLive' => StoreIInv')
<1>1. StoreTypes /\ Processes /\ NothingYet /\ KeyReplaced /\ KeysAgree /\ NamesStored
      /\ TokensLive
  BY DEF StoreIInv
<1>2. Moved(p, x) /\ proc' \in [Procs -> ProcType] /\ met' \in BOOLEAN /\ Processes'
  BY <1>1, StoreMoves
<1>3. /\ proc'[p] = x /\ \A q \in Procs \ {p} : proc'[q] = proc[q]
      /\ Clean' => Clean
      /\ ~Resetting' /\ ~Resets(proc[p]) => ~Resetting
      /\ \A q \in Procs \ {p} :
            ~met' /\ proc[q] # IdleProc => ~met /\ proc[p] = IdleProc /\ x = IdleProc
  BY <1>2 DEF Moved
<1>4. StoreTypes'
  BY <1>1, <1>2 DEF StoreTypes
<1>5. Clean' => ~Resets(proc[p]) /\ ~lapse'
  BY DEF Clean
<1>6. NothingYet'
  <2> SUFFICES ASSUME NEW q \in Procs, proc'[q].op = "init", proc'[q].pc \in {"empty", "store"},
                      ~proc'[q].force, ~met'
               PROVE  config' = NoConfigFile /\ keys'.file = 0
    BY DEF NothingYet
  <2>1. CASE q = p
    BY <2>1, <1>3
  <2>2. CASE q # p
    <3>1. proc[q] # IdleProc /\ proc'[q] = proc[q]
      BY <2>2, <1>3, StoreIdle
    <3>2. ~met
      BY <3>1, <2>2, <1>3
    <3> QED
      BY <1>1, <3>1, <3>2 DEF NothingYet
  <2> QED
    BY <2>1, <2>2
<1>7. KeyReplaced'
  <2> SUFFICES ASSUME Clean', NEW q \in Procs, Resets(proc'[q])
               PROVE  /\ proc'[q].pc \in {"store", "aside", "config"} => secrets = NoSecrets
                      /\ proc'[q].pc = "aside" =>
                            keys.chain = proc'[q].key /\ proc'[q].storage = "keychain"
                      /\ proc'[q].pc = "config" =>
                            IF proc'[q].storage = "file" THEN keys.file = proc'[q].key
                            ELSE keys.chain = proc'[q].key /\ keys.file = 0
    BY DEF KeyReplaced
  <2>1. CASE q = p
    BY <2>1, <1>3
  <2>2. CASE q # p
    BY <2>2, <1>1, <1>3 DEF KeyReplaced
  <2> QED
    BY <2>1, <2>2
<1>8. KeysAgree'
  <2> SUFFICES ASSUME Clean', ~Resetting' PROVE KeysAgree'
    BY DEF KeysAgree
  <2>1. Clean /\ ~Resetting /\ Storage' = Storage
    BY <1>3, <1>5 DEF Storage
  <2>2. \A q \in Procs : proc'[q].pc = "aside" => proc[q].pc = "aside"
    BY <1>3
  <2> QED
    BY <1>1, <2>1, <2>2 DEF KeysAgree
<1>9. NamesStored'
  <2> SUFFICES ASSUME Clean', ~Resetting' PROVE NamesStored'
    BY DEF NamesStored
  <2>1. Clean /\ ~Resetting
    BY <1>3, <1>5
  <2>2. \A q \in Procs : proc'[q].pc = "list" /\ proc'[q].op # "tools" => proc'[q] = proc[q]
    BY <1>3
  <2> QED
    BY <1>1, <2>1, <2>2 DEF NamesStored
<1> QED
  BY <1>2, <1>4, <1>6, <1>7, <1>8, <1>9 DEF StoreIInv

\* A step of p that changes no file, and neither saves nor spends anything.
LEMMA QuietMove ==
    ASSUME StoreIInv, NEW p \in Procs, NEW x \in ProcType,
           ProcSteps(x), proc' = [proc EXCEPT ![p] = x],
           UNCHANGED <<config, secrets, keys, live>>,
           spent' \in [ids : 0..MaxIds, tokens : 0..MaxTokens, upheavals : 0..MaxUpheavals],
           spent'.tokens = spent.tokens,
           lapse' \in BOOLEAN, lapse => lapse',
           \/ met' = met /\ (proc[p] # IdleProc \/ x = IdleProc)
           \/ proc[p] = IdleProc /\ met' = ~Alone(p),
           Resets(proc[p]) => lapse',
           Resets(x) => proc[p] = IdleProc /\ x.pc \in {"clear", "empty"},
           x.op = "init" /\ x.pc \in {"empty", "store"} /\ ~x.force =>
              config = NoConfigFile /\ keys.file = 0,
           x.pc # "aside", x.pc = "list" => x.op = "tools",
           x.token \in {0, proc[p].token},
           HoldsFresh(x) => HoldsFresh(proc[p]),
           Exchanged(proc[p]) /\ ~lapse' => Exchanged(x) /\ x.id = proc[p].id,
           x.op = "refresh" => proc[p].op = "refresh" /\ x.id = proc[p].id
    PROVE  StoreIInv'
<1>1. StoreTypes /\ Processes /\ TokensLive
  BY DEF StoreIInv
<1>2. live' \subseteq 1..spent'.tokens
  BY <1>1 DEF StoreTypes
<1>3. Moved(p, x) /\ (TokensLive' => StoreIInv')
  BY <1>2, FilesStay
<1>4. x.op = "refresh" => x.token # 0
  BY DEF ProcSteps
<1>5. TokensLive'
  BY <1>1, <1>3, <1>4, TokensStay DEF Moved
<1> QED
  BY <1>3, <1>5

LEMMA StoreProcFacts ==
    ASSUME StoreIInv, NEW p \in Procs
    PROVE  /\ proc[p] \in ProcType /\ ProcSteps(proc[p])
           /\ lapse \in BOOLEAN /\ met \in BOOLEAN
           /\ spent \in [ids : 0..MaxIds, tokens : 0..MaxTokens, upheavals : 0..MaxUpheavals]
           /\ config \in ConfigType /\ secrets \in [Ids -> SecretType]
           /\ MaxIds \in Nat /\ MaxTokens \in Nat /\ MaxUpheavals \in Nat
BY StoreFields DEF StoreIInv, StoreTypes, Processes

LEMMA ReadSecretsStays ==
    ASSUME StoreIInv, NEW p \in Procs, ReadSecrets(p)
    PROVE  StoreIInv'
<1> DEFINE x == [proc[p] EXCEPT !.pc = "save", !.secrets = secrets]
<1>1. proc[p] \in ProcType /\ ProcSteps(proc[p]) /\ lapse \in BOOLEAN
      /\ spent \in [ids : 0..MaxIds, tokens : 0..MaxTokens, upheavals : 0..MaxUpheavals]
      /\ secrets \in [Ids -> SecretType]
  BY StoreProcFacts
<1>2. proc' = [proc EXCEPT ![p] = x] /\ proc[p].pc = "read"
      /\ UNCHANGED <<config, secrets, keys, live, lapse, spent, met>>
  BY DEF ReadSecrets, Become
<1>3. /\ x \in ProcType /\ x.pc = "save"
      /\ x.op = proc[p].op /\ x.force = proc[p].force /\ x.storage = proc[p].storage
      /\ x.config = proc[p].config /\ x.key = proc[p].key /\ x.id = proc[p].id
      /\ x.token = proc[p].token
  BY <1>1 DEF ProcType
<1> HIDE DEF x
<1>4. ProcSteps(x) /\ ~Resets(x) /\ ~Resets(proc[p])
  <2>1. x.op # "idle"
    BY <1>1, <1>2, <1>3, StoreIdle DEF ProcSteps
  <2> QED
    BY <1>1, <1>2, <1>3, <2>1 DEF ProcSteps, Resets
<1>5. /\ HoldsFresh(x) => HoldsFresh(proc[p])
      /\ Exchanged(proc[p]) => Exchanged(x)
  BY <1>2, <1>3 DEF HoldsFresh, Exchanged
<1>6. proc[p] # IdleProc
  BY <1>2, StoreIdle
<1> QED
  BY <1>1, <1>2, <1>3, <1>4, <1>5, <1>6, QuietMove

LEMMA MintIdStays ==
    ASSUME StoreIInv, NEW p \in Procs, MintId(p)
    PROVE  StoreIInv'
<1> DEFINE x == [proc[p] EXCEPT !.id = spent.ids + 1, !.pc = "key"]
<1>1. proc[p] \in ProcType /\ ProcSteps(proc[p]) /\ lapse \in BOOLEAN
      /\ spent \in [ids : 0..MaxIds, tokens : 0..MaxTokens, upheavals : 0..MaxUpheavals]
      /\ MaxIds \in Nat
  BY StoreProcFacts
<1>2. proc' = [proc EXCEPT ![p] = x] /\ proc[p].pc = "id" /\ spent.ids < MaxIds
      /\ spent' = [spent EXCEPT !.ids = spent.ids + 1]
      /\ UNCHANGED <<config, secrets, keys, live, lapse, met>>
  BY DEF MintId, Become
<1>3. spent.ids + 1 \in Ids /\ spent.ids + 1 # 0
  BY <1>1, <1>2 DEF Ids
<1>4. /\ x \in ProcType /\ x.pc = "key" /\ x.id # 0
      /\ x.op = proc[p].op /\ x.force = proc[p].force /\ x.storage = proc[p].storage
      /\ x.config = proc[p].config /\ x.key = proc[p].key
      /\ x.token = proc[p].token
  BY <1>1, <1>3 DEF ProcType
<1>5. spent' \in [ids : 0..MaxIds, tokens : 0..MaxTokens, upheavals : 0..MaxUpheavals]
      /\ spent'.tokens = spent.tokens
  BY <1>1, <1>2
<1> HIDE DEF x
<1>6. ProcSteps(x) /\ ~Resets(x) /\ ~Resets(proc[p])
  <2>1. x.op # "idle"
    BY <1>1, <1>2, <1>4, StoreIdle DEF ProcSteps
  <2> QED
    BY <1>1, <1>2, <1>4, <2>1 DEF ProcSteps, Resets
<1>7. /\ HoldsFresh(x) => HoldsFresh(proc[p])
      /\ ~Exchanged(proc[p]) /\ x.op # "refresh"
  BY <1>1, <1>2, <1>4 DEF HoldsFresh, Exchanged, ProcSteps
<1>8. proc[p] # IdleProc
  BY <1>2, StoreIdle
<1> QED
  BY <1>1, <1>2, <1>4, <1>5, <1>6, <1>7, <1>8, QuietMove

\* A process ends, or one that would begin does not.
LEMMA EndStays ==
    ASSUME StoreIInv, NEW p \in Procs, proc' = [proc EXCEPT ![p] = IdleProc],
           UNCHANGED <<config, secrets, keys, live>>,
           spent' \in [ids : 0..MaxIds, tokens : 0..MaxTokens, upheavals : 0..MaxUpheavals],
           spent'.tokens = spent.tokens,
           lapse' \in BOOLEAN, lapse => lapse',
           met' = met,
           Resets(proc[p]) \/ Exchanged(proc[p]) => lapse'
    PROVE  StoreIInv'
<1> HIDE DEF IdleProc
<1> QED
  BY StoreIdle, StoreProcFacts, QuietMove

LEMMA GiveUpStays ==
    ASSUME StoreIInv, NEW p \in Procs, GiveUp(p)
    PROVE  StoreIInv'
<1>1. ProcSteps(proc[p]) /\ lapse \in BOOLEAN
      /\ spent \in [ids : 0..MaxIds, tokens : 0..MaxTokens, upheavals : 0..MaxUpheavals]
  BY StoreProcFacts
<1>2. proc' = [proc EXCEPT ![p] = IdleProc] /\ proc[p].pc \in {"browser", "id", "exchange"}
      /\ UNCHANGED <<config, secrets, keys, live, lapse, spent, met>>
  BY DEF GiveUp, Become
<1>3. ~Resets(proc[p]) /\ ~Exchanged(proc[p])
  BY <1>1, <1>2 DEF Resets, Exchanged, ProcSteps
<1> QED
  BY <1>1, <1>2, <1>3, EndStays

LEMMA KillProcStays ==
    ASSUME StoreIInv, NEW p \in Procs, KillProc(p)
    PROVE  StoreIInv'
<1>1. ProcSteps(proc[p]) /\ lapse \in BOOLEAN
      /\ spent \in [ids : 0..MaxIds, tokens : 0..MaxTokens, upheavals : 0..MaxUpheavals]
      /\ MaxUpheavals \in Nat
  BY StoreProcFacts
<1>2. proc' = [proc EXCEPT ![p] = IdleProc] /\ lapse' = (lapse \/ Unfinished(p))
      /\ spent.upheavals < MaxUpheavals
      /\ spent' = [spent EXCEPT !.upheavals = spent.upheavals + 1]
      /\ UNCHANGED <<config, secrets, keys, live, met>>
  BY DEF KillProc, Become, Upheaval
<1>3. Resets(proc[p]) \/ Exchanged(proc[p]) => Unfinished(p)
  BY DEF Resets, Exchanged, Unfinished
<1>4. spent' \in [ids : 0..MaxIds, tokens : 0..MaxTokens, upheavals : 0..MaxUpheavals]
      /\ spent'.tokens = spent.tokens
  BY <1>1, <1>2
<1>5. lapse' \in BOOLEAN /\ (lapse => lapse') /\ (Unfinished(p) => lapse')
  BY <1>1, <1>2
<1> QED
  BY <1>2, <1>3, <1>4, <1>5, EndStays

LEMMA StartInitStays ==
    ASSUME StoreIInv, NEW p \in Procs, NEW force \in BOOLEAN, NEW s \in {"file", "keychain"},
           StartInit(p, force, s)
    PROVE  StoreIInv'
<1> DEFINE x == [IdleProc EXCEPT !.op = "init", !.force = force, !.storage = s,
                                 !.key = spent.upheavals + 2,
                                 !.pc = IF force THEN "clear" ELSE "empty"]
<1>1. proc[p] \in ProcType /\ lapse \in BOOLEAN /\ proc \in [Procs -> ProcType]
      /\ spent \in [ids : 0..MaxIds, tokens : 0..MaxTokens, upheavals : 0..MaxUpheavals]
      /\ MaxUpheavals \in Nat /\ config \in ConfigType
  BY StoreProcFacts DEF StoreIInv, StoreTypes
<1>2. proc[p] = IdleProc /\ spent.upheavals < MaxUpheavals
      /\ spent' = [spent EXCEPT !.upheavals = spent.upheavals + 1]
      /\ UNCHANGED <<config, secrets, keys, live, lapse>>
  BY DEF StartInit, Upheaval
<1>3. spent' \in [ids : 0..MaxIds, tokens : 0..MaxTokens, upheavals : 0..MaxUpheavals]
      /\ spent'.tokens = spent.tokens
  BY <1>1, <1>2
<1>4. CASE Already /\ ~force
  <2>1. proc' = proc /\ met' = met
    <3>1. proc' = proc
      BY <1>4 DEF StartInit
    <3> QED
      BY <3>1, <1>2 DEF StartInit, MeetOthers
  <2>2. proc' = [proc EXCEPT ![p] = IdleProc]
    BY <2>1, <1>1, <1>2
  <2> QED
    BY <1>1, <1>2, <1>3, <2>1, <2>2, StoreIdle, EndStays
<1>5. CASE ~(Already /\ ~force)
  <2>1. proc' = [proc EXCEPT ![p] = x]
    BY <1>5 DEF StartInit, Become
  <2>2. spent.upheavals + 2 \in KeyNumbers /\ spent.upheavals + 2 # 0
    BY <1>1, <1>2 DEF KeyNumbers
  <2>3. /\ x \in ProcType /\ x.pc \in {"clear", "empty"} /\ (x.pc = "clear" => force)
        /\ x.op = "init" /\ x.force = force /\ x.storage = s /\ x.key # 0
        /\ x.id = 0 /\ x.token = 0
    <3>1. IdleProc \in ProcType /\ IdleProc.id = 0 /\ IdleProc.token = 0
      BY StoreIdle
    <3> HIDE DEF IdleProc
    <3> QED
      BY <3>1, <2>2 DEF ProcType
  <2> HIDE DEF x
  <2>4. ProcSteps(x)
    BY <2>3 DEF ProcSteps
  <2>5. ~HoldsFresh(x) /\ ~Resets(proc[p]) /\ ~Exchanged(proc[p]) /\ x # IdleProc
    BY <2>3, <1>2, StoreIdle DEF HoldsFresh
  <2>6. met' = ~Alone(p)
    <3>1. proc'[p] # IdleProc
      BY <2>1, <2>5, <1>1
    <3> QED
      BY <3>1 DEF StartInit, MeetOthers
  <2>7. ~force => config = NoConfigFile /\ keys.file = 0
    BY <1>1, <1>5 DEF Already, ConfigType
  <2> QED
    BY <1>1, <1>2, <1>3, <2>1, <2>3, <2>4, <2>5, <2>6, <2>7, QuietMove
<1> QED
  BY <1>4, <1>5

\* loadConfig, as init continues or a command begins.
LEMMA LoadConfigStays ==
    ASSUME StoreIInv, NEW p \in Procs, NEW f \in ProcType,
           f.op \in {"init", "serve", "add", "connect", "tools"},
           f.pc \in {"idle", "load"}, f.id = 0, f.token = 0,
           f.op = "init" => f = proc[p] /\ f.pc = "load" /\ UNCHANGED met,
           f.op # "init" => proc[p] = IdleProc /\ MeetOthers(p),
           LoadConfig(p, f)
    PROVE  StoreIInv'
<1>1. proc[p] \in ProcType /\ ProcSteps(proc[p]) /\ lapse \in BOOLEAN
      /\ proc \in [Procs -> ProcType]
      /\ spent \in [ids : 0..MaxIds, tokens : 0..MaxTokens, upheavals : 0..MaxUpheavals]
      /\ config \in ConfigType
  BY StoreProcFacts DEF StoreIInv, StoreTypes
<1>2. UNCHANGED <<config, secrets, keys, live, lapse, spent>>
  BY DEF LoadConfig
<1>3. ~Resets(proc[p]) /\ ~Exchanged(proc[p])
  BY <1>1, StoreIdle DEF Resets, Exchanged
<1>4. CASE ~config.present \/ (f.op = "serve" /\ TokenStands)
  <2>1. proc' = [proc EXCEPT ![p] = IdleProc]
    BY <1>4 DEF LoadConfig, Become
  <2>2. met' = met
    BY <2>1, <1>1 DEF MeetOthers
  <2> QED
    BY <1>1, <1>2, <1>3, <2>1, <2>2, EndStays
<1>5. CASE config.present /\ ~(f.op = "serve" /\ TokenStands)
  <2>1. PICK x \in ProcType :
            /\ proc' = [proc EXCEPT ![p] = x]
            /\ x.op = f.op /\ x.storage = f.storage /\ x.force = f.force
            /\ x.config = config /\ x.token = 0
            /\ \/ x.op \in {"init", "serve"} /\ x.pc = "id" /\ x.id = 0
               \/ x.op = "tools" /\ x.pc = "list"
               \/ x.op = "add" /\ x.pc = "browser"
               \/ x.op = "connect" /\ x.pc = "browser" /\ x.id # 0
    <3>1. CASE f.op \in {"init", "serve"} /\ Become(p, [f EXCEPT !.pc = "id", !.config = config, !.token = 0])
      <4> DEFINE y == [f EXCEPT !.pc = "id", !.config = config, !.token = 0]
      <4>1. y \in ProcType /\ y.op = f.op /\ y.storage = f.storage /\ y.force = f.force
            /\ y.config = config /\ y.token = 0 /\ y.pc = "id" /\ y.id = 0
        BY <1>1 DEF ProcType
      <4>2. proc' = [proc EXCEPT ![p] = y]
        BY <3>1 DEF Become
      <4> HIDE DEF y
      <4> QED
        BY <3>1, <4>1, <4>2
    <3>2. CASE f.op = "tools" /\ Become(p, [f EXCEPT !.pc = "list", !.config = config])
      <4> DEFINE y == [f EXCEPT !.pc = "list", !.config = config]
      <4>1. y \in ProcType /\ y.op = f.op /\ y.storage = f.storage /\ y.force = f.force
            /\ y.config = config /\ y.token = 0 /\ y.pc = "list"
        BY <1>1 DEF ProcType
      <4>2. proc' = [proc EXCEPT ![p] = y]
        BY <3>2 DEF Become
      <4> HIDE DEF y
      <4> QED
        BY <3>2, <4>1, <4>2
    <3>3. CASE f.op = "add" /\ Become(p, [f EXCEPT !.pc = "browser", !.config = config])
      <4> DEFINE y == [f EXCEPT !.pc = "browser", !.config = config]
      <4>1. y \in ProcType /\ y.op = f.op /\ y.storage = f.storage /\ y.force = f.force
            /\ y.config = config /\ y.token = 0 /\ y.pc = "browser"
        BY <1>1 DEF ProcType
      <4>2. proc' = [proc EXCEPT ![p] = y]
        BY <3>3 DEF Become
      <4> HIDE DEF y
      <4> QED
        BY <3>3, <4>1, <4>2
    <3>4. ASSUME f.op \in {"add", "connect"}, NEW i \in config.servers,
                 Become(p, [f EXCEPT !.pc = "browser", !.config = config, !.id = i])
          PROVE  \E x \in ProcType :
                    /\ proc' = [proc EXCEPT ![p] = x]
                    /\ x.op = f.op /\ x.storage = f.storage /\ x.force = f.force
                    /\ x.config = config /\ x.token = 0
                    /\ \/ x.op \in {"init", "serve"} /\ x.pc = "id" /\ x.id = 0
                       \/ x.op = "tools" /\ x.pc = "list"
                       \/ x.op = "add" /\ x.pc = "browser"
                       \/ x.op = "connect" /\ x.pc = "browser" /\ x.id # 0
      <4> DEFINE y == [f EXCEPT !.pc = "browser", !.config = config, !.id = i]
      <4>1. i \in Ids /\ i # 0
        BY <1>1 DEF ConfigType, Ids
      <4>2. y \in ProcType /\ y.op = f.op /\ y.storage = f.storage /\ y.force = f.force
            /\ y.config = config /\ y.token = 0 /\ y.pc = "browser" /\ y.id = i
        BY <1>1, <4>1 DEF ProcType
      <4>3. proc' = [proc EXCEPT ![p] = y]
        BY <3>4 DEF Become
      <4> HIDE DEF y
      <4> QED
        BY <3>4, <4>1, <4>2, <4>3
    <3> QED
      BY <1>5, <3>1, <3>2, <3>3, <3>4 DEF LoadConfig
  <2>2. ProcSteps(x)
    BY <1>1, <1>5, <2>1 DEF ProcSteps, Resets
  <2>3. ~Resets(x) /\ ~HoldsFresh(x) /\ x # IdleProc
    BY <2>1, StoreIdle DEF Resets, HoldsFresh
  <2>4. \/ met' = met /\ proc[p] # IdleProc
        \/ proc[p] = IdleProc /\ met' = ~Alone(p)
    <3>1. proc'[p] = x
      BY <1>1, <2>1
    <3> QED
      BY <3>1, <2>3, StoreIdle DEF MeetOthers
  <2> QED
    BY <1>1, <1>2, <1>3, <2>1, <2>2, <2>3, <2>4, QuietMove
<1> QED
  BY <1>4, <1>5

LEMMA StartCommandStays ==
    ASSUME StoreIInv, NEW p \in Procs, NEW op \in {"serve", "add", "connect", "tools"},
           StartCommand(p, op)
    PROVE  StoreIInv'
<1> DEFINE f == [IdleProc EXCEPT !.op = op]
<1>1. IdleProc \in ProcType /\ IdleProc.pc = "idle" /\ IdleProc.id = 0 /\ IdleProc.token = 0
  BY StoreIdle
<1>2. f \in ProcType /\ f.op = op /\ f.pc = "idle" /\ f.id = 0 /\ f.token = 0
  <2> HIDE DEF IdleProc
  <2> QED
    BY <1>1 DEF ProcType
<1>3. proc[p] = IdleProc /\ MeetOthers(p) /\ LoadConfig(p, f)
  BY DEF StartCommand
<1> HIDE DEF f
<1> QED
  BY <1>2, <1>3, LoadConfigStays

LEMMA ContinueInitStays ==
    ASSUME StoreIInv, NEW p \in Procs, ContinueInit(p)
    PROVE  StoreIInv'
<1>1. proc[p] \in ProcType /\ ProcSteps(proc[p])
  BY StoreProcFacts
<1>2. proc[p].op = "init" /\ proc[p].pc = "load" /\ UNCHANGED met /\ LoadConfig(p, proc[p])
  BY DEF ContinueInit, ProcAt
<1>3. proc[p].id = 0 /\ proc[p].token = 0
  BY <1>1, <1>2 DEF ProcSteps
<1> QED
  BY <1>1, <1>2, <1>3, LoadConfigStays

\* A step of a running p that changes files: what it tells of the processes, and
\* the parts of the invariant that follow from where p comes to.
LEMMA FileMove ==
    ASSUME StoreIInv, NEW p \in Procs, NEW x \in ProcType,
           ProcSteps(x), proc' = [proc EXCEPT ![p] = x], proc[p] # IdleProc,
           config' \in ConfigType, secrets' \in [Ids -> SecretType],
           keys' \in [file : KeyNumbers, chain : KeyNumbers, up : BOOLEAN],
           UNCHANGED <<live, spent, met>>,
           lapse' \in BOOLEAN, lapse => lapse',
           Resets(proc[p]) /\ met /\ ~lapse' => Resets(x),
           x.op = "init" /\ x.pc \in {"empty", "store"} /\ ~x.force /\ ~met =>
              config' = NoConfigFile /\ keys'.file = 0,
           Clean' /\ Clean /\ Resets(x) =>
              /\ x.pc \in {"store", "aside", "config"} => secrets' = NoSecrets
              /\ x.pc = "aside" => keys'.chain = x.key /\ x.storage = "keychain"
              /\ x.pc = "config" =>
                    IF x.storage = "file" THEN keys'.file = x.key
                    ELSE keys'.chain = x.key /\ keys'.file = 0
    PROVE  Moved(p, x) /\ (KeysAgree' /\ NamesStored' /\ TokensLive' => StoreIInv')
<1>1. StoreTypes /\ Processes
  BY DEF StoreIInv
<1>2. Moved(p, x) /\ proc' \in [Procs -> ProcType] /\ met' \in BOOLEAN /\ Processes'
  BY <1>1, StoreMoves
<1>3. /\ proc'[p] = x /\ \A q \in Procs \ {p} : proc'[q] = proc[q]
      /\ Clean' => Clean
      /\ \A q \in Procs \ {p} :
            /\ Clean' => ~Resets(proc[q])
            /\ ~met' => proc[q] = IdleProc
  BY <1>2 DEF Moved
<1>4. StoreTypes'
  BY <1>1, <1>2 DEF StoreTypes
<1>5. NothingYet'
  <2> SUFFICES ASSUME NEW q \in Procs, proc'[q].op = "init", proc'[q].pc \in {"empty", "store"},
                      ~proc'[q].force, ~met'
               PROVE  config' = NoConfigFile /\ keys'.file = 0
    BY DEF NothingYet
  <2>1. q = p
    BY <1>3, StoreIdle
  <2> QED
    BY <2>1, <1>3
<1>6. KeyReplaced'
  <2> SUFFICES ASSUME Clean', NEW q \in Procs, Resets(proc'[q])
               PROVE  /\ proc'[q].pc \in {"store", "aside", "config"} => secrets' = NoSecrets
                      /\ proc'[q].pc = "aside" =>
                            keys'.chain = proc'[q].key /\ proc'[q].storage = "keychain"
                      /\ proc'[q].pc = "config" =>
                            IF proc'[q].storage = "file" THEN keys'.file = proc'[q].key
                            ELSE keys'.chain = proc'[q].key /\ keys'.file = 0
    BY StoredSecrets DEF KeyReplaced, NoSecrets, Ids
  <2>1. q = p
    BY <1>3
  <2> QED
    BY <2>1, <1>3
<1> QED
  BY <1>2, <1>4, <1>5, <1>6 DEF StoreIInv

\* What putSecret stores is encrypted under the key there is.
LEMMA OneKey ==
    ASSUME StoreIInv, Clean, ~Resetting, MasterKey # 0
    PROVE  /\ keys.file # 0 => MasterKey = keys.file
           /\ Storage = "keychain" /\ keys.chain # 0 => MasterKey = keys.chain
<1>1. Storage = "keychain" /\ keys.file # 0 /\ keys.chain # 0 => keys.file = keys.chain
  BY DEF StoreIInv, KeysAgree
<1>2. Storage \in {"file", "keychain"}
  BY DEF Storage, StoreIInv, StoreTypes, ConfigType
<1> QED
  BY <1>1, <1>2 DEF MasterKey

LEMMA ReadKeyStays ==
    ASSUME StoreIInv, NEW p \in Procs, ReadKey(p)
    PROVE  StoreIInv'
<1> DEFINE x == [proc[p] EXCEPT !.key = MasterKey, !.pc = IF Migrates THEN "aside" ELSE "read"]
<1>1. /\ proc[p] \in ProcType /\ ProcSteps(proc[p]) /\ lapse \in BOOLEAN
      /\ spent \in [ids : 0..MaxIds, tokens : 0..MaxTokens, upheavals : 0..MaxUpheavals]
      /\ StoreTypes
  BY StoreProcFacts DEF StoreIInv
<1>2. /\ proc[p].pc = "key"
      /\ keys' = IF Migrates THEN [keys EXCEPT !.chain = keys.file] ELSE keys
      /\ lapse' = (lapse \/ (MasterKey = 0 /\ proc[p].op = "refresh"))
      /\ UNCHANGED <<config, secrets, live, spent, met>>
      /\ MasterKey \in KeyNumbers
  BY <1>1, StoreFields DEF ReadKey
<1>3. ~Resets(proc[p]) /\ proc[p] # IdleProc
  BY <1>2, StoreIdle DEF Resets
<1>4. Migrates => MasterKey = keys.file /\ keys.file # 0 /\ keys.chain = 0 /\ Storage = "keychain"
  BY DEF Migrates, MasterKey
<1>5. CASE MasterKey = 0
  <2>1. proc' = [proc EXCEPT ![p] = IdleProc]
    BY <1>5 DEF ReadKey, Become
  <2>2. keys' = keys /\ lapse' \in BOOLEAN /\ (lapse => lapse')
    BY <1>1, <1>2, <1>4, <1>5
  <2>3. Exchanged(proc[p]) => lapse'
    BY <1>2, <1>5 DEF Exchanged
  <2> QED
    BY <1>1, <1>2, <1>3, <2>1, <2>2, <2>3, EndStays
<1>6. CASE MasterKey # 0
  <2>1. proc' = [proc EXCEPT ![p] = x]
    BY <1>6 DEF ReadKey, Become
  <2>2. /\ x \in ProcType /\ x.pc = (IF Migrates THEN "aside" ELSE "read")
        /\ x.op = proc[p].op /\ x.force = proc[p].force /\ x.storage = proc[p].storage
        /\ x.config = proc[p].config /\ x.key = MasterKey /\ x.id = proc[p].id
        /\ x.token = proc[p].token
    BY <1>1, <1>2 DEF ProcType
  <2> HIDE DEF x
  <2>3. x.op # "idle" /\ x.id # 0
    BY <1>1, <1>2, <2>2, StoreIdle DEF ProcSteps
  <2>4. ProcSteps(x) /\ ~Resets(x)
    BY <1>1, <1>2, <1>6, <2>2, <2>3 DEF ProcSteps, Resets
  <2>5. /\ HoldsFresh(x) => HoldsFresh(proc[p])
        /\ Exchanged(proc[p]) => Exchanged(x)
    BY <1>2, <2>2 DEF HoldsFresh, Exchanged
  <2>6. lapse' = lapse
    BY <1>1, <1>2, <1>6
  <2>7. CASE ~Migrates
    <3>1. keys' = keys /\ x.pc = "read"
      BY <2>7, <1>2, <2>2
    <3> QED
      BY <3>1, <1>1, <1>2, <1>3, <2>1, <2>2, <2>4, <2>5, <2>6, QuietMove
  <2>8. CASE Migrates
    <3>1. /\ keys' \in [file : KeyNumbers, chain : KeyNumbers, up : BOOLEAN]
          /\ keys'.file = keys.file /\ keys'.chain = keys.file /\ keys'.up = keys.up
          /\ x.pc = "aside"
      BY <2>8, <1>1, <1>2, <2>2 DEF StoreTypes
    <3>2. Moved(p, x) /\ (KeysAgree' /\ NamesStored' /\ TokensLive' => StoreIInv')
      BY <3>1, <1>1, <1>2, <1>3, <2>1, <2>2, <2>4, <2>6, FileMove DEF StoreTypes
    <3>3. /\ Clean' => Clean
          /\ ~Resetting' => ~Resetting
          /\ proc'[p] = x /\ \A q \in Procs \ {p} : proc'[q] = proc[q]
      BY <3>2, <1>3 DEF Moved
    <3>4. Storage' = Storage
      BY <3>1, <1>2 DEF Storage
    <3>5. KeysAgree'
      <4> SUFFICES ASSUME Clean', ~Resetting' PROVE KeysAgree'
        BY DEF KeysAgree
      <4>1. Clean /\ ~Resetting
        BY <3>3
      <4>2. config.storage = "keychain"
        BY <1>4, <2>8 DEF Storage
      <4>3. \A i \in Ids : secrets[i] # NoSecret => secrets[i].key = keys.file
        BY <4>1, <1>4, <2>8 DEF StoreIInv, KeysAgree
      <4> QED
        BY <3>1, <3>4, <4>2, <4>3, <1>2, <1>4, <2>8 DEF KeysAgree
    <3>6. NamesStored'
      <4> SUFFICES ASSUME Clean', ~Resetting' PROVE NamesStored'
        BY DEF NamesStored
      <4>1. \A q \in Procs : proc'[q].pc = "list" => proc'[q] = proc[q]
        BY <3>1, <3>3
      <4> QED
        BY <3>3, <4>1, <1>2 DEF StoreIInv, NamesStored
    <3>7. TokensLive'
      <4>1. x.op = "refresh" => proc[p].op = "refresh" /\ x.id = proc[p].id /\ x.token # 0
        BY <2>2, <2>4 DEF ProcSteps
      <4> QED
        BY <4>1, <3>3, <1>1, <1>2, <2>2, <2>5, TokensStay DEF StoreIInv
    <3> QED
      BY <3>2, <3>5, <3>6, <3>7
  <2> QED
    BY <2>7, <2>8
<1> QED
  BY <1>5, <1>6

LEMMA MoveKeyAsideStays ==
    ASSUME StoreIInv, NEW p \in Procs, MoveKeyAside(p)
    PROVE  StoreIInv'
<1> DEFINE x == [proc[p] EXCEPT !.pc = IF proc[p].id = 0 THEN "config" ELSE "read"]
<1>1. /\ proc[p] \in ProcType /\ ProcSteps(proc[p]) /\ lapse \in BOOLEAN
      /\ StoreTypes /\ 0 \in KeyNumbers
  BY StoreProcFacts DEF StoreIInv, KeyNumbers
<1>2. /\ proc[p].pc = "aside"
      /\ keys' = [keys EXCEPT !.file = 0]
      /\ proc' = [proc EXCEPT ![p] = x]
      /\ UNCHANGED <<config, secrets, live, lapse, spent, met>>
  BY DEF MoveKeyAside, Become
<1>3. /\ x \in ProcType /\ x.pc = (IF proc[p].id = 0 THEN "config" ELSE "read")
      /\ x.op = proc[p].op /\ x.force = proc[p].force /\ x.storage = proc[p].storage
      /\ x.config = proc[p].config /\ x.key = proc[p].key /\ x.id = proc[p].id
      /\ x.token = proc[p].token
  BY <1>1, <1>2 DEF ProcType
<1>4. /\ keys' \in [file : KeyNumbers, chain : KeyNumbers, up : BOOLEAN]
      /\ keys'.file = 0 /\ keys'.chain = keys.chain /\ keys'.up = keys.up
  BY <1>1, <1>2 DEF StoreTypes
<1> HIDE DEF x
<1>5. x.op # "idle" /\ proc[p] # IdleProc /\ (x.id = 0 => x.op = "init")
  BY <1>1, <1>2, <1>3, StoreIdle DEF ProcSteps
<1>6. ProcSteps(x) /\ (Resets(proc[p]) <=> x.id = 0) /\ (Resets(x) <=> x.id = 0)
  BY <1>1, <1>2, <1>3, <1>5 DEF ProcSteps, Resets
<1>7. /\ HoldsFresh(x) => HoldsFresh(proc[p])
      /\ Exchanged(proc[p]) => Exchanged(x)
  BY <1>2, <1>3 DEF HoldsFresh, Exchanged
<1>8. Clean /\ Resets(x) =>
          secrets = NoSecrets /\ x.storage = "keychain" /\ keys.chain = x.key
  BY <1>2, <1>3, <1>6 DEF StoreIInv, KeyReplaced
<1>9. Moved(p, x) /\ (KeysAgree' /\ NamesStored' /\ TokensLive' => StoreIInv')
  <2>1. x.pc \notin {"empty", "store", "aside"}
    BY <1>3
  <2> QED
    BY <1>1, <1>2, <1>3, <1>4, <1>5, <1>6, <1>8, <2>1, FileMove DEF StoreTypes
<1>10. /\ Clean' => Clean
       /\ ~Resetting' => ~Resetting /\ ~Resets(proc[p])
       /\ proc'[p] = x /\ \A q \in Procs \ {p} : proc'[q] = proc[q]
  <2>1. Resets(proc'[p]) => Resetting'
    BY DEF Resetting
  <2> QED
    BY <1>9, <1>6, <2>1 DEF Moved
<1>11. KeysAgree'
  <2> SUFFICES ASSUME Clean', ~Resetting' PROVE KeysAgree'
    BY DEF KeysAgree
  <2>1. Clean /\ ~Resetting
    BY <1>10
  <2>2. config.storage = "keychain" /\ keys.chain # 0
    BY <2>1, <1>2 DEF StoreIInv, KeysAgree
  <2>3. Storage = "keychain" /\ Storage' = "keychain"
    BY <2>2, <1>1, <1>2 DEF Storage, StoreTypes, ConfigType, NoConfigFile
  <2>4. \A i \in Ids : secrets[i] # NoSecret => secrets[i].key = keys.chain
    BY <2>1, <2>2, <2>3 DEF StoreIInv, KeysAgree
  <2> QED
    BY <2>2, <2>3, <2>4, <1>2, <1>4 DEF KeysAgree
<1>12. NamesStored'
  <2> SUFFICES ASSUME Clean', ~Resetting' PROVE NamesStored'
    BY DEF NamesStored
  <2>1. \A q \in Procs : proc'[q].pc = "list" => proc'[q] = proc[q]
    BY <1>3, <1>10
  <2> QED
    BY <1>10, <2>1, <1>2 DEF StoreIInv, NamesStored
<1>13. TokensLive'
  <2>1. x.op = "refresh" => proc[p].op = "refresh" /\ x.id = proc[p].id /\ x.token # 0
    BY <1>3, <1>6 DEF ProcSteps
  <2> QED
    BY <2>1, <1>1, <1>2, <1>3, <1>7, <1>10, TokensStay DEF StoreIInv
<1> QED
  BY <1>9, <1>11, <1>12, <1>13

LEMMA SaveSecretsStays ==
    ASSUME StoreIInv, NEW p \in Procs, SaveSecrets(p)
    PROVE  StoreIInv'
<1> DEFINE s == [key |-> proc[p].key, token |-> proc[p].token]
           x == AfterSave(p)
           t == proc[p].token
<1>1. /\ proc[p] \in ProcType /\ ProcSteps(proc[p]) /\ lapse \in BOOLEAN
      /\ StoreTypes
  BY StoreProcFacts DEF StoreIInv
<1>2. /\ proc[p].pc = "save"
      /\ secrets' = [proc[p].secrets EXCEPT ![proc[p].id] = s]
      /\ lapse' = (lapse \/ proc[p].secrets # secrets \/ proc[p].key # MasterKey)
      /\ proc' = [proc EXCEPT ![p] = x]
      /\ UNCHANGED <<config, keys, live, spent, met>>
  BY DEF SaveSecrets, Become
<1>3. proc[p].key # 0 /\ proc[p].id \in Ids /\ proc[p].secrets \in [Ids -> SecretType]
  BY <1>1, <1>2 DEF ProcSteps, ProcType
<1>4. s \in SecretType /\ s.key = proc[p].key /\ s.token = t
  BY <1>1, <1>3 DEF SecretType, ProcType
<1> HIDE DEF s
<1>5. secrets' \in [Ids -> SecretType]
  BY <1>2, <1>3, <1>4
<1>6. /\ x \in ProcType /\ ProcSteps(x) /\ ~Resets(x) /\ ~HoldsFresh(x)
      /\ x.op # "refresh" /\ x.pc \in {"idle", "list"} /\ x.token \in {0, t}
      /\ x.pc = "list" => x.id = proc[p].id
  <2>1. CASE proc[p].op \in {"init", "add", "serve"}
    <3> DEFINE y == [proc[p] EXCEPT !.pc = "list"]
    <3>1. x = y
      BY <2>1 DEF AfterSave
    <3>2. /\ y \in ProcType /\ y.pc = "list"
          /\ y.op = proc[p].op /\ y.force = proc[p].force /\ y.storage = proc[p].storage
          /\ y.config = proc[p].config /\ y.key = proc[p].key /\ y.id = proc[p].id
          /\ y.token = proc[p].token
      BY <1>1 DEF ProcType
    <3> HIDE DEF y
    <3>3. y.id # 0
      BY <1>3, <3>2 DEF Ids
    <3>4. ProcSteps(y) /\ ~Resets(y) /\ ~HoldsFresh(y) /\ y.op # "refresh"
      BY <1>1, <1>2, <2>1, <3>2, <3>3 DEF ProcSteps, Resets, HoldsFresh
    <3> QED
      BY <3>1, <3>2, <3>4
  <2>2. CASE proc[p].op \notin {"init", "add", "serve"}
    <3>1. x = IdleProc
      BY <2>2 DEF AfterSave
    <3> QED
      BY <3>1, StoreIdle
  <2> QED
    BY <2>1, <2>2
<1> HIDE DEF x
<1>7. ~Resets(proc[p]) /\ proc[p] # IdleProc
  BY <1>2, StoreIdle DEF Resets
<1>8. lapse' \in BOOLEAN /\ (lapse => lapse')
      /\ (Clean' => proc[p].secrets = secrets /\ proc[p].key = MasterKey)
  BY <1>1, <1>2 DEF Clean
<1>9. Moved(p, x) /\ (KeysAgree' /\ NamesStored' /\ TokensLive' => StoreIInv')
  BY <1>1, <1>2, <1>5, <1>6, <1>7, <1>8, FileMove DEF StoreTypes
<1>10. /\ Clean' => Clean
       /\ ~Resetting' => ~Resetting
       /\ proc'[p] = x /\ \A q \in Procs \ {p} : proc'[q] = proc[q]
  BY <1>9, <1>7 DEF Moved
<1>11. Clean' => /\ secrets'[proc[p].id] = s
                 /\ \A i \in Ids \ {proc[p].id} : secrets'[i] = secrets[i]
  BY <1>2, <1>3, <1>8
<1>12. s # NoSecret
  BY <1>3, <1>4, StoredSecrets
<1>13. KeysAgree'
  <2> SUFFICES ASSUME Clean', ~Resetting' PROVE KeysAgree'
    BY DEF KeysAgree
  <2>1. Clean /\ ~Resetting /\ Storage' = Storage
    BY <1>10, <1>2 DEF Storage
  <2>2. /\ keys.file # 0 => s.key = keys.file
        /\ Storage = "keychain" /\ keys.chain # 0 => s.key = keys.chain
    BY <2>1, <1>3, <1>4, <1>8, OneKey
  <2>3. \A i \in Ids : secrets'[i] # NoSecret =>
            /\ keys.file # 0 => secrets'[i].key = keys.file
            /\ Storage = "keychain" /\ keys.chain # 0 => secrets'[i].key = keys.chain
    BY <2>1, <2>2, <1>11 DEF StoreIInv, KeysAgree
  <2>4. \A q \in Procs : proc'[q].pc = "aside" => proc[q].pc = "aside"
    BY <1>6, <1>10
  <2> QED
    BY <2>1, <2>3, <2>4, <1>2 DEF StoreIInv, KeysAgree
<1>14. NamesStored'
  <2> SUFFICES ASSUME Clean', ~Resetting' PROVE NamesStored'
    BY DEF NamesStored
  <2>1. Clean /\ ~Resetting
    BY <1>10
  <2>2. config.servers \cup ({config.token} \ {0}) \subseteq Ids
    BY <1>1 DEF StoreTypes, ConfigType
  <2>3. \A i \in config.servers \cup ({config.token} \ {0}) : secrets'[i] # NoSecret
    BY <2>1, <2>2, <1>11, <1>12 DEF StoreIInv, NamesStored
  <2>4. ASSUME NEW q \in Procs, proc'[q].pc = "list", proc'[q].op # "tools"
        PROVE  secrets'[proc'[q].id] # NoSecret
    <3>1. CASE q = p
      BY <3>1, <2>4, <1>6, <1>10, <1>11, <1>12
    <3>2. CASE q # p
      <4>1. proc'[q] = proc[q] /\ secrets[proc[q].id] # NoSecret
        BY <3>2, <2>1, <2>4, <1>10 DEF StoreIInv, NamesStored
      <4>2. proc[q].id \in Ids
        BY <4>1, <2>4, <1>1 DEF StoreIInv, Processes, ProcSteps, StoreTypes, ProcType
      <4> QED
        BY <4>1, <4>2, <1>11, <1>12
    <3> QED
      BY <3>1, <3>2
  <2> QED
    BY <2>3, <2>4, <1>2 DEF NamesStored
<1>15. TokensLive'
  <2> SUFFICES ASSUME Clean' PROVE TokensLive'
    BY DEF TokensLive
  <2>1. TokensLive /\ Clean
    BY <1>10 DEF StoreIInv
  <2>2. t # 0 => /\ HoldsFresh(proc[p]) /\ t \in live
                 /\ \A i \in Ids : secrets[i].token # t
                 /\ \A q \in Procs \ {p} : proc[q].token # t
    <3>1. t # 0 => HoldsFresh(proc[p])
      BY <1>1, <1>2, StoreIdle DEF HoldsFresh, ProcSteps, ProcType
    <3> QED
      BY <2>1, <3>1 DEF TokensLive
  <2>3. t \in 0..MaxTokens /\ t <= spent.tokens
    BY <2>1, <1>1 DEF TokensLive, ProcType
  <2>4. ASSUME NEW i \in Ids
        PROVE  /\ secrets'[i].token <= spent.tokens
               /\ \/ secrets'[i].token \in live \cup {0}
                  \/ \E q \in Procs : Exchanged(proc'[q]) /\ proc'[q].id = i
    <3>1. CASE i = proc[p].id
      BY <3>1, <1>4, <1>11, <2>2, <2>3
    <3>2. CASE i # proc[p].id
      BY <3>2, <2>1, <1>10, <1>11 DEF TokensLive
    <3> QED
      BY <3>1, <3>2
  <2>5. \A q \in Procs : proc'[q].token <= spent.tokens
    <3>1. 0 <= spent.tokens
      BY <1>1, StoreFields
    <3> QED
      BY <3>1, <2>1, <2>3, <1>6, <1>10 DEF TokensLive
  <2>6. ASSUME NEW i \in Ids, NEW j \in Ids, secrets'[i].token = secrets'[j].token,
               secrets'[i].token # 0
        PROVE  i = j
    <3>1. CASE i = proc[p].id \/ j = proc[p].id
      BY <3>1, <2>2, <2>6, <1>4, <1>11
    <3>2. CASE i # proc[p].id /\ j # proc[p].id
      BY <3>2, <2>1, <2>6, <1>11 DEF TokensLive
    <3> QED
      BY <3>1, <3>2
  <2>7. ASSUME NEW q \in Procs, HoldsFresh(proc'[q])
        PROVE  /\ proc'[q].token \in live
               /\ \A i \in Ids : secrets'[i].token # proc'[q].token
               /\ \A r \in Procs \ {q} : proc'[r].token # proc'[q].token
    <3>1. q # p /\ proc'[q] = proc[q] /\ proc[q].token # 0
      BY <2>7, <1>6, <1>10 DEF HoldsFresh
    <3>2. /\ proc[q].token \in live
          /\ \A i \in Ids : secrets[i].token # proc[q].token
          /\ \A r \in Procs \ {q} : proc[r].token # proc[q].token
      BY <3>1, <2>1, <2>7 DEF TokensLive
    <3>3. t # proc[q].token
      BY <3>1, <3>2
    <3> QED
      BY <3>1, <3>2, <3>3, <1>4, <1>6, <1>10, <1>11
  <2>8. ASSUME NEW q \in Procs, proc'[q].op = "refresh", NEW i \in Ids \ {proc'[q].id}
        PROVE  secrets'[i].token # proc'[q].token
    <3>1. q # p /\ proc'[q] = proc[q]
      BY <2>8, <1>6, <1>10
    <3>2. proc[q].token # 0
      BY <3>1, <2>8 DEF StoreIInv, Processes, ProcSteps
    <3>3. CASE i = proc[p].id
      BY <3>1, <3>2, <3>3, <2>2, <1>4, <1>11
    <3>4. CASE i # proc[p].id
      BY <3>1, <3>4, <2>1, <2>8, <1>11 DEF TokensLive
    <3> QED
      BY <3>3, <3>4
  <2> QED
    BY <2>4, <2>5, <2>6, <2>7, <2>8, <1>2 DEF TokensLive
<1> QED
  BY <1>9, <1>13, <1>14, <1>15

LEMMA SaveConfigStays ==
    ASSUME StoreIInv, NEW p \in Procs, SaveConfig(p)
    PROVE  StoreIInv'
<1>1. /\ proc[p] \in ProcType /\ ProcSteps(proc[p]) /\ lapse \in BOOLEAN
      /\ StoreTypes
  BY StoreProcFacts DEF StoreIInv
<1>2. /\ proc[p].pc = "list" /\ config' = Listed(p)
      /\ lapse' = (lapse \/ proc[p].config # config)
      /\ proc' = [proc EXCEPT ![p] = IdleProc]
      /\ UNCHANGED <<secrets, keys, live, spent, met>>
  BY DEF SaveConfig, Become
<1>3. /\ proc[p].config \in ConfigType /\ proc[p].config.present
      /\ proc[p].op # "tools" => proc[p].id \in Ids
      /\ ~Resets(proc[p]) /\ proc[p] # IdleProc /\ ~Exchanged(proc[p])
  BY <1>1, <1>2, StoreIdle DEF ProcSteps, ProcType, Resets, Exchanged
<1>4. /\ config' \in ConfigType
      /\ config'.present /\ config'.storage = proc[p].config.storage
      /\ config'.servers \cup ({config'.token} \ {0}) \subseteq
            proc[p].config.servers \cup ({proc[p].config.token} \ {0})
               \cup (IF proc[p].op = "tools" THEN {} ELSE {proc[p].id})
  <2> DEFINE c == proc[p].config
  <2>1. c \in ConfigType /\ c.present
    BY <1>3
  <2>2. CASE proc[p].op = "add"
    <3>1. config' = [c EXCEPT !.servers = c.servers \cup {proc[p].id}]
      BY <2>2, <1>2 DEF Listed
    <3> HIDE DEF c
    <3>2. config' \in ConfigType /\ config'.present /\ config'.storage = c.storage
          /\ config'.servers = c.servers \cup {proc[p].id} /\ config'.token = c.token
      BY <2>1, <2>2, <3>1, <1>3 DEF ConfigType
    <3> QED
      BY <2>2, <3>2 DEF c
  <2>3. CASE proc[p].op \in {"init", "serve"}
    <3>1. config' = [c EXCEPT !.token = proc[p].id]
      BY <2>3, <1>2 DEF Listed
    <3> HIDE DEF c
    <3>2. config' \in ConfigType /\ config'.present /\ config'.storage = c.storage
          /\ config'.servers = c.servers /\ config'.token = proc[p].id
      BY <2>1, <2>3, <3>1, <1>3 DEF ConfigType
    <3> QED
      BY <2>3, <3>2 DEF c
  <2>4. CASE proc[p].op \notin {"add", "init", "serve"}
    <3>1. config' = c
      BY <2>4, <1>2 DEF Listed
    <3> QED
      BY <3>1, <2>1
  <2> QED
    BY <2>2, <2>3, <2>4
<1>5. /\ lapse' \in BOOLEAN /\ (lapse => lapse')
      /\ Clean' => proc[p].config = config
  BY <1>1, <1>2 DEF Clean
<1> HIDE DEF IdleProc
<1>6. Moved(p, IdleProc) /\ (KeysAgree' /\ NamesStored' /\ TokensLive' => StoreIInv')
  BY <1>1, <1>2, <1>3, <1>4, <1>5, StoreIdle, FileMove DEF StoreTypes
<1>7. /\ Clean' => Clean
      /\ ~Resetting' => ~Resetting
      /\ proc'[p] = IdleProc /\ \A q \in Procs \ {p} : proc'[q] = proc[q]
  BY <1>6, <1>3 DEF Moved
<1>8. KeysAgree'
  <2> SUFFICES ASSUME Clean', ~Resetting' PROVE KeysAgree'
    BY DEF KeysAgree
  <2>1. Clean /\ ~Resetting
    BY <1>7
  <2>2. Storage' = Storage /\ config'.storage = config.storage
    BY <1>2, <1>3, <1>4, <1>5 DEF Storage
  <2>3. \A q \in Procs : proc'[q].pc = "aside" => proc[q].pc = "aside"
    BY <1>7, StoreIdle
  <2> QED
    BY <2>1, <2>2, <2>3, <1>2 DEF StoreIInv, KeysAgree
<1>9. NamesStored'
  <2> SUFFICES ASSUME Clean', ~Resetting' PROVE NamesStored'
    BY DEF NamesStored
  <2>1. Clean /\ ~Resetting /\ proc[p].config = config
    BY <1>5, <1>7
  <2>2. proc[p].op # "tools" => secrets[proc[p].id] # NoSecret
    BY <2>1, <1>2 DEF StoreIInv, NamesStored
  <2>3. \A i \in config'.servers \cup ({config'.token} \ {0}) : secrets[i] # NoSecret
    <3> TAKE i \in config'.servers \cup ({config'.token} \ {0})
    <3>1. \/ i \in config.servers \cup ({config.token} \ {0})
          \/ proc[p].op # "tools" /\ i = proc[p].id
      BY <1>4, <2>1
    <3> QED
      BY <3>1, <2>1, <2>2 DEF StoreIInv, NamesStored
  <2>4. \A q \in Procs : proc'[q].pc = "list" => proc'[q] = proc[q]
    BY <1>7, StoreIdle
  <2> QED
    BY <2>1, <2>3, <2>4, <1>2 DEF StoreIInv, NamesStored
<1>10. TokensLive'
  BY <1>1, <1>2, <1>3, <1>7, StoreIdle, TokensStay DEF StoreIInv
<1> QED
  BY <1>6, <1>8, <1>9, <1>10

\* Clearing the secrets takes no token from a process.
LEMMA TokensCleared ==
    ASSUME StoreTypes, Processes, TokensLive, Clean' => Clean,
           NEW p \in Procs, NEW x \in ProcType,
           proc'[p] = x, \A q \in Procs \ {p} : proc'[q] = proc[q],
           secrets' = NoSecrets, live' = live, spent' = spent,
           x.token = 0, x.op # "refresh"
    PROVE  TokensLive'
<1> SUFFICES ASSUME Clean' PROVE TokensLive'
  BY DEF TokensLive
<1>1. Clean /\ 0 <= spent.tokens
  BY StoreFields
<1>2. \A i \in Ids : secrets'[i].token = 0
  BY StoredSecrets
<1>3. ~HoldsFresh(x)
  BY DEF HoldsFresh
<1>4. \A q \in Procs : proc'[q].token <= spent'.tokens
  BY <1>1 DEF TokensLive
<1>5. ASSUME NEW q \in Procs, HoldsFresh(proc'[q])
      PROVE  /\ proc'[q].token \in live'
             /\ \A i \in Ids : secrets'[i].token # proc'[q].token
             /\ \A r \in Procs \ {q} : proc'[r].token # proc'[q].token
  <2>1. q # p /\ proc'[q] = proc[q] /\ proc[q].token # 0
    BY <1>3, <1>5 DEF HoldsFresh
  <2> QED
    BY <2>1, <1>1, <1>2, <1>5 DEF TokensLive
<1>6. \A q \in Procs : proc'[q].op = "refresh" => proc'[q].token # 0
  BY DEF Processes, ProcSteps
<1> QED
  BY <1>1, <1>2, <1>4, <1>5, <1>6 DEF TokensLive

\* A step of a process that goes on resetting the files.
LEMMA ResettingMove ==
    ASSUME StoreIInv, NEW p \in Procs, NEW x \in ProcType, Resets(x),
           Moved(p, x) /\ (KeysAgree' /\ NamesStored' /\ TokensLive' => StoreIInv'),
           TokensLive'
    PROVE  StoreIInv'
<1>1. Resetting'
  BY DEF Moved, Resetting
<1> QED
  BY <1>1 DEF KeysAgree, NamesStored

LEMMA ClearKeyStays ==
    ASSUME StoreIInv, NEW p \in Procs, ClearKey(p)
    PROVE  StoreIInv'
<1> DEFINE x == [proc[p] EXCEPT !.pc = "empty"]
<1>1. /\ proc[p] \in ProcType /\ ProcSteps(proc[p]) /\ lapse \in BOOLEAN
      /\ StoreTypes /\ 0 \in KeyNumbers
  BY StoreProcFacts DEF StoreIInv, KeyNumbers
<1>2. /\ proc[p].op = "init" /\ proc[p].pc = "clear"
      /\ keys' = [keys EXCEPT !.file = 0, !.chain = IF keys.up THEN 0 ELSE keys.chain]
      /\ proc' = [proc EXCEPT ![p] = x]
      /\ UNCHANGED <<config, secrets, live, lapse, spent, met>>
  BY DEF ClearKey, ProcAt, Become
<1>3. /\ x \in ProcType /\ x.pc = "empty"
      /\ x.op = "init" /\ x.force = proc[p].force /\ x.storage = proc[p].storage
      /\ x.config = proc[p].config /\ x.key = proc[p].key /\ x.id = proc[p].id
      /\ x.token = proc[p].token
  BY <1>1, <1>2 DEF ProcType
<1>4. keys' \in [file : KeyNumbers, chain : KeyNumbers, up : BOOLEAN]
  BY <1>1, <1>2 DEF StoreTypes
<1> HIDE DEF x
<1>5. ProcSteps(x) /\ Resets(proc[p]) /\ Resets(x) /\ x.force
  BY <1>1, <1>2, <1>3 DEF ProcSteps, Resets
<1>6. ~HoldsFresh(x) /\ ~Exchanged(proc[p]) /\ proc[p] # IdleProc
  BY <1>2, <1>3, StoreIdle DEF HoldsFresh, Exchanged
<1>7. Moved(p, x) /\ (KeysAgree' /\ NamesStored' /\ TokensLive' => StoreIInv')
  BY <1>1, <1>2, <1>3, <1>4, <1>5, <1>6, FileMove DEF StoreTypes
<1>8. TokensLive'
  BY <1>1, <1>2, <1>3, <1>6, <1>7, TokensStay DEF StoreIInv, Moved
<1> QED
  BY <1>3, <1>5, <1>7, <1>8, ResettingMove

LEMMA EmptySecretsStays ==
    ASSUME StoreIInv, NEW p \in Procs, EmptySecrets(p)
    PROVE  StoreIInv'
<1> DEFINE x == [proc[p] EXCEPT !.pc = "store"]
<1>1. /\ proc[p] \in ProcType /\ ProcSteps(proc[p]) /\ lapse \in BOOLEAN /\ met \in BOOLEAN
      /\ StoreTypes
  BY StoreProcFacts DEF StoreIInv
<1>2. /\ proc[p].op = "init" /\ proc[p].pc = "empty"
      /\ secrets' = NoSecrets
      /\ proc' = [proc EXCEPT ![p] = x]
      /\ lapse' = (lapse \/ met)
      /\ UNCHANGED <<config, keys, live, spent, met>>
  BY DEF EmptySecrets, ProcAt, Become
<1>3. /\ x \in ProcType /\ x.pc = "store"
      /\ x.op = "init" /\ x.force = proc[p].force /\ x.storage = proc[p].storage
      /\ x.config = proc[p].config /\ x.key = proc[p].key /\ x.id = proc[p].id
      /\ x.token = proc[p].token
  BY <1>1, <1>2 DEF ProcType
<1> HIDE DEF x
<1>4. ProcSteps(x) /\ Resets(proc[p]) /\ Resets(x) /\ x.token = 0
  BY <1>1, <1>2, <1>3 DEF ProcSteps, Resets
<1>5. proc[p] # IdleProc /\ lapse' \in BOOLEAN /\ (lapse => lapse')
  BY <1>1, <1>2, StoreIdle
<1>6. ~x.force /\ ~met => config' = NoConfigFile /\ keys'.file = 0
  BY <1>2, <1>3 DEF StoreIInv, NothingYet
<1>7. Moved(p, x) /\ (KeysAgree' /\ NamesStored' /\ TokensLive' => StoreIInv')
  BY <1>1, <1>2, <1>3, <1>4, <1>5, <1>6, StoredSecrets, FileMove DEF StoreTypes
<1>8. TokensLive'
  BY <1>1, <1>2, <1>3, <1>4, <1>7, TokensCleared DEF StoreIInv, Moved
<1> QED
  BY <1>3, <1>4, <1>7, <1>8, ResettingMove

LEMMA StoreKeyStays ==
    ASSUME StoreIInv, NEW p \in Procs, StoreKey(p)
    PROVE  StoreIInv'
<1>1. /\ proc[p] \in ProcType /\ ProcSteps(proc[p]) /\ lapse \in BOOLEAN /\ met \in BOOLEAN
      /\ StoreTypes /\ proc \in [Procs -> ProcType]
  BY StoreProcFacts DEF StoreIInv, StoreTypes
<1>2. /\ proc[p].op = "init" /\ proc[p].pc = "store"
      /\ lapse' = (lapse \/ met \/ (proc[p].force /\ proc'[p] = IdleProc))
      /\ UNCHANGED <<config, live, spent, met>>
  BY DEF StoreKey, ProcAt
<1>3. /\ Resets(proc[p]) /\ proc[p] # IdleProc /\ proc[p].token = 0
      /\ proc[p].storage \in {"file", "keychain"} /\ proc[p].force \in BOOLEAN
      /\ proc[p].key \in KeyNumbers
  BY <1>1, <1>2, StoreIdle DEF ProcSteps, Resets, ProcType
<1>4. lapse' \in BOOLEAN /\ (lapse => lapse') /\ (met => lapse')
  BY <1>1, <1>2, <1>3
<1>5. Clean => secrets = NoSecrets
  BY <1>2, <1>3 DEF StoreIInv, KeyReplaced
<1>6. ASSUME NEW v \in {"config", "aside"}, proc' = [proc EXCEPT ![p] = [proc[p] EXCEPT !.pc = v]],
             secrets' = secrets,
             keys' \in [file : KeyNumbers, chain : KeyNumbers, up : BOOLEAN],
             v = "config" => proc[p].storage = "file" /\ keys'.file = proc[p].key,
             v = "aside" => proc[p].storage = "keychain" /\ keys'.chain = proc[p].key
      PROVE  StoreIInv'
  <2> DEFINE x == [proc[p] EXCEPT !.pc = v]
  <2>1. /\ x \in ProcType /\ x.pc = v
        /\ x.op = "init" /\ x.force = proc[p].force /\ x.storage = proc[p].storage
        /\ x.config = proc[p].config /\ x.key = proc[p].key /\ x.id = proc[p].id
        /\ x.token = 0
    BY <1>1, <1>2, <1>3 DEF ProcType
  <2>2. proc' = [proc EXCEPT ![p] = x]
    BY <1>6
  <2> HIDE DEF x
  <2>3. ProcSteps(x) /\ Resets(x)
    BY <1>1, <1>2, <1>3, <2>1 DEF ProcSteps, Resets
  <2>4. Moved(p, x) /\ (KeysAgree' /\ NamesStored' /\ TokensLive' => StoreIInv')
    <3>1. config' \in ConfigType /\ secrets' \in [Ids -> SecretType]
      BY <1>1, <1>2, <1>6 DEF StoreTypes
    <3>2. x.pc \notin {"empty", "store"}
      BY <2>1
    <3>3. Clean /\ Resets(x) =>
              /\ x.pc \in {"store", "aside", "config"} => secrets' = NoSecrets
              /\ x.pc = "aside" => keys'.chain = x.key /\ x.storage = "keychain"
              /\ x.pc = "config" =>
                    IF x.storage = "file" THEN keys'.file = x.key
                    ELSE keys'.chain = x.key /\ keys'.file = 0
      BY <1>5, <1>6, <2>1
    <3>4. keys' \in [file : KeyNumbers, chain : KeyNumbers, up : BOOLEAN]
      BY <1>6
    <3> QED
      BY <1>2, <1>3, <1>4, <2>1, <2>2, <2>3, <3>1, <3>2, <3>3, <3>4, FileMove
  <2>5. ~HoldsFresh(x) /\ ~Exchanged(proc[p])
    BY <1>2, <2>1 DEF HoldsFresh, Exchanged
  <2>6. TokensLive'
    BY <1>1, <1>2, <1>6, <2>1, <2>4, <2>5, TokensStay DEF StoreIInv, Moved
  <2> QED
    BY <2>1, <2>3, <2>4, <2>6, ResettingMove
<1>7. CASE proc[p].storage = "file"
  <2>1. /\ keys' = [keys EXCEPT !.file = proc[p].key] /\ secrets' = secrets
        /\ proc' = [proc EXCEPT ![p] = [proc[p] EXCEPT !.pc = "config"]]
    BY <1>7 DEF StoreKey, Become
  <2>2. keys' \in [file : KeyNumbers, chain : KeyNumbers, up : BOOLEAN]
        /\ keys'.file = proc[p].key
    BY <2>1, <1>1, <1>3 DEF StoreTypes
  <2> QED
    BY <2>1, <2>2, <1>6, <1>7
<1>8. CASE proc[p].storage = "keychain" /\ keys.up
  <2>1. /\ keys' = [keys EXCEPT !.chain = proc[p].key] /\ secrets' = secrets
        /\ proc' = [proc EXCEPT ![p] = [proc[p] EXCEPT !.pc = "aside"]]
    BY <1>8 DEF StoreKey, Become
  <2>2. keys' \in [file : KeyNumbers, chain : KeyNumbers, up : BOOLEAN]
        /\ keys'.chain = proc[p].key
    BY <2>1, <1>1, <1>3 DEF StoreTypes
  <2> QED
    BY <2>1, <2>2, <1>6, <1>8
<1>9. CASE proc[p].storage = "keychain" /\ ~keys.up
  <2>1. secrets' = NoSecrets /\ keys' = keys /\ proc' = [proc EXCEPT ![p] = IdleProc]
    BY <1>9 DEF StoreKey, Become
  <2>2. proc'[p] = IdleProc
    BY <2>1, <1>1
  <2>3. Clean' => ~met /\ ~proc[p].force
    BY <2>2, <1>2 DEF Clean
  <2> HIDE DEF IdleProc
  <2>4. Moved(p, IdleProc) /\ (KeysAgree' /\ NamesStored' /\ TokensLive' => StoreIInv')
    BY <1>1, <1>2, <1>3, <1>4, <2>1, StoreIdle, StoredSecrets, FileMove DEF StoreTypes
  <2>5. /\ Clean' => Clean /\ Alone(p)
        /\ \A q \in Procs \ {p} : proc'[q] = proc[q]
    BY <2>4, <1>3 DEF Moved
  <2>6. Clean' => /\ \A q \in Procs : proc'[q] = IdleProc
                  /\ config' = NoConfigFile /\ keys'.file = 0
    BY <2>1, <2>2, <2>3, <2>5, <1>2 DEF Alone, StoreIInv, NothingYet
  <2>7. \A i \in Ids : secrets'[i] = NoSecret
    BY <2>1, StoredSecrets
  <2>8. KeysAgree'
    BY <2>6, <2>7, StoreIdle DEF KeysAgree
  <2>9. NamesStored'
    BY <2>6, StoreIdle DEF NamesStored, NoConfigFile
  <2>10. TokensLive'
    BY <1>1, <1>2, <2>1, <2>2, <2>5, StoreIdle, TokensCleared DEF StoreIInv
  <2> QED
    BY <2>4, <2>8, <2>9, <2>10
<1> QED
  BY <1>1, <1>3, <1>7, <1>8, <1>9 DEF StoreTypes

LEMMA WriteConfigStays ==
    ASSUME StoreIInv, NEW p \in Procs, WriteConfig(p)
    PROVE  StoreIInv'
<1> DEFINE x == [proc[p] EXCEPT !.pc = "load"]
           c == [NoConfigFile EXCEPT !.present = TRUE, !.storage = proc[p].storage]
<1>1. /\ proc[p] \in ProcType /\ ProcSteps(proc[p]) /\ lapse \in BOOLEAN /\ met \in BOOLEAN
      /\ StoreTypes
  BY StoreProcFacts DEF StoreIInv
<1>2. /\ proc[p].op = "init" /\ proc[p].pc = "config"
      /\ config' = c
      /\ proc' = [proc EXCEPT ![p] = x]
      /\ lapse' = (lapse \/ met)
      /\ UNCHANGED <<secrets, keys, live, spent, met>>
  BY DEF WriteConfig, ProcAt, Become
<1>3. /\ x \in ProcType /\ x.pc = "load"
      /\ x.op = "init" /\ x.force = proc[p].force /\ x.storage = proc[p].storage
      /\ x.config = proc[p].config /\ x.key = proc[p].key /\ x.id = proc[p].id
      /\ x.token = proc[p].token
  BY <1>1, <1>2 DEF ProcType
<1> HIDE DEF x
<1>4. /\ Resets(proc[p]) /\ proc[p] # IdleProc
      /\ proc[p].storage \in {"file", "keychain"} /\ proc[p].id = 0
  BY <1>1, <1>2, StoreIdle DEF ProcSteps, Resets
<1>5. /\ c \in ConfigType /\ c.present /\ c.storage = proc[p].storage
      /\ c.token = 0 /\ c.servers = {}
  BY <1>4 DEF ConfigType, NoConfigFile
<1> HIDE DEF c
<1>6. ProcSteps(x) /\ ~Resets(x)
  BY <1>1, <1>2, <1>3 DEF ProcSteps, Resets
<1>7. lapse' \in BOOLEAN /\ (lapse => lapse') /\ (met => lapse')
  BY <1>1, <1>2
<1>8. ~HoldsFresh(x) /\ ~Exchanged(proc[p])
  BY <1>2, <1>3 DEF HoldsFresh, Exchanged
<1>9. Moved(p, x) /\ (KeysAgree' /\ NamesStored' /\ TokensLive' => StoreIInv')
  BY <1>1, <1>2, <1>3, <1>4, <1>5, <1>6, <1>7, FileMove DEF StoreTypes
<1>10. /\ Clean' => Clean /\ Alone(p)
       /\ proc'[p] = x /\ \A q \in Procs \ {p} : proc'[q] = proc[q]
  BY <1>9, <1>4 DEF Moved
<1>11. Clean' => /\ \A q \in Procs \ {p} : proc'[q] = IdleProc
                 /\ secrets = NoSecrets
                 /\ config'.storage = "file" \/ keys.file = 0
  BY <1>2, <1>4, <1>5, <1>10 DEF Alone, StoreIInv, KeyReplaced
<1>12. KeysAgree'
  <2> SUFFICES ASSUME Clean' PROVE KeysAgree'
    BY DEF KeysAgree
  <2>1. \A i \in Ids : secrets'[i] = NoSecret
    BY <1>2, <1>11, StoredSecrets
  <2>2. \A q \in Procs : proc'[q].pc # "aside"
    BY <1>3, <1>10, <1>11, StoreIdle
  <2>3. Storage' = "keychain" => keys' = keys /\ keys.file = 0
    BY <1>2, <1>4, <1>5, <1>11 DEF Storage
  <2> QED
    BY <2>1, <2>2, <2>3 DEF KeysAgree
<1>13. NamesStored'
  BY <1>2, <1>3, <1>5, <1>10, <1>11, StoreIdle DEF NamesStored
<1>14. TokensLive'
  BY <1>1, <1>2, <1>3, <1>8, <1>10, TokensStay DEF StoreIInv
<1> QED
  BY <1>9, <1>12, <1>13, <1>14

\* The provider issues a token to p, which may spend an old one for it.
LEMMA TokenIssued ==
    ASSUME StoreTypes, Processes, TokensLive, Clean' => Clean,
           NEW p \in Procs, NEW x \in ProcType,
           proc'[p] = x, \A q \in Procs \ {p} : proc'[q] = proc[q],
           secrets' = secrets, spent'.tokens = spent.tokens + 1,
           NEW old \in 0..MaxTokens,
           live' = (live \ {old}) \cup {spent.tokens + 1},
           old # 0 => /\ old = proc[p].token /\ proc[p].op = "refresh"
                      /\ Exchanged(x) /\ x.id = proc[p].id,
           x.token = spent.tokens + 1,
           ~Exchanged(proc[p])
    PROVE  TokensLive'
<1> DEFINE t == spent.tokens + 1
<1> SUFFICES ASSUME Clean' PROVE TokensLive'
  BY DEF TokensLive
<1>1. Clean /\ spent.tokens \in Nat /\ t \in Nat /\ t # 0 /\ live \subseteq 1..spent.tokens
  BY StoreFields DEF StoreTypes
<1>2. \A i \in Ids : secrets[i].token \in 0..MaxTokens /\ secrets[i].token <= spent.tokens
                     /\ secrets[i].token # t
  <2>1. \A i \in Ids : secrets[i].token \in 0..MaxTokens /\ secrets[i].token <= spent.tokens
    BY <1>1 DEF TokensLive, StoreTypes, SecretType
  <2> QED
    BY <2>1, <1>1
<1>3. \A q \in Procs : proc[q].token \in 0..MaxTokens /\ proc[q].token <= spent.tokens
                       /\ proc[q].token # t
  <2>1. \A q \in Procs : proc[q].token \in 0..MaxTokens /\ proc[q].token <= spent.tokens
    BY <1>1 DEF TokensLive, StoreTypes, ProcType
  <2> QED
    BY <2>1, <1>1
<1>4. ASSUME NEW i \in Ids
      PROVE  \/ secrets[i].token \in live' \cup {0}
             \/ \E q \in Procs : Exchanged(proc'[q]) /\ proc'[q].id = i
  <2>1. CASE secrets[i].token \in live /\ secrets[i].token = old
    <3>1. old # 0
      BY <2>1, <1>1
    <3>2. i = proc[p].id
      BY <2>1, <3>1, <1>1 DEF TokensLive
    <3> QED
      BY <3>1, <3>2
  <2>2. CASE secrets[i].token \in (live \ {old}) \cup {0}
    BY <2>2
  <2>3. CASE \E q \in Procs : Exchanged(proc[q]) /\ proc[q].id = i
    BY <2>3
  <2> QED
    BY <2>1, <2>2, <2>3, <1>1 DEF TokensLive
<1>5. \A q \in Procs : proc'[q].token <= spent'.tokens
  BY <1>1, <1>3
<1>6. \A i, j \in Ids : secrets[i].token = secrets[j].token /\ secrets[i].token # 0 => i = j
  BY <1>1 DEF TokensLive
<1>7. ASSUME NEW q \in Procs, HoldsFresh(proc'[q])
      PROVE  /\ proc'[q].token \in live'
             /\ \A i \in Ids : secrets[i].token # proc'[q].token
             /\ \A r \in Procs \ {q} : proc'[r].token # proc'[q].token
  <2>1. CASE q = p
    BY <2>1, <1>2, <1>3
  <2>2. CASE q # p
    <3>1. /\ proc[q].token \in live
          /\ \A i \in Ids : secrets[i].token # proc[q].token
          /\ \A r \in Procs \ {q} : proc[r].token # proc[q].token
      BY <2>2, <1>1, <1>7 DEF TokensLive
    <3>2. proc[q].token # old
      BY <2>2, <3>1, <1>1
    <3> QED
      BY <2>2, <3>1, <3>2, <1>3
  <2> QED
    BY <2>1, <2>2
<1>8. ASSUME NEW q \in Procs, proc'[q].op = "refresh", NEW i \in Ids \ {proc'[q].id}
      PROVE  secrets[i].token # proc'[q].token
  <2>1. CASE q = p
    BY <2>1, <1>2
  <2>2. CASE q # p
    BY <2>2, <1>1, <1>8 DEF TokensLive
  <2> QED
    BY <2>1, <2>2
<1>9. \A i \in Ids : secrets[i].token <= spent'.tokens
  BY <1>1, <1>2
<1> QED
  BY <1>4, <1>5, <1>6, <1>7, <1>8, <1>9 DEF TokensLive

LEMMA AuthorizeStays ==
    ASSUME StoreIInv, NEW p \in Procs, Authorize(p)
    PROVE  StoreIInv'
<1> DEFINE x == [proc[p] EXCEPT !.token = spent.tokens + 1,
                                !.pc = IF proc[p].id = 0 THEN "id" ELSE "key"]
<1>1. /\ proc[p] \in ProcType /\ ProcSteps(proc[p]) /\ lapse \in BOOLEAN
      /\ spent \in [ids : 0..MaxIds, tokens : 0..MaxTokens, upheavals : 0..MaxUpheavals]
      /\ MaxTokens \in Nat /\ StoreTypes
  BY StoreProcFacts DEF StoreIInv
<1>2. /\ proc[p].pc = "browser" /\ spent.tokens < MaxTokens
      /\ spent' = [spent EXCEPT !.tokens = spent.tokens + 1]
      /\ live' = live \cup {spent.tokens + 1}
      /\ proc' = [proc EXCEPT ![p] = x]
      /\ UNCHANGED <<config, secrets, keys, lapse, met>>
  BY DEF Authorize, Become
<1>3. spent.tokens \in Nat /\ spent.tokens + 1 \in 0..MaxTokens /\ spent.tokens + 1 # 0
  BY <1>1, <1>2
<1>4. /\ spent' \in [ids : 0..MaxIds, tokens : 0..MaxTokens, upheavals : 0..MaxUpheavals]
      /\ spent'.tokens = spent.tokens + 1
  BY <1>1, <1>2, <1>3
<1>5. live' \subseteq 1..spent'.tokens
  BY <1>1, <1>2, <1>3, <1>4 DEF StoreTypes
<1>6. /\ x \in ProcType /\ x.pc = (IF proc[p].id = 0 THEN "id" ELSE "key")
      /\ x.op = proc[p].op /\ x.force = proc[p].force /\ x.storage = proc[p].storage
      /\ x.config = proc[p].config /\ x.key = proc[p].key /\ x.id = proc[p].id
      /\ x.token = spent.tokens + 1
  BY <1>1, <1>3 DEF ProcType
<1> HIDE DEF x
<1>7. proc[p] # IdleProc /\ x.op \in {"add", "connect"}
  BY <1>1, <1>2, <1>6, StoreIdle DEF ProcSteps, ProcType
<1>8. ProcSteps(x) /\ ~Resets(x) /\ ~Resets(proc[p]) /\ ~Exchanged(proc[p])
  BY <1>1, <1>2, <1>6, <1>7 DEF ProcSteps, Resets, Exchanged
<1>9. Moved(p, x) /\ (TokensLive' => StoreIInv')
  BY <1>1, <1>2, <1>4, <1>5, <1>6, <1>7, <1>8, FilesStay
<1>10. TokensLive'
  <2>1. live' = (live \ {0}) \cup {spent.tokens + 1}
    BY <1>1, <1>2 DEF StoreTypes
  <2>2. 0 \in 0..MaxTokens
    BY <1>1
  <2> QED
    BY <1>1, <1>2, <1>4, <1>6, <1>8, <1>9, <2>1, <2>2, TokenIssued DEF StoreIInv, Moved
<1> QED
  BY <1>9, <1>10

LEMMA ExchangeTokenStays ==
    ASSUME StoreIInv, NEW p \in Procs, ExchangeToken(p)
    PROVE  StoreIInv'
<1> DEFINE x == [proc[p] EXCEPT !.token = spent.tokens + 1, !.pc = "key"]
<1>1. /\ proc[p] \in ProcType /\ ProcSteps(proc[p]) /\ lapse \in BOOLEAN
      /\ spent \in [ids : 0..MaxIds, tokens : 0..MaxTokens, upheavals : 0..MaxUpheavals]
      /\ MaxTokens \in Nat /\ StoreTypes
  BY StoreProcFacts DEF StoreIInv
<1>2. /\ proc[p].op = "refresh" /\ proc[p].pc = "exchange"
      /\ UNCHANGED <<config, secrets, keys, lapse, met>>
  BY DEF ExchangeToken, ProcAt
<1>3. proc[p] # IdleProc /\ ~Resets(proc[p]) /\ ~Exchanged(proc[p])
      /\ proc[p].id # 0 /\ proc[p].token \in 0..MaxTokens
  BY <1>1, <1>2, StoreIdle DEF Resets, Exchanged, ProcSteps, ProcType
<1>4. CASE proc[p].token \notin live
  <2>1. proc' = [proc EXCEPT ![p] = IdleProc] /\ UNCHANGED <<live, spent>>
    BY <1>4 DEF ExchangeToken, Become
  <2> QED
    BY <1>1, <1>2, <1>3, <2>1, EndStays
<1>5. CASE proc[p].token \in live
  <2>1. /\ spent.tokens < MaxTokens
        /\ spent' = [spent EXCEPT !.tokens = spent.tokens + 1]
        /\ live' = (live \ {proc[p].token}) \cup {spent.tokens + 1}
        /\ proc' = [proc EXCEPT ![p] = x]
    BY <1>5 DEF ExchangeToken, Become
  <2>2. spent.tokens \in Nat /\ spent.tokens + 1 \in 0..MaxTokens /\ spent.tokens + 1 # 0
    BY <1>1, <2>1
  <2>3. /\ spent' \in [ids : 0..MaxIds, tokens : 0..MaxTokens, upheavals : 0..MaxUpheavals]
        /\ spent'.tokens = spent.tokens + 1
    BY <1>1, <2>1, <2>2
  <2>4. live' \subseteq 1..spent'.tokens
    BY <1>1, <2>1, <2>2, <2>3 DEF StoreTypes
  <2>5. /\ x \in ProcType /\ x.pc = "key"
        /\ x.op = "refresh" /\ x.id = proc[p].id
        /\ x.token = spent.tokens + 1
    BY <1>1, <1>2, <2>2 DEF ProcType
  <2> HIDE DEF x
  <2>6. ProcSteps(x) /\ ~Resets(x) /\ Exchanged(x)
    BY <1>3, <2>2, <2>5 DEF ProcSteps, Resets, Exchanged
  <2>7. Moved(p, x) /\ (TokensLive' => StoreIInv')
    BY <1>1, <1>2, <1>3, <2>1, <2>3, <2>4, <2>5, <2>6, FilesStay
  <2>8. TokensLive'
    BY <1>1, <1>2, <1>3, <2>1, <2>3, <2>5, <2>6, <2>7, TokenIssued DEF StoreIInv, Moved
  <2> QED
    BY <2>7, <2>8
<1> QED
  BY <1>4, <1>5

LEMMA StartRefreshStays ==
    ASSUME StoreIInv, NEW p \in Procs, NEW i \in Ids, StartRefresh(p, i)
    PROVE  StoreIInv'
<1> DEFINE x == [IdleProc EXCEPT !.op = "refresh", !.pc = "exchange", !.id = i,
                                 !.token = secrets[i].token]
<1>1. /\ lapse \in BOOLEAN /\ StoreTypes /\ secrets \in [Ids -> SecretType]
      /\ spent \in [ids : 0..MaxIds, tokens : 0..MaxTokens, upheavals : 0..MaxUpheavals]
      /\ proc \in [Procs -> ProcType] /\ TokensLive
  BY StoreProcFacts DEF StoreIInv, StoreTypes
<1>2. /\ proc[p] = IdleProc /\ secrets[i].token # 0
      /\ proc' = [proc EXCEPT ![p] = x]
      /\ MeetOthers(p)
      /\ UNCHANGED <<config, secrets, keys, live, lapse, spent>>
  BY DEF StartRefresh, Become
<1>3. secrets[i].token \in 0..MaxTokens /\ i # 0
  BY <1>1 DEF SecretType, Ids
<1>4. /\ x \in ProcType /\ x.pc = "exchange" /\ x.op = "refresh" /\ x.id = i
      /\ x.token = secrets[i].token
  <2>1. IdleProc \in ProcType
    BY StoreIdle
  <2> HIDE DEF IdleProc
  <2> QED
    BY <1>3, <2>1 DEF ProcType
<1> HIDE DEF x
<1>5. ProcSteps(x) /\ ~Resets(x) /\ ~HoldsFresh(x) /\ x # IdleProc
  BY <1>2, <1>3, <1>4, StoreIdle DEF ProcSteps, Resets, HoldsFresh
<1>6. met' = ~Alone(p)
  <2>1. proc'[p] # IdleProc
    BY <1>1, <1>2, <1>5
  <2> QED
    BY <2>1, <1>2 DEF MeetOthers
<1>7. Moved(p, x) /\ (TokensLive' => StoreIInv')
  <2>1. live' \subseteq 1..spent'.tokens
    BY <1>1, <1>2 DEF StoreTypes
  <2>2. ~Resets(proc[p])
    BY <1>2, StoreIdle
  <2> QED
    BY <1>1, <1>2, <1>4, <1>5, <1>6, <2>1, <2>2, FilesStay
<1>8. TokensLive'
  <2> SUFFICES ASSUME Clean' PROVE TokensLive'
    BY DEF TokensLive
  <2>1. /\ Clean /\ proc'[p] = x /\ \A q \in Procs \ {p} : proc'[q] = proc[q]
        /\ ~Exchanged(proc[p])
    BY <1>2, <1>7, StoreIdle DEF Moved
  <2>2. \A j \in Ids :
            /\ secrets[j].token <= spent.tokens
            /\ \/ secrets[j].token \in live \cup {0}
               \/ \E q \in Procs : Exchanged(proc'[q]) /\ proc'[q].id = j
    BY <1>1, <2>1 DEF TokensLive
  <2>3. \A q \in Procs : proc'[q].token <= spent.tokens
    BY <1>1, <1>4, <2>1 DEF TokensLive
  <2>4. \A j, k \in Ids : secrets[j].token = secrets[k].token /\ secrets[j].token # 0 => j = k
    BY <1>1, <2>1 DEF TokensLive
  <2>5. ASSUME NEW q \in Procs, HoldsFresh(proc'[q])
        PROVE  /\ proc'[q].token \in live
               /\ \A j \in Ids : secrets[j].token # proc'[q].token
               /\ \A r \in Procs \ {q} : proc'[r].token # proc'[q].token
    <3>1. q # p /\ proc'[q] = proc[q]
      BY <2>1, <2>5, <1>5
    <3>2. /\ proc[q].token \in live
          /\ \A j \in Ids : secrets[j].token # proc[q].token
          /\ \A r \in Procs \ {q} : proc[r].token # proc[q].token
      BY <3>1, <2>1, <2>5, <1>1 DEF TokensLive
    <3> QED
      BY <3>1, <3>2, <2>1, <1>4
  <2>6. ASSUME NEW q \in Procs, proc'[q].op = "refresh", NEW j \in Ids \ {proc'[q].id}
        PROVE  secrets[j].token # proc'[q].token
    <3>1. CASE q = p
      BY <3>1, <2>1, <2>4, <2>6, <1>2, <1>4
    <3>2. CASE q # p
      BY <3>2, <2>1, <2>6, <1>1 DEF TokensLive
    <3> QED
      BY <3>1, <3>2
  <2> QED
    BY <2>2, <2>3, <2>4, <2>5, <2>6, <1>2 DEF TokensLive
<1> QED
  BY <1>7, <1>8

LEMMA ToggleKeychainStays ==
    ASSUME StoreIInv, ToggleKeychain
    PROVE  StoreIInv'
<1>1. /\ StoreTypes /\ keys \in [file : KeyNumbers, chain : KeyNumbers, up : BOOLEAN]
      /\ spent \in [ids : 0..MaxIds, tokens : 0..MaxTokens, upheavals : 0..MaxUpheavals]
      /\ MaxUpheavals \in Nat
  BY StoreFields DEF StoreIInv, StoreTypes
<1>2. /\ spent.upheavals < MaxUpheavals
      /\ spent' = [spent EXCEPT !.upheavals = spent.upheavals + 1]
      /\ keys' = [keys EXCEPT !.up = ~keys.up]
      /\ UNCHANGED <<config, secrets, live, proc, lapse, met>>
  BY DEF ToggleKeychain, Upheaval
<1>3. /\ spent' \in [ids : 0..MaxIds, tokens : 0..MaxTokens, upheavals : 0..MaxUpheavals]
      /\ spent'.tokens = spent.tokens
  BY <1>1, <1>2
<1>4. /\ keys' \in [file : KeyNumbers, chain : KeyNumbers, up : BOOLEAN]
      /\ keys'.file = keys.file /\ keys'.chain = keys.chain
  BY <1>1, <1>2
<1>5. StoreTypes'
  BY <1>1, <1>2, <1>3, <1>4 DEF StoreTypes
<1>6. Clean' = Clean /\ Resetting' = Resetting /\ Storage' = Storage
  BY <1>2, <1>4 DEF Clean, Resetting, Storage
<1>7. Processes' /\ NothingYet'
  BY <1>2, <1>4 DEF StoreIInv, Processes, NothingYet, Alone
<1>8. KeyReplaced' /\ KeysAgree' /\ NamesStored'
  BY <1>2, <1>4, <1>6, Zenon DEF StoreIInv, KeyReplaced, KeysAgree, NamesStored
<1>9. TokensLive'
  BY <1>2, <1>3, <1>6 DEF StoreIInv, TokensLive
<1> QED
  BY <1>5, <1>7, <1>8, <1>9 DEF StoreIInv

-----------------------------------------------------------------------------
LEMMA StoreStarts == StoreInit => StoreIInv
<1> SUFFICES ASSUME StoreInit PROVE StoreIInv
  OBVIOUS
<1>1. /\ secrets = NoSecrets /\ live = {} /\ lapse = FALSE /\ met = FALSE
      /\ proc = [p \in Procs |-> IdleProc]
      /\ spent = [ids |-> 0, tokens |-> 0, upheavals |-> 0]
  BY DEF StoreInit
<1>2. \A p \in Procs : proc[p] = IdleProc
  BY <1>1, Zenon
<1>3. /\ config \in ConfigType
      /\ keys \in [file : KeyNumbers, chain : KeyNumbers, up : BOOLEAN]
      /\ keys.file = 0 \/ keys.chain = 0
      /\ config.servers = {} /\ config.token = 0
  <2>1. 0 \in KeyNumbers /\ 1 \in KeyNumbers
    BY StoreAssumption DEF StoreAssumption, KeyNumbers
  <2>2. PICK up \in BOOLEAN :
            \/ config = NoConfigFile /\ keys = [file |-> 0, chain |-> 0, up |-> up]
            \/ \E s \in {"none", "keychain"} :
                  /\ config = [NoConfigFile EXCEPT !.present = TRUE, !.storage = s]
                  /\ keys = [file |-> 1, chain |-> 0, up |-> up]
            \/ /\ config = [NoConfigFile EXCEPT !.present = TRUE, !.storage = "keychain"]
               /\ keys = [file |-> 0, chain |-> 1, up |-> up]
    BY DEF StoreInit
  <2>3. keys \in [file : KeyNumbers, chain : KeyNumbers, up : BOOLEAN]
        /\ (keys.file = 0 \/ keys.chain = 0)
    BY <2>1, <2>2
  <2>4. config \in ConfigType /\ config.servers = {} /\ config.token = 0
    <3>1. /\ NoConfigFile \in ConfigType
          /\ NoConfigFile.servers = {} /\ NoConfigFile.token = 0
      BY DEF ConfigType, NoConfigFile
    <3>2. ASSUME NEW s \in {"none", "keychain"}
          PROVE  LET c == [NoConfigFile EXCEPT !.present = TRUE, !.storage = s]
                 IN  c \in ConfigType /\ c.servers = {} /\ c.token = 0
      BY DEF ConfigType, NoConfigFile
    <3> QED
      BY <2>2, <3>1, <3>2
  <2> QED
    BY <2>3, <2>4
<1>4. \A i \in Ids : secrets[i] = NoSecret
  BY <1>1, StoredSecrets
<1>5. StoreTypes
  <2>1. proc \in [Procs -> ProcType]
    BY <1>1, StoreIdle
  <2>2. spent \in [ids : 0..MaxIds, tokens : 0..MaxTokens, upheavals : 0..MaxUpheavals]
    BY <1>1, StoreAssumption DEF StoreAssumption
  <2> QED
    BY <1>1, <1>3, <2>1, <2>2, StoredSecrets DEF StoreTypes
<1>6. Processes
  BY <1>2, StoreIdle DEF Processes
<1>7. NothingYet
  BY <1>2, StoreIdle DEF NothingYet
<1>8. KeyReplaced
  BY <1>2, StoreIdle DEF KeyReplaced
<1>9. KeysAgree
  BY <1>2, <1>3, <1>4, StoreIdle DEF KeysAgree
<1>10. NamesStored
  BY <1>2, <1>3, <1>4, StoreIdle DEF NamesStored
<1>11. TokensLive
  <2>1. spent.tokens = 0
    BY <1>1
  <2> QED
    BY <1>2, <1>4, <2>1, StoreIdle, StoredSecrets DEF TokensLive
<1> QED
  BY <1>5, <1>6, <1>7, <1>8, <1>9, <1>10, <1>11 DEF StoreIInv

LEMMA StoreStays == StoreIInv /\ [StoreNext]_storeVars => StoreIInv'
<1> SUFFICES ASSUME StoreIInv, [StoreNext]_storeVars PROVE StoreIInv'
  OBVIOUS
<1>1. CASE UNCHANGED storeVars
  <2>1. UNCHANGED <<config, secrets, keys, live, proc, lapse, met, spent>>
    BY <1>1 DEF storeVars
  <2>2. Clean' = Clean /\ Resetting' = Resetting /\ Storage' = Storage
    BY <2>1 DEF Clean, Resetting, Storage
  <2>3. StoreTypes' /\ Processes' /\ NothingYet'
    BY <2>1 DEF StoreIInv, StoreTypes, Processes, NothingYet, Alone
  <2>4. KeyReplaced' /\ KeysAgree' /\ NamesStored'
    BY <2>1, <2>2, Zenon DEF StoreIInv, KeyReplaced, KeysAgree, NamesStored
  <2>5. TokensLive'
    BY <2>1, <2>2 DEF StoreIInv, TokensLive
  <2> QED
    BY <2>3, <2>4, <2>5 DEF StoreIInv
<1>2. ASSUME NEW p \in Procs, ReadKey(p) \/ MoveKeyAside(p) \/ ReadSecrets(p) \/ SaveSecrets(p)
      PROVE  StoreIInv'
  BY <1>2, ReadKeyStays, MoveKeyAsideStays, ReadSecretsStays, SaveSecretsStays
<1>3. ASSUME NEW p \in Procs,
             SaveConfig(p) \/ MintId(p) \/ ClearKey(p) \/ EmptySecrets(p) \/ StoreKey(p)
      PROVE  StoreIInv'
  BY <1>3, SaveConfigStays, MintIdStays, ClearKeyStays, EmptySecretsStays, StoreKeyStays
<1>4. ASSUME NEW p \in Procs,
             WriteConfig(p) \/ ContinueInit(p) \/ Authorize(p) \/ GiveUp(p)
               \/ ExchangeToken(p) \/ KillProc(p)
      PROVE  StoreIInv'
  BY <1>4, WriteConfigStays, ContinueInitStays, AuthorizeStays, GiveUpStays,
     ExchangeTokenStays, KillProcStays
<1>5. ASSUME NEW p \in Procs, NEW force \in BOOLEAN, NEW s \in {"file", "keychain"},
             StartInit(p, force, s)
      PROVE  StoreIInv'
  BY <1>5, StartInitStays
<1>6. ASSUME NEW p \in Procs, NEW op \in {"serve", "add", "connect", "tools"},
             StartCommand(p, op)
      PROVE  StoreIInv'
  BY <1>6, StartCommandStays
<1>7. ASSUME NEW p \in Procs, NEW i \in Ids, StartRefresh(p, i)
      PROVE  StoreIInv'
  BY <1>7, StartRefreshStays
<1> QED
  BY <1>1, <1>2, <1>3, <1>4, <1>5, <1>6, <1>7, ToggleKeychainStays DEF StoreNext

LEMMA StoreKeeps ==
    StoreIInv => StoreTypeOK /\ NamedSecretsExist /\ SecretsReadable /\ StoredTokensLive
<1> SUFFICES ASSUME StoreIInv
             PROVE  StoreTypeOK /\ NamedSecretsExist /\ SecretsReadable /\ StoredTokensLive
  OBVIOUS
<1>1. /\ StoreTypes /\ config \in ConfigType /\ secrets \in [Ids -> SecretType]
      /\ spent.tokens \in 0..MaxTokens /\ MaxTokens \in Nat
  BY StoreFields DEF StoreIInv
<1>2. Settled => Clean /\ ~Resetting
  BY DEF Settled, Initialising, Clean, Resetting, Resets
<1>3. StoreTypeOK
  <2>1. live \subseteq 1..MaxTokens
    BY <1>1 DEF StoreTypes
  <2>2. \A i \in Ids : /\ secrets[i].key \in 0..(MaxUpheavals + 1)
                       /\ secrets[i].token \in 0..MaxTokens
                       /\ secrets[i].key = 0 => secrets[i] = NoSecret
    BY <1>1 DEF SecretType, KeyNumbers
  <2> QED
    BY <1>1, <2>1, <2>2 DEF StoreTypeOK, ConfigType
<1>4. NamedSecretsExist
  BY <1>2 DEF StoreIInv, NamesStored, NamedSecretsExist
<1>5. SecretsReadable
  <2> SUFFICES ASSUME Settled, NEW i \in Ids, secrets[i] # NoSecret, MasterKey # 0
               PROVE  secrets[i].key = MasterKey
    BY DEF SecretsReadable
  <2>1. /\ keys.file # 0 => secrets[i].key = keys.file
        /\ Storage = "keychain" /\ keys.chain # 0 => secrets[i].key = keys.chain
    BY <1>2 DEF StoreIInv, KeysAgree
  <2>2. Storage \in {"file", "keychain"}
    BY <1>1 DEF Storage, ConfigType
  <2> QED
    BY <2>1, <2>2 DEF MasterKey
<1>6. StoredTokensLive
  <2> SUFFICES ASSUME Settled, NEW i \in config.servers
               PROVE  \/ secrets[i].token \in live \cup {0}
                      \/ \E p \in Procs : proc[p].op = "refresh" /\ proc[p].id = i
    BY DEF StoredTokensLive
  <2>1. i \in Ids
    BY <1>1 DEF ConfigType
  <2> QED
    BY <2>1, <1>2 DEF StoreIInv, TokensLive, Exchanged
<1> QED
  BY <1>3, <1>4, <1>5, <1>6

\* An init that gives up did so for want of a keychain, where nothing was.
LEMMA FailedInitLeavesNothing ==
    ASSUME StoreIInv, [StoreNext]_storeVars, NEW p \in Procs,
           ProcAt(p, "init", "store"), proc'[p] = IdleProc, ~proc[p].force,
           spent' = spent, ~met
    PROVE  ~Already'
<1>1. /\ proc \in [Procs -> ProcType] /\ proc[p].op = "init" /\ proc[p].pc = "store"
      /\ proc[p] # IdleProc /\ config = NoConfigFile /\ keys.file = 0
      /\ spent \in [ids : 0..MaxIds, tokens : 0..MaxTokens, upheavals : 0..MaxUpheavals]
  BY StoreIdle DEF StoreIInv, StoreTypes, NothingYet, ProcAt
<1>2. \A q \in Procs \ {p} : proc[q] = IdleProc
  BY <1>1 DEF StoreIInv, Processes, Alone
<1>3. spent' # [spent EXCEPT !.upheavals = spent.upheavals + 1]
  BY <1>1
<1>4. proc'[p] # proc[p] /\ IdleProc.pc = "idle"
  BY <1>1, StoreIdle
<1>5. PICK q \in Procs :
          \/ ReadKey(q) \/ MoveKeyAside(q) \/ ReadSecrets(q) \/ SaveSecrets(q)
          \/ SaveConfig(q) \/ MintId(q) \/ ClearKey(q) \/ EmptySecrets(q) \/ StoreKey(q)
          \/ WriteConfig(q) \/ ContinueInit(q) \/ Authorize(q) \/ GiveUp(q)
          \/ ExchangeToken(q)
          \/ \E op \in {"serve", "add", "connect", "tools"} : StartCommand(q, op)
          \/ \E i \in Ids : StartRefresh(q, i)
  BY <1>3, <1>4 DEF StoreNext, storeVars, ToggleKeychain, StartInit, KillProc, Upheaval
<1>6. q = p
  <2> SUFFICES ASSUME q # p PROVE FALSE
    OBVIOUS
  <2>1. proc[q].pc = "idle" /\ ~ProcAt(q, "init", "load")
    BY <1>2, <1>4 DEF ProcAt
  <2>2. ASSUME NEW x, Become(q, x) PROVE FALSE
    BY <2>2, <1>1, <1>4 DEF Become
  <2>3. CASE \E i \in Ids : StartRefresh(q, i)
    BY <2>2, <2>3 DEF StartRefresh
  <2>4. CASE \E op \in {"serve", "add", "connect", "tools"} : StartCommand(q, op)
    BY <2>2, <2>4 DEF StartCommand, LoadConfig
  <2> QED
    BY <2>1, <2>3, <2>4, <1>5
       DEF ReadKey, MoveKeyAside, ReadSecrets, SaveSecrets, SaveConfig, MintId, ClearKey,
           EmptySecrets, StoreKey, WriteConfig, ContinueInit, Authorize, GiveUp, ExchangeToken,
           ProcAt
<1>7. StoreKey(p)
  BY <1>1, <1>5, <1>6
     DEF ReadKey, MoveKeyAside, ReadSecrets, SaveSecrets, SaveConfig, MintId, ClearKey,
         EmptySecrets, WriteConfig, ContinueInit, Authorize, GiveUp, ExchangeToken,
         StartCommand, StartRefresh, ProcAt
<1>8. proc[p].storage # "file" /\ ~keys.up
  <2>1. ASSUME NEW v \in {"config", "aside"}, Become(p, [proc[p] EXCEPT !.pc = v])
        PROVE  FALSE
    <3>1. proc'[p].pc = v
      BY <2>1, <1>1 DEF Become, ProcType
    <3> QED
      BY <3>1, <1>4
  <2> QED
    BY <2>1, <1>7 DEF StoreKey
<1>9. keys' = keys /\ config' = config
  BY <1>7, <1>8 DEF StoreKey
<1> QED
  BY <1>1, <1>8, <1>9 DEF Already, NoConfigFile

\* The files of the command-line gateway: what is named is there, what is stored
\* can be decrypted and its tokens work -- as long as no file was overwritten that
\* had changed, and init ran alone -- and a failed init leaves nothing behind.
THEOREM StoreCorrect == StoreSpec => StoreRules
<1>1. StoreInit => StoreIInv
  BY StoreStarts
<1>2. StoreIInv /\ [StoreNext]_storeVars => StoreIInv'
  BY StoreStays
<1>3. StoreIInv => StoreTypeOK /\ NamedSecretsExist /\ SecretsReadable /\ StoredTokensLive
  BY StoreKeeps
<1>4. StoreIInv /\ [StoreNext]_storeVars =>
          [\A p \in Procs :
              ProcAt(p, "init", "store") /\ proc'[p] = IdleProc /\ ~proc[p].force
                  /\ spent' = spent /\ ~met
              => ~Already']_storeVars
  BY FailedInitLeavesNothing
<1> QED
  BY <1>1, <1>2, <1>3, <1>4, PTL DEF StoreSpec, StoreRules, FailedInitCanRetry

=============================================================================
