------------------------------ MODULE ToolSync ------------------------------
(***************************************************************************)
(* Synchronisation of a server's tools with its upstream, while            *)
(* administrators review and delete tools and the upstream changes.        *)
(*                                                                         *)
(* A sync reads the server, takes a credential (an MCP server needs one),  *)
(* fetches the upstream's operations, reads the catalog once and then      *)
(* inserts or updates one row per operation, each statement committing by  *)
(* itself.  upstream maps every document the upstream may offer to its     *)
(* operations; an operation has an id, which names the tool, and a         *)
(* binding: description, schema, method and path.                          *)
(***************************************************************************)
EXTENDS ApiHandlers, OpenApiImport

CONSTANTS
    Documents,      \* what the upstream may offer: sequences of [id, op]
    MaxChanges,     \* bound: changes of the upstream and of the credentials
    MaxReviews,     \* bound: what administrators do to tools
    MaxSyncFaults   \* bound: failed statements

\* A document and the ids in it are sequences.
ASSUME SyncAssumption ==
    /\ MaxChanges \in Nat /\ MaxReviews \in Nat /\ MaxSyncFaults \in Nat
    /\ \A d \in Documents :
          /\ Len(d) \in Nat /\ d = [k \in 1..Len(d) |-> d[k]]
          /\ \A k \in 1..Len(d) :
                LET id == d[k].id IN Len(id) \in Nat /\ id = [i \in 1..Len(id) |-> id[i]]

VARIABLES
    catalog,        \* the tools of the server: name -> row
    server,         \* the server: present, kind, and its health column
    upstream,       \* what the upstream offers now
    credentials,    \* the secrets for the server: the admin's own, the shared
    sync,           \* the sync handlers
    reviewed,       \* history: tools an administrator activated
    spent           \* changes, reviews and faults so far

syncVars == <<catalog, server, upstream, credentials, sync, reviewed, spent>>

IdsOf(doc) == [k \in 1..Len(doc) |-> doc[k].id]

\* The tools a document turns into: operations with their final names.
Imported(doc) ==
    LET names == ImportNames(IdsOf(doc))
    IN  [k \in 1..Len(doc) |-> [name |-> names[k], op |-> doc[k].op]]

\* An MCP server lists no name twice; its tools keep their names.
OfferedBy(kind) ==
    IF kind = "mcp"
    THEN {d \in Documents : \A j, k \in 1..Len(d) : d[j].id = d[k].id => j = k}
    ELSE Documents

ToolNames == UNION {{Imported(d)[k].name : k \in 1..Len(d)} : d \in Documents}
SyncOps   == UNION {{d[k].op : k \in 1..Len(d)} : d \in Documents}

NoTool == [status |-> "none", op |-> "none"]

ToolRow == {NoTool} \cup [status : {"needs_review", "active", "disabled"}, op : SyncOps]

\* found and alone are history: what the upstream offered, and whether no other
\* sync or deletion crossed this one.
IdleSync == [pc |-> "idle", items |-> <<>>, found |-> <<>>, existing |-> {},
             alone |-> TRUE]

SyncInit ==
    /\ catalog = [n \in ToolNames |-> NoTool]
    /\ server \in [present : {TRUE}, kind : {"mcp", "api"}, health : {"unknown"}]
    /\ upstream \in OfferedBy(server.kind)
    /\ credentials \in SUBSET {"personal", "shared"}
    /\ sync = [h \in Handlers |-> IdleSync]
    /\ reviewed = {}
    /\ spent = [changes |-> 0, reviews |-> 0, faults |-> 0]

Running(h) == sync[h].pc \notin {"idle", "ok", "failed"}

\* h ends; its local state is of no further use.
EndSync(h, outcome) ==
    sync' = [sync EXCEPT ![h] = [IdleSync EXCEPT !.pc = outcome]]

\* Something crosses the running syncs.
Overlap(S) == [h \in Handlers |-> [S[h] EXCEPT !.alone = @ /\ ~Running(h)]]

-----------------------------------------------------------------------------
\* syncToolsFromUpstream: the server is read; a server that is gone ends it.
StartSync(h) ==
    /\ ~Running(h)
    /\ IF server.present
       THEN sync' = [Overlap(sync) EXCEPT
                       ![h] = [IdleSync EXCEPT !.pc = "started",
                                               !.alone = \A g \in Handlers : ~Running(g)]]
       ELSE sync' = [sync EXCEPT ![h] = [IdleSync EXCEPT !.pc = "failed"]]
    /\ UNCHANGED <<catalog, server, upstream, credentials, reviewed, spent>>

\* loadSyncSecret: the acting admin's own credential, else the shared one.
LoadSyncSecret(h) ==
    /\ sync[h].pc = "started"
    /\ IF server.kind = "mcp" /\ credentials = {}
       THEN EndSync(h, "failed")
       ELSE sync' = [sync EXCEPT ![h].pc = "fetch"]
    /\ UNCHANGED <<catalog, server, upstream, credentials, reviewed, spent>>

\* The upstream answers with its operations.
FetchTools(h) ==
    /\ sync[h].pc = "fetch"
    /\ sync' = [sync EXCEPT ![h].pc = "fetched", ![h].items = Imported(upstream),
                            ![h].found = Imported(upstream)]
    /\ UNCHANGED <<catalog, server, upstream, credentials, reviewed, spent>>

\* The upstream cannot be reached or refuses; a server deleted meanwhile has
\* no health to write.
FetchFails(h) ==
    /\ sync[h].pc = "fetch"
    /\ spent.faults < MaxSyncFaults
    /\ spent' = [spent EXCEPT !.faults = @ + 1]
    /\ server' = IF server.present THEN [server EXCEPT !.health = "unhealthy"] ELSE server
    /\ EndSync(h, "failed")
    /\ UNCHANGED <<catalog, upstream, credentials, reviewed>>

\* upsertImportedTools: the catalog is read once.
ReadCatalog(h) ==
    /\ sync[h].pc = "fetched"
    /\ sync' = [sync EXCEPT ![h].pc = "upsert",
                            ![h].existing = {n \in ToolNames : catalog[n] # NoTool}]
    /\ UNCHANGED <<catalog, server, upstream, credentials, reviewed, spent>>

Item(h) == Head(sync[h].items)

NextItem(h) == sync' = [sync EXCEPT ![h].items = Tail(@)]

\* A name the catalog did not have is inserted; the unique index refuses one
\* that it has by now, the foreign key one whose server is gone.
InsertTool(h) ==
    /\ sync[h].pc = "upsert"
    /\ sync[h].items # <<>>
    /\ Item(h).name \notin sync[h].existing
    /\ IF server.present /\ catalog[Item(h).name] = NoTool
       THEN /\ catalog' = [catalog EXCEPT ![Item(h).name] =
                             [status |-> "needs_review", op |-> Item(h).op]]
            /\ NextItem(h)
       ELSE EndSync(h, "failed") /\ UNCHANGED catalog
    /\ UNCHANGED <<server, upstream, credentials, reviewed, spent>>

\* Mutant: tools that need no review any more are left as they are.
UpdateUnreviewed(h) ==
    /\ sync[h].pc = "upsert"
    /\ sync[h].items # <<>>
    /\ Item(h).name \in sync[h].existing
    /\ catalog' = IF catalog[Item(h).name].status # "needs_review" THEN catalog
                  ELSE [catalog EXCEPT ![Item(h).name].op = Item(h).op]
    /\ NextItem(h)
    /\ UNCHANGED <<server, upstream, credentials, reviewed, spent>>

\* A name it had is updated, its status kept; a row deleted meanwhile is
\* skipped in silence.
UpdateTool(h) ==
    /\ sync[h].pc = "upsert"
    /\ sync[h].items # <<>>
    /\ Item(h).name \in sync[h].existing
    /\ catalog' = IF catalog[Item(h).name] = NoTool THEN catalog
                  ELSE [catalog EXCEPT ![Item(h).name].op = Item(h).op]
    /\ NextItem(h)
    /\ UNCHANGED <<server, upstream, credentials, reviewed, spent>>

FinishSync(h) ==
    /\ sync[h].pc = "upsert"
    /\ sync[h].items = <<>>
    /\ server' = IF server.present THEN [server EXCEPT !.health = "healthy"] ELSE server
    /\ EndSync(h, "ok")
    /\ UNCHANGED <<catalog, upstream, credentials, reviewed, spent>>

\* A statement fails and the request with it; what it wrote stays.
FailSync(h) ==
    /\ Running(h)
    /\ spent.faults < MaxSyncFaults
    /\ spent' = [spent EXCEPT !.faults = @ + 1]
    /\ EndSync(h, "failed")
    /\ UNCHANGED <<catalog, server, upstream, credentials, reviewed>>

-----------------------------------------------------------------------------
Spend(what) ==
    /\ IF what = "reviews" THEN spent.reviews < MaxReviews ELSE spent.changes < MaxChanges
    /\ spent' = [spent EXCEPT ![what] = @ + 1]

\* An administrator activates or disables a tool.
ReviewTool(n, status) ==
    /\ Spend("reviews")
    /\ catalog[n].status \notin {"none", status}
    /\ catalog' = [catalog EXCEPT ![n].status = status]
    /\ reviewed' = IF status = "active" THEN reviewed \cup {n} ELSE reviewed
    /\ UNCHANGED <<server, upstream, credentials, sync>>

DeleteTool(n) ==
    /\ Spend("reviews")
    /\ catalog[n] # NoTool
    /\ catalog' = [catalog EXCEPT ![n] = NoTool]
    /\ reviewed' = reviewed \ {n}
    /\ sync' = Overlap(sync)
    /\ UNCHANGED <<server, upstream, credentials>>

\* Its tools and secrets go with the server.
DeleteServer ==
    /\ Spend("changes")
    /\ server.present
    /\ server' = [server EXCEPT !.present = FALSE]
    /\ catalog' = [n \in ToolNames |-> NoTool]
    /\ credentials' = {}
    /\ reviewed' = {}
    /\ sync' = Overlap(sync)
    /\ UNCHANGED upstream

\* The upstream, or whoever keeps the secrets, changes what it has.
ChangeUpstream(d) ==
    /\ Spend("changes")
    /\ upstream # d
    /\ d \in OfferedBy(server.kind)
    /\ upstream' = d
    /\ UNCHANGED <<catalog, server, credentials, sync, reviewed>>

DropCredential(k) ==
    /\ Spend("changes")
    /\ k \in credentials
    /\ credentials' = credentials \ {k}
    /\ UNCHANGED <<catalog, server, upstream, sync, reviewed>>

SyncNext ==
    \/ \E h \in Handlers :
          \/ StartSync(h) \/ LoadSyncSecret(h) \/ FetchTools(h) \/ FetchFails(h)
          \/ ReadCatalog(h) \/ InsertTool(h) \/ UpdateTool(h) \/ FinishSync(h)
          \/ FailSync(h)
    \/ \E n \in ToolNames :
          \/ DeleteTool(n)
          \/ \E s \in {"active", "disabled"} : ReviewTool(n, s)
    \/ DeleteServer
    \/ \E d \in Documents : ChangeUpstream(d)
    \/ \E k \in {"personal", "shared"} : DropCredential(k)

SyncSpec == SyncInit /\ [][SyncNext]_syncVars

-----------------------------------------------------------------------------
\* Types; a server's tools and secrets are gone with it.
SyncTypeOK ==
    /\ catalog \in [ToolNames -> ToolRow]
    /\ server \in [present : BOOLEAN, kind : {"mcp", "api"},
                   health : {"unknown", "healthy", "unhealthy"}]
    /\ upstream \in Documents
    /\ credentials \subseteq {"personal", "shared"}
    /\ \A h \in Handlers :
          /\ sync[h].pc \in {"idle", "started", "fetch", "fetched", "upsert", "ok", "failed"}
          /\ sync[h].existing \subseteq ToolNames
          /\ \A k \in 1..Len(sync[h].items) : sync[h].items[k].name \in ToolNames
    /\ reviewed \subseteq ToolNames
    /\ ~server.present => credentials = {} /\ \A n \in ToolNames : catalog[n] = NoTool

\* "New tools land as needs_review": a tool is active only if an administrator
\* activated this very row -- not through a sync, not when a deleted tool is
\* found again, not when two syncs and a deletion meet.
ActiveWasReviewed ==
    \A n \in ToolNames : catalog[n].status = "active" => n \in reviewed

\* A sync that got its operations, and that no other sync, deletion or failure
\* crossed, succeeds: names never collide, whatever ids the document gives.
SyncAloneSucceeds ==
    [][\A h \in Handlers :
          sync[h].pc = "upsert" /\ sync'[h].pc = "failed" /\ spent'.faults = spent.faults
             => ~sync[h].alone]_syncVars

\* When it succeeds, every operation it found is in the catalog as it was
\* found, whatever the catalog held before -- a half-done sync included.
SyncAloneComplete ==
    [][\A h \in Handlers :
          sync[h].pc = "upsert" /\ sync'[h].pc = "ok" /\ sync[h].alone =>
             \A k \in 1..Len(sync[h].found) :
                catalog[sync[h].found[k].name].op = sync[h].found[k].op]_syncVars

-----------------------------------------------------------------------------
\* Of syncs of the catalog: no tool is active that was not reviewed, and a sync
\* that nothing crosses succeeds and is complete.
SyncRules ==
    /\ [](/\ SyncTypeOK
         /\ ActiveWasReviewed)
    /\ SyncAloneSucceeds
    /\ SyncAloneComplete
=============================================================================
