------------------------------ MODULE ListPage ------------------------------
(***************************************************************************)
(* A list page of the web application (apps/web/src/pages): an effect      *)
(* loads the rows of the selected tenant, buttons write rows and load      *)
(* again.  Tenants are selected in the shell while all that is under way,  *)
(* and answers arrive in any order.  What makes the pages differ is told   *)
(* by one operator each: what the buttons write, whether an answer is      *)
(* dropped that is no longer wanted, what is disabled and which errors are *)
(* shown.                                                                  *)
(*                                                                         *)
(* A row is TRUE or FALSE: active or not, settled or pending, there or not *)
(* yet.  The answer to a write arrives in the step that writes, or is lost.*)
(***************************************************************************)
EXTENDS FiniteSets, Integers

CONSTANTS
    Tenants,        \* the tenants the user is a member of
    Rows,           \* row ids within a tenant
    Clicks,         \* event handlers under way at once
    MaxSwitches,    \* bound on tenant selections
    MaxPresses,     \* bound on presses of a button
    MaxUpsets       \* bound on changes by others and on failed or lost requests

ASSUME ListPageAssumption ==
    /\ {MaxSwitches, MaxPresses, MaxUpsets} \subseteq Nat
    /\ Clicks \cap (0..MaxSwitches) = {}

VARIABLES
    page,           \* the page that is open
    selected,       \* useAuth().tenantId
    switches,       \* tenant selections: the number of the current effect
    rows,           \* tenant -> row -> BOOLEAN, in the database
    load,           \* effect or click -> its load of the page
    click,          \* click -> an event handler
    busy,           \* the rows and forms whose buttons are disabled
    shown,          \* the rows in the page's state, and their tenant
    told,           \* an error is shown
    crossed,        \* history: two activities of the page overlapped
    others,         \* history: others changed rows after the last load read them
    presses,        \* buttons pressed so far
    changes,        \* changes by others so far
    faults          \* failed or lost requests so far

pageVars == <<page, selected, switches, rows, load, click, busy, shown, told,
              crossed, others, presses, changes, faults>>

Effects == 0..MaxSwitches
Loaders == Effects \cup Clicks
Nowhere == "none"
Blank == [r \in Rows |-> FALSE]
NoLoad == [state |-> "idle", of |-> Nowhere, rows |-> Blank]
NoClick == [state |-> "idle", kind |-> Nowhere, as |-> Nowhere, of |-> Nowhere,
            left |-> {}, to |-> TRUE, what |-> Nowhere]

-----------------------------------------------------------------------------
(***************************************************************************)
(* Kinds of writes: "toggle" the opposite of what a row shows; "settle" a  *)
(* row for good; "all" rows that are shown FALSE, one request each; "add"  *)
(* a row of the selected tenant, from a dialog.  guarded: answers that are *)
(* no longer wanted are dropped; oneBusy: one row is disabled at a time;   *)
(* catches: errors of unwanted loads are not shown; catchesWrites: errors  *)
(* of writes are; clears: an error goes when the page is loaded again.     *)
(***************************************************************************)
Plain == [writes |-> {}, guarded |-> FALSE, oneBusy |-> FALSE, catches |-> TRUE,
          catchesWrites |-> TRUE, clears |-> TRUE]

AgentsPage      == [Plain EXCEPT !.writes = {"add"}]
ClientsPage     == [Plain EXCEPT !.writes = {"add"}]
UsersPage       == [Plain EXCEPT !.writes = {"add"}]
RolesPage       == [Plain EXCEPT !.writes = {"add"}]
SecretsPage     == [Plain EXCEPT !.writes = {"add", "settle"}]
ServersPage     == [Plain EXCEPT !.writes = {"add", "toggle"}]
ToolsPage       == [Plain EXCEPT !.writes = {"add", "toggle", "all"}]
MyAccessPage    == [Plain EXCEPT !.writes = {"settle"}]
ConnectionsPage == Plain
DashboardPage   == [Plain EXCEPT !.guarded = TRUE]
AuditPage       == [Plain EXCEPT !.guarded = TRUE]

\* load() catches its own errors: those of unwanted loads are shown as well.
AccessRequestsPage ==
    [Plain EXCEPT !.writes = {"settle"}, !.oneBusy = TRUE, !.catches = FALSE]
NotificationsPage ==
    [Plain EXCEPT !.writes = {"settle"}, !.catches = FALSE, !.catchesWrites = FALSE,
                  !.clears = FALSE]

Pages == {AgentsPage, ClientsPage, UsersPage, RolesPage, SecretsPage, ServersPage,
          ToolsPage, MyAccessPage, ConnectionsPage, DashboardPage, AuditPage,
          AccessRequestsPage, NotificationsPage}

-----------------------------------------------------------------------------
Ask(t) == [NoLoad EXCEPT !.state = "asked", !.of = t]

PageInit ==
    /\ page \in Pages
    /\ selected \in Tenants
    /\ switches = 0
    /\ rows = [t \in Tenants |-> Blank]
    /\ load = [l \in Loaders |-> IF l = 0 THEN Ask(selected) ELSE NoLoad]
    /\ click = [c \in Clicks |-> NoClick]
    /\ busy = {}
    /\ shown = [of |-> Nowhere, rows |-> Blank]
    /\ told = FALSE
    /\ crossed = FALSE
    /\ others = FALSE
    /\ presses = 0
    /\ changes = 0
    /\ faults = 0

\* Nothing of the page is under way.
Quiet ==
    /\ \A l \in Loaders : load[l].state \in {"idle", "lost"}
    /\ \A c \in Clicks : click[c].state = "idle"

\* cancelled, in the closure of the effect that loads.
Unwanted(l) == l \in Effects /\ l # switches

-----------------------------------------------------------------------------
\* The user selects another tenant: the effect is cleaned up and runs again.
SelectTenant(t) ==
    /\ switches < MaxSwitches
    /\ t # selected
    /\ selected' = t
    /\ switches' = switches + 1
    /\ load' = [load EXCEPT ![switches + 1] = Ask(t)]
    /\ told' = (told /\ ~page.clears)
    /\ crossed' = ~Quiet
    /\ UNCHANGED <<page, rows, click, busy, shown, others, presses, changes, faults>>

AnswerLoad(l) ==
    /\ load[l].state = "asked"
    /\ load' = [load EXCEPT ![l].state = "answered", ![l].rows = rows[load[l].of]]
    /\ others' = FALSE
    /\ UNCHANGED <<page, selected, switches, rows, click, busy, shown, told, crossed,
                   changes, faults, presses>>

FailLoad(l) ==
    /\ load[l].state = "asked"
    /\ changes + faults < MaxUpsets
    /\ faults' = faults + 1
    /\ load' = [load EXCEPT ![l].state = "failed"]
    /\ UNCHANGED <<page, selected, switches, rows, click, busy, shown, told, crossed,
                   others, presses, changes>>

\* The finally of a handler.
Released(c) == IF page.oneBusy THEN {} ELSE busy \ {click[c].what}

EndClick(l) ==
    IF l \in Clicks
    THEN /\ click' = [click EXCEPT ![l] = NoClick]
         /\ busy' = Released(l)
    ELSE UNCHANGED <<click, busy>>

\* The rows of a load that succeeded replace those shown, on most pages also
\* when another tenant is selected by now.
ShowLoaded(l) ==
    /\ load[l].state = "answered"
    /\ load' = [load EXCEPT ![l] = NoLoad]
    /\ shown' = IF page.guarded /\ Unwanted(l) THEN shown
                ELSE [of |-> load[l].of, rows |-> load[l].rows]
    /\ EndClick(l)
    /\ UNCHANGED <<page, selected, switches, rows, told, crossed, others, presses,
                   changes, faults>>

ShowLoadError(l) ==
    /\ load[l].state = "failed"
    /\ load' = [load EXCEPT ![l] = [NoLoad EXCEPT !.state =
                                      IF l \in Effects THEN "lost" ELSE "idle"]]
    /\ told' = (told \/ ~Unwanted(l) \/ ~page.catches)
    /\ EndClick(l)
    /\ UNCHANGED <<page, selected, switches, rows, shown, crossed, others, presses,
                   changes, faults>>

-----------------------------------------------------------------------------
\* A handler starts, with the tenant of its render.
Begin(c, kind, what, of, left, to) ==
    /\ click[c].state = "idle"
    /\ kind \in page.writes
    /\ presses < MaxPresses
    /\ presses' = presses + 1
    /\ click' = [click EXCEPT ![c] =
                   [state |-> "writing", kind |-> kind, as |-> selected, of |-> of,
                    left |-> left, to |-> to, what |-> what]]
    /\ crossed' = (~Quiet \/ (crossed /\ shown.of # selected))
    /\ UNCHANGED <<page, selected, switches, rows, load, shown, others, changes,
                   faults>>

\* toggleStatus, onActivate
Toggle(c, r) ==
    /\ shown.of # Nowhere
    /\ Begin(c, "toggle", Nowhere, shown.of, {r}, ~shown.rows[r])
    /\ told' = FALSE
    /\ UNCHANGED busy

\* onDelete, onDisconnect, the decisions on access requests, "Mark read". Only
\* rows that are pending have the button.
SettleRow(c, r) ==
    /\ shown.of # Nowhere /\ ~shown.rows[r]
    /\ r \notin busy
    /\ Begin(c, "settle", r, shown.of, {r}, TRUE)
    /\ IF page.oneBusy
       THEN busy' = {r} /\ UNCHANGED told
       ELSE UNCHANGED busy /\ told' = (told /\ ~page.catchesWrites)

\* allowTools: one request for each row, in Promise.all.
AllowAll(c) ==
    LET targets == {r \in Rows : ~shown.rows[r]} IN
       /\ shown.of # Nowhere /\ targets # {}
       /\ "all" \notin busy
       /\ Begin(c, "all", "all", shown.of, targets, TRUE)
       /\ busy' = busy \cup {"all"}
       /\ told' = FALSE

\* onCreate and the dialogs' onSubmit.
Add(c, r) ==
    /\ "add" \notin busy
    /\ ~rows[selected][r]
    /\ Begin(c, "add", "add", selected, {r}, TRUE)
    /\ busy' = busy \cup {"add"}
    /\ UNCHANGED told

\* Mutant: the row is found by its id alone.
AcceptedById(c, r) == TRUE

\* The request names the tenant of the render and the id of the row: the API
\* finds no row of another tenant, and decides a request only once.
Accepted(c, r) ==
    /\ click[c].of = click[c].as
    /\ click[c].kind = "settle" => ~rows[click[c].of][r] \/ ~page.catchesWrites

\* The handler's catch: the requests that are left go on.
Catch(c, r) ==
    /\ click' = [click EXCEPT ![c].state = "failed", ![c].left = @ \ {r}]
    /\ busy' = Released(c)
    /\ told' = (told \/ page.catchesWrites)

\* After the last write the page is loaded again, for the tenant of the render.
Continue(c, r) ==
    LET last == click[c].left = {r} IN
       /\ click' = [click EXCEPT
                      ![c].left = @ \ {r},
                      ![c].state = IF last /\ @ = "writing" THEN "loading" ELSE @]
       /\ load' = IF last /\ click[c].state = "writing"
                  THEN [load EXCEPT ![c] = Ask(click[c].as)] ELSE load
       /\ told' = (told /\ (page.catches \/ ~page.clears \/ ~last))
       /\ UNCHANGED busy

ApplyWrite(c, r) ==
    /\ r \in click[c].left
    /\ Accepted(c, r)
    /\ rows' = [rows EXCEPT ![click[c].of][r] = click[c].to]
    /\ Continue(c, r)
    /\ UNCHANGED <<page, selected, switches, shown, crossed, others, presses, changes,
                   faults>>

RefuseWrite(c, r) ==
    /\ r \in click[c].left
    /\ ~Accepted(c, r)
    /\ Catch(c, r)
    /\ UNCHANGED <<page, selected, switches, rows, load, shown, crossed, others,
                   presses, changes, faults>>

\* A request fails, or is carried out and its answer lost.
LoseWrite(c, r) ==
    /\ r \in click[c].left
    /\ changes + faults < MaxUpsets
    /\ faults' = faults + 1
    /\ \/ UNCHANGED rows
       \/ Accepted(c, r) /\ rows' = [rows EXCEPT ![click[c].of][r] = click[c].to]
    /\ Catch(c, r)
    /\ UNCHANGED <<page, selected, switches, load, shown, crossed, others, presses,
                   changes>>

EndFailed(c) ==
    /\ click[c].state = "failed" /\ click[c].left = {}
    /\ click' = [click EXCEPT ![c] = NoClick]
    /\ UNCHANGED <<page, selected, switches, rows, load, busy, shown, told, crossed,
                   others, presses, changes, faults>>

ChangeRow(t, r) ==
    /\ changes + faults < MaxUpsets
    /\ changes' = changes + 1
    /\ rows' = [rows EXCEPT ![t][r] = ~@]
    /\ others' = TRUE
    /\ UNCHANGED <<page, selected, switches, load, click, busy, shown, told, crossed,
                   faults, presses>>

PageRests == Quiet /\ UNCHANGED pageVars

PageNext ==
    \/ \E t \in Tenants : SelectTenant(t)
    \/ \E l \in Loaders :
          AnswerLoad(l) \/ FailLoad(l) \/ ShowLoaded(l) \/ ShowLoadError(l)
    \/ \E c \in Clicks : AllowAll(c) \/ EndFailed(c)
    \/ \E c \in Clicks, r \in Rows :
          \/ Toggle(c, r)
          \/ SettleRow(c, r)
          \/ Add(c, r)
          \/ ApplyWrite(c, r)
          \/ RefuseWrite(c, r)
          \/ LoseWrite(c, r)
    \/ \E t \in Tenants, r \in Rows : ChangeRow(t, r)
    \/ PageRests

PageSpec == PageInit /\ [][PageNext]_pageVars

-----------------------------------------------------------------------------
\* Types; a handler loads in the tenant it wrote in; nothing stays disabled when
\* no handler is under way.
PageTypeOK ==
    /\ page \in Pages
    /\ selected \in Tenants
    /\ switches \in Effects
    /\ rows \in [Tenants -> [Rows -> BOOLEAN]]
    /\ \A l \in Loaders :
          load[l].state \in {"idle", "asked", "answered", "failed", "lost"}
    /\ \A l \in Clicks :
          load[l].state # "idle" =>
             click[l].state = "loading" /\ load[l].of = click[l].as
    /\ \A c \in Clicks : click[c].state \in {"idle", "writing", "loading", "failed"}
    /\ busy \subseteq Rows \cup {"all", "add"}
    /\ (\A c \in Clicks : click[c].state = "idle") => busy = {}
    /\ shown.of \in Tenants \cup {Nowhere}

\* Once the load of the selected tenant has succeeded, the page shows rows of
\* that tenant: on a guarded page whatever else is answered and when, on the
\* others unless activities overlapped.
ShownIsSelected ==
    load[switches].state = "idle" =>
        \/ shown.of = selected
        \/ ~page.guarded /\ crossed

\* When nothing is under way, what is shown is what is stored, or an error is
\* shown, or others changed it, or activities of the page overlapped: no write
\* that failed half way, and no answer that was lost, passes silently. A
\* notification marked as read is the exception, its failure is not caught.
QuietIsCurrent ==
    Quiet /\ ~told /\ ~crossed /\ ~others /\ page.catchesWrites =>
        shown.rows = rows[selected]

\* What a handler does to the rows it does to rows of the tenant that was
\* selected when the button was pressed, also when the page showed another's.
OwnTenantOnly ==
    [][\A t \in Tenants :
          rows'[t] # rows[t] =>
             \/ changes' # changes
             \/ \E c \in Clicks : click[c].as = t /\ click[c].left # {}]_pageVars

-----------------------------------------------------------------------------
\* Of a page that lists: it shows rows of the selected tenant, shows what is
\* stored once it is quiet, and changes rows of no other tenant.
ListRules ==
    /\ [](/\ PageTypeOK
         /\ ShownIsSelected
         /\ QuietIsCurrent)
    /\ OwnTenantOnly
=============================================================================
