------------------------------ MODULE EditPage ------------------------------
(***************************************************************************)
(* A page of the web application that shows one subject and edits it: the  *)
(* agent or connection the route names, the role being edited, the         *)
(* settings of the selected tenant.  Another subject comes with another    *)
(* tenant or a jump in the browser's history, both of which keep the       *)
(* component mounted; an agent or connection is nowhere when the other     *)
(* tenant is selected.  The pages differ in what fills the form, in what   *)
(* is hidden while a load is under way, and in whether a write goes to the *)
(* subject of the route or to the one that is shown.                       *)
(***************************************************************************)
EXTENDS FiniteSets, Integers

CONSTANTS
    Subjects,       \* what may be edited
    Presses,        \* handlers under way at once
    MaxMoves,       \* bound on changes of the subject
    MaxTyped,       \* bound on edits of the form
    MaxEditFaults   \* bound on failed requests

ASSUME EditPageAssumption ==
    /\ {MaxMoves, MaxTyped, MaxEditFaults} \subseteq Nat
    /\ {"none", "elsewhere"} \cap Subjects = {}
    /\ Presses \cap (0..MaxMoves) = {}

VARIABLES
    form,           \* the page that is open
    route,          \* the subject the URL and the tenant name
    moves,          \* changes of the subject: the number of the current effect
    stored,         \* subject -> its settings, in the database
    fetch,          \* effect or handler -> its load
    press,          \* handler -> a save or another action
    view,           \* the subject in the page's state, None before the first load
    draft,          \* the fields of the form
    typed,          \* edits so far
    failures,       \* failed requests so far
    overlapped,     \* history: the subject changed while something was under way
    missed          \* history: a load failed

editVars == <<form, route, moves, stored, fetch, press, view, draft, typed, failures,
              overlapped, missed>>

Runs == 0..MaxMoves
Fetchers == Runs \cup Presses
None == "none"
Elsewhere == "elsewhere"

\* Settings: the subject they were first entered for, and the edit they are from.
Settings == [from : Subjects, edit : 0..MaxTyped]
Unset == [from |-> None, edit |-> 0]
NoFetch == [state |-> "idle", of |-> None, value |-> Unset]
NoPress == [state |-> "idle", kind |-> None, at |-> None, to |-> None, saw |-> None,
            calm |-> TRUE, value |-> Unset]

-----------------------------------------------------------------------------
(***************************************************************************)
(* What fills the form: every "load"; "mount", the first settings there    *)
(* are; "keyed", the settings of a subject when it comes to be shown;      *)
(* "merge", the fields of a load that are set.                             *)
(***************************************************************************)
AgentDetailPage ==
    [fills |-> "load", hides |-> TRUE, guarded |-> FALSE, saves |-> "route",
     acts |-> {"route"}, strays |-> TRUE]
ConnectionDetailPage ==
    [fills |-> "none", hides |-> FALSE, guarded |-> FALSE, saves |-> "never",
     acts |-> {"route", "shown"}, strays |-> TRUE]
SsoForm ==
    [fills |-> "mount", hides |-> FALSE, guarded |-> FALSE, saves |-> "route",
     acts |-> {}, strays |-> FALSE]
ChatSettingsForm ==
    [fills |-> "merge", hides |-> FALSE, guarded |-> TRUE, saves |-> "route",
     acts |-> {}, strays |-> FALSE]
EditRoleForm ==
    [fills |-> "keyed", hides |-> FALSE, guarded |-> FALSE, saves |-> "shown",
     acts |-> {}, strays |-> FALSE]

Forms == {AgentDetailPage, ConnectionDetailPage, SsoForm, ChatSettingsForm,
          EditRoleForm}

-----------------------------------------------------------------------------
Fetch(s) == [NoFetch EXCEPT !.state = "asked", !.of = s]

EditInit ==
    /\ form \in Forms
    /\ route \in Subjects
    /\ moves = 0
    /\ stored \in [Subjects -> Settings \cup {Unset}]
    /\ \A s \in Subjects :
          \/ stored[s] = [from |-> s, edit |-> 0]
          \/ form.fills = "merge" /\ stored[s] = Unset
    /\ fetch = [f \in Fetchers |-> IF f = 0 THEN Fetch(route) ELSE NoFetch]
    /\ press = [p \in Presses |-> NoPress]
    /\ view = None
    /\ draft = Unset
    /\ typed = 0
    /\ failures = 0
    /\ overlapped = FALSE
    /\ missed = FALSE

Waiting == fetch[moves].state # "idle"

Calm ==
    /\ \A f \in Fetchers : fetch[f].state = "idle"
    /\ \A p \in Presses : press[p].state = "idle"

\* The fields can be seen.
Visible == view # None /\ (form.hides => ~Waiting)

-----------------------------------------------------------------------------
\* Another route or tenant: the effect runs again, nothing is reset. A role is
\* opened from the list of roles.
MoveTo(s) ==
    /\ moves < MaxMoves
    /\ IF form.fills = "keyed" THEN view = None ELSE s # route
    /\ s = Elsewhere => form.strays
    /\ route' = s
    /\ moves' = moves + 1
    /\ fetch' = [fetch EXCEPT ![moves + 1] = Fetch(s)]
    /\ overlapped' = (overlapped \/ ~Calm)
    /\ UNCHANGED <<form, stored, press, view, draft, typed, failures, missed>>

AnswerFetch(f) ==
    /\ fetch[f].state = "asked" /\ fetch[f].of # Elsewhere
    /\ fetch' = [fetch EXCEPT ![f].state = "answered", ![f].value = stored[fetch[f].of]]
    /\ UNCHANGED <<form, route, moves, stored, press, view, draft, typed, failures,
                   overlapped, missed>>

\* A load fails, or there is no such subject in the tenant: what was shown stays.
FailFetch(f) ==
    /\ fetch[f].state = "asked"
    /\ IF fetch[f].of = Elsewhere
       THEN UNCHANGED <<failures, missed>>
       ELSE /\ failures < MaxEditFaults
            /\ failures' = failures + 1
            /\ missed' = TRUE
    /\ fetch' = [fetch EXCEPT ![f] = NoFetch]
    /\ press' = IF f \in Presses THEN [press EXCEPT ![f] = NoPress] ELSE press
    /\ UNCHANGED <<form, route, moves, stored, view, draft, typed, overlapped>>

\* The form after the settings of a subject have arrived.
Filled(of, value) ==
    CASE form.fills = "load"  -> value
      [] form.fills = "merge" -> IF value = Unset THEN draft ELSE value
      [] form.fills = "mount" -> IF view = None THEN value ELSE draft
      [] form.fills = "keyed" -> IF view # of THEN value ELSE draft
      [] form.fills = "none"  -> Unset

ShowFetched(f) ==
    LET dropped == form.guarded /\ f \in Runs /\ f # moves IN
       /\ fetch[f].state = "answered"
       /\ fetch' = [fetch EXCEPT ![f] = NoFetch]
       /\ press' = IF f \in Presses THEN [press EXCEPT ![f] = NoPress] ELSE press
       /\ view' = IF dropped THEN view ELSE fetch[f].of
       /\ draft' = IF dropped THEN draft ELSE Filled(fetch[f].of, fetch[f].value)
       /\ UNCHANGED <<form, route, moves, stored, typed, failures, overlapped, missed>>

Type ==
    /\ Visible /\ form.saves # "never"
    /\ typed < MaxTyped
    /\ typed' = typed + 1
    /\ draft' = [from |-> IF draft = Unset THEN view ELSE draft.from,
                 edit |-> typed + 1]
    /\ UNCHANGED <<form, route, moves, stored, fetch, press, view, failures, overlapped,
                   missed>>

-----------------------------------------------------------------------------
Start(p, kind, to, value) ==
    /\ Visible
    /\ press[p].state = "idle"
    /\ press' = [press EXCEPT ![p] =
                   [state |-> "writing", kind |-> kind, at |-> route, to |-> to,
                    saw |-> view, calm |-> ~Waiting, value |-> value]]
    /\ UNCHANGED <<form, route, moves, stored, fetch, view, draft, typed, failures,
                   overlapped, missed>>

\* onSaveSettings, onSubmit: the button is disabled while a save is under way.
Save(p) ==
    /\ form.saves # "never" /\ draft # Unset
    /\ \A q \in Presses : press[q].kind # "save"
    /\ Start(p, "save", IF form.saves = "route" THEN route ELSE view, draft)

\* onMint, onToggleTool, onApproveKnock and others that name the route's subject;
\* onSetStatus, onAttachRole and others that name the one that is shown.
Act(p, way) ==
    /\ way \in form.acts
    /\ Start(p, "act", IF way = "route" THEN route ELSE view, Unset)

\* Mutant: what is typed while a save is under way is replaced by its answer.
ApplySaveAndFill(p) ==
    /\ press[p].state = "writing" /\ press[p].kind = "save"
    /\ press[p].at # Elsewhere
    /\ stored' = [stored EXCEPT ![press[p].to] = press[p].value]
    /\ view' = press[p].to
    /\ draft' = press[p].value
    /\ press' = [press EXCEPT ![p] = NoPress]
    /\ UNCHANGED <<form, route, moves, fetch, typed, failures, overlapped, missed>>

\* The answer of a save becomes what is shown, and the fields are left as they
\* are; the dialog of a role is closed.
ApplySave(p) ==
    /\ press[p].state = "writing" /\ press[p].kind = "save"
    /\ press[p].at # Elsewhere
    /\ stored' = [stored EXCEPT ![press[p].to] = press[p].value]
    /\ IF form.fills = "keyed"
       THEN view' = None /\ draft' = Unset
       ELSE view' = press[p].to /\ UNCHANGED draft
    /\ press' = [press EXCEPT ![p] = NoPress]
    /\ UNCHANGED <<form, route, moves, fetch, typed, failures, overlapped, missed>>

\* After another action the page loads the subject of the route at the press.
ApplyAct(p) ==
    /\ press[p].state = "writing" /\ press[p].kind = "act"
    /\ press[p].at # Elsewhere
    /\ press' = [press EXCEPT ![p].state = "loading"]
    /\ fetch' = [fetch EXCEPT ![p] = Fetch(press[p].at)]
    /\ UNCHANGED <<form, route, moves, stored, view, draft, typed, failures, overlapped,
                   missed>>

RefusePress(p) ==
    /\ press[p].state = "writing"
    /\ IF press[p].at = Elsewhere
       THEN UNCHANGED failures
       ELSE failures < MaxEditFaults /\ failures' = failures + 1
    /\ press' = [press EXCEPT ![p] = NoPress]
    /\ UNCHANGED <<form, route, moves, stored, fetch, view, draft, typed, overlapped,
                   missed>>

EditRests == Calm /\ UNCHANGED editVars

EditNext ==
    \/ \E s \in Subjects \cup {Elsewhere} : MoveTo(s)
    \/ \E f \in Fetchers : AnswerFetch(f) \/ FailFetch(f) \/ ShowFetched(f)
    \/ Type
    \/ \E p \in Presses : Save(p) \/ ApplySave(p) \/ ApplyAct(p) \/ RefusePress(p)
    \/ \E p \in Presses, way \in {"route", "shown"} : Act(p, way)
    \/ EditRests

EditSpec == EditInit /\ [][EditNext]_editVars

-----------------------------------------------------------------------------
\* Types; a form that fills on every load holds settings as soon as it is shown.
EditTypeOK ==
    /\ form \in Forms
    /\ route \in Subjects \cup {Elsewhere}
    /\ moves \in Runs
    /\ stored \in [Subjects -> Settings \cup {Unset}]
    /\ \A f \in Fetchers : fetch[f].state \in {"idle", "asked", "answered"}
    /\ \A p \in Presses : fetch[p].state # "idle" => press[p].state = "loading"
    /\ view \in Subjects \cup {None}
    /\ draft \in Settings \cup {Unset}
    /\ form.fills \in {"load", "mount", "keyed"} /\ view # None => draft # Unset
    /\ typed \in 0..MaxTyped
    /\ failures \in 0..MaxEditFaults

\* Settings that were entered for one subject are not saved to another. The
\* agent's page hides its form while it loads; only a load that fails, or an
\* answer for the former subject that comes late, leaves the former's settings
\* in it. A role is saved under its own id whatever happens. The SSO and chat
\* forms stay filled when the tenant changes.
SavedWhereLoaded ==
    \A s \in Subjects :
       \/ stored[s].from \in {s, None}
       \/ form = AgentDetailPage /\ (overlapped \/ missed)
       \/ form \in {SsoForm, ChatSettingsForm} /\ moves > 0

\* An action on a connection or agent is carried out for the one that was shown
\* when the button was pressed, or refused, unless it names the route's and that
\* one was not loaded yet, could not be, or was overtaken by another's answer.
ActsOnShown ==
    \A p \in Presses :
       press[p].kind = "act" =>
          \/ press[p].to \in {press[p].saw, Elsewhere}
          \/ ~press[p].calm \/ overlapped \/ missed

\* What the user has typed is replaced by further typing or by a load, and not
\* by the answer of a save; in a form that is mounted or keyed, only when another
\* subject is shown.
TypedIsKept ==
    [][draft' # draft =>
          \/ typed' # typed
          \/ view = None \/ view' # view
          \/ form.fills \in {"load", "merge"}
                /\ \E f \in Fetchers :
                      fetch[f].state = "answered" /\ fetch'[f].state = "idle"
      ]_editVars

-----------------------------------------------------------------------------
\* Of a page that edits: settings are saved where they were loaded, buttons act
\* on what is shown, and what was typed is kept.
EditRules ==
    /\ [](/\ EditTypeOK
         /\ SavedWhereLoaded
         /\ ActsOnShown)
    /\ TypedIsKept
=============================================================================
