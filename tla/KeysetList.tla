----------------------------- MODULE KeysetList -----------------------------
(***************************************************************************)
(* The paginated lists of the API.  A client reads a list page by page,    *)
(* newest row first, and sends back the cursor of the last page; rows are  *)
(* inserted and deleted meanwhile.                                         *)
(*                                                                         *)
(* PostgreSQL keeps created_at to the microsecond.  The driver hands it to *)
(* the API as a JavaScript Date and the cursor carries it as an ISO        *)
(* string: both keep the millisecond only.                                 *)
(***************************************************************************)
EXTENDS Integers, FiniteSets

CONSTANTS
    RowIds,         \* ids of rows: numbers, compared as the database does
    MaxTime,        \* bound: microseconds that pass
    PerMilli,       \* microseconds in a millisecond
    Limit,          \* the page size asked for
    MaxDeletes      \* bound: rows deleted

ASSUME KeysetAssumption ==
    /\ RowIds \subseteq Nat
    /\ MaxTime \in Nat
    /\ PerMilli \in Nat \ {0}
    /\ Limit \in Nat \ {0}
    /\ MaxDeletes \in Nat

VARIABLES
    rows,           \* the table
    clock,          \* the database's now()
    listing,        \* the client's reading of the list, with its history
    deletes         \* rows deleted so far

keysetVars == <<rows, clock, listing, deletes>>

\* What the filters compare: the team of a user, the owner of a client, the
\* server of a tool or secret, the outcome of an audit event.
Groups == {"ours", "theirs", "none"}

ListRow == [id : RowIds, at : 0..MaxTime, group : Groups]

Lists == {"servers", "roles", "users", "connections", "clients", "tools",
          "secrets", "audit"}

\* A list, and whether the actor or the query narrows it to one group.
ListQuery == {q \in [list : Lists, narrow : BOOLEAN] :
                 q.narrow => q.list \notin {"servers", "roles"}}

Beginning == [at |-> -1, id |-> -1]
Cursor    == {Beginning} \cup [at : 0..MaxTime, id : RowIds]

\* When a reading ends, only the rows it missed are kept.
Closed(missed, again) ==
    [query |-> [list |-> "servers", narrow |-> FALSE], cursor |-> Beginning,
     ended |-> {}, seen |-> {}, steady |-> missed, again |-> again,
     state |-> "closed"]

KeysetInit ==
    /\ rows = {}
    /\ clock = 0
    /\ listing = Closed({}, FALSE)
    /\ deletes = 0

Ours(q) == {r \in rows : q.narrow => r.group = "ours"}

ListServers(q)     == rows
ListRoles(q)       == rows
ListUsers(q)       == Ours(q)
ListConnections(q) == Ours(q)
ListTools(q)       == Ours(q)
ListSecrets(q)     == Ours(q)
ListAudit(q)       == Ours(q)

\* A member sees its own clients and those nobody owns.
ListClients(q) == {r \in rows : q.narrow => r.group \in {"ours", "none"}}

Selected(q) ==
    CASE q.list = "servers"     -> ListServers(q)
      [] q.list = "roles"       -> ListRoles(q)
      [] q.list = "users"       -> ListUsers(q)
      [] q.list = "connections" -> ListConnections(q)
      [] q.list = "clients"     -> ListClients(q)
      [] q.list = "tools"       -> ListTools(q)
      [] q.list = "secrets"     -> ListSecrets(q)
      [] q.list = "audit"       -> ListAudit(q)

Millis(t) == (t \div PerMilli) * PerMilli

\* Mutant: the cursor keeps a coarser unit than the millisecond.
EncodeCoarsely(r) == [at |-> 0, id |-> r.id]

EncodeCursor(r) == [at |-> Millis(r.at), id |-> r.id]

AfterCursor(c, r) == c = Beginning \/ r.at < c.at \/ (r.at = c.at /\ r.id < c.id)

\* createdAt DESC, id DESC.
Precedes(r, s) == r.at > s.at \/ (r.at = s.at /\ r.id > s.id)

\* At most n rows of R, the first in the list's order.
Front(R, n) == {r \in R : Cardinality({s \in R : Precedes(s, r)}) < n}

Last(R) == CHOOSE r \in R : \A s \in R : s = r \/ Precedes(s, r)

-----------------------------------------------------------------------------
OpenList(q) ==
    /\ listing.state = "closed"
    /\ listing' = [query |-> q, cursor |-> Beginning, ended |-> {}, seen |-> {},
                   steady |-> {r.id : r \in Selected(q)}, again |-> FALSE,
                   state |-> "open"]
    /\ UNCHANGED <<rows, clock, deletes>>

\* limit + 1 rows are read; the one too many only tells that there is more.
ReadPage ==
    LET found == {r \in Selected(listing.query) : AfterCursor(listing.cursor, r)}
        fetched == Front(found, Limit + 1)
        items == Front(fetched, Limit)
        ids == {r.id : r \in items}
        again == ids \cap listing.seen # {}
    IN  /\ listing.state = "open"
        /\ listing' =
              IF fetched = items THEN Closed(listing.steady \ (listing.seen \cup ids), again)
              ELSE [listing EXCEPT !.seen = @ \cup ids,
                                   !.cursor = EncodeCursor(Last(items)),
                                   !.ended = @ \cup {Millis(Last(items).at)},
                                   !.again = again]
        /\ UNCHANGED <<rows, clock, deletes>>

CreateRow(id, g) ==
    /\ id \notin {r.id : r \in rows}
    /\ id \notin listing.seen
    /\ rows' = rows \cup {[id |-> id, at |-> clock, group |-> g]}
    /\ UNCHANGED <<clock, listing, deletes>>

DeleteRow(r) ==
    /\ deletes < MaxDeletes
    /\ deletes' = deletes + 1
    /\ rows' = rows \ {r}
    /\ listing' = [listing EXCEPT !.steady = @ \ {r.id}]
    /\ UNCHANGED clock

PassTime ==
    /\ clock < MaxTime
    /\ clock' = clock + 1
    /\ UNCHANGED <<rows, listing, deletes>>

KeysetNext ==
    \/ \E q \in ListQuery : OpenList(q)
    \/ ReadPage
    \/ \E id \in RowIds, g \in Groups : CreateRow(id, g)
    \/ \E r \in rows : DeleteRow(r)
    \/ PassTime

KeysetSpec == KeysetInit /\ [][KeysetNext]_keysetVars

-----------------------------------------------------------------------------
\* Types, and the ids of the table are unique.
KeysetTypeOK ==
    /\ rows \subseteq ListRow
    /\ \A r, s \in rows : r.id = s.id => r = s
    /\ clock \in 0..MaxTime
    /\ listing.query \in ListQuery
    /\ listing.cursor \in Cursor
    /\ listing.ended \subseteq 0..MaxTime
    /\ listing.seen \subseteq RowIds
    /\ listing.steady \subseteq RowIds
    /\ listing.again \in BOOLEAN
    /\ listing.state \in {"open", "closed"}
    /\ deletes \in 0..MaxDeletes

\* No row is returned on two pages, whatever is inserted and deleted meanwhile:
\* a page starts after the last one ended, although the cursor forgets the
\* microseconds.
NoRowTwice == ~listing.again

\* pagination.ts:35 calls the cursor a "Stable keyset cursor for createdAt DESC,
\* id DESC lists": a row that is in the list from its first page to its last is
\* on one of its pages.
EveryRowListed == listing.state = "closed" => listing.steady = {}

\* The only rows the pages pass over were created in the very millisecond of a
\* row that one of them ends with: the cursor cannot tell them apart.
OnlyTiesPassedOver ==
    listing.state = "open" =>
        \A r \in rows :
           r.id \in listing.steady \ listing.seen /\ ~AfterCursor(listing.cursor, r) =>
              Millis(r.at) \in listing.ended

-----------------------------------------------------------------------------
\* Of paged lists: no row is on two pages, and only rows of one millisecond
\* with the last of a page are on none.
KeysetRules ==
    /\ KeysetTypeOK
    /\ NoRowTwice
    /\ OnlyTiesPassedOver
=============================================================================
