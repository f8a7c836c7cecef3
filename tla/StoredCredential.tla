-------------------------- MODULE StoredCredential --------------------------
(***************************************************************************)
(* What the refresh of a stored credential promises: a refresh is an       *)
(* exclusive read-modify-write of the secrets row.  While one is under way *)
(* nobody else rewrites or removes the row; it ends by storing a newer     *)
(* token of the grant it read, or without a trace.  In between, the user   *)
(* may replace the credential by one of a later grant, remove it, or       *)
(* connect again.  Nothing here knows of processes, callers or tokens in   *)
(* flight.                                                                 *)
(***************************************************************************)
EXTENDS Integers

CONSTANTS
    Credential,     \* records with at least id, grant and at
    Nothing         \* no credential

VARIABLES
    stored,         \* the credential in the secrets row
    refreshing      \* the credential an exclusive refresh has read

vars == <<stored, refreshing>>

Init ==
    /\ stored \in Credential
    /\ refreshing = Nothing

BeginRefresh ==
    /\ refreshing = Nothing
    /\ stored # Nothing
    /\ refreshing' = stored
    /\ UNCHANGED stored

\* The new pair replaces exactly the credential the refresh has read.
CompleteRefresh ==
    /\ refreshing # Nothing
    /\ stored = refreshing
    /\ stored' \in Credential
    /\ stored'.id = stored.id
    /\ stored'.grant = stored.grant
    /\ stored'.at > stored.at
    /\ refreshing' = Nothing

AbandonRefresh ==
    /\ refreshing # Nothing
    /\ refreshing' = Nothing
    /\ UNCHANGED stored

Replace ==
    /\ refreshing = Nothing
    /\ stored # Nothing
    /\ stored' \in Credential
    /\ stored'.id = stored.id
    /\ stored'.grant > stored.grant
    /\ UNCHANGED refreshing

Remove ==
    /\ refreshing = Nothing
    /\ stored # Nothing
    /\ stored' = Nothing
    /\ UNCHANGED refreshing

Insert ==
    /\ refreshing = Nothing
    /\ stored = Nothing
    /\ stored' \in Credential
    /\ UNCHANGED refreshing

Next == BeginRefresh \/ CompleteRefresh \/ AbandonRefresh
            \/ Replace \/ Remove \/ Insert

Spec == Init /\ [][Next]_vars
=============================================================================
