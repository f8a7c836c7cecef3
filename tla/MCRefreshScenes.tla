--------------------------- MODULE MCRefreshScenes ---------------------------
(* Two instances of OAuthRefresh in one run.  In the scene "user" the user    *)
(* reconnects, deletes the credential and connects again; in the scene        *)
(* "faults" processes crash, connections are lost, writes fail or stay        *)
(* unanswered, for every kind of stored secret; only there does the provider  *)
(* reject the client, or its answer get lost.  Two processes, one of which    *)
(* can serve two requests, so that both the in-process and the database       *)
(* serialisation act.                                                         *)
EXTENDS OAuthRefresh, TLC

CONSTANTS p1, p2, c1, c2, c3

MCProcOf == [c \in Callers |-> IF c = c3 THEN p2 ELSE p1]

\* Two callers, alone in their processes, are interchangeable together with
\* the processes, which no variable mentions.
Symmetric == Permutations(Callers)

VARIABLE scene

ScenesInit ==
    /\ Init
    /\ scene \in {"user", "faults"}
    /\ scene = "user" => row.kind = "refreshable" /\ life[row.at] = "near"

ScenesNext ==
    /\ Next
    /\ UNCHANGED scene
    /\ \/ /\ scene = "user" /\ faults' = 0
          /\ ~\E c \in Callers : InvalidClient(c) \/ ReplyLost(c)
       \/ scene = "faults" /\ grants' = 1 /\ rows' = 1

ScenesSpec == ScenesInit /\ [][ScenesNext]_<<vars, scene>>
=============================================================================
