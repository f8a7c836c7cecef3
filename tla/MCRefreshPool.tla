---------------------------- MODULE MCRefreshPool ----------------------------
(* Instances of RefreshPool for TLC: two processes that share one secret, so *)
(* that waiting for a row and waiting for a connection can chain.            *)
EXTENDS RefreshPool

CONSTANTS p1, p2, r1, r2, r3, q1, s1, s2

MCProcOf   == [x \in Requests |-> IF x = r3 THEN p2 ELSE p1]
MCSecretOf == [x \in Refreshes |-> IF x = r2 THEN s2 ELSE s1]
=============================================================================
