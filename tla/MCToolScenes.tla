---------------------------- MODULE MCToolScenes ----------------------------
(* Two instances of ToolCall in one run.  In the scene "faults" gateways in   *)
(* two processes call an MCP server with an expired token, and there is a     *)
(* crash, a lost connection, a failed write or a timeout.  In the scene       *)
(* "routes" two requests of one gateway call an MCP and an HTTP server with a *)
(* bare or a refreshable token near its end, consent may be withdrawn and the *)
(* provider may reject the client; there each request makes one call.         *)
EXTENDS ToolCall, TLC

CONSTANTS p1, p2, c1, c2, c3

MCProcOf == [c \in Callers |-> IF c = c3 THEN p2 ELSE p1]

VARIABLE scene

sceneVars == <<allVars, scene>>

Cast == IF scene = "faults" THEN {c1, c3} ELSE {c1, c2}

ToolScenesInit ==
    /\ ToolInit
    /\ scene \in {"faults", "routes"}
    /\ scene = "faults" => row.kind = "refreshable" /\ life[row.at] = "expired"
    /\ scene = "routes" => life[row.at] = "near"

Served ==
    /\ scene = "routes"
    /\ \A c \in Cast : stage[c] = "answered"
    /\ UNCHANGED sceneVars

SceneNext ==
    /\ ToolNext
    /\ UNCHANGED scene
    /\ (\E g \in 1..MaxGrants : RevokeGrant(g)) \/ (\E c \in Callers : InvalidClient(c)) =>
          scene = "routes"
    /\ scene = "routes" => faults' = 0 /\ \A t \in Tokens \ {1} : ~Age(t)
    /\ scene = "routes" =>
          \A c \in Callers : stage[c] = "answered" => stage'[c] = "answered"
    /\ \A c \in Callers :
          stage'[c] # "idle" =>
             c \in Cast /\ route'[c] = IF c = c2 THEN "http" ELSE "mcp"

ToolScenesNext == SceneNext \/ Served

\* FairToolSpec of the scene at hand.
ToolScenesSpec ==
    /\ ToolScenesInit
    /\ [][ToolScenesNext]_sceneVars
    /\ Fairness
    /\ \A c \in Callers :
          WF_allVars(Continue(c)) /\ WF_allVars(UpstreamAnswers(c))
=============================================================================
