------------------------------ MODULE SessionHub ------------------------------
(***************************************************************************)
(* The MCP sessions of the command-line gateway                            *)
(* (apps/cli/src/lib/mcp/sessionHub.ts, createPersonalMcpServer.ts): each  *)
(* offers the tools of the servers in config.yaml that are not disabled,   *)
(* and a watcher on the file has them follow its changes.  One process;    *)
(* steps are what runs between two awaits.                                 *)
(*                                                                         *)
(* The file has one server, known by its base URL, with one tool.          *)
(***************************************************************************)
EXTENDS Integers, FiniteSets

CONSTANTS
    Sessions,       \* sessions that clients open
    MaxHubEvents    \* bound: changes of the file, files that cannot be read
                    \* and upstreams that are down; and refreshes at once

ASSUME HubAssumption == IsFiniteSet(Sessions) /\ MaxHubEvents \in Nat \ {0}

VARIABLES
    file,           \* config.yaml
    lastSeen,       \* lastFingerprint
    timer,          \* the debounce of the watcher is armed
    session,        \* per session, from its initialize on
    refresh,        \* runs of refreshSessions
    startup,        \* the load of the file that sets the first fingerprint
    events          \* edits and faults so far

hubVars == <<file, lastSeen, timer, session, refresh, startup, events>>

Urls == 1..2

Configs == [url : Urls, off : BOOLEAN]

\* toolPolicyFingerprint: URLs and disabled tools, but not the auth method.
Fingerprint(c) == c

NoConfig == [url |-> 0, off |-> FALSE]

\* What is registered: the tool of a URL, enabled or not.
NoTool == [url |-> 0, on |-> FALSE]

ToolOf(c) == [url |-> c.url, on |-> ~c.off]

\* config: the one last read for this session; crossed is history.
NoSession == [pc |-> "none", config |-> NoConfig, tool |-> NoTool, topology |-> 0,
              crossed |-> FALSE]

IdleRefresh == [pc |-> "idle", config |-> NoConfig, done |-> {}, on |-> "none"]

Reruns == 1..MaxHubEvents

HubInit ==
    /\ file = [url |-> 1, off |-> FALSE]
    /\ lastSeen = NoConfig
    /\ timer = FALSE
    /\ session = [s \in Sessions |-> NoSession]
    /\ refresh = [r \in Reruns |-> IdleRefresh]
    /\ startup = [pc |-> "read", config |-> NoConfig]
    /\ events = 0

Live(s) == session[s].pc = "live"

Opening(s) == session[s].pc \in {"seen", "discover"}

Applying(r) == refresh[r].pc \in {"apply", "discover"}

Event == events < MaxHubEvents /\ events' = events + 1

\* Those that follow, or are just told to follow, another configuration than c.
Crossed(c) ==
    [s \in Sessions |->
       [session[s] EXCEPT !.crossed =
           @ \/ /\ Live(s) \/ Opening(s)
                /\ \/ session[s].config # c
                   \/ \E r \in Reruns : Applying(r) /\ refresh[r].config # c]]

-----------------------------------------------------------------------------
\* jackline add, tools enable or disable; the watcher arms its timer anew.
EditFile(c) ==
    /\ Event
    /\ c # file
    /\ file' = c
    /\ timer' = TRUE
    /\ UNCHANGED <<lastSeen, session, refresh, startup>>

\* createSessionHub loads the file, and takes its fingerprint when that is done.
ReadAtStartup ==
    /\ startup.pc = "read"
    /\ startup' = [pc |-> "seen", config |-> file]
    /\ UNCHANGED <<file, lastSeen, timer, session, refresh, events>>

SeeAtStartup ==
    /\ startup.pc = "seen"
    /\ lastSeen' = Fingerprint(startup.config)
    /\ startup' = [pc |-> "done", config |-> NoConfig]
    /\ session' = Crossed(startup.config)
    /\ UNCHANGED <<file, timer, refresh, events>>

-----------------------------------------------------------------------------
(* handleInitialize                                                         *)

ReadForSession(s) ==
    /\ session[s] = NoSession
    /\ session' = [session EXCEPT ![s] = [NoSession EXCEPT !.pc = "seen", !.config = file]]
    /\ UNCHANGED <<file, lastSeen, timer, refresh, startup, events>>

\* The fingerprint is the new session's, whatever the others follow.
SeeForSession(s) ==
    /\ session[s].pc = "seen"
    /\ lastSeen' = Fingerprint(session[s].config)
    /\ session' = [Crossed(session[s].config) EXCEPT ![s].pc = "discover"]
    /\ UNCHANGED <<file, timer, refresh, startup, events>>

\* discover registers the upstream's tool, or skips an upstream that is down;
\* it is not tried again.  What follows until the session is among those told
\* of changes waits for nothing.
Registered(s, c, up) ==
    [session[s] EXCEPT !.tool = IF up /\ @ = NoTool THEN ToolOf(c) ELSE @,
                       !.topology = c.url,
                       !.config = c,
                       !.crossed = @ \/ ~up]

Register(s, c, up) == session' = [session EXCEPT ![s] = Registered(s, c, up)]

Serve(s, up) ==
    session' = [session EXCEPT ![s] =
                  [Registered(s, session[s].config, up) EXCEPT !.pc = "live"]]

DiscoverForSession(s) ==
    /\ session[s].pc = "discover"
    /\ \/ Serve(s, TRUE) /\ UNCHANGED events
       \/ Serve(s, FALSE) /\ Event
    /\ UNCHANGED <<file, lastSeen, timer, refresh, startup>>

CloseSession(s) ==
    /\ Live(s)
    /\ session' = [session EXCEPT ![s] = [NoSession EXCEPT !.pc = "closed"]]
    /\ UNCHANGED <<file, lastSeen, timer, refresh, startup, events>>

-----------------------------------------------------------------------------
(* refreshSessions                                                          *)

\* Assumed: the file is read within the 250 ms of the next debounce.
FireTimer(r) ==
    /\ timer
    /\ \A q \in Reruns : refresh[q].pc \notin {"read", "compare"}
    /\ timer' = FALSE
    /\ refresh[r] = IdleRefresh
    /\ \A q \in Reruns : q < r => refresh[q] # IdleRefresh
    /\ refresh' = [refresh EXCEPT ![r].pc = "read"]
    /\ UNCHANGED <<file, lastSeen, session, startup, events>>

\* A file that cannot be read ends the refresh.
ReadForRefresh(r) ==
    /\ refresh[r].pc = "read"
    /\ \/ /\ refresh' = [refresh EXCEPT ![r] = [@ EXCEPT !.pc = "compare", !.config = file]]
          /\ UNCHANGED <<session, events>>
       \/ /\ Event
          /\ refresh' = [refresh EXCEPT ![r] = IdleRefresh]
          /\ session' = [s \in Sessions |-> [session[s] EXCEPT !.crossed = @ \/ Live(s) \/ Opening(s)]]
    /\ UNCHANGED <<file, lastSeen, timer, startup>>

\* Mutant: only a change of the servers counts.
CompareTopology(r) ==
    /\ refresh[r].pc = "compare"
    /\ LET c == refresh[r].config
       IN  /\ lastSeen' = c
           /\ refresh' = [refresh EXCEPT ![r] = IF c.url = lastSeen.url THEN IdleRefresh
                                                 ELSE [@ EXCEPT !.pc = "apply"]]
           /\ session' = [s \in Sessions |->
                            IF Opening(s) \/ \E q \in Reruns : Applying(q)
                            THEN Crossed(c)[s] ELSE session[s]]
    /\ UNCHANGED <<file, timer, startup, events>>

\* The same fingerprint: nobody is told.  Sessions that are opening are not
\* among those told, and refreshes may overlap.
CompareFingerprint(r) ==
    /\ refresh[r].pc = "compare"
    /\ LET c == refresh[r].config
       IN  /\ lastSeen' = Fingerprint(c)
           /\ refresh' = [refresh EXCEPT ![r] = IF Fingerprint(c) = lastSeen THEN IdleRefresh
                                                 ELSE [@ EXCEPT !.pc = "apply"]]
           /\ session' = [s \in Sessions |->
                            IF Opening(s) \/ \E q \in Reruns : Applying(q)
                            THEN Crossed(c)[s] ELSE session[s]]
    /\ UNCHANGED <<file, timer, startup, events>>

\* applyServers for one session after the other: the same topology changes the
\* policy only, another one forgets all tools and discovers them anew.
ApplyToSession(r, s) ==
    /\ refresh[r].pc = "apply"
    /\ Live(s)
    /\ s \notin refresh[r].done
    /\ LET c == refresh[r].config
       IN  IF session[s].topology = c.url
           THEN /\ session' = [session EXCEPT ![s] =
                      [@ EXCEPT !.config = c,
                                !.tool = IF session[s].tool = NoTool THEN NoTool ELSE ToolOf(c)]]
                /\ refresh' = [refresh EXCEPT ![r].done = @ \cup {s}]
           ELSE /\ session' = [session EXCEPT ![s].tool = NoTool]
                /\ refresh' = [refresh EXCEPT ![r] = [@ EXCEPT !.pc = "discover", !.on = s]]
    /\ UNCHANGED <<file, lastSeen, timer, startup, events>>

DiscoverForRefresh(r) ==
    LET s == refresh[r].on
        c == refresh[r].config
    IN  /\ refresh[r].pc = "discover"
        /\ \/ /\ IF Live(s) THEN Register(s, c, TRUE) ELSE UNCHANGED session
              /\ UNCHANGED events
           \/ /\ IF Live(s) THEN Register(s, c, FALSE) ELSE UNCHANGED session
              /\ Event
        /\ refresh' = [refresh EXCEPT ![r] = [@ EXCEPT !.pc = "apply", !.done = refresh[r].done \cup {s}]]
        /\ UNCHANGED <<file, lastSeen, timer, startup>>

EndRefresh(r) ==
    /\ refresh[r].pc = "apply"
    /\ \A s \in Sessions : Live(s) => s \in refresh[r].done
    /\ refresh' = [refresh EXCEPT ![r] = IdleRefresh]
    /\ UNCHANGED <<file, lastSeen, timer, session, startup, events>>

\* No session is open: the hub waits for the next client.
NobodyConnected == (\A s \in Sessions : session[s].pc = "closed") /\ UNCHANGED hubVars

HubNext ==
    \/ ReadAtStartup \/ SeeAtStartup
    \/ \E c \in Configs : EditFile(c)
    \/ \E s \in Sessions :
          \/ ReadForSession(s) \/ SeeForSession(s) \/ DiscoverForSession(s) \/ CloseSession(s)
          \/ \E r \in Reruns : ApplyToSession(r, s)
    \/ \E r \in Reruns :
          \/ FireTimer(r) \/ ReadForRefresh(r) \/ CompareFingerprint(r)
          \/ DiscoverForRefresh(r) \/ EndRefresh(r)
    \/ NobodyConnected

HubSpec == HubInit /\ [][HubNext]_hubVars

-----------------------------------------------------------------------------
HubQuiet ==
    /\ ~timer
    /\ startup.pc = "done"
    /\ \A s \in Sessions : ~Opening(s)
    /\ \A r \in Reruns : refresh[r] = IdleRefresh

\* Types; a session that is open has been through one discovery.
HubTypeOK ==
    /\ file \in Configs
    /\ lastSeen \in Configs \cup {NoConfig}
    /\ \A s \in Sessions :
          /\ session[s].tool.url \in Urls \cup {0}
          /\ Live(s) => session[s].topology \in Urls
    /\ \A r \in Reruns : refresh[r].done \subseteq Sessions

\* "GET SSE stream receives notifications/tools/list_changed when jackline
\* tools enable|disable updates disabledTools": when nothing is under way, a
\* session offers what the file says, unless another session's initialize took
\* the change's fingerprint, refreshes overlapped, or something failed.
SessionsFollowFile ==
    HubQuiet => \A s \in Sessions :
                Live(s) => session[s].crossed \/ session[s].tool = ToolOf(file)

-----------------------------------------------------------------------------
\* Of the sessions of the command-line gateway: what they offer follows the
\* configuration file.
HubRules ==
    /\ HubTypeOK
    /\ SessionsFollowFile
=============================================================================
