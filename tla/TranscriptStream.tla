-------------------------- MODULE TranscriptStream --------------------------
(***************************************************************************)
(* The stream on which an owner follows an agent's conversations           *)
(* (streamTranscript in agents/handler.ts, over agents/transcript.ts): the *)
(* transcript is put together from three tables every two seconds, whether *)
(* or not the last poll is done, and sent when its fingerprint is not that *)
(* of the transcript sent last.                                            *)
(***************************************************************************)
EXTENDS ApiHandlers

CONSTANT
    Polls           \* bound: polls in flight at once

ASSUME StreamAssumption == IsFiniteSet(Polls)

VARIABLES
    knock,          \* status of a peer's knock, or "none"
    grant,          \* the peer has a grant
    task,           \* state of a message of the peer, or "none"
    sent,           \* the transcript that was sent last
    poll,           \* what each poll has read
    current         \* history: a poll that began after the last change was
                    \* answered, and none that began before is in flight

tables == <<knock, grant, task>>
streamVars == <<tables, sent, poll, current>>

KnockStates == {"none", "pending", "approved", "denied"}
TaskStates == {"none", "working", "completed", "failed"}

Transcript == [knock : KnockStates, grant : BOOLEAN, task : TaskStates]

Idle == [pc |-> "idle", read |-> [knock |-> "none", grant |-> FALSE, task |-> "none"],
         fresh |-> FALSE]

\* fresh: nothing has changed since the poll began.  An approval inserts the
\* grant before it updates the knock, and knocks are read before grants.
StreamTypeOK ==
    /\ <<knock, grant, task>> \in KnockStates \X BOOLEAN \X TaskStates
    /\ sent \in Transcript
    /\ poll \in [Polls -> [pc : {"idle", "knocks", "grants", "tasks", "send"},
                           read : Transcript, fresh : BOOLEAN]]
    /\ current \in BOOLEAN
    /\ sent.knock = "approved" => sent.grant

\* The stream opens with the transcript that was read first.
StreamInit ==
    /\ knock \in KnockStates
    /\ grant = (knock = "approved")
    /\ task = "none"
    /\ sent = [knock |-> knock, grant |-> grant, task |-> task]
    /\ poll = [p \in Polls |-> Idle]
    /\ current = TRUE

-----------------------------------------------------------------------------
Changed ==
    /\ poll' = [p \in Polls |-> [poll[p] EXCEPT !.fresh = FALSE]]
    /\ current' = FALSE
    /\ UNCHANGED sent

\* What is on record goes its way: a knock is made and decided, a message is
\* run under the grant.
KnockChanges ==
    /\ \/ knock = "none" /\ knock' = "pending" /\ UNCHANGED grant
       \/ knock = "pending" /\ knock' = "denied" /\ UNCHANGED grant
       \/ knock = "pending" /\ grant /\ knock' = "approved" /\ UNCHANGED grant
       \/ knock = "pending" /\ ~grant /\ grant' = TRUE /\ UNCHANGED knock
    /\ UNCHANGED task
    /\ Changed

TaskChanges ==
    /\ \/ grant /\ task = "none" /\ task' = "working"
       \/ task = "working" /\ task' \in {"completed", "failed"}
    /\ UNCHANGED <<knock, grant>>
    /\ Changed

\* setInterval.
StartPoll(p) ==
    /\ poll[p].pc = "idle"
    /\ poll' = [poll EXCEPT ![p] = [Idle EXCEPT !.pc = "knocks", !.fresh = TRUE]]
    /\ UNCHANGED <<tables, sent, current>>

ReadKnocks(p) ==
    /\ poll[p].pc = "knocks"
    /\ poll' = [poll EXCEPT ![p] = [@ EXCEPT !.read.knock = knock, !.pc = "grants"]]
    /\ UNCHANGED <<tables, sent, current>>

ReadGrants(p) ==
    /\ poll[p].pc = "grants"
    /\ poll' = [poll EXCEPT ![p] = [@ EXCEPT !.read.grant = grant, !.pc = "tasks"]]
    /\ UNCHANGED <<tables, sent, current>>

ReadTasks(p) ==
    /\ poll[p].pc = "tasks"
    /\ poll' = [poll EXCEPT ![p] = [@ EXCEPT !.read.task = task, !.pc = "send"]]
    /\ UNCHANGED <<tables, sent, current>>

\* entriesFromKnock and entriesFromHostedTask, by the ids of the entries: a
\* decision adds one, a message is one, and its answer another.
KnockEntries(t) ==
    IF t.knock = "none" THEN {}
    ELSE {<<"knock", t.knock>>} \cup
         {<<"decision", t.knock>> : s \in {t.knock} \ {"pending"}}

TaskEntries(t) ==
    CASE t.task = "none"      -> {}
      [] t.task = "completed" -> {<<"peer", "">>, <<"agent", "">>}
      [] OTHER                -> {<<"peer", "">>}

\* A transcript that is narrowed to the peer leaves out a message whose grant
\* was not there yet when the grants were read.
Entries(t) == KnockEntries(t) \cup (IF t.grant THEN TaskEntries(t) ELSE {})

Reported == [knock |-> knock, grant |-> grant, task |-> task]

\* Mutant: messages do not make a transcript new.
SendIfKnockChanged(p) ==
    /\ poll[p].pc = "send"
    /\ sent' = IF KnockEntries(poll[p].read) # KnockEntries(sent)
               THEN poll[p].read ELSE sent
    /\ current' = (current \/
                   (poll[p].fresh /\ \A q \in Polls : poll[q].pc = "idle" \/ poll[q].fresh))
    /\ poll' = [poll EXCEPT ![p] = Idle]
    /\ UNCHANGED tables

SendSnapshot(p) ==
    /\ poll[p].pc = "send"
    /\ sent' = IF Entries(poll[p].read) # Entries(sent) THEN poll[p].read ELSE sent
    /\ current' = (current \/
                   (poll[p].fresh /\ \A q \in Polls : poll[q].pc = "idle" \/ poll[q].fresh))
    /\ poll' = [poll EXCEPT ![p] = Idle]
    /\ UNCHANGED tables

StreamNext ==
    \/ KnockChanges \/ TaskChanges
    \/ \E p \in Polls :
          StartPoll(p) \/ ReadKnocks(p) \/ ReadGrants(p) \/ ReadTasks(p) \/ SendSnapshot(p)

StreamSpec == StreamInit /\ [][StreamNext]_streamVars

-----------------------------------------------------------------------------
\* Polls are answered in any order, and an old answer can replace a newer one:
\* still, once a poll that began after the last change is answered and no
\* older one is left, what was sent last is what is on record.
StreamIsCurrent == current => Entries(sent) = Entries(Reported)

-----------------------------------------------------------------------------
\* Of the transcript stream: what was sent last is what is on record, once the
\* polls have caught up.
StreamRules ==
    /\ StreamTypeOK
    /\ StreamIsCurrent
=============================================================================
