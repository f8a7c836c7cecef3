---------------------------- MODULE PlatformEmail ----------------------------
(***************************************************************************)
(* The platform's outbound email settings (platformEmail/service.ts): one  *)
(* row that is created when it is first asked for, and no index that keeps *)
(* it the only one.  A row in which something was saved overrides the      *)
(* environment.                                                            *)
(***************************************************************************)
EXTENDS ApiHandlers

VARIABLES
    emailRows,      \* rows of platform_email_settings
    emailEnv,       \* connector that the environment configures
    emailCall,      \* what each handler is doing
    emailRaced      \* history: requests that create, or that update, overlapped

emailVars == <<emailRows, emailEnv, emailCall, emailRaced>>

Connectors == {"console", "resend", "smtp"}

\* key: an API key or SMTP password, stored in the same column.
EmailParts == {"from", "host", "key"}

\* Bound: as many requests as are served at once can each create a row.
EmailIds == 1..Cardinality(Handlers)

EmailRow == [id : EmailIds, connector : Connectors, has : SUBSET EmailParts]

NoEmailRow == [id |-> 1, connector |-> "console", has |-> {}]

NoEmailCall == [op |-> "idle", pc |-> "idle", row |-> NoEmailRow]

EmailTypeOK ==
    /\ emailRows \subseteq EmailRow
    /\ emailEnv \in Connectors
    /\ emailCall \in [Handlers -> [op : {"idle", "read", "update"},
                                   pc : {"idle", "find", "insert", "write"},
                                   row : EmailRow]]
    /\ emailRaced \in [create : BOOLEAN, update : BOOLEAN]
    /\ \A r, s \in emailRows : r.id = s.id => r = s

EmailInit ==
    /\ emailRows = {}
    /\ emailEnv \in Connectors
    /\ emailCall = [h \in Handlers |-> NoEmailCall]
    /\ emailRaced = [create |-> FALSE, update |-> FALSE]

-----------------------------------------------------------------------------
EmailAt(h, pc) == emailCall[h].pc = pc

StartEmail(h, op) ==
    /\ emailCall[h] = NoEmailCall
    /\ emailCall' = [emailCall EXCEPT ![h].op = op, ![h].pc = "find"]
    /\ LET others == {k \in Handlers : emailCall[k].op # "idle"}
       IN  emailRaced' = [create |-> emailRaced.create
                                     \/ (emailRows = {} /\ others # {}),
                          update |-> emailRaced.update
                                     \/ (op = "update" /\ \E k \in others :
                                             emailCall[k].op = "update")]
    /\ UNCHANGED <<emailRows, emailEnv>>

\* What a handler does with the settings it found or created: a request that
\* reads them resolves them, and is done.
WithRow(h, row) ==
    emailCall' = [emailCall EXCEPT ![h] =
        IF @.op = "update" THEN [@ EXCEPT !.pc = "write", !.row = row] ELSE NoEmailCall]

\* ensureSettingsRow: any row will do.
FindSettings(h) ==
    /\ EmailAt(h, "find")
    /\ \/ \E row \in emailRows : WithRow(h, row)
       \/ /\ emailRows = {}
          /\ emailCall' = [emailCall EXCEPT ![h].pc = "insert"]
    /\ UNCHANGED <<emailRows, emailEnv, emailRaced>>

InsertDefaults(h) ==
    /\ EmailAt(h, "insert")
    /\ \E i \in EmailIds \ {r.id : r \in emailRows} :
          /\ emailRows' = emailRows \cup {[NoEmailRow EXCEPT !.id = i]}
          /\ WithRow(h, [NoEmailRow EXCEPT !.id = i])
    /\ UNCHANGED <<emailEnv, emailRaced>>

\* A request names a connector or leaves it as it was ("same"), and gives some
\* parts or clears the key.
EmailPatches ==
    LET connectors == Connectors \cup {"same"}
    IN  [connector : connectors, clear : {FALSE},
         gives : {{}, {"host"}, {"key"}, EmailParts}]
        \cup [connector : connectors, clear : {TRUE}, gives : {{}}]

Patched(row, patch) ==
    [row EXCEPT !.connector = IF patch.connector = "same" THEN @ ELSE patch.connector,
                !.has = (@ \ (IF patch.clear THEN {"key"} ELSE {})) \cup patch.gives]

Needs(connector) ==
    CASE connector = "resend"  -> {"from", "key"}
      [] connector = "smtp"    -> {"from", "host"}
      [] connector = "console" -> {}

\* Mutant: a key that is about to be cleared is taken to be there.
AcceptsByPresence(row, patch) ==
    Needs(Patched(row, patch).connector) \subseteq row.has \cup patch.gives

Accepts(row, patch) ==
    Needs(Patched(row, patch).connector) \subseteq Patched(row, patch).has

\* The patch is judged by the row that was read, and changes its own columns
\* of the row that is stored.
UpdateSettings(h, patch) ==
    /\ EmailAt(h, "write")
    /\ emailRows' =
          {IF r.id = emailCall[h].row.id /\ Accepts(emailCall[h].row, patch)
           THEN Patched(r, patch) ELSE r : r \in emailRows}
    /\ emailCall' = [emailCall EXCEPT ![h] = NoEmailCall]
    /\ UNCHANGED <<emailEnv, emailRaced>>

EmailNext ==
    \E h \in Handlers :
        \/ StartEmail(h, "read") \/ StartEmail(h, "update")
        \/ FindSettings(h) \/ InsertDefaults(h)
        \/ \E patch \in EmailPatches : UpdateSettings(h, patch)

EmailSpec == EmailInit /\ [][EmailNext]_emailVars

-----------------------------------------------------------------------------
\* rowHasSavedConfig, and resolvePlatformEmail: the settings that apply.
HasSavedConfig(row) == row.connector # "console" \/ row.has # {}

Resolved(row) ==
    IF HasSavedConfig(row) \/ emailEnv = "console" THEN row
    ELSE [row EXCEPT !.connector = emailEnv, !.has = Needs(emailEnv)]

DeliveryReady(row) ==
    LET r == Resolved(row)
    IN  r.connector # "console" /\ Needs(r.connector) \subseteq r.has

\* "Platform-wide outbound email connector (singleton row)": one row, unless
\* the first requests for it overlapped.
OneSettingsRow == ~emailRaced.create => Cardinality(emailRows) <= 1

\* A connector that was accepted can deliver, unless updates overlapped: each
\* is judged by the row it read.
SavedCanDeliver ==
    ~emailRaced.update =>
        \A r \in emailRows : r.connector # "console" => DeliveryReady(r)

-----------------------------------------------------------------------------
\* Of the email settings: there is one row, and a connector that was accepted
\* can deliver.
EmailRules ==
    /\ EmailTypeOK
    /\ OneSettingsRow
    /\ SavedCanDeliver
=============================================================================
