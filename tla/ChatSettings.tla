---------------------------- MODULE ChatSettings ----------------------------
(***************************************************************************)
(* A tenant's chat settings (chat/service.ts): the provider is a row of    *)
(* chat_settings, its API key a secret, and each is looked up and written  *)
(* by separate statements.                                                 *)
(***************************************************************************)
EXTENDS ApiHandlers

CONSTANTS
    MaxChatUpdates, \* bound: updates
    MaxChatFaults   \* bound: failed statements and crashes

ASSUME ChatAssumption == {MaxChatUpdates, MaxChatFaults} \subseteq Nat

VARIABLES
    llmKey,         \* the update whose API key is stored, or 0
    provider,       \* provider in the settings row, or "none"
    chatCall,       \* what each handler is doing
    chatUpdates,    \* updates started so far
    chatHistory     \* history: see ChatTypeOK

chatVars == <<llmKey, provider, chatCall, chatUpdates, chatHistory>>

Updates == 1..MaxChatUpdates

Providers == {"ollama", "openai"}

NoChatCall == [op |-> "idle", pc |-> "idle", provider |-> "none", key |-> 0, gives |-> 0]

\* given: the key stored last of those a request gave; accepted: the provider
\* and key that were accepted together last; raced: updates overlapped.
ChatTypeOK ==
    /\ llmKey \in Updates \cup {0}
    /\ provider \in Providers \cup {"none"}
    /\ chatCall \in [Handlers ->
          [op : {"idle", "update", "run"},
           pc : {"idle", "load", "find", "write", "insert", "settings", "save",
                 "create", "key"},
           provider : Providers \cup {"none"}, key : Updates \cup {0},
           gives : Updates \cup {0}]]
    /\ chatUpdates \in 0..MaxChatUpdates
    /\ chatHistory \in [given : Updates \cup {0}, raced : BOOLEAN,
                        accepted : (Providers \cup {"none"}) \X (Updates \cup {0}),
                        faults : 0..MaxChatFaults]
    /\ provider = "openai" => llmKey # 0

ChatInit ==
    /\ llmKey = 0
    /\ provider = "none"
    /\ chatCall = [h \in Handlers |-> NoChatCall]
    /\ chatUpdates = 0
    /\ chatHistory = [given |-> 0, raced |-> FALSE, accepted |-> <<"none", 0>>, faults |-> 0]

-----------------------------------------------------------------------------
ChatAt(h, op, pc) == chatCall[h].op = op /\ chatCall[h].pc = pc

ChatGoto(h, pc) == chatCall' = [chatCall EXCEPT ![h].pc = pc]

ChatDone(h) == chatCall' = [chatCall EXCEPT ![h] = NoChatCall]

Updating == \E h \in Handlers : chatCall[h].op = "update"

\* An update names a provider, and may give a key.
StartChatUpdate(h, p, gives) ==
    /\ chatCall[h] = NoChatCall
    /\ chatUpdates < MaxChatUpdates
    /\ chatUpdates' = chatUpdates + 1
    /\ chatCall' = [chatCall EXCEPT ![h] =
          [op |-> "update", pc |-> "load", provider |-> p, key |-> 0,
           gives |-> IF gives THEN chatUpdates + 1 ELSE 0]]
    /\ chatHistory' = [chatHistory EXCEPT !.raced = @ \/ Updating]
    /\ UNCHANGED <<llmKey, provider>>

\* The key to store is the one given or else the one found, which is written
\* back; a provider that needs a key is refused without one.
LoadKey(h) ==
    /\ ChatAt(h, "update", "load")
    /\ LET next == IF chatCall[h].gives # 0 THEN chatCall[h].gives ELSE llmKey
       IN  IF chatCall[h].provider # "ollama" /\ next = 0
           THEN ChatDone(h) /\ UNCHANGED chatHistory
           ELSE /\ chatCall' = [chatCall EXCEPT ![h] =
                       [@ EXCEPT !.key = next,
                                 !.pc = IF next # 0 THEN "find" ELSE "settings"]]
                /\ chatHistory' = [chatHistory EXCEPT !.accepted =
                                      <<chatCall[h].provider, next>>]
    /\ UNCHANGED <<llmKey, provider, chatUpdates>>

\* upsertLlmSecret: a select, then an update or an insert.
FindKey(h) ==
    /\ ChatAt(h, "update", "find")
    /\ ChatGoto(h, IF llmKey = 0 THEN "insert" ELSE "write")
    /\ UNCHANGED <<llmKey, provider, chatUpdates, chatHistory>>

Given(h) ==
    IF chatCall[h].gives # 0 THEN chatCall[h].gives ELSE chatHistory.given

\* Mutant: a key once stored stays.
InsertKeyOnly(h) ==
    /\ ChatAt(h, "update", "insert") \/ ChatAt(h, "update", "write")
    /\ llmKey' = IF llmKey = 0 THEN chatCall[h].key ELSE llmKey
    /\ chatHistory' = [chatHistory EXCEPT !.given = Given(h)]
    /\ ChatGoto(h, "settings")
    /\ UNCHANGED <<provider, chatUpdates>>

\* An insert that meets another's key fails, and with it the request.
StoreKey(h) ==
    /\ ChatAt(h, "update", "insert") \/ ChatAt(h, "update", "write")
    /\ IF ChatAt(h, "update", "insert") /\ llmKey # 0
       THEN ChatDone(h) /\ UNCHANGED <<llmKey, chatHistory>>
       ELSE /\ llmKey' = chatCall[h].key
            /\ chatHistory' = [chatHistory EXCEPT !.given = Given(h)]
            /\ ChatGoto(h, "settings")
    /\ UNCHANGED <<provider, chatUpdates>>

FindChatSettings(h) ==
    /\ ChatAt(h, "update", "settings")
    /\ ChatGoto(h, IF provider = "none" THEN "create" ELSE "save")
    /\ UNCHANGED <<llmKey, provider, chatUpdates, chatHistory>>

\* The row is unique in the tenant: a second insert fails.
SaveChatSettings(h) ==
    /\ ChatAt(h, "update", "create") \/ ChatAt(h, "update", "save")
    /\ provider' = IF ChatAt(h, "update", "create") /\ provider # "none"
                   THEN provider ELSE chatCall[h].provider
    /\ ChatDone(h)
    /\ UNCHANGED <<llmKey, chatUpdates, chatHistory>>

-----------------------------------------------------------------------------
(* resolveRun: the settings, whether they are complete, and the key.        *)

StartRun(h) ==
    /\ chatCall[h] = NoChatCall
    /\ chatCall' = [chatCall EXCEPT ![h] = [@ EXCEPT !.op = "run", !.pc = "settings"]]
    /\ UNCHANGED <<llmKey, provider, chatUpdates, chatHistory>>

ReadProvider(h) ==
    /\ ChatAt(h, "run", "settings")
    /\ IF provider = "none" THEN ChatDone(h)
       ELSE chatCall' = [chatCall EXCEPT ![h] =
                            [@ EXCEPT !.provider = provider, !.pc = "load"]]
    /\ UNCHANGED <<llmKey, provider, chatUpdates, chatHistory>>

\* getSettings looks whether there is a key.
CheckConfigured(h) ==
    /\ ChatAt(h, "run", "load")
    /\ IF chatCall[h].provider # "ollama" /\ llmKey = 0
       THEN ChatDone(h) ELSE ChatGoto(h, "key")
    /\ UNCHANGED <<llmKey, provider, chatUpdates, chatHistory>>

\* The chat runs with the provider that was read and the key that is found.
ReadKey(h) ==
    /\ ChatAt(h, "run", "key")
    /\ ChatDone(h)
    /\ UNCHANGED <<llmKey, provider, chatUpdates, chatHistory>>

FailChatCall(h) ==
    /\ chatCall[h] # NoChatCall
    /\ chatHistory.faults < MaxChatFaults
    /\ chatHistory' = [chatHistory EXCEPT !.faults = @ + 1]
    /\ ChatDone(h)
    /\ UNCHANGED <<llmKey, provider, chatUpdates>>

ChatNext ==
    \E h \in Handlers :
        \/ \E p \in Providers, gives \in BOOLEAN : StartChatUpdate(h, p, gives)
        \/ LoadKey(h) \/ FindKey(h) \/ StoreKey(h)
        \/ FindChatSettings(h) \/ SaveChatSettings(h)
        \/ StartRun(h) \/ ReadProvider(h) \/ CheckConfigured(h) \/ ReadKey(h)
        \/ FailChatCall(h)

ChatSpec == ChatInit /\ [][ChatNext]_chatVars

-----------------------------------------------------------------------------
\* The key in use is the one that was given last: an update that gives none
\* leaves it alone, unless another update overlaps it, whose key it reverts.
KeyIsLatest == ~chatHistory.raced => llmKey = chatHistory.given

\* Provider and key are those that were accepted together, while no update is
\* under way, none overlapped another and none broke off between the two.
AcceptedTogether ==
    ~chatHistory.raced /\ ~Updating /\ chatHistory.faults = 0
    => <<provider, llmKey>> = chatHistory.accepted

\* A run never has a provider without the key it needs.
RunHasKey ==
    \A h \in Handlers :
        ChatAt(h, "run", "key") /\ chatCall[h].provider # "ollama" => llmKey # 0

-----------------------------------------------------------------------------
\* Of the chat settings: the key is the one given last, it was accepted for the
\* provider it is used with, and no run lacks it.
ChatRules ==
    /\ ChatTypeOK
    /\ KeyIsLatest
    /\ AcceptedTogether
    /\ RunHasKey
=============================================================================
