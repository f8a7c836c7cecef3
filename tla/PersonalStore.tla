---------------------------- MODULE PersonalStore ----------------------------
(***************************************************************************)
(* The files of the command-line gateway (apps/cli): config.yaml,          *)
(* secrets.json, and the master key in the OS keychain or in master.key.   *)
(* Commands and the gateway itself are processes that read a whole file,   *)
(* change it and write it back, without locks; any of them may be killed.  *)
(*                                                                         *)
(* A server is known by the id of its secret.  Every server is an OAuth    *)
(* server whose refresh token rotates.                                     *)
(***************************************************************************)
EXTENDS Integers, FiniteSets

CONSTANTS
    Procs,          \* processes that run at once
    MaxIds,         \* bound: secret ids minted
    MaxTokens,      \* bound: refresh tokens issued by the provider
    MaxUpheavals    \* bound: runs of init, each with a key of its own, processes
                    \* killed, and the keychain going or coming

ASSUME StoreAssumption ==
    IsFiniteSet(Procs) /\ {MaxIds, MaxTokens, MaxUpheavals} \subseteq Nat

Ids == 1..MaxIds

VARIABLES
    config,         \* config.yaml
    secrets,        \* secrets.json: id -> the key it is encrypted under, token
    keys,           \* the key in the keychain and in the file, keychain usable
    live,           \* refresh tokens the provider accepts
    proc,           \* the processes
    lapse,          \* history: a file was overwritten that had changed since it
                    \* was read, init ran beside another process, a process was
                    \* killed between two writes, a forced init gave up having
                    \* cleared what was there, or a refresh lost the key after
                    \* it had spent its token
    met,            \* history: the processes that run have run side by side
    spent           \* ids, tokens and upheavals so far

storeVars == <<config, secrets, keys, live, proc, lapse, met, spent>>

NoConfigFile == [present |-> FALSE, storage |-> "none", token |-> 0, servers |-> {}]

NoSecret == [key |-> 0, token |-> 0]

NoSecrets == [i \in Ids |-> NoSecret]

IdleProc == [op |-> "idle", pc |-> "idle", force |-> FALSE, storage |-> "none",
             config |-> NoConfigFile, secrets |-> NoSecrets,
             key |-> 0, id |-> 0, token |-> 0]

\* Nothing yet; an installation from before keyStorage, which keeps its key in a
\* file; one whose owner has just asked for the keychain; and one that uses it.
StoreInit ==
    /\ \E up \in BOOLEAN :
          \/ config = NoConfigFile /\ keys = [file |-> 0, chain |-> 0, up |-> up]
          \/ \E s \in {"none", "keychain"} :
                /\ config = [NoConfigFile EXCEPT !.present = TRUE, !.storage = s]
                /\ keys = [file |-> 1, chain |-> 0, up |-> up]
          \/ /\ config = [NoConfigFile EXCEPT !.present = TRUE, !.storage = "keychain"]
             /\ keys = [file |-> 0, chain |-> 1, up |-> up]
    /\ secrets = NoSecrets
    /\ live = {}
    /\ proc = [p \in Procs |-> IdleProc]
    /\ lapse = FALSE
    /\ met = FALSE
    /\ spent = [ids |-> 0, tokens |-> 0, upheavals |-> 0]

ProcAt(p, op, pc) == proc[p].op = op /\ proc[p].pc = pc

Alone(p) == \A q \in Procs \ {p} : proc[q] = IdleProc

Become(p, record) == proc' = [proc EXCEPT ![p] = record]

\* p begins, unless it has ended at once; all that run have met when one begins
\* beside others.
MeetOthers(p) == met' = IF proc'[p] = IdleProc THEN met ELSE ~Alone(p)

Upheaval ==
    /\ spent.upheavals < MaxUpheavals
    /\ spent' = [spent EXCEPT !.upheavals = @ + 1]

-----------------------------------------------------------------------------
(* The master key.                                                          *)

\* resolveKeyStorage
Storage ==
    IF config.present /\ config.storage # "none" THEN config.storage
    ELSE IF keys.file # 0 THEN "file" ELSE "keychain"

\* readMasterKey: 0 when there is none.
MasterKey ==
    IF Storage = "file" THEN keys.file
    ELSE IF ~keys.up THEN keys.file
    ELSE IF keys.chain # 0 THEN keys.chain ELSE keys.file

Migrates == Storage = "keychain" /\ keys.up /\ keys.chain = 0 /\ keys.file # 0

\* A key found in the file alone is put into the keychain first ...
ReadKey(p) ==
    /\ proc[p].pc = "key"
    /\ IF MasterKey = 0 THEN Become(p, IdleProc)
       ELSE Become(p, [proc[p] EXCEPT !.key = MasterKey,
                                      !.pc = IF Migrates THEN "aside" ELSE "read"])
    /\ keys' = IF Migrates THEN [keys EXCEPT !.chain = keys.file] ELSE keys
    /\ lapse' = (lapse \/ (MasterKey = 0 /\ proc[p].op = "refresh"))
    /\ UNCHANGED <<config, secrets, live, spent, met>>

\* ... and the file renamed; so does init when it stored into the keychain, before
\* it has an id for the gateway's token.
MoveKeyAside(p) ==
    /\ proc[p].pc = "aside"
    /\ keys' = [keys EXCEPT !.file = 0]
    /\ Become(p, [proc[p] EXCEPT !.pc = IF proc[p].id = 0 THEN "config" ELSE "read"])
    /\ UNCHANGED <<config, secrets, live, lapse, spent, met>>

-----------------------------------------------------------------------------
(* putSecret: the file is read, and written with one entry changed.         *)

ReadSecrets(p) ==
    /\ proc[p].pc = "read"
    /\ Become(p, [proc[p] EXCEPT !.pc = "save", !.secrets = secrets])
    /\ UNCHANGED <<config, secrets, keys, live, lapse, spent, met>>

AfterSave(p) ==
    IF proc[p].op \in {"init", "add", "serve"} THEN [proc[p] EXCEPT !.pc = "list"] ELSE IdleProc

SaveSecrets(p) ==
    /\ proc[p].pc = "save"
    /\ secrets' = [proc[p].secrets EXCEPT
                     ![proc[p].id] = [key |-> proc[p].key, token |-> proc[p].token]]
    /\ lapse' = (lapse \/ proc[p].secrets # secrets \/ proc[p].key # MasterKey)
    /\ Become(p, AfterSave(p))
    /\ UNCHANGED <<config, keys, live, spent, met>>

\* The id of the new secret goes into the configuration as it was loaded.
Listed(p) ==
    IF proc[p].op = "add"
    THEN [proc[p].config EXCEPT !.servers = @ \cup {proc[p].id}]
    ELSE IF proc[p].op \in {"init", "serve"} THEN [proc[p].config EXCEPT !.token = proc[p].id]
    ELSE proc[p].config

\* saveConfig
SaveConfig(p) ==
    /\ proc[p].pc = "list"
    /\ config' = Listed(p)
    /\ lapse' = (lapse \/ proc[p].config # config)
    /\ Become(p, IdleProc)
    /\ UNCHANGED <<secrets, keys, live, spent, met>>

\* randomUUID
MintId(p) ==
    /\ proc[p].pc = "id"
    /\ spent.ids < MaxIds
    /\ spent' = [spent EXCEPT !.ids = @ + 1]
    /\ Become(p, [proc[p] EXCEPT !.id = spent.ids + 1, !.pc = "key"])
    /\ UNCHANGED <<config, secrets, keys, live, lapse, met>>

-----------------------------------------------------------------------------
(* init                                                                     *)

\* masterKeyExists, or a configuration.
Already == config.present \/ keys.file # 0 \/ (keys.up /\ keys.chain # 0)

StartInit(p, force, storage) ==
    /\ proc[p] = IdleProc
    /\ Upheaval
    /\ IF Already /\ ~force THEN UNCHANGED proc
       ELSE Become(p, [IdleProc EXCEPT !.op = "init", !.force = force, !.storage = storage,
                                       !.key = spent.upheavals + 2,
                                       !.pc = IF force THEN "clear" ELSE "empty"])
    /\ MeetOthers(p)
    /\ UNCHANGED <<config, secrets, keys, live, lapse>>

\* clearStoredMasterKey: from the keychain if it is there to be asked.
ClearKey(p) ==
    /\ ProcAt(p, "init", "clear")
    /\ keys' = [keys EXCEPT !.file = 0, !.chain = IF keys.up THEN 0 ELSE @]
    /\ Become(p, [proc[p] EXCEPT !.pc = "empty"])
    /\ UNCHANGED <<config, secrets, live, lapse, spent, met>>

EmptySecrets(p) ==
    /\ ProcAt(p, "init", "empty")
    /\ secrets' = NoSecrets
    /\ Become(p, [proc[p] EXCEPT !.pc = "store"])
    /\ lapse' = (lapse \/ met)
    /\ UNCHANGED <<config, keys, live, spent, met>>

\* Mutant: the configuration is written before the key is stored.
ConfigureFirst(p) ==
    /\ ProcAt(p, "init", "store")
    /\ config' = [NoConfigFile EXCEPT !.present = TRUE, !.storage = proc[p].storage]
    /\ IF proc[p].storage = "file"
       THEN keys' = [keys EXCEPT !.file = proc[p].key] /\ Become(p, [proc[p] EXCEPT !.pc = "config"])
       ELSE IF keys.up
       THEN keys' = [keys EXCEPT !.chain = proc[p].key] /\ Become(p, [proc[p] EXCEPT !.pc = "aside"])
       ELSE UNCHANGED keys /\ Become(p, IdleProc)
    /\ UNCHANGED <<secrets, live, lapse, spent, met>>

\* storeMasterKey; without a keychain init gives up and removes secrets.json.
StoreKey(p) ==
    /\ ProcAt(p, "init", "store")
    /\ IF proc[p].storage = "file"
       THEN /\ keys' = [keys EXCEPT !.file = proc[p].key]
            /\ Become(p, [proc[p] EXCEPT !.pc = "config"])
            /\ UNCHANGED secrets
       ELSE IF keys.up
       THEN /\ keys' = [keys EXCEPT !.chain = proc[p].key]
            /\ Become(p, [proc[p] EXCEPT !.pc = "aside"])
            /\ UNCHANGED secrets
       ELSE /\ secrets' = NoSecrets
            /\ Become(p, IdleProc)
            /\ UNCHANGED keys
    /\ lapse' = (lapse \/ met \/ (proc[p].force /\ proc'[p] = IdleProc))
    /\ UNCHANGED <<config, live, spent, met>>

WriteConfig(p) ==
    /\ ProcAt(p, "init", "config")
    /\ config' = [NoConfigFile EXCEPT !.present = TRUE, !.storage = proc[p].storage]
    /\ Become(p, [proc[p] EXCEPT !.pc = "load"])
    /\ lapse' = (lapse \/ met)
    /\ UNCHANGED <<secrets, keys, live, spent, met>>

-----------------------------------------------------------------------------
(* The other commands, and the gateway.                                     *)

\* ensureGatewayToken: the token whose secret can be decrypted is kept.
TokenStands ==
    config.token # 0 /\ secrets[config.token].key # 0 /\ secrets[config.token].key = MasterKey

\* loadConfig, which fails without a file; q is the process as it gets there.
\* "add --force" and connect are for a server there is, add for a new one.
LoadConfig(p, q) ==
    /\ IF ~config.present \/ (q.op = "serve" /\ TokenStands)
       THEN Become(p, IdleProc)
       ELSE \/ /\ q.op \in {"init", "serve"}
               /\ Become(p, [q EXCEPT !.pc = "id", !.config = config, !.token = 0])
            \/ /\ q.op = "tools"
               /\ Become(p, [q EXCEPT !.pc = "list", !.config = config])
            \/ /\ q.op = "add"
               /\ Become(p, [q EXCEPT !.pc = "browser", !.config = config])
            \/ /\ q.op \in {"add", "connect"}
               /\ \E i \in config.servers :
                     Become(p, [q EXCEPT !.pc = "browser", !.config = config, !.id = i])
    /\ UNCHANGED <<config, secrets, keys, live, lapse, spent>>

StartCommand(p, op) ==
    proc[p] = IdleProc /\ LoadConfig(p, [IdleProc EXCEPT !.op = op]) /\ MeetOthers(p)

ContinueInit(p) == ProcAt(p, "init", "load") /\ LoadConfig(p, proc[p]) /\ UNCHANGED met

\* runBrowserOAuthConnect: a grant of its own, or nothing.
Authorize(p) ==
    /\ proc[p].pc = "browser"
    /\ spent.tokens < MaxTokens
    /\ spent' = [spent EXCEPT !.tokens = @ + 1]
    /\ live' = live \cup {spent.tokens + 1}
    /\ Become(p, [proc[p] EXCEPT !.token = spent.tokens + 1,
                                 !.pc = IF proc[p].id = 0 THEN "id" ELSE "key"])
    /\ UNCHANGED <<config, secrets, keys, lapse, met>>

\* The member closes the browser, or the provider does not answer.
GiveUp(p) ==
    /\ proc[p].pc \in {"browser", "id", "exchange"}
    /\ Become(p, IdleProc)
    /\ UNCHANGED <<config, secrets, keys, live, lapse, spent, met>>

\* resolveUpstreamAuth at a tool call: the stored secret, if it can be read, ...
StartRefresh(p, i) ==
    /\ proc[p] = IdleProc
    /\ i \in config.servers
    /\ secrets[i].token # 0
    /\ secrets[i].key = MasterKey
    /\ Become(p, [IdleProc EXCEPT !.op = "refresh", !.pc = "exchange", !.id = i,
                                  !.token = secrets[i].token])
    /\ MeetOthers(p)
    /\ UNCHANGED <<config, secrets, keys, live, lapse, spent>>

\* ... is exchanged, and what the provider returns is stored by putSecret.
ExchangeToken(p) ==
    /\ ProcAt(p, "refresh", "exchange")
    /\ IF proc[p].token \in live
       THEN /\ spent.tokens < MaxTokens
            /\ spent' = [spent EXCEPT !.tokens = @ + 1]
            /\ live' = (live \ {proc[p].token}) \cup {spent.tokens + 1}
            /\ Become(p, [proc[p] EXCEPT !.token = spent.tokens + 1, !.pc = "key"])
       ELSE Become(p, IdleProc) /\ UNCHANGED <<live, spent>>
    /\ UNCHANGED <<config, secrets, keys, lapse, met>>

-----------------------------------------------------------------------------
\* Killed while it has written, or spent, something and not all of it.
Unfinished(p) ==
    \/ proc[p].op = "init"
    \/ proc[p].op = "refresh" /\ proc[p].pc # "exchange"

KillProc(p) ==
    /\ proc[p] # IdleProc
    /\ Upheaval
    /\ lapse' = (lapse \/ Unfinished(p))
    /\ Become(p, IdleProc)
    /\ UNCHANGED <<config, secrets, keys, live, met>>

\* The keychain's helper is removed, or installed.
ToggleKeychain ==
    /\ Upheaval
    /\ keys' = [keys EXCEPT !.up = ~@]
    /\ UNCHANGED <<config, secrets, live, proc, lapse, met>>

StoreNext ==
    \/ \E p \in Procs :
          \/ ReadKey(p) \/ MoveKeyAside(p) \/ ReadSecrets(p) \/ SaveSecrets(p)
          \/ SaveConfig(p) \/ MintId(p) \/ ClearKey(p) \/ EmptySecrets(p) \/ StoreKey(p)
          \/ WriteConfig(p) \/ ContinueInit(p) \/ Authorize(p) \/ GiveUp(p)
          \/ ExchangeToken(p) \/ KillProc(p)
          \/ \E force \in BOOLEAN, s \in {"file", "keychain"} : StartInit(p, force, s)
          \/ \E op \in {"serve", "add", "connect", "tools"} : StartCommand(p, op)
          \/ \E i \in Ids : StartRefresh(p, i)
    \/ ToggleKeychain

StoreSpec == StoreInit /\ [][StoreNext]_storeVars

-----------------------------------------------------------------------------
Initialising == \E p \in Procs : proc[p].op = "init"

Settled == ~lapse /\ ~Initialising

\* Types; what is stored is encrypted.
StoreTypeOK ==
    /\ config.servers \subseteq Ids
    /\ config.token \in Ids \cup {0}
    /\ config.storage \in {"none", "file", "keychain"}
    /\ \A i \in Ids : secrets[i].key \in 0..(MaxUpheavals + 1) /\ secrets[i].token \in 0..MaxTokens
    /\ \A i \in Ids : secrets[i].key = 0 => secrets[i] = NoSecret
    /\ live \subseteq 1..MaxTokens

\* What the configuration names is there: a server has its secret and the
\* gateway its token, whoever was killed where, unless a file was overwritten
\* that had changed since it was read.
NamedSecretsExist ==
    Settled => \A i \in config.servers \cup ({config.token} \ {0}) : secrets[i] # NoSecret

\* "Losing the master key makes stored secrets unrecoverable": every stored
\* secret can be decrypted with the key that is found now, wherever that is --
\* also while the keychain is away and after a migration.
SecretsReadable ==
    Settled => \A i \in Ids :
                  secrets[i] # NoSecret /\ MasterKey # 0 => secrets[i].key = MasterKey

\* "Avoid leaving a half-initialized tree that blocks retry without --force".
FailedInitCanRetry ==
    [][\A p \in Procs :
          ProcAt(p, "init", "store") /\ proc'[p] = IdleProc /\ ~proc[p].force
              /\ spent' = spent /\ ~met
          => ~Already']_storeVars

\* A server's stored refresh token is one the provider accepts, but for the time
\* a refresh takes to store what it got.
StoredTokensLive ==
    Settled => \A i \in config.servers :
                  \/ secrets[i].token \in live \cup {0}
                  \/ \E p \in Procs : proc[p].op = "refresh" /\ proc[p].id = i

-----------------------------------------------------------------------------
\* Of the command-line gateway's files: secrets that are named exist, can be
\* decrypted and hold tokens that work, and a failed init can be repeated.
StoreRules ==
    /\ [](/\ StoreTypeOK
         /\ NamedSecretsExist
         /\ SecretsReadable
         /\ StoredTokensLive)
    /\ FailedInitCanRetry
=============================================================================
