# Jackline: formal models

Jackline sits between agent hosts (Cursor, Grok, Claude) and upstream tool
servers. A host connects to the gateway with one bearer; the gateway decides
which tools that connection may see, finds the credential the user (or the
organisation) has for the upstream, refreshes it when it ages, and forwards the
call. Administrators, members and agents change all of this through the API
while calls are running. All durable state is in one PostgreSQL database shared
by any number of gateway replicas and API processes; the rest lives in the
memory of a process. A member can also run the gateway on a machine of their
own, from the command line, with files in place of the database.

This directory holds TLA+ models of that system, TLC configurations that check
them on small instances, and TLAPS proofs of what matters most. `PROJECT.json`
lists the components, the runs, the mutants that show each property can fail,
the source lines every definition stands for, the hazards and the theorems.

1. [Inventory](#1-inventory)
2. [Modules and how they correspond to the code](#2-modules)
3. [Runs: what is checked, bounds, fairness](#3-runs)
4. [Proofs](#4-proofs)
5. [Findings](#5-findings)
6. [What is not modelled](#6-what-is-not-modelled)
7. [Plan](#7-plan)

## 1. Inventory

Paths are under `src/`; `api/` stands for `apps/api/src/features/`, `gw/` for
`apps/gateway/src/lib/`, `web/` for `apps/web/src/pages/`.

### 1.1 Components

| Part | State | Hard part | What makes it correct |
| --- | --- | --- | --- |
| Upstream OAuth refresh (`packages/shared/src/upstream/oauth.ts`, `gw/mcp/upstreamClient.ts`, twin in `api/servers/syncTools.ts`) | `secrets` rows, `inflightRefreshes` per process, row locks | rotating refresh tokens; two levels of serialisation; crashes between the provider's answer and COMMIT; joining a refresh in flight | a refresh token is spent once; nothing newer is overwritten; a reconnect is asked for only when needed; every caller is answered |
| Tool-call proxy (`gw/mcp/proxyToolCall.ts`, `proxyHttpToolCall.ts`, `authRetry.ts`) | `servers.health` | two nested retries over a shared, changing credential; import and proxy place arguments by code of their own | retries end, move forward, and report a rejected credential; every argument goes where the document has it |
| Connection pool (`packages/db/src/client.ts`) | pg connections of a process | a second connection taken inside a transaction | some connection always comes back |
| MCP OAuth authorization server (`api/mcpOauth/`) | `clients`, `connections`, `oauth_authorization_codes`, `oauth_access_tokens` | no transaction anywhere; a client's metadata document is fetched again by every request that names it | a code is spent once; a session neither forks nor dies on its own; a consent goes to the client that was shown |
| Gateway authentication (`gw/auth/`) and tool policy (`packages/policy`, `gw/policy/`, `api/connections/effectiveTools.ts`) | roles, role tools, overrides, statuses | what was checked is stale when it is used; the policy exists twice | what stands throughout a request is respected; both copies agree |
| Access requests and members' toggles (`api/accessRequests/`, `api/connections/`) | `access_requests`, `connection_tool_overrides` | check-then-act over many statements | decisions are final; a denied request granted nothing, an approved one its tools |
| Upstream credentials (`api/myAccess`, `api/secrets`, `gw/mcp/upstreamClient.ts`, `api/servers/syncTools.ts`) | `secrets` by server, owner and kind | four writers and three readers that choose by code of their own; two reads where either owner will do | the readers agree; a call uses nobody else's credential and misses none that stays |
| OAuth Connect and OAuth apps (`api/oauth`, `api/oauthApps`) | `oauth_states`, `oauth_apps`, the client of a server | a callback resolves the client anew; states found and deleted by two statements; apps rotated, unlinked and deleted meanwhile | the code comes back to the client it was issued to; a refresh presents the right secret |
| OAuth discovery (`discoverMcpOAuthMetadata`) | none | nine places, each of which may not answer | it fails only when there is nothing to find, and finds an issuer the server names |
| Service clients (`api/clients`) | client secret, service user, access tokens | a token issued while the secret is rotated | no token outlives its secret |
| Agents (`api/agents`) and chat (`api/chat`) | knocks, tasks, trust grants; agents and listings; the owner's chat connection; chat settings | a knock, its task and its grant are three tables; all agents of an owner share one connection's overrides; polls overlap | a knock is decided once and a grant outlives no revocation; a message can call its agent's tools and no others |
| Organisations (`api/signup`, `api/authComplete`, `api/identity`) | tenants, memberships, invites | five doors that each select and then insert; no unique index | one organisation where one is meant; a person belongs once; an administrator exists |
| SSO settings (`api/identity`, `packages/auth/src/createAuth.ts`) | `sso_configs`, an auth instance per process | rebuilds overlap, fail, or happen in another process | the instance that serves is the one the settings call for |
| Platform email (`api/platformEmail`) | a settings row | created when first asked for; updates judged by the row they read | one row; a connector that was accepted can deliver |
| Quotas (`packages/quotas`) | counters in memory or Redis | a stop between INCR and EXPIRE | twice the limit at most in any window; every window ends |
| Server import and tool sync (`api/servers`) | `tools` | a catalog read once and written row by row | no tool is active that was not reviewed; a sync alone is complete |
| Lists (`lib/http/pagination.ts`) | none | rows come and go between pages; a cursor of milliseconds | no row is listed twice; none is passed over, but for one case |
| Command-line gateway (`apps/cli`) | `config.yaml`, `secrets.json`, a master key in keychain or file; sessions | processes without locks, killed between two writes; a watcher and new sessions share one fingerprint | what is named exists and can be decrypted; sessions follow the file |
| Web pages (`web/`) | what a page shows and holds | answers out of order, for a tenant no longer selected, or lost | rows of the selected tenant; settings saved where they were loaded; a retry duplicates only what failed |
| Rollout (`deploy/scripts/remote-deploy.sh`) | containers, images, a systemd unit | killed between any two steps | a healthy replica serves throughout |
| Audit events, email delivery, observability, docs, the connector catalogue | - | input, output and data only | not modelled |

### 1.2 How the parts interact

A request to `/mcp` carries a bearer that the authorization server issued
(`ClientRegistration`, `McpSession`) or an administrator minted. `GatewayRequest`
is that request up to the upstream: credential, connection, roles, overrides,
tool. `ToolCall` takes over where a call was let through, and asks `OAuthRefresh`
for the upstream's bearer, once or more often; for a tool made from an OpenAPI
document, `HttpTool` places the arguments. Which credential is refreshed is
chosen in `Credentials`, and it was stored by the callback of `OAuthConnect`.
`OAuthRefresh` locks the credential's row in a transaction that takes a
connection of the process's pool (`RefreshPool`). The overrides that
`GatewayRequest` reads are written by the handlers of `AccessRequests` and, for
agents, by `HostedAgent`; the tools are written by `ToolSync`. All of it meets in
the database: no process calls another, hence most modules can be judged by
themselves, with the writes of the others among their actions.

## 2. Modules

A definition whose comment starts with "Mutant:" is a plausible bug: it is not
used by the specification, and replaces the definition named in `PROJECT.json` to
show that a property depends on it.

Most models of API features share `ApiHandlers`: the requests served at once,
each a sequence of statements that commit one by one. What a handler has read is
in its record, and what has become of the row meanwhile is not. Where nothing in
the code keeps two handlers apart, a *history* variable records that they
overlapped, and the property says exactly which overlap it excludes; such a
variable is never read by a guard.

The properties of a module are collected in one formula, `...Rules`, a
conjunction of named parts.

| Module | Models |
| --- | --- |
| `StoredCredential` | abstract: an exclusive read-modify-write of one credential |
| `OAuthRefresh` | one `secrets` row, its callers, the provider, Connect, delete, faults; implements `StoredCredential` |
| `ToolCall` | tool calls and their retries; extends `OAuthRefresh` |
| `OpenApiImport`, `HttpTool`, `ToolSync` | an OpenAPI operation from import to call; syncs of the catalog |
| `RefreshPool` | the connections that refreshes and other queries hold |
| `ClientRegistration`, `McpSession` | the authorization server: who a client is, and the session it then holds |
| `GatewayRequest` | one request and the tables it reads |
| `AccessRequests` | access requests, toggles, overrides of one connection and server |
| `Credentials`, `OAuthConnect`, `OAuthDiscovery` | upstream credentials: stored and chosen, connected, discovered |
| `PersonalStore`, `SessionHub` | the command-line gateway: its files and its sessions |
| `Clients`, `Organizations`, `SsoSettings`, `PlatformEmail`, `Quotas`, `RollingDeploy` | who may come in, the limits they come under, and the rollout |
| `AgentTrust`, `HostedAgent`, `AgentListing`, `ChatSettings`, `TranscriptStream` | agents and chat |
| `ListPage`, `EditPage`, `ServerForm` | the pages of the web application |
| `KeysetList` | paged lists |
| `...Proofs` | TLAPS proofs, see [Proofs](#4-proofs) |
| `MC...` | instances for TLC: several components side by side, symmetry, bounds |

### 2.1 OAuthRefresh

`row` is the secrets row, or its absence. A caller is one invocation of
`resolveUpstreamAuthHeaders`; `pc` says where it is:

| `pc` | in the code |
| --- | --- |
| `loaded` | the secret was selected and decrypted (`snap`), possibly stale by now |
| `joined` | awaits the promise of another caller of its process (`leader`) |
| `waiting` | leads a flight; in `SELECT ... FOR UPDATE` |
| `sent` | holds the row (`cur`), token request outstanding |
| `minted` | the provider has answered (`got`), not yet committed |
| `finishing` | the transaction is over, the flight not yet removed from the map |
| `done` | answered (`result`) |

`Settle` removes the flight and answers the leader and everybody who joined,
which is one microtask turn in the code. `InFlight` is `inflightRefreshes`,
whose key is the row's id; the caller's other parameters are not in the key.
The provider is a set of refresh tokens it accepts (`live`), a counter of what
it has minted, and token requests whose sender has gone (`stray`). Expiry is one
of three values per access token (`life`): outside the 120 s window of `isFresh`,
inside it, expired. A fault is one of: BEGIN or the lock fails, the database
connection is lost, the write fails, COMMIT succeeds but its answer is lost, the
provider's reply is lost, the token request times out, the process dies. The
Connect handler is one at a time, and deletes and re-creates the row under a new
id. `life` moves only forwards.

Abstractions: tokens are numbers in the order they were minted; encoding and
encryption are left out, since no branch of the modelled code depends on more
than what kind of secret was decoded. An error body is one of the outcomes
`classifyOAuthRefreshFailure` tells apart. The provider does not change what it
accepts except by rotation and by the user's withdrawal.

### 2.2 ToolCall, HttpTool, ToolSync, KeysetList

`stage` names the await a call is at; `Resolving` stages are calls of
`OAuthRefresh` and the others are requests to the upstream. An MCP call may
resolve three times (open, reopen with force, forced call), an HTTP call twice.
The upstream rejects a bearer that expired or that it revoked; once it rejects
one it always does. `health` is the column `touchServerHealth` writes.

`HttpTool` takes every shape of operation, imports it (`OpenApiImport`), and
places the arguments as `proxyHttpToolCall` does. `ToolSync` reads the catalog
once and writes it row by row, while tools are reviewed and deleted and the
upstream changes. In `KeysetList` a client pages through a list whose rows carry
microseconds while the cursor carries milliseconds; `ended` is history, the
milliseconds that pages ended in.

### 2.3 RefreshPool

A refresh takes a connection for BEGIN, waits for the row, takes a second
connection to read the linked OAuth app (`oauthAppOverride.ts` uses `db`, not the
transaction), returns it, awaits the provider, commits. An ordinary query takes
one connection and returns it. `SingleFlightAssumption` states that one process
refreshes a row at most once at a time, which is `inflightRefreshes`.

### 2.4 McpSession and ClientRegistration

Every statement of `service.ts` that reads or writes a table is a step. A token
row keeps the code its session started with and the row it was refreshed from,
which the code does not store: they are history, for the properties.
`McpSession` is of one client and one user, so that the unique index on
`connections` allows one row at a time; `inserted` numbers the rows. A deleted
connection takes its tokens along (`ON DELETE CASCADE`) and is forgotten by its
codes (`ON DELETE SET NULL`); an insert that refers to it is refused.
`EnsureActivate` follows the code: consent makes the connection active whatever
status it has by then, one an administrator has just set included.

`ClientRegistration` is of several clients in several tenants: dynamic
registration, and the `client_id` that is the URL of a metadata document, fetched
and stored again by every page, consent, exchange and refresh.

### 2.5 GatewayRequest

`Arrive`, `ReadCredential`, `ReadConnection`, `ReadRoles`, `ReadOverrides` and
`CallTool` are the reads of one request, each a snapshot of its own. Each write
to the tables is one statement or one transaction of the API. A request only
reads, so that one at a time shows what many would see. `standing` and `ever`
are history: the causes to refuse each tool, and the grants of it, that have held
since the request arrived, and the tools something has blocked since.

`getAllowedTools` takes the statuses from the first row of a tool and the
permission from all of them: `FirstRows` and `Denied`. `EffectiveTools` is the
API's copy of it, which accumulates rows before it applies the same function.

A cause or a grant that *moves* between the two reads is not seen: a deny taken
off the overrides and put on a role before the overrides are read, but after the
roles were, is in neither result. The properties are therefore about single
causes and grants that stand throughout, which is the strongest statement the two
reads support.

### 2.6 AccessRequests

A handler is an operation (`create`, `approve`, `deny`, `cancel`, `attach`,
`toggle`), the statement it is at, and what it has read: the request, the row id
and type of the override. `row` is `"replaced"` once the row it read has been
deleted: an UPDATE by that id then touches nothing. `StartCreate` and
`StartAttach` join the reads that only validate. `setToolOverrides` and the
roles' `setTools` are transactions, hence single steps. A request's `history`
says what has been done on its behalf and whether handlers overlapped; it is
cleared when the last of them has left, to keep the state small.

### 2.7 Credentials, OAuthConnect, OAuthDiscovery

A secret of `Credentials` is in a *slot*: the binding (server, owner,
connection) and the kind it was encrypted under and is found by. Writers are the
Secrets API, My Access and the OAuth callback; readers are a tool call
(`GatewayOrder` by mode), the tool sync (`SyncOrder`) and the readiness that My
Access and the connection page show (`Readiness`). `steady` and `crossed` are
history of a handler: the rows there since it began, and whether another one wrote
its slot. A server with mTLS takes no credential and no reader looks for one:
`ReadinessAgrees` is about the other two methods.

`OAuthConnect` follows a Connect from the authorize URL to the stored credential,
while administrators change the server's own client, link, unlink, rotate and
delete shared apps, and the provider rotates secrets. `OAuthDiscovery` asks the
places of `discoverMcpOAuthMetadata` in their order, over every set of hosts that
serve or do not.

### 2.8 PersonalStore and SessionHub

Commands read a whole file, change it and write it back (`ReadSecrets`,
`SaveSecrets`, `SaveConfig`). The key is in the keychain or in `master.key`, and
moves to the keychain when a command finds it in the file alone. `lapse` records
what no lock prevents: a file overwritten that had changed since it was read, a
process killed between two writes, an `init` that ran beside another process.
`met` tells the last: a command that starts after a forced `init` has emptied the
secrets, and ends before it stores its key, saves a secret under the key that goes,
though no file was overwritten blindly and `init` finds itself alone again when it
goes on. `SessionHub` is one process: sessions that
initialize, the debounced watcher, and `refreshSessions`, with the fingerprint
they share.

### 2.9 The directory: Clients, Organizations, SsoSettings, PlatformEmail, Quotas, RollingDeploy

`Clients` has every statement of rotate, revoke, update, remove and issue.
`Organizations` has the doors by which a person comes to belong: sign-up, social
sign-up, a completed sign-in with invite or domain, SCIM. `SsoSettings` has the
settings and, per API process, the instance built from them; two processes serve
during a rollout. `PlatformEmail` has a row that requests create when they find
none. `Quotas` has one counter, in the process or in Redis by INCR, EXPIRE and
TTL. `RollingDeploy` has the containers of one service, numbered as Compose
numbers them, and a deploy script that may be killed anywhere.

### 2.10 Agents and chat

`AgentTrust` has the rows of knocks, tasks and trust grants, and what peers hold;
numbers are handed out in order, so that the latest secret is the largest.
`HostedAgent` runs messages on the owner's chat connection, whose overrides are
replaced before each. `AgentListing` has an agent's status and its listing,
columns of two tables. `ChatSettings` has the provider and the key it needs.
`TranscriptStream` has polls that overlap and answers that come out of order.

### 2.11 The web pages

`ListPage` and `EditPage` are each one model for many pages: what tells the pages
apart is a record of what their buttons write, what is disabled, whether a late
answer is dropped, and what fills the form. `ServerForm` is the dialog that saves
a server with up to four requests. They are read as single-threaded components
whose requests are answered in any order, or lost.

## 3. Runs

Every passing run explores its instance completely. Components that share no
variable are checked in one run, one at a time: the variable `part` (or `scene`)
says which, the others stay in one initial state. Their state spaces add up
instead of multiplying, and nothing is lost, since no action of one reads what
another writes.

| Run | Question |
| --- | --- |
| `OAuthRefresh` | Scene "user": two processes refresh one credential while the user reconnects, disconnects and connects again. Scene "faults": the same race with one fault anywhere. With the refinement of `StoredCredential` |
| `ToolCall` | The nested retries end, move forward and ask for a reconnect only when it is deserved, with one fault, or with consent withdrawn |
| `RefreshPoolSpare` | A pool with one connection more than the refreshes of its process never starves |
| `Gateway` | A request against changes of the tables; two requests to the authorization server, statement by statement; clients registered and fetched anew |
| `Catalog` | Access requests; lists; operations from import to call; syncs |
| `Upstream` | Connect; stored credentials; discovery; the command-line gateway's files and its sessions |
| `Directory` | Clients, organisations, SSO, email, quotas, the rollout |
| `Agents` | Trust, hosted messages, listing, chat settings, transcript; the pages |
| `OAuthRefreshForcedJoin`, `ToolCallForcedOpen`, `RefreshPoolFull`, `KeysetSkips` | Expected violations, see [Findings](#5-findings) |

The properties of a run are the `...Rules` of the modules it instantiates:

| Property | Its parts |
| --- | --- |
| `SessionRules` | a code grants one session (`CodeGrantsOnce`); a session forks only when two of its refreshes overlap (`ForksOnlyByOverlap`), survives while nothing fails (`SessionSurvives`), and its tokens go with the connection (`TokensHaveConnection`); consent fails only by a fault or a deletion |
| `RegistrationRules` | a consent goes to the client that was shown (`ConsentForShown`); what was granted once is granted again while nothing changes (`GrantedStaysGranted`) |
| `StandingCauseBlocks`, `RefusedForACause`, `ApiAgrees` | a cause that stands throughout a request blocks it; a refusal has a cause; the API's policy is the gateway's |
| `AccessRules` | `OnePendingUnlessRaced`, `FinalUnlessOverlapped`, `DeniedGrantsNothing`, `ApprovedWereGranted`, `ToggleHonoured` |
| `HttpRules` | a call with all that the schema requires is sent; each argument once; and, for operations of the usual shape, where the document declares it |
| `SyncRules` | `ActiveWasReviewed`; a sync that nothing crosses succeeds and is complete |
| `KeysetRules` | no row is on two pages (`NoRowTwice`); what was there all the time and is on none is of a millisecond that a page ended in (`OnlyTiesPassedOver`) |
| `CredentialRules` | rows are sealed as they are found; `ReadinessAgrees`; `NeverAnothers`; `MissingWasMissing`; `ConnectAloneStores`; `SharedMeansShared` |
| `ConnectRules` | `StateSpentOnce`, `RefreshKeepsClient`, `ConnectCompletes`, `UnlinkedKnowingly` |
| `DiscoveryRules` | `FailureMeansNothing`, `IssuerWasNamed` |
| `StoreRules` | `NamedSecretsExist`, `SecretsReadable`, `StoredTokensLive`, `FailedInitCanRetry` |
| `HubRules` | `SessionsFollowFile` |
| `ClientRules` | `SurvivorsOverlapped`, `OneServiceUser`, `ServedWithClientRole` |
| `OrganizationRules` | `SingleTenancy`, `OneMembership`, `AdminExists`, `AcceptedBelong` |
| `SsoRules` | `EnabledHasSecret`, `SignUpClosed`, `ProviderIsCurrent` |
| `EmailRules` | `OneSettingsRow`, `SavedCanDeliver` |
| `QuotaRules` | `TwiceTheLimit`, `RetryIsEnough`, `EveryWindowEnds` |
| `DeployRules` | `ServedThroughout`, `FailureKeepsOld`, `DoneIsRolled` |
| `TrustRules` | `OnePendingPerPeer`, `OneGrantPerKnock`, `TaskTellsDecision`, `DeniedGrantsNothing`, `LatestSecretStands`, `CredentialAdmitted`, `CredentialForApproved`, `EndedStaysEnded` |
| `HostedRules` | `OverridesFollowBindings`, `WorkingIsRunning`, `BoundToolsCallable`, `AloneIsServed` |
| `ListingRules`, `ChatRules`, `StreamRules` | `FoundWhilePublished`; `KeyIsLatest`, `AcceptedTogether`, `RunHasKey`; `StreamIsCurrent` |
| `ListRules`, `EditRules`, `FormRules` | `ShownIsSelected`, `QuietIsCurrent`, `OwnTenantOnly`; `SavedWhereLoaded`, `ActsOnShown`, `TypedIsKept`; `HoldsItsKind`, `DoneIsStored`, `DoneIsLinked`, `OneForEachFailure` |
| `PoolRules`, `RequestCompletes`, `CallAnswered` | some connection always comes back; liveness |

Each has a type invariant among its parts.

### Bounds

| Bound | Value | Why it is enough |
| --- | --- | --- |
| `Handlers` | 2 | conflicts are between two handlers on one row |
| callers and processes (`OAuthRefresh`, `ToolCall`) | 2 in 2, or 2 in 1 | the two serialisations concern pairs: two callers of one process share a flight, two processes a row lock. The safety theorems of the refresh hold for any number |
| `MaxMint`, `MaxGrants`, `MaxRows`, `MaxFaults` (`OAuthRefresh`) | 3, 2, 2, 1 | an original pair and two rotations: a stale reader can be two tokens behind; one reconnect, one deletion and re-creation; one fault at every point |
| `InitKinds`, `InitLives`, `Rotations`, `MintLives`, `ConnectKinds` | per run | the kinds and lifetimes a run's question depends on; a fresh token is returned at once and starts nothing |
| `PoolSize` | 3 and 2 | one more than, and as many as, the refreshes that can be in flight in a process (2) |
| `MaxConns`, `MaxCodes`, `MaxTokens`, `MaxFaults` (`McpSession`) | 2, 2, 3, 1; `FourInAll` | every pair of requests overlaps, across one deletion of the connection; three rows are a token, its successor, and a fork. Two codes and three tokens at once add nothing, nor does a second code where something fails |
| `MaxRows`, `MaxEdits`, `MaxServed` (`ClientRegistration`) | 2, 1, 3; `CalmAfterEdits` | a page, its code and its token; after an edit one request at a time, which has all that went before behind it |
| `Tools`, `Roles`, `MaxChanges` (`GatewayRequest`) | 1, 2, 2 | tools are judged independently; a granting and a denying role; a cause can go and return. The theorems hold for any number |
| `NotActive` | one value | the code only asks whether a status is active |
| `Tools`, `Requests`, `MaxUpsets` (`AccessRequests`) | 1, 2, 1; `OneRequestAmongUpsets` | two requests race without an upset; with one, the race is between a request and the edit. The theorem holds for any number |
| `MCDocuments`, `MaxChanges`, `MaxReviews`, `MaxSyncFaults` | 1 each; `TwoUpheavals` | names that collide, a replaced document, an MCP server; two of a change, a review and a failure around two syncs |
| `RowIds`, `PerMilli`, `Limit`, `MaxDeletes` (`KeysetList`) | 3, 2, 1, 1 | a page boundary with a row on either side, within one millisecond or not. The theorem holds for any number |
| `Members`, `Callers`, `MaxCredChanges` (`Credentials`) | 2, 1, 1; `TokensAtFirst` | a member who calls and one who does not; one change of a row or of the server at any point. The theorem holds for any number |
| `MaxConnects`, `MaxEdits` (`OAuthConnect`) | 2, 1 | two Connects that register at once, one edit anywhere |
| `MaxIds`, `MaxTokens`, `MaxUpheavals` (`PersonalStore`) | 2, 2, 1; `FourAtMost` | two secrets in one file, one rotation; beside an upheaval one token is enough to be lost. The theorem holds for any number |
| `MaxHubEvents` (`SessionHub`) | 2; `OneSessionLeft` | a change that overtakes another's refresh; the third party of a second change is the refresh, not another session |
| `MaxLost` (`OAuthDiscovery`) | 1 | one lost answer at each place; the lost ones are independent |
| `MaxRotations`, `MaxClientFaults` (`Clients`) | 2, 1; `OneRotationFails` | a token and the rotations before and after it |
| `Users`, `MaxOrgFaults` (`Organizations`) | 2, 1; `OneInvited`, `CalmAfterFailure` | two founders, a founder and a guest; what a failure leaves is found by the next request |
| `MaxRolls`, `MaxSsoUpdates`, `MaxSsoFaults` | 1, 2, 1 | two processes; two updates that overlap |
| `Hits`, `QuotaLimit`, `Window`, `MaxClock` | 3, 1, 2, 4 | two windows, and one request more than twice the limit |
| `Deploys`, `Works`, `MaxKills` | 3, all but one, 1 | a good roll after a bad one, and one killed between |
| `Peers`, `MaxKnocks`, `MaxGrants`, `MaxTrustFaults` | 1, 2, 2, 1; `FiveAboutTrust` | a knock renewed or repeated; two decisions of it. Peers share no row. The theorem holds for any number |
| `Agents`, `AgentTools`, `MaxRemovals`, `MaxHostedFaults` | 2, 1, 1, 1; `CalmAfterRemoval` | two agents of one owner on one connection |
| `MaxChatUpdates`, `MaxChatFaults`, `Polls`, `MaxListingFaults` | 3, 1, 2, 1 | two updates that overlap after one that is done; a poll that overtakes another |
| `MaxSwitches`, `MaxPresses`, `MaxUpsets` (`ListPage`) | 1, 2, 1; `OnePressAmongUpsets` | an answer for a tenant no longer selected; two buttons on one page |
| `MaxMoves`, `MaxTyped`, `MaxEditFaults` (`EditPage`), `MaxServers`, `MaxApps`, `MaxSubmits`, `MaxFormEvents`, `MaxFormFaults` (`ServerForm`) | 1, 2, 1; 2, 2, 2, 1, 1 | one move under way; a second press after a failure |

The named formulas are conjuncts of the next-state relations of the `MC` modules,
which say what each excludes. They only bound instances; the specifications that
the theorems are about do not have them.

Symmetry is used where all the permuted values are interchangeable in Init, Next
and the properties, and never in a run with a liveness property. Components that
run side by side share their model values (`Handlers`, `Procs` and `Sessions` in
`Upstream`, say), to keep the group small: they never run together.

`CHECK_DEADLOCK` stays on, but for `RefreshPoolFull`, where the process really
stops. Where a component may come to rest for good (a deleted client, a second
organisation), it has an action that says so and changes nothing.

### Fairness

Safety runs assume none. The liveness runs assume:

- weak fairness of a process's own steps (`Enter`, `Store`, `Settle`, `Continue`,
  `ReturnSecond`, `EndTransaction`, `EndQuery`): the event loop runs every
  continuation, unless the process dies;
- weak fairness of the provider's answer and of the upstream's: `tokenRequest`
  aborts after 15 s, and the MCP and HTTP clients have timeouts of their own;
- strong fairness of `Acquire`: PostgreSQL queues the waiters of a row lock, so
  that a caller is not overtaken for ever while the lock comes free repeatedly;
- strong fairness of taking a connection and a row (`RefreshPool`): pg's pool and
  PostgreSQL serve their waiters in order.

Nothing is assumed of users, administrators, the clock or faults.

## 4. Proofs

TLAPS proves what follows for every value of the constants, under the assumptions
the modules state about them. The pattern is always the same: an inductive
invariant (`...IInv`, which TLC checked on a small instance first), one lemma for
each action that preserves it, a lemma that draws the properties from it, and a
last temporal step. Most properties are far from inductive; what follows says for
each module what had to be added, since that is what the code really relies on.

| Module | Theorems |
| --- | --- |
| `OAuthRefreshProofs` | `TypeCorrect`, `Inductive`, `SpendsExclusively`, `SpendsOnlyStored`, `WritesMoveForward`, `ReturnsOnlyStored`, `ReconnectOnlyDeadGrant`, `Refinement`; of tool calls: `ToolTypeCorrect`, `ReconnectDeserved`, `BearersForward` |
| `GatewayRequestProofs` | `TypeCorrect`, `Inductive`, `StandingCausesBlock`, `RefusalsHaveCauses`, `ApiAlwaysAgrees`, `RegistrationCorrect` |
| `GatewayProofs` | `PoolTypeCorrect`, `PoolCorrect`, `SessionCorrect`, `HttpCorrect`, `KeysetCorrect`, `SyncCorrect` |
| `DirectoryProofs` | `SsoCorrect`, `EmailCorrect`, `DeployCorrect`, `QuotaCorrect`, `ClientCorrect`, `OrganizationCorrect`, `AccessCorrect` |
| `AgentsProofs` | `TrustCorrect`, `HostedCorrect`, `ListingCorrect`, `ChatCorrect`, `StreamCorrect`; of the web pages: `EditCorrect`, `ListCorrect`, `FormCorrect` |
| `UpstreamProofs` | `CredCorrect`, `ConnectCorrect`, `DiscoveryCorrect`, `HubCorrect`, `StoreCorrect` |

A theorem called `...Correct` states a whole `...Rules` formula of section 3.

### 4.1 OAuthRefresh (OAuthRefreshProofs)

Assumed: `ConstantsAssumption` and `NoRowAssumption` (types of the constants). For
any processes, callers, mints, grants, rows and faults:

| Theorem | States |
| --- | --- |
| `TypeCorrect` | every variable keeps its type; every step has the secrets it works on |
| `Inductive` | `[]IInv` |
| `SpendsExclusively` | without faults, at most one token request is outstanding |
| `SpendsOnlyStored` | no request carries a refresh token that has left the store |
| `WritesMoveForward` | the stored secret moves to a later grant or token only |
| `ReturnsOnlyStored` | a bearer is handed out only if it is the stored one |
| `ReconnectOnlyDeadGrant` | a reconnect is asked for only when the stored credential is dead |
| `Refinement` | the resolver implements `StoredCredential` |

`LockInv` ties the lock to the row: its holder has read what is stored.
`FlightInv` says that what a holder is about to save is a newer token of the same
grant, hence saving moves forward. `IssuedInv` bounds every token in existence by
the counters, hence a new one is new. `ConnectInv` says a Connect under way brings
a grant of which nothing was stored, hence it cannot put a retired token back.
`RetiredInv` says the row and what is about to replace it hold no retired token.
`HolderInv` gives exclusivity while nothing fails; after a lost connection the
lock is gone while the request is still outstanding, and the properties that
survive that are those about the store. A save succeeds only while the lock is
held (`Committed`), which is why the refinement holds with faults: a flight that
lost its lock ends without a trace.

Of tool calls, which `ToolCall` composes with all of that (each of its steps is a
step of the resolver or leaves it alone, lemma `ToolSteps`), for any routes too:

| Theorem | States |
| --- | --- |
| `ToolTypeCorrect` | every request carries a bearer; a resolution is under way only for a call that awaits it |
| `ReconnectDeserved` | "reconnect" only over a missing or dead credential, or a bearer the upstream rejects |
| `BearersForward` | whoever awaits a refresh when it is decided gets no older bearer than it saw rejected |

`ToolInv` adds to `IInv` what a call holds of resolutions long since over: the
bearer it sends is the one it was given (`Holding`), the one it retries was
rejected and still is (`Retrying`), it forced at most two refreshes (`Sparing`),
every bearer in anybody's hands was minted (`Handed`), and none of them is newer
than the stored one while the user has authorised only once (`StoredIsNewest`).
The last is why a retry goes forward, and why it may not after a new Connect.

### 4.2 GatewayRequest (GatewayRequestProofs)

Assumed: `PolicyAssumption`. For any tools, roles, statuses and number of changes:
a cause that stands throughout is respected, a refusal has a cause, and the API's
copy of the policy agrees with the gateway's. `HistoryInv` says the history is true
of the current tables, `PassedInv` that a check the request has passed is not a
standing cause, and `RowsInv` that the rows of roles the request holds, possibly
stale, still reflect whatever has stood since. The changes need no case analysis:
the history is intersected with what holds after each, so every conjunct is
monotone in it. The lemmas `RoleRowsOf`, `OverrideRowsAre` and `AllowedIff` say
once what the queries return and what the policy decides.

### 4.3 ClientRegistration (GatewayRequestProofs)

For any handlers, tenants, redirect URIs and names. `AnswerOK` is said of a page, a
code, and whatever a consent or an exchange presents: the row it names, if it is
still there, is one that was asked for (`RowFits`), and as long as nothing changed
since, what was asked for stands as things are (`Stands`: the row exists, the
document is reachable, lists the redirect URI, and its name is free). `LookupOK`
follows a request: until something changes it works with the published document,
and it never comes to insert a row for a client whose page was shown. The steps of
others are judged once, by `TablesMove`: they either count as a change, or leave
standing what stood. The slightly surprising case is another request that updates
the same row to the same document, which changes the row and nothing else.

### 4.4 Sessions, pools, lists and tools (GatewayProofs)

`PoolCorrect` says that some connection always comes back. It assumes
`SparePools`, that a process may run fewer refreshes at once than its pool has
connections, and `SingleFlightAssumption`; `RefreshPoolFull` shows that the first
cannot be dropped. `PoolIInv`: no pool hands out more connections than it has
(`PoolBounded`), and a row is locked by a refresh that is past taking it
(`LockIsHeld`); of the refreshes of a process, each of which holds one connection,
some one therefore finds a second.

`SessionCorrect` is of codes and tokens, for any number of connections, codes,
tokens and faults. `SessionIInv` follows every row to the code its session started
with: each code starts one session (`CodesOnce`), the rows of a session descend
from one another (`SessionsTogether`), and two rows that live beside each other
are explained by handlers that overlapped (`ForksOverlap`).

`HttpCorrect`: the schema of an imported tool is the one of its operation
(`OfItsOperation`), and what is sent are the arguments, placed (`Placed`); the rest is
about sets of names. Assumed: `KeysAssumption`, that the argument which stands for a
whole body is a name.

`KeysetCorrect` needs that what was seen is not after the cursor (`Reading`), and of
a page that it takes what comes first (`PageOf`), so that its last row bounds what it
leaves. A cursor moves at most to the start of the millisecond of that row
(`CursorMoves`), hence backwards over nothing that was seen, and forwards only over
what is of that millisecond (`MillisSame`). A reading passes rows over at each of its
pages: with three rows the last page is the only one that can, and an earlier form
of `OnlyTiesPassedOver`, which spoke of the last page alone, held there and failed
for four. Assumed: `KeysetAssumption`.

`SyncCorrect` rests on two facts. The names an import gives differ whatever the ids
are (`NamesDiffer`): of the numbers `uniqueName` may append one more are tried than
there are names in use (`UniqueNameIsNew`). And a sync that nothing crossed runs
beside no other (`SyncExclusive`), so that the catalog holds what it read, what it has
written as it found it, and nothing else (`SyncAlone`): it inserts what is not there,
and at the end all of it is. Assumed: `SyncAssumption`, that documents and ids are
sequences.

### 4.5 The directory (DirectoryProofs)

`SsoIInv`, as long as no two handlers overlapped: at most one rebuilds an auth
instance, and what it builds says what the settings say (`OneRebuilds`,
`BuiltIsCurrent`); the other processes have missed the change (`OthersMiss`), and
one that missed nothing serves the current settings or is about to
(`SparedIsCurrent`); an update writes over the row it has read (`SecretKept`).
`EmailIInv`: as long as no two handlers overlapped, one creates the row and one
updates it, and what it judged is what it writes.

`DeployIInv`: the unit runs one deploy at a time (`UnitRuns`), and `RollKnows` says
for each place of the script which of the two containers is there, whose image it
has, and, once its health was seen, that it is healthy. A roll that removes a
container therefore always leaves one that serves. The two properties of steps,
`FailureKeepsOld` and `DoneIsRolled`, follow from the same invariant. Assumed:
`DeployAssumption`.

`QuotaIInv`: a window lasts at least `Window` after the hit that began it
(`WindowsLast`), and every other hit it counts comes before its end. Between two
hits that got one count a window began (`WindowsApart`, which needs
`FirstOfWindow`: the first hit of the present window came after all that have
higher counts), and the first hits of two windows are a window apart. Of three
admitted hits with one count the last therefore comes more than a window after the
first, so that a span of one window admits at most two for each count up to the
limit. `RetryFollows` keeps what a refused caller was told true of the counter, or
of those that came after it. Assumed: `QuotaAssumption`.

`ClientIInv`: `ActorFollows` says for each place of a handler which service user is
the client's, while one handler at a time makes or drops it, hence there is one.
`IssuedUnder` says of a token in the making that its secret is the present one or
that a withdrawal crossed it: whoever changes the secret marks every token in the
making, and `TokensFollow` carries that to the tokens that were issued.
`RoleFollows` says between which statements of an update the service user has not
yet the role of its client. Assumed: `ClientsAssumption`.

`OrgIInv`: while no two founders overlapped, the founder that has counted the
organisations is alone with its count (`OneFounds`). An account that a sign-up has
made is the sign-up's own until that is done (`AccountsMade`): nobody signs in with
it, hence nothing else makes its user an administrator (`AdminsSignIn`) or uses up
its invite (`InvitesUsed`), and taking the account back removes neither the
administrator nor an accepted member. Between tenant and administrator there is
always a founder at work (`AdminComes`). Whoever is about to insert a membership
has seen none, and none came since unless requests for the user overlapped
(`ServedInTurn`); `RoomForAll` bounds the rows such overlaps leave by the number of
handlers. Assumed: `OrganizationsAssumption`.

`AccessIInv`: whoever decides a request found it pending, and two that decide it at
once have both noted so (`DecideTogether`): one that still holds a decided request
has overlapped. A tool that was granted for a request was granted by a handler that
is still approving it, unless an approval broke off (`GrantsExplained`), so that one
that denies it alone has nothing behind it. A handler about to insert a request has
missed only those whose creations raced its own, the tools an approval is through
with are granted or missed, and the row a handler has selected is there until it is
forgotten (`HandlerOK`). Assumed: `AccessAssumption`.

### 4.6 Agents, chat and the web pages (AgentsProofs)

`TrustIInv`: knocks, tasks and grants are numbered and refer to each other
(`Numbered`, `Linked`); a knock is decided once unless two decisions overlapped
(`DecidedOnce`); as long as no two knocks overlapped, a peer's pending knock is the
one whose secret was told last (`KnocksInTurn`); and a token whose exchanges do not
overlap is exchanged for the credential the grant then has (`ExchangedOnce`).
`TrustRules` follows for any peers, knocks and faults.

`HostedIInv` says of a handler that meets no other what it relies on, step by step
(`HostedRelies`): the tools it has listed are still bound, the connection and token
it has read are those stored, the overrides it has set stand. The overrides are
those of the agent they were set for until something interferes
(`OverridesAreSynced`), and the numbers of connections and tokens stay within their
bounds because all but the last have been removed (`HostedTables`). Assumed:
`HandlersAssumption`, `HostedAssumption`.

`ListingIInv`, as long as no two handlers that list overlapped: there is one
(`OneLists`), the status it has set is the one it lists for (`StatusIsSet`), and
between handlers listing and status agree (`ListedAsPublished`).

`ChatIInv`: an update that has its key stored has a key for its provider
(`ChatSteps`); while updates do not overlap there is one (`OneChanges`), it holds
the key given last or the one it found (`KeyInHand`), and until it is done the
settings are those accepted before or are on their way (`OnItsWay`).

`StreamIInv`: a poll no change has crossed (`fresh`) has read what is on record, as
far as it has come (`FreshIsCurrent`), and a stream that is current has no other
polls out (`NoneBehind`). A stale poll may have read an approval and not yet the
grant, but grants precede what depends on them (`GrantsFirst`, `ReadInOrder`).

`EditIInv`: what is under way is about the subject of the route (`EditNear`) on a
page of actions until the subject changes under it or a load fails, on a mounted
form until the subject changes at all; the other forms save to the subject they
show. While that holds, and always where it is not needed (`EditClean`), every load,
every save and every stored value belongs to the subject it was entered for
(`EditFetchOK`, `EditPressOK`, `EditStored`), and what is shown is the subject of the
route (`EditScreen`). That no save carries a form that was never filled is a second
invariant on top of it (`EditSeen`). Assumed: `EditPageAssumption`; besides the types
it says that the words for no subject are not subjects, and that a handler is not
one of the numbers by which effects are known.

`PageIInv`: a page that listens to one load at a time shows the rows of the selected
tenant (`ShownIsSelected` is inductive with `PageLoads`, which says that only the
latest effect is asked for that tenant). While no activities overlap, one load or
one handler is under way, and for the selected tenant (`PageOne`); what it has read
is stored (`PageRead`); and where it has failed, somebody was told (`PageTells`).
Assumed: `ListPageAssumption`, likewise.

`FormIInv` follows one press: what it knew when it began (`FormKnows`,
`PressKnows`), and of what it was to write, all that its steps so far should have
written (`PressWrote`). A secret is in the row of its kind because the id a press
goes by is one of the listing for its own method, or it was `blind` (`VaultOK`). Each
press that ends early is counted, so that the servers there are never exceed the
failures by more than the one that is being saved, and while a new app can still be
chosen there are no more apps than lost answers (`FormCounts`). Assumed:
`ServerFormAssumption`; an edit is of server 1, so there is a first server.

### 4.7 Upstream credentials and the command line (UpstreamProofs)

`CredCorrect`: `RowsOK` says what the writers leave in the table, and `CallOK` what
each caller has read and decided, place by place, as far as no write to its row
has crossed it; whatever it found missing was not there all along (`steady`).

`ConnectCorrect`: `TablesOK` and `ProviderOK` relate servers, apps and what the
provider issued; `FlowOK` follows each handler. `StartCurrent` and
`CallbackCurrent` are the heart of it: a flow that began under the present
configuration holds the very client that a resolution now would give, and a change
of the configuration, which advances `version`, makes them say nothing. `Once` says
that until a second callback overlaps, at most one handler is at work on a state.

`DiscoveryCorrect`: where the search does not ask any more it has asked, and there
was nothing unless the answer was lost (`PrmAsked`, `MetadataAsked`). What is still
to be asked is a sequence, of which the proof uses its head, its tail and the set of
its elements. Assumed: `DiscoveryAssumption`.

`HubCorrect`: of the sessions no change has crossed, `OneConfig` says that a refresh
tells them what was seen last and nothing else, and that one which does not follow
it yet is going to be told; `ToolsKnown`, that what a session offers is of the
configuration it follows, and while it offers nothing somebody discovers;
`ChangeNoticed`, that a change of the file is going to be looked at until it is what
was seen. Assumed: `HubAssumption`.

`StoreCorrect`: a process that has begun to replace the key (`Resets`) does so alone
or the files are not `Clean` any more. While they are, it replaces the key and all
that is encrypted under it in an order in which nothing refers to what is gone
(`KeyReplaced`); otherwise the keychain and `master.key` hold the same key if both
hold one (`KeysAgree`), what is named or about to be named is stored
(`NamesStored`), and no token is in two places but the one a refresh spends
(`TokensLive`). An `init` without `--force` has found nothing, and finds nothing
until it stores the key (`NothingYet`). The proof asked for the history `met`:
without it the invariant, and with two runs of `init` the rules themselves, failed.
Assumed: `StoreAssumption`.

### 4.8 Only model-checked

Out of the prover's reach: liveness (`CallAnswered`,
`RequestCompletes`), since fairness and ENABLED are. Every other property of a
passing run is stated by a theorem. The four expected violations have none by
nature.

## 5. Findings

| Run | What it shows |
| --- | --- |
| `OAuthRefreshForcedJoin` | A request with a still valid token in the refresh window joins a forced refresh in flight and is given that refresh's transient error, although `oauth.ts:430` promises that a transient failure keeps a token that has not expired |
| `ToolCallForcedOpen` | When the session reopened on the forced attempt is rejected too, the call ends in a plain connection error and the user is not asked to reconnect, although `harness-reauth.mdx:20` says so |
| `RefreshPoolFull` | As many refreshes as the pool has connections, for different secrets, each hold one and wait for another: with no connection timeout none ends |
| `KeysetSkips` | A row created in the same millisecond as the last row of a page, before it, is on no page: the cursor lost the microseconds the database compares with |

Behaviours the passing runs make explicit, where the properties name them as
exceptions:

- a call whose bearer was rejected, and which joins a refresh already committed but
  not yet answered, may be given an older bearer than the one it lost
  (`BearersMoveForward` speaks of those who wait when the refresh is decided);
- two overlapping refreshes with one MCP refresh token both succeed, and the
  session forks (`ForksOnlyByOverlap` says that nothing else forks it);
- a failure between revoking the old MCP token row and inserting the new one
  loses the session (`SessionSurvives` holds without faults only);
- an approval and a denial of one access request that overlap both go through; the
  later write decides the status, the grants stay;
- an approval whose tool's override is replaced between its SELECT and its UPDATE
  is recorded as granted without granting it (the `missed` tools in
  `ApprovedWereGranted`);
- two access requests for one server can both be pending if created at once;
- `setMemberToolEnabled` takes any deny of a tool no role grants for an allow that
  the member had turned off, an administrator's included;
- a denial of a knock that was approved before leaves its grant and credential as
  they are (`DeniedGrantsNothing` of `AgentTrust`);
- a token issued between the statements of a rotation keeps working
  (`SurvivorsOverlapped`);
- a query parameter of a POST operation is sent in the body, and a body of a
  DELETE not as a body (`UsualShape`);
- a new session of the command-line gateway takes the fingerprint of a changed
  file, and sessions opened before it are not told (`crossed` in
  `SessionsFollowFile`);
- a refresh of the command-line gateway that finds no key when it stores has
  spent its refresh token (`lapse`);
- the server dialog, when the shared apps could not be listed, saves a linked
  server without its link (`DoneIsLinked`).

## 6. What is not modelled

- Strings: URLs, headers, argument building, error wording, token formats, PKCE
  and encryption. A check on them is a precondition of the action.
- Audit events, notifications, logs and metrics: inserts nobody reads back.
- Team scopes and administrator roles: who may call a handler.
- More than one Connect callback at a time for one credential in `OAuthRefresh`;
  they are in `OAuthConnect`, without the refresh.
- A provider that answers a client-credentials request with a refresh token, or
  whose acceptance of a refresh token changes by itself.
- Several tenants, but in `ClientRegistration`, `Organizations` and the pages:
  every query is scoped by tenant.
- The connector catalogue (data), generated API clients, rendering, email
  delivery, observability, docs, images and the backup.
- Health checks of servers, the daemon and the prompts of the command line.

The definitions stand for somewhat less than a third of the implementation's
lines; what is left is mostly data, rendering and the validation of requests.

## 7. Plan

Next models: health checks of servers, and the scopes of team administrators,
which decide who may call the handlers that are modelled here.
