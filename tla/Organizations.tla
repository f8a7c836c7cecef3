---------------------------- MODULE Organizations ----------------------------
(***************************************************************************)
(* How organisations come to exist and people to belong to them: sign-up,  *)
(* invites, domain auto-join after SSO, SCIM (signup/, authComplete/,      *)
(* identity/).                                                             *)
(*                                                                         *)
(* Single tenancy: one organisation is meant to exist.  Nothing here is in *)
(* a transaction, and memberships have no unique index.  The role and team *)
(* an invite names are left out, and so are removals of members: see       *)
(* AccessRequests for what a role grants.                                  *)
(***************************************************************************)
EXTENDS ApiHandlers

CONSTANTS
    Users,          \* people, each with one email address
    MaxOrgFaults    \* bound: failed statements and crashes

ASSUME OrganizationsAssumption == MaxOrgFaults \in Nat

VARIABLES
    accounts,       \* users that exist
    orgs,           \* number of tenants
    members,        \* how many rows of memberships a user has in a tenant
    admins,         \* who has a row with role full_admin, in which tenant
    invite,         \* the invite of each user to tenant 1
    domain,         \* tenant 1 has SSO enabled for everyone's email domain
    orgCall,        \* what each handler is doing
    orgHistory      \* overlaps and failures that excuse a state

orgTables == <<accounts, orgs, members, admins, invite, domain>>
orgVars == <<orgTables, orgCall, orgHistory>>

\* Bound: as many founders as requests at once can each insert a tenant.
Orgs == 1..2

Invites == {"none", "open", "accepted", "expired"}

\* A handler: whom it serves and in which tenant; what to do once the user
\* belongs (next); whether a sign-in may still create an organisation
\* (founder) and whether it came through the tenant's SSO (via).
NoOrgCall == [op |-> "idle", pc |-> "idle", next |-> "idle", user |-> "none",
              org |-> 1, founder |-> FALSE, via |-> FALSE]

\* "join" is a request that can no longer create an organisation.
OrgOps == {"idle", "signup", "found", "join"}
OrgPCs == {"idle", "account", "recount", "tenant", "founder", "dropAccount",
           "reload", "existing", "insert", "mark", "join", "pending", "decide"}

OrganizationsTypeOK ==
    /\ accounts \subseteq Users
    /\ orgs \in Orgs \cup {0}
    /\ members \in [Users \X Orgs -> 0..Cardinality(Handlers)]
    /\ admins \subseteq Users \X Orgs
    /\ invite \in [Users -> Invites]
    /\ domain \in BOOLEAN
    /\ orgCall \in [Handlers ->
          [op : OrgOps, pc : OrgPCs, next : {"idle", "mark"},
           user : Users \cup {"none"}, org : Orgs, founder : BOOLEAN,
           via : BOOLEAN]]
    /\ orgHistory \in [joins : SUBSET Users, founders : BOOLEAN, failed : BOOLEAN,
                       faults : 0..MaxOrgFaults]
    /\ \A m \in Users \X Orgs : members[m] > 0 => m[2] <= orgs

\* An instance that was just installed; some people have signed up already.
OrganizationsInit ==
    /\ accounts \in SUBSET Users
    /\ orgs = 0
    /\ members = [m \in Users \X Orgs |-> 0]
    /\ admins = {}
    /\ invite = [u \in Users |-> "none"]
    /\ domain = FALSE
    /\ orgCall = [h \in Handlers |-> NoOrgCall]
    /\ orgHistory = [joins |-> {}, founders |-> FALSE, failed |-> FALSE,
                     faults |-> 0]

-----------------------------------------------------------------------------
OrgAt(h, pc) == orgCall[h].pc = pc

OrgStep(h, pc) == orgCall' = [orgCall EXCEPT ![h].pc = pc]

OrgDone(h) == orgCall' = [orgCall EXCEPT ![h] = NoOrgCall]

Founders == {"signup", "found"}

\* History: joins of one user, and founders, that overlap.  Bound: nothing
\* more is asked once there is a second organisation.
OrgStart(h, frame) ==
    /\ orgCall[h] = NoOrgCall
    /\ orgs <= 1
    /\ orgCall' = [orgCall EXCEPT ![h] = frame]
    /\ LET others == {k \in Handlers \ {h} : orgCall[k].op # "idle"}
           same == {k \in others : orgCall[k].user = frame.user}
       IN  orgHistory' =
             [orgHistory EXCEPT
                 !.joins = IF same = {} THEN @ ELSE @ \cup {frame.user},
                 !.founders = @ \/ (frame.op \in Founders
                      /\ \E k \in others : orgCall[k].op \in Founders)]
    /\ UNCHANGED orgTables

OnlyCall == UNCHANGED <<orgTables, orgHistory>>

\* assertCanCreateTenant, single tenancy.
CanCreateTenant == orgs = 0

Belongs(u) == \E t \in Orgs : members[<<u, t>>] > 0

\* A new account signs in once its address is verified: not while its sign-up
\* is still being served.
CanSignIn(u) ==
    u \in accounts /\ \A h \in Handlers : orgCall[h].op = "signup" => orgCall[h].user # u

-----------------------------------------------------------------------------
(* POST /signup, and the organisation a signed-in user creates.             *)

StartSignup(h, u) ==
    /\ CanCreateTenant
    /\ OrgStart(h, [NoOrgCall EXCEPT !.op = "signup", !.pc = "account", !.user = u])

StartSocial(h, u) ==
    /\ CanSignIn(u)
    /\ OrgStart(h, [NoOrgCall EXCEPT !.op = "found", !.pc = "recount", !.user = u])

\* The address must be new, whether public sign-up is still open or not.
CreateAccount(h) ==
    /\ OrgAt(h, "account")
    /\ IF orgCall[h].user \in accounts
       THEN OrgDone(h) /\ UNCHANGED accounts
       ELSE /\ accounts' = accounts \cup {orgCall[h].user}
            /\ OrgStep(h, "recount")
    /\ UNCHANGED <<orgs, members, admins, invite, domain, orgHistory>>

\* What a founder whose organisation was refused does: sign-up takes back the
\* account it made.
GiveUp(h) ==
    IF orgCall[h].op = "signup" THEN OrgStep(h, "dropAccount") ELSE OrgDone(h)

Recount(h) ==
    /\ OrgAt(h, "recount")
    /\ IF CanCreateTenant THEN OrgStep(h, "tenant") ELSE GiveUp(h)
    /\ OnlyCall

\* The slug is unique: an organisation of the same name is refused.
InsertTenant(h) ==
    /\ OrgAt(h, "tenant")
    /\ \/ /\ orgs + 1 \in Orgs
          /\ orgs' = orgs + 1
          /\ orgCall' = [orgCall EXCEPT ![h] = [@ EXCEPT !.pc = "founder", !.org = orgs + 1]]
       \/ orgs > 0 /\ UNCHANGED orgs /\ GiveUp(h)
    /\ UNCHANGED <<accounts, members, admins, invite, domain, orgHistory>>

InsertFounder(h) ==
    /\ OrgAt(h, "founder")
    /\ members' = [members EXCEPT ![<<orgCall[h].user, orgCall[h].org>>] = @ + 1]
    /\ admins' = admins \cup {<<orgCall[h].user, orgCall[h].org>>}
    /\ OrgStep(h, "reload")
    /\ UNCHANGED <<accounts, orgs, invite, domain, orgHistory>>

\* reloadAuth, see SsoSettings; a failure of the chat client is only logged.
ReloadForTenant(h) ==
    /\ OrgAt(h, "reload")
    /\ OrgDone(h)
    /\ OnlyCall

\* Memberships name a user by id, which is never used again: neither the rows
\* of the account nor what a request still does for it count any more.
DropAccount(h) ==
    /\ OrgAt(h, "dropAccount")
    /\ LET u == orgCall[h].user
       IN  /\ accounts' = accounts \ {u}
           /\ members' = [m \in DOMAIN members |-> IF m[1] = u THEN 0 ELSE members[m]]
           /\ admins' = {m \in admins : m[1] # u}
           /\ LET ended == {k \in Handlers : orgCall[k].user = u /\ orgCall[k].op = "join"}
              IN  orgCall' = [k \in Handlers |-> IF k \in ended \cup {h}
                                                 THEN NoOrgCall ELSE orgCall[k]]
    /\ UNCHANGED <<orgs, invite, domain, orgHistory>>

-----------------------------------------------------------------------------
(* createInvite, and what changes by itself.                                *)

CreateInvite(u) ==
    /\ orgs = 1
    /\ invite[u] = "none"
    /\ invite' = [invite EXCEPT ![u] = "open"]
    /\ UNCHANGED <<accounts, orgs, members, admins, domain, orgCall, orgHistory>>

InviteExpires(u) ==
    /\ invite[u] = "open"
    /\ orgs = 1
    /\ invite' = [invite EXCEPT ![u] = "expired"]
    /\ UNCHANGED <<accounts, orgs, members, admins, domain, orgCall, orgHistory>>

\* An administrator enables SSO for the domain, or disables it (SsoSettings).
SwitchDomain ==
    /\ orgs = 1
    /\ domain' = ~domain
    /\ UNCHANGED <<accounts, orgs, members, admins, invite, orgCall, orgHistory>>

-----------------------------------------------------------------------------
(* acceptInvite, authComplete's complete, SCIM: three ways to be joined.    *)

StartAccept(h, u) ==
    /\ CanSignIn(u)
    /\ invite[u] = "open"
    /\ OrgStart(h, [NoOrgCall EXCEPT !.op = "join", !.pc = "existing",
                       !.next = "mark", !.user = u])

StartScim(h, u) ==
    /\ u \in accounts
    /\ orgs > 0
    /\ OrgStart(h, [NoOrgCall EXCEPT !.op = "join", !.pc = "existing",
                       !.user = u])

\* A sign-in that asks for an organisation (founder) has read whether its
\* user belongs to one.
StartComplete(h, u, via, founder) ==
    /\ CanSignIn(u)
    /\ via => orgs > 0
    /\ OrgStart(h, [NoOrgCall EXCEPT !.pc = "join", !.user = u, !.via = via,
                       !.founder = founder /\ ~Belongs(u),
                       !.op = IF founder /\ ~Belongs(u) THEN "found" ELSE "join"])

\* The tenant of the user's domain: it is joined when the sign-in came through
\* its SSO, and keeps any other sign-in from founding.  A would-be founder
\* looks for an invite first.
ReadDomain(h) ==
    /\ OrgAt(h, "join")
    /\ LET joins == domain /\ orgCall[h].via
           may == orgCall[h].founder /\ ~domain
       IN  IF orgCall[h].founder \/ joins
           THEN orgCall' = [orgCall EXCEPT ![h] =
                    [@ EXCEPT !.via = joins /\ orgCall[h].founder, !.founder = may,
                              !.pc = IF orgCall[h].founder THEN "pending" ELSE "existing"]]
           ELSE OrgDone(h)
    /\ OnlyCall

FindPending(h) ==
    /\ OrgAt(h, "pending")
    /\ LET to(pc, next) == orgCall' = [orgCall EXCEPT ![h] =
                [@ EXCEPT !.pc = pc, !.next = next, !.via = FALSE, !.founder = FALSE,
                          !.op = IF pc = "decide" THEN "found" ELSE "join"]]
           status == invite[orgCall[h].user]
       IN  \/ status = "open" /\ to("existing", "mark")
           \/ status = "expired" /\ OrgDone(h)
           \/ /\ status \in {"none", "accepted"}
              /\ \/ orgCall[h].via /\ to("existing", "idle")
                 \/ ~orgCall[h].via /\ orgCall[h].founder /\ to("decide", "idle")
                 \/ ~orgCall[h].via /\ ~orgCall[h].founder /\ OrgDone(h)
    /\ OnlyCall

Continue(h) == IF orgCall[h].next = "idle" THEN OrgDone(h)
               ELSE OrgStep(h, orgCall[h].next)

SelectMembership(h) ==
    /\ OrgAt(h, "existing")
    /\ IF members[<<orgCall[h].user, 1>>] > 0 THEN Continue(h) ELSE OrgStep(h, "insert")
    /\ OnlyCall

MarkInvite(u) == invite' = [invite EXCEPT ![u] = "accepted"]

\* Mutant: the invite is marked, and then the membership is made.
MarkFirst(h) ==
    /\ OrgAt(h, "insert")
    /\ IF orgCall[h].next = "mark"
       THEN /\ MarkInvite(orgCall[h].user)
            /\ orgCall' = [orgCall EXCEPT ![h].next = "idle"]
            /\ UNCHANGED members
       ELSE /\ members' = [members EXCEPT ![<<orgCall[h].user, 1>>] = @ + 1]
            /\ OrgDone(h)
            /\ UNCHANGED invite
    /\ UNCHANGED <<accounts, orgs, admins, domain, orgHistory>>

InsertMembership(h) ==
    /\ OrgAt(h, "insert")
    /\ members' = [members EXCEPT ![<<orgCall[h].user, 1>>] = @ + 1]
    /\ Continue(h)
    /\ UNCHANGED <<accounts, orgs, admins, invite, domain, orgHistory>>

MarkAccepted(h) ==
    /\ OrgAt(h, "mark")
    /\ MarkInvite(orgCall[h].user)
    /\ OrgDone(h)
    /\ UNCHANGED <<accounts, orgs, members, admins, domain, orgHistory>>

\* The memberships and the tenants are read again before an organisation is
\* created for a sign-in.
Decide(h) ==
    /\ OrgAt(h, "decide")
    /\ IF ~Belongs(orgCall[h].user) /\ CanCreateTenant
       THEN OrgStep(h, "recount") ELSE OrgDone(h)
    /\ OnlyCall

-----------------------------------------------------------------------------
\* A statement fails, and sign-up takes its account back; or the process
\* dies, and is started again.
FailOrgCall(h) ==
    /\ orgCall[h] # NoOrgCall
    /\ orgHistory.faults < MaxOrgFaults
    /\ orgHistory' = [orgHistory EXCEPT !.faults = @ + 1,
                          !.failed = @ \/ orgCall[h].op \in Founders]
    /\ \/ OrgDone(h)
       \/ /\ orgCall[h].pc \in {"recount", "tenant", "founder", "reload"}
          /\ orgCall[h].op = "signup"
          /\ OrgStep(h, "dropAccount")
    /\ UNCHANGED orgTables

HandleOrg(h) ==
    \/ \E u \in Users : StartSignup(h, u) \/ StartSocial(h, u) \/ StartAccept(h, u)
                        \/ StartScim(h, u)
    \/ \E u \in Users, via, founder \in BOOLEAN : StartComplete(h, u, via, founder)
    \/ CreateAccount(h) \/ Recount(h) \/ InsertTenant(h) \/ InsertFounder(h)
    \/ ReloadForTenant(h) \/ DropAccount(h)
    \/ ReadDomain(h) \/ FindPending(h) \/ SelectMembership(h)
    \/ InsertMembership(h) \/ MarkAccepted(h) \/ Decide(h)
    \/ FailOrgCall(h)

\* Nothing more is asked.
SecondOrganization ==
    /\ orgs > 1
    /\ \A h \in Handlers : orgCall[h] = NoOrgCall
    /\ UNCHANGED orgVars

OrganizationsNext ==
    \/ \E h \in Handlers : HandleOrg(h)
    \/ \E u \in Users : CreateInvite(u) \/ InviteExpires(u)
    \/ SwitchDomain
    \/ SecondOrganization

OrganizationsSpec == OrganizationsInit /\ [][OrganizationsNext]_orgVars

-----------------------------------------------------------------------------
\* "single": one organisation, unless two requests that create one overlap;
\* nothing but the count they read keeps them apart.
SingleTenancy == ~orgHistory.founders => orgs <= 1

\* A person belongs to an organisation once, unless two requests for that
\* person overlap: requireTenantContext takes any row.
OneMembership ==
    \A u \in Users \ orgHistory.joins, t \in Orgs : members[<<u, t>>] <= 1

Founding == \E h \in Handlers : orgCall[h].pc \in {"tenant", "founder", "dropAccount"}

\* An organisation has an administrator who can sign in, unless its creation
\* failed half-way or founders overlapped.
AdminExists ==
    ~Founding /\ ~orgHistory.failed /\ ~orgHistory.founders
    => \A t \in 1..orgs : \E u \in accounts : <<u, t>> \in admins

\* Whoever's invite is used up belongs, whatever fails in between, as long as
\* the account exists.
AcceptedBelong ==
    \A u \in accounts : invite[u] = "accepted" => members[<<u, 1>>] > 0

-----------------------------------------------------------------------------
\* Of organisations: a single one stays single, a person belongs once, an
\* administrator exists, and an invite that is used up made its holder a
\* member.
OrganizationRules ==
    /\ OrganizationsTypeOK
    /\ SingleTenancy
    /\ OneMembership
    /\ AdminExists
    /\ AcceptedBelong
=============================================================================
