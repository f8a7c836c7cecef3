----------------------------- MODULE MCDirectory ----------------------------
(***************************************************************************)
(* The components that decide who may come in, the limits they come under, *)
(* and the rollout of a release, checked side by side: none shares a       *)
(* variable with another, hence one of them runs at a time.                *)
(*                                                                         *)
(* Bounds of its own: a client's requests fail only around its first       *)
(* rotation; one person is invited, and after a failure requests that join *)
(* or found an organisation come one at a time.                            *)
(***************************************************************************)
EXTENDS Clients, Organizations, SsoSettings, PlatformEmail, Quotas, RollingDeploy,
        TLC

VARIABLE
    part            \* the component that runs

Symmetric == Permutations(Handlers) \cup Permutations(Users) \cup Permutations(ApiRoles)

OneRotationFails == clientFaults' > 0 => rotations' <= 1

OneInvited == Cardinality({u \in Users : invite'[u] # "none"}) <= 1

CalmAfterFailure ==
    orgHistory'.faults > 0 => Cardinality({k \in Handlers : orgCall'[k].op # "idle"}) <= 1

DirectoryInit ==
    /\ part \in {"clients", "organizations", "sso", "email", "quota", "deploy"}
    /\ ClientsInit
    /\ part # "clients" => client.apiRole = CHOOSE r \in ApiRoles : TRUE
    /\ OrganizationsInit
    /\ part # "organizations" => accounts = {}
    /\ SsoInit
    /\ EmailInit
    /\ part # "email" => emailEnv = "console"
    /\ QuotaInit
    /\ part # "quota" => kept = "memory"
    /\ DeployInit
    /\ part # "deploy" => There = {}

DirectoryNext ==
    /\ UNCHANGED part
    /\ \/ /\ part = "clients"
          /\ ClientsNext /\ OneRotationFails
          /\ UNCHANGED <<orgVars, ssoVars, emailVars, quotaVars, deployVars>>
       \/ /\ part = "organizations"
          /\ OrganizationsNext /\ OneInvited /\ CalmAfterFailure
          /\ UNCHANGED <<clientVars, ssoVars, emailVars, quotaVars, deployVars>>
       \/ /\ part = "sso"
          /\ SsoNext
          /\ UNCHANGED <<clientVars, orgVars, emailVars, quotaVars, deployVars>>
       \/ /\ part = "email"
          /\ EmailNext
          /\ UNCHANGED <<clientVars, orgVars, ssoVars, quotaVars, deployVars>>
       \/ /\ part = "quota"
          /\ QuotaNext
          /\ UNCHANGED <<clientVars, orgVars, ssoVars, emailVars, deployVars>>
       \/ /\ part = "deploy"
          /\ DeployNext
          /\ UNCHANGED <<clientVars, orgVars, ssoVars, emailVars, quotaVars>>

DirectorySpec ==
    DirectoryInit /\ [][DirectoryNext]_<<part, clientVars, orgVars, ssoVars, emailVars, quotaVars, deployVars>>
=============================================================================
