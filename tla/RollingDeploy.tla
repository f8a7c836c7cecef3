---------------------------- MODULE RollingDeploy ----------------------------
(***************************************************************************)
(* deploy/scripts/remote-deploy.sh: the containers of one service while    *)
(* deploys roll it to new images.  A deploy runs inside the systemd unit   *)
(* jackline-deploy, starts a second replica beside the one that serves,    *)
(* and removes the old one once the new one is healthy.                    *)
(*                                                                         *)
(* Replicas are numbered as Compose numbers them: scaling up fills the     *)
(* lowest free number, scaling down to one keeps or creates number 1.      *)
(* api, gateway, web and docs are rolled like this one after the other.    *)
(***************************************************************************)
EXTENDS Integers, FiniteSets

CONSTANTS
    Deploys,        \* runs of the script; an image is named by its deploy
    FirstImage,     \* what serves before them
    Works,          \* the deploys whose image becomes healthy
    MaxKills        \* bound: deploys killed by a timeout or a reboot

ASSUME DeployAssumption ==
    FirstImage \notin Deploys /\ Works \subseteq Deploys /\ MaxKills \in Nat

Numbers == 1..2

VARIABLES
    replica,        \* the containers: number -> image and health
    pulled,         \* the image new containers are made of
    unit,           \* the deploy the systemd unit runs, or FirstImage
    deploy,         \* the script, per deploy
    gambled,        \* history: nothing served at first, or a replica in bad
                    \* health was kept for a healthy one
    kills           \* deploys killed so far

deployVars == <<replica, pulled, unit, deploy, gambled, kills>>

NoReplica == [image |-> FirstImage, health |-> "none"]

There == {n \in Numbers : replica[n] # NoReplica}

Healthy(n) == replica[n].health = "healthy"

IdleDeploy == [pc |-> "idle", old |-> 0, new |-> 0]

DeployInit ==
    /\ \E serving \in Numbers \cup {0} :
          replica = [n \in Numbers |-> IF n = serving
                                       THEN [image |-> FirstImage, health |-> "healthy"]
                                       ELSE NoReplica]
    /\ pulled = FirstImage
    /\ unit = FirstImage
    /\ deploy = [d \in Deploys |-> IdleDeploy]
    /\ gambled = (There = {})
    /\ kills = 0

At(d, pc) == deploy[d].pc = pc

Step(d, pc) == deploy' = [deploy EXCEPT ![d].pc = pc]

\* The script ends, and the unit with it.
End(d, pc) ==
    /\ Step(d, pc)
    /\ unit' = FirstImage

\* docker rm -f
Removed(ns) == [n \in Numbers |-> IF n \in ns THEN NoReplica ELSE replica[n]]

Fresh == [image |-> pulled, health |-> "starting"]

\* compose up --no-recreate --scale=2: whatever is missing is created.
ScaledToTwo == [n \in Numbers |-> IF n \in There THEN replica[n] ELSE Fresh]

\* compose up --no-recreate --scale=1: number 1, kept or created, and no other.
ScaledToOne == [n \in Numbers |-> IF n # 1 THEN NoReplica
                                  ELSE IF 1 \in There THEN replica[1] ELSE Fresh]

-----------------------------------------------------------------------------
(* One deploy at a time.                                                    *)

\* Another deploy that is running is waited for.
SeeInactive(d) ==
    /\ At(d, "idle")
    /\ unit = FirstImage
    /\ Step(d, "stop")
    /\ UNCHANGED <<replica, pulled, unit, gambled, kills>>

\* A stale unit is stopped: by now it may be a deploy that came in between.
StopUnit(d) ==
    /\ At(d, "stop")
    /\ deploy' = [e \in Deploys |->
                    IF e = d THEN [deploy[d] EXCEPT !.pc = "run"]
                    ELSE IF e = unit THEN [deploy[e] EXCEPT !.pc = "killed"]
                    ELSE deploy[e]]
    /\ unit' = FirstImage
    /\ UNCHANGED <<replica, pulled, gambled, kills>>

\* systemd-run refuses a unit of a name that is in use.
RunUnit(d) ==
    /\ At(d, "run")
    /\ IF unit = FirstImage THEN unit' = d /\ Step(d, "pull")
       ELSE Step(d, "failed") /\ UNCHANGED unit
    /\ UNCHANGED <<replica, pulled, gambled, kills>>

\* The unit's time is up, or the machine goes down: the script stops where it is.
KillDeploy(d) ==
    /\ kills < MaxKills
    /\ unit = d
    /\ kills' = kills + 1
    /\ End(d, "killed")
    /\ UNCHANGED <<replica, pulled, gambled>>

-----------------------------------------------------------------------------
(* The roll.                                                                *)

\* Images are pulled or built, the database is migrated; each may fail.
PullImages(d) ==
    /\ At(d, "pull")
    /\ \/ pulled' = d /\ Step(d, "list") /\ UNCHANGED unit
       \/ End(d, "failed") /\ UNCHANGED pulled
    /\ UNCHANGED <<replica, gambled, kills>>

\* One of the replicas there is kept, in whatever health; extras are left over
\* from a deploy that did not end.
KeepOne(d) ==
    /\ At(d, "list")
    /\ \E n \in There :
          /\ deploy' = [deploy EXCEPT ![d] = [pc |-> "scale", old |-> n, new |-> 0]]
          /\ replica' = Removed(There \ {n})
          /\ gambled' = (gambled \/ (~Healthy(n) /\ \E m \in There : Healthy(m)))
    /\ UNCHANGED <<pulled, unit, kills>>

\* Nothing runs: up --wait, which fails unless the replica becomes healthy.
BootService(d) ==
    /\ At(d, "list")
    /\ There = {}
    /\ \/ /\ pulled \in Works
          /\ replica' = [replica EXCEPT ![1] = [Fresh EXCEPT !.health = "healthy"]]
          /\ End(d, "done")
       \/ /\ replica' = [replica EXCEPT ![1] = Fresh]
          /\ End(d, "failed")
    /\ UNCHANGED <<pulled, gambled, kills>>

StartSecond(d) ==
    /\ At(d, "scale")
    /\ replica' = ScaledToTwo
    /\ deploy' = [deploy EXCEPT ![d] = [pc |-> "wait", old |-> @.old, new |-> 3 - @.old]]
    /\ UNCHANGED <<pulled, unit, gambled, kills>>

\* wait_healthy
FindHealthy(d) ==
    /\ At(d, "wait")
    /\ Healthy(deploy[d].new)
    /\ Step(d, "drain")
    /\ UNCHANGED <<replica, pulled, unit, gambled, kills>>

\* Mutant: scaling down without a look at the survivor's number.
FailAndScale(d) ==
    /\ At(d, "wait")
    /\ ~Healthy(deploy[d].new)
    /\ replica' = ScaledToOne
    /\ End(d, "failed")
    /\ UNCHANGED <<pulled, gambled, kills>>

\* Unhealthy, gone, or out of time: the new replica goes and the old one stays,
\* whatever its number.
FailHealth(d) ==
    /\ At(d, "wait")
    /\ ~Healthy(deploy[d].new)
    /\ replica' = Removed({deploy[d].new})
    /\ End(d, "failed")
    /\ UNCHANGED <<pulled, gambled, kills>>

\* The old replica is stopped and removed; number 1 alone is where it ends.
DrainOld(d) ==
    /\ At(d, "drain")
    /\ replica' = Removed({deploy[d].old})
    /\ IF deploy[d].new = 1 THEN End(d, "done") ELSE Step(d, "again") /\ UNCHANGED unit
    /\ UNCHANGED <<pulled, gambled, kills>>

\* A replica with number 2 serves until number 1 is made again, ...
StartFirst(d) ==
    /\ At(d, "again")
    /\ replica' = ScaledToTwo
    /\ deploy' = [deploy EXCEPT ![d] = [pc |-> "wait again", old |-> 2, new |-> 1]]
    /\ UNCHANGED <<pulled, unit, gambled, kills>>

\* ... and is then scaled away, or stays if that fails.
EndRoll(d) ==
    /\ At(d, "wait again")
    /\ replica' = IF Healthy(1) THEN ScaledToOne ELSE Removed({1})
    /\ End(d, "done")
    /\ UNCHANGED <<pulled, gambled, kills>>

\* A container's health checks pass, or fail for good.
Settle(n) ==
    /\ replica[n].health = "starting"
    /\ replica' = [replica EXCEPT ![n].health =
                     IF replica[n].image \in Works \cup {FirstImage} THEN "healthy"
                     ELSE "unhealthy"]
    /\ UNCHANGED <<pulled, unit, deploy, gambled, kills>>

\* The script is over on every branch: nothing else to do.
AllEnded ==
    /\ \A d \in Deploys : deploy[d].pc \in {"done", "failed", "killed"}
    /\ UNCHANGED deployVars

DeployNext ==
    \/ \E d \in Deploys :
          \/ SeeInactive(d) \/ StopUnit(d) \/ RunUnit(d) \/ KillDeploy(d)
          \/ PullImages(d) \/ KeepOne(d) \/ BootService(d) \/ StartSecond(d)
          \/ FindHealthy(d) \/ FailHealth(d) \/ DrainOld(d) \/ StartFirst(d) \/ EndRoll(d)
    \/ \E n \in Numbers : Settle(n)
    \/ AllEnded

DeploySpec == DeployInit /\ [][DeployNext]_deployVars

-----------------------------------------------------------------------------
Rolling(d) == deploy[d].pc \in {"scale", "wait", "drain", "again", "wait again"}

\* Types; the unit runs the one deploy that is past systemd-run, and what that
\* deploy calls old and new are the containers there are.
DeployTypeOK ==
    /\ replica \in [Numbers -> [image : Deploys \cup {FirstImage},
                                health : {"none", "starting", "healthy", "unhealthy"}]]
    /\ pulled \in Deploys \cup {FirstImage}
    /\ \A d \in Deploys :
          /\ Rolling(d) \/ deploy[d].pc \in {"pull", "list"} <=> unit = d
          /\ At(d, "wait") => There = {deploy[d].old, deploy[d].new}

\* "The live container is never replaced in place": a healthy replica serves
\* all the time, however deploys cross, fail and are killed -- as long as no
\* deploy chose to keep a replica in bad health that an unfinished one left
\* beside a healthy one.
ServedThroughout == ~gambled => \E n \in Numbers : Healthy(n)

\* "If the new replica never becomes healthy, it is deleted and the old replica
\* keeps serving": a roll that fails leaves what it kept, as it was.
FailureKeepsOld ==
    [][\A d \in Deploys :
          Rolling(d) /\ deploy'[d].pc = "failed" =>
             LET old == deploy[d].old
             IN  /\ replica'[old] = replica[old]
                 /\ \A n \in Numbers \ {old} : replica'[n] = NoReplica]_deployVars

\* A roll that succeeds leaves one replica, of the image this deploy pulled,
\* and healthy.
DoneIsRolled ==
    [][\A d \in Deploys :
          Rolling(d) /\ deploy'[d].pc = "done" =>
             \E n \in Numbers :
                /\ replica'[n] = [image |-> d, health |-> "healthy"]
                /\ \A m \in Numbers \ {n} : replica'[m] = NoReplica]_deployVars

-----------------------------------------------------------------------------
\* Of a rolling deployment: a healthy replica serves throughout, a roll that
\* fails keeps the old one, and one that succeeds leaves the new.
DeployRules ==
    /\ [](/\ DeployTypeOK
         /\ ServedThroughout)
    /\ FailureKeepsOld
    /\ DoneIsRolled
=============================================================================
