--------------------------- MODULE ClusterLifecycle ---------------------------
(***************************************************************************)
(* Creating, updating and deleting a stack's cluster: UpdateCluster and    *)
(* CreateCluster (cmd/cli/cluster), executeAction (plan/executor.go), the  *)
(* provisioners, the polling of the cluster (provisioner/provisioner.go,   *)
(* clustersot) and, with kops, the SSH tunnel to a private API server.     *)
(*                                                                         *)
(* An actor is the goroutine that runs one such command: the CLI's only    *)
(* one, or several workers of the executor whose kapps have a              *)
(* cluster_update or cluster_delete action.  They share the provisioner    *)
(* and the stack's ClusterStatus, neither of which has a lock.  A step of  *)
(* an actor is one external command, with what is computed from it.        *)
(***************************************************************************)
EXTENDS Naturals, FiniteSets

CONSTANTS
  Actor,
  Group,           \* instance groups configured for kops
  Setups,          \* the configurations and commands to start from
  SshMaxTries

ASSUME TriesAssumption == SshMaxTries \in Nat \ {0}

VARIABLES
  setup,           \* provisioner, viaBastion, dryRun, the actors' jobs and
                   \* the cluster that is there before they start
  cluster,         \* the real cluster
  patched,         \* parts of its configuration that have been patched
  isOnline, isReady,     \* ClusterStatus
  task, at,        \* what each actor is doing, and where in it
  toPatch,         \* instance groups it has yet to patch
  result,
  tunneller, tries,      \* the goroutine an actor started for the tunnel
  portForwardingActive,
  sshCommand,      \* the ssh process that was started last
  strays,          \* an earlier one is still running
  closed,          \* outcome of Close()
  seenReady,       \* the cluster has answered that it is ready
  deleted          \* a deletion was started in this run

clusterVars == <<cluster, patched>>
statusVars == <<isOnline, isReady, seenReady>>
actorVars == <<task, at, toPatch, result>>
sshVars == <<portForwardingActive, sshCommand, strays>>
tunnelVars == <<tunneller, tries, sshVars>>
vars == <<setup, clusterVars, statusVars, actorVars, tunnelVars, closed, deleted>>

\* "configured": kops knows it but has launched nothing; "bare": the API
\* server answers but there are no pods; "online": some are not running.
Exists == {"configured", "starting", "bare", "online", "ready"}
Launched == Exists \ {"configured"}
Answering == {"bare", "online", "ready"}

Job == {"update", "update only", "create", "delete", "test deletion", "none"}
Setup == [provisioner : {"kops", "eks", "minikube", "none"}, viaBastion : BOOLEAN,
          dryRun : BOOLEAN, job : [Actor -> Job], before : Exists \cup {"absent"}]

ASSUME SetupAssumption ==
  \A s \in Setups : s \in Setup /\ (s.before = "configured" => s.provisioner = "kops")

Part == {"cluster"} \cup Group
Task == {"begin", "check", "check again", "create", "update", "await", "delete", "end"}
Place == {"begin", "connect", "tunnel", "exists", "command", "api", "patch", "cluster",
          "groups", "launch", "roll", "ready", "end"}
Result == {"none", "updated", "created", "already online", "not online",
           "deleted", "failed", "panic"}

TypeOK ==
  /\ setup \in Setups
  /\ cluster \in Exists \cup {"absent"}
  /\ patched \subseteq Part
  /\ {isOnline, isReady, seenReady, deleted, portForwardingActive, strays} \subseteq BOOLEAN
  /\ task \in [Actor -> Task] /\ at \in [Actor -> Place]
  /\ toPatch \in [Actor -> SUBSET Group]
  /\ result \in [Actor -> Result]
  /\ tunneller \in [Actor -> {"none", "trying", "succeeded", "gave up", "done"}]
  /\ tries \in [Actor -> 0 .. SshMaxTries]
  /\ sshCommand \in {"none", "running", "exited", "killed"}
  /\ closed \in {"no", "nothing to do", "error"}

-----------------------------------------------------------------------------
(* Where an actor goes next *)

Kops == setup.provisioner = "kops"
dryRun == setup.dryRun

\* The cluster's configuration (kops) or the cluster itself is checked for.
ChecksExistence == setup.provisioner \in {"kops", "eks"}

Go(a, t, p) == /\ task' = [task EXCEPT ![a] = t]
               /\ at' = [at EXCEPT ![a] = p]
               /\ UNCHANGED <<toPatch, result>>

Stay(a, p) == Go(a, task[a], p)

End(a, r) == /\ task' = [task EXCEPT ![a] = "end"]
             /\ at' = [at EXCEPT ![a] = "end"]
             /\ result' = [result EXCEPT ![a] = r]
             /\ UNCHANGED toPatch

\* CreateCluster and UpdateCluster wait for the cluster unless it is a dry run.
StartAwaiting(a) == IF dryRun THEN End(a, result[a]) ELSE Go(a, "await", "connect")

Start(a, t, p, r) == /\ task' = [task EXCEPT ![a] = t]
                     /\ at' = [at EXCEPT ![a] = p]
                     /\ result' = [result EXCEPT ![a] = r]
                     /\ UNCHANGED toPatch

StartCreating(a) ==
  IF ChecksExistence THEN Start(a, "create", "exists", "created")
  ELSE IF setup.provisioner = "minikube" THEN Start(a, "create", "command", "created")
  ELSE IF dryRun THEN End(a, "created")
  ELSE Start(a, "await", "connect", "created")

StartUpdating(a) ==
  IF Kops THEN Start(a, "update", "patch", "updated")
  ELSE IF setup.provisioner = "eks" THEN Start(a, "update", "roll", "updated")
  ELSE IF dryRun THEN End(a, "updated")
  ELSE Start(a, "await", "connect", "updated")

\* UpdateCluster and CreateCluster, once they know whether it is online.
Conclude(a, online) ==
  CASE task[a] = "check" /\ online -> StartUpdating(a)
    [] task[a] = "check" /\ ~online /\ setup.job[a] = "update only" -> End(a, "not online")
    [] task[a] = "check" /\ ~online /\ setup.job[a] = "update" ->
         IF dryRun THEN StartCreating(a) ELSE Go(a, "check again", "connect")
    [] task[a] = "check again" /\ online -> End(a, "already online")
    [] task[a] = "check again" /\ ~online -> StartCreating(a)

Begin(a) ==
  CASE setup.job[a] \in {"update", "update only"} -> Go(a, "check", "connect")
    [] setup.job[a] = "create" ->
         IF dryRun THEN StartCreating(a) ELSE Go(a, "check again", "connect")
    [] setup.job[a] \in {"delete", "test deletion"} ->
         IF ChecksExistence THEN Go(a, "delete", "exists")
         ELSE IF setup.provisioner = "minikube" /\ setup.job[a] = "delete" THEN Go(a, "delete", "command")
         ELSE End(a, "deleted")

-----------------------------------------------------------------------------
(* EnsureClusterConnectivity *)

NeedsTunnel == Kops /\ setup.viaBastion

\* The cluster's API server answers a kubectl of this machine.
Reachable ==
  /\ cluster \in Answering
  /\ NeedsTunnel => sshCommand = "running" \/ strays

Connected(a) ==
  Stay(a, IF task[a] # "await" /\ ChecksExistence /\ ~dryRun THEN "exists" ELSE "api")

\* Mistaken variant: the loop goes on to ask the API server.
NotConnectedGoesOn(a) ==
  IF task[a] = "await" THEN Stay(a, "api") ELSE Conclude(a, FALSE)

NotConnected(a) ==
  IF task[a] = "await" THEN Stay(a, "connect") ELSE Conclude(a, FALSE)

\* There is no tunnel to set up without a configuration and a bastion.
EnsureClusterConnectivity(a) ==
  /\ at[a] = "connect"
  /\ \/ /\ ~NeedsTunnel \/ portForwardingActive
        /\ Connected(a)
        /\ UNCHANGED tunnelVars
     \/ /\ NeedsTunnel /\ ~portForwardingActive
        /\ cluster \notin Answering
        /\ NotConnected(a)
        /\ UNCHANGED tunnelVars
     \/ /\ NeedsTunnel /\ ~portForwardingActive
        /\ cluster \in Launched
        /\ Stay(a, "tunnel")
        /\ tunneller' = [tunneller EXCEPT ![a] = "trying"]
        /\ tries' = [tries EXCEPT ![a] = 1]
        /\ UNCHANGED sshVars
  /\ UNCHANGED <<setup, clusterVars, statusVars, closed, deleted>>

RunSsh(outcome) ==
  /\ sshCommand' = outcome
  /\ strays' = (strays \/ sshCommand = "running")

\* setupPortForwarding: ssh is given a second to fail.
SshConnects(a) ==
  /\ tunneller[a] = "trying"
  /\ \E outcome \in {"running", "exited"} : RunSsh(outcome)
  /\ portForwardingActive' = TRUE
  /\ tunneller' = [tunneller EXCEPT ![a] = "succeeded"]
  /\ UNCHANGED <<setup, clusterVars, statusVars, actorVars, tries, closed, deleted>>

SshFails(a) ==
  /\ tunneller[a] = "trying"
  /\ \E outcome \in {"none", "exited", "killed"} : RunSsh(outcome)
  /\ IF tries[a] < SshMaxTries
     THEN tries' = [tries EXCEPT ![a] = @ + 1] /\ UNCHANGED tunneller
     ELSE tunneller' = [tunneller EXCEPT ![a] = "gave up"] /\ UNCHANGED tries
  /\ UNCHANGED <<setup, clusterVars, statusVars, actorVars, portForwardingActive, closed, deleted>>

\* The caller receives from successCh.  The goroutine does not return but goes
\* on to its next try, whose error the caller may read: they share `err`.
TunnelIsUp(a) ==
  /\ at[a] = "tunnel" /\ tunneller[a] = "succeeded"
  /\ \/ Connected(a)
     \/ tries[a] < SshMaxTries /\ End(a, "failed")
  /\ IF tries[a] < SshMaxTries
     THEN /\ tunneller' = [tunneller EXCEPT ![a] = "trying"]
          /\ tries' = [tries EXCEPT ![a] = @ + 1]
     ELSE /\ tunneller' = [tunneller EXCEPT ![a] = "done"]
          /\ UNCHANGED tries
  /\ UNCHANGED <<setup, clusterVars, statusVars, sshVars, closed, deleted>>

TunnelGivenUp(a) ==
  /\ at[a] = "tunnel" /\ tunneller[a] = "gave up"
  /\ End(a, "failed")
  /\ tunneller' = [tunneller EXCEPT ![a] = "done"]
  /\ UNCHANGED <<setup, clusterVars, statusVars, tries, sshVars, closed, deleted>>

TunnelTimeout(a) ==
  /\ at[a] = "tunnel"
  /\ End(a, "failed")
  /\ UNCHANGED <<setup, clusterVars, statusVars, tunnelVars, closed, deleted>>

-----------------------------------------------------------------------------
(* Is it online already? *)

Missing == cluster = "absent"

CheckExists(a) ==
  /\ task[a] \in {"check", "check again"} /\ at[a] = "exists"
  /\ IF Missing
     THEN isOnline' = FALSE /\ Conclude(a, FALSE)
     ELSE Stay(a, "api") /\ UNCHANGED isOnline
  /\ UNCHANGED <<setup, clusterVars, isReady, seenReady, tunnelVars, closed, deleted>>

SaysOnline ==
  \/ setup.provisioner = "none"
  \/ setup.provisioner = "minikube" /\ cluster \in Answering
  \/ ChecksExistence /\ (dryRun \/ isOnline \/ Reachable)

IsAlreadyOnline(a) ==
  /\ task[a] \in {"check", "check again"} /\ at[a] = "api"
  /\ isOnline' = SaysOnline
  /\ Conclude(a, SaysOnline)
  /\ UNCHANGED <<setup, clusterVars, isReady, seenReady, tunnelVars, closed, deleted>>

-----------------------------------------------------------------------------
(* Creating, updating and deleting *)

\* Mistaken variant: the dry run is forgotten.
ExecuteAnyway(newCluster, newParts) == cluster' = newCluster /\ patched' = newParts

Execute(newCluster, newParts) ==
  IF dryRun THEN UNCHANGED clusterVars
  ELSE cluster' = newCluster /\ patched' = newParts

Command(a, t, p) ==
  /\ task[a] \in t /\ at[a] = p
  /\ UNCHANGED <<setup, statusVars, tunnelVars, closed>>

\* A command that has done its work may still be reported as failed: it was
\* killed for taking too long, or what comes after it failed.
Then(a, next) == next \/ End(a, "failed")

Refused(a) == End(a, "failed") /\ UNCHANGED clusterVars

CreateExists(a) ==
  /\ Command(a, {"create"}, "exists")
  /\ IF Missing THEN Stay(a, "command") ELSE StartAwaiting(a)
  /\ UNCHANGED <<clusterVars, deleted>>

CreateCluster(a) ==
  /\ Command(a, {"create"}, "command")
  /\ IF Missing \/ dryRun \/ setup.provisioner = "minikube"
     THEN /\ Execute(IF ~Missing THEN cluster ELSE IF Kops THEN "configured" ELSE "starting", {})
          /\ Then(a, IF Kops THEN Stay(a, "patch") ELSE StartAwaiting(a))
     ELSE Refused(a)
  /\ UNCHANGED deleted

AfterPatch(a) == IF task[a] = "update" THEN Stay(a, "roll") ELSE StartAwaiting(a)

\* patch(): the cluster's configuration is replaced, then that of each
\* instance group, and then everything is applied.
Patch(a) ==
  /\ Command(a, {"create", "update"}, "patch")
  /\ IF Missing /\ ~dryRun THEN AfterPatch(a) ELSE Stay(a, "cluster")
  /\ UNCHANGED <<clusterVars, deleted>>

\* Mistaken variant: the instance groups are left to the next run.
PatchClusterOnly(a) ==
  /\ Command(a, {"create", "update"}, "cluster")
  /\ \/ /\ ~Missing \/ dryRun
        /\ Execute(cluster, patched \cup {"cluster"})
        /\ Stay(a, "launch")
     \/ Missing /\ ~dryRun /\ Refused(a)
  /\ UNCHANGED deleted

PatchCluster(a) ==
  /\ Command(a, {"create", "update"}, "cluster")
  /\ \/ /\ ~Missing \/ dryRun
        /\ Execute(cluster, patched \cup {"cluster"})
        /\ at' = [at EXCEPT ![a] = IF Group = {} THEN "launch" ELSE "groups"]
        /\ toPatch' = [toPatch EXCEPT ![a] = Group]
        /\ UNCHANGED <<task, result>>
     \/ Missing /\ ~dryRun /\ Refused(a)
  /\ UNCHANGED deleted

patchInstanceGroup(a) ==
  /\ Command(a, {"create", "update"}, "groups")
  /\ \/ /\ ~Missing \/ dryRun
        /\ \E g \in toPatch[a] :
             /\ Execute(cluster, patched \cup {g})
             /\ toPatch' = [toPatch EXCEPT ![a] = @ \ {g}]
             /\ at' = [at EXCEPT ![a] = IF toPatch[a] = {g} THEN "launch" ELSE "groups"]
        /\ UNCHANGED <<task, result>>
     \/ Missing /\ ~dryRun /\ Refused(a)
  /\ UNCHANGED deleted

Launch(a) ==
  /\ Command(a, {"create", "update"}, "launch")
  /\ \/ /\ ~Missing \/ dryRun
        /\ Execute(IF cluster = "configured" THEN "starting" ELSE cluster, patched)
        /\ Then(a, AfterPatch(a))
     \/ Missing /\ ~dryRun /\ Refused(a)
  /\ UNCHANGED deleted

\* kops' rolling update, or eksctl's update.
RollingUpdate(a) ==
  /\ Command(a, {"update"}, "roll")
  /\ IF cluster \in Launched \/ dryRun THEN StartAwaiting(a) ELSE End(a, "failed")
  /\ UNCHANGED <<clusterVars, deleted>>

DeleteExists(a) ==
  /\ Command(a, {"delete"}, "exists")
  /\ IF Missing THEN End(a, "failed") ELSE Stay(a, "command")
  /\ UNCHANGED <<clusterVars, deleted>>

\* Without approval kops only tests the deletion, and eksctl is not run.
Delete(a) ==
  /\ Command(a, {"delete"}, "command")
  /\ IF setup.job[a] = "delete"
     THEN Execute("absent", {}) /\ deleted' = (deleted \/ ~dryRun)
     ELSE UNCHANGED <<clusterVars, deleted>>
  /\ Then(a, End(a, "deleted"))

\* Any command may fail without effect: it cannot be started, it is refused,
\* it takes too long; so may the rendering of the values it takes.
Fallible == {"exists", "command", "patch", "cluster", "groups", "launch", "roll", "api", "ready"}

CommandFails(a) ==
  /\ at[a] \in Fallible \/ (at[a] = "connect" /\ NeedsTunnel)
  /\ End(a, "failed")
  /\ UNCHANGED <<setup, clusterVars, statusVars, tunnelVars, closed, deleted>>

-----------------------------------------------------------------------------
(* WaitForClusterReadiness *)

\* clustersot.IsOnline: a cached answer is not asked for again.  A stack
\* without a cluster has no ClusterSot to ask: the program panics.
PollOnline(a) ==
  /\ task[a] = "await" /\ at[a] = "api"
  /\ IF setup.provisioner = "none"
     THEN End(a, "panic") /\ UNCHANGED isOnline
     ELSE IF isOnline \/ Reachable
     THEN isOnline' = TRUE /\ Stay(a, "ready")
     ELSE Stay(a, "connect") /\ UNCHANGED isOnline
  /\ UNCHANGED <<setup, clusterVars, isReady, seenReady, tunnelVars, closed, deleted>>

OnlineTimeout(a) ==
  /\ task[a] = "await" /\ at[a] = "connect"
  /\ IF isOnline THEN Stay(a, "ready") ELSE End(a, "failed")
  /\ UNCHANGED <<setup, clusterVars, statusVars, tunnelVars, closed, deleted>>

\* Ready is a cluster all of whose pods run, also one without any.
AnswersReady == Reachable /\ cluster \in {"bare", "ready"}

\* clustersot.IsReady.  It is an error if the API server cannot be reached.
PollReady(a) ==
  /\ task[a] = "await" /\ at[a] = "ready"
  /\ \/ /\ isReady
        /\ End(a, result[a])
        /\ UNCHANGED <<isReady, seenReady>>
     \/ /\ ~isReady /\ AnswersReady
        /\ isReady' = TRUE /\ seenReady' = TRUE
        /\ End(a, result[a])
     \/ /\ ~isReady /\ ~Reachable
        /\ End(a, "failed")
        /\ UNCHANGED <<isReady, seenReady>>
  /\ UNCHANGED <<setup, clusterVars, isOnline, tunnelVars, closed, deleted>>

\* Mistaken variants: what the wait found out is not looked at, and the loop
\* goes on until the cluster is ready.
ReadyTimeoutUnnoticed(a) ==
  /\ task[a] = "await" /\ at[a] = "ready"
  /\ End(a, result[a])
  /\ UNCHANGED <<setup, clusterVars, statusVars, tunnelVars, closed, deleted>>

ReadyTimeoutMissing(a) ==
  /\ task[a] = "await" /\ at[a] = "ready" /\ isReady
  /\ End(a, result[a])
  /\ UNCHANGED <<setup, clusterVars, statusVars, tunnelVars, closed, deleted>>

ReadyTimeout(a) ==
  /\ task[a] = "await" /\ at[a] = "ready"
  /\ End(a, IF isReady THEN result[a] ELSE "failed")
  /\ UNCHANGED <<setup, clusterVars, statusVars, tunnelVars, closed, deleted>>

-----------------------------------------------------------------------------
(* Everything else *)

\* A launched cluster comes up; its pods may stop running at any time.
ClusterEvolves ==
  /\ \/ cluster = "starting" /\ cluster' \in {"bare", "online"}
     \/ cluster = "bare" /\ cluster' = "online"
     \/ cluster = "online" /\ cluster' = "ready"
     \/ cluster = "ready" /\ cluster' = "online"
  /\ UNCHANGED <<setup, patched, statusVars, actorVars, tunnelVars, closed, deleted>>

SshDies ==
  /\ \/ sshCommand = "running" /\ sshCommand' \in {"exited", "killed"} /\ UNCHANGED strays
     \/ strays /\ strays' = FALSE /\ UNCHANGED sshCommand
  /\ UNCHANGED <<setup, clusterVars, statusVars, actorVars, tunneller, tries,
                 portForwardingActive, closed, deleted>>

AllEnded == \A a \in Actor : task[a] = "end"

\* Close(): ProcessState is only there once ssh has ended; killing it then is
\* an error if it was ended by a signal.
Close ==
  /\ AllEnded /\ closed = "no"
  /\ closed' = IF sshCommand = "killed" THEN "error" ELSE "nothing to do"
  /\ UNCHANGED <<setup, clusterVars, statusVars, actorVars, tunnelVars, deleted>>

Init ==
  /\ setup \in Setups
  /\ cluster = setup.before
  /\ patched = IF cluster \in Launched THEN Part ELSE {}
  /\ isOnline = FALSE /\ isReady = FALSE /\ seenReady = FALSE /\ deleted = FALSE
  /\ task = [a \in Actor |-> IF setup.job[a] = "none" THEN "end" ELSE "begin"]
  /\ at = [a \in Actor |-> IF setup.job[a] = "none" THEN "end" ELSE "begin"]
  /\ toPatch = [a \in Actor |-> {}]
  /\ result = [a \in Actor |-> "none"]
  /\ tunneller = [a \in Actor |-> "none"] /\ tries = [a \in Actor |-> 0]
  /\ portForwardingActive = FALSE /\ sshCommand = "none" /\ strays = FALSE
  /\ closed = "no"

BeginJob(a) ==
  /\ at[a] = "begin"
  /\ Begin(a)
  /\ UNCHANGED <<setup, clusterVars, statusVars, tunnelVars, closed, deleted>>

Crashed == \E a \in Actor : result[a] = "panic"

Act(a) ==
  /\ ~Crashed /\ closed = "no"
  /\ \/ BeginJob(a) \/ EnsureClusterConnectivity(a)
     \/ TunnelIsUp(a) \/ TunnelGivenUp(a) \/ TunnelTimeout(a)
     \/ CheckExists(a) \/ IsAlreadyOnline(a)
     \/ CreateExists(a) \/ CreateCluster(a)
     \/ Patch(a) \/ PatchCluster(a) \/ patchInstanceGroup(a) \/ Launch(a) \/ RollingUpdate(a)
     \/ DeleteExists(a) \/ Delete(a)
     \/ PollOnline(a) \/ PollReady(a)

Fault(a) == ~Crashed /\ CommandFails(a)

Deadline(a) == ~Crashed /\ (OnlineTimeout(a) \/ ReadyTimeout(a))

Tunnelling(a) == ~Crashed /\ closed = "no" /\ (SshConnects(a) \/ SshFails(a))

Next ==
  \/ \E a \in Actor : Act(a) \/ Fault(a) \/ Deadline(a) \/ Tunnelling(a)
  \/ ClusterEvolves \/ SshDies
  \/ ~Crashed /\ Close

\* A goroutine that can go on does; every round of a wait's loop that does not
\* end it sleeps, so that its deadline passes sooner or later.
Fairness == \A a \in Actor : WF_vars(Act(a)) /\ SF_vars(Deadline(a))

Spec == Init /\ [][Next]_vars /\ Fairness

-----------------------------------------------------------------------------
(* Properties *)

\* As long as nothing deletes the cluster, UpdateCluster and CreateCluster
\* report success only if the cluster has told some actor that it is ready.
\* (provisioner.go:107-190: IsReady is cached and shared by the workers.)
SuccessMeansReady ==
  ~dryRun /\ ~deleted =>
    \A a \in Actor : task[a] = "end" /\ result[a] \in {"updated", "created"} => seenReady

\* A cluster that kops launches, or updates, has been patched as a whole with
\* the stack's configuration, whoever else creates or patches it meanwhile.
\* (kops.go:353-520)
LaunchedPatched ==
  Kops /\ cluster \in Launched /\ ~deleted => patched = Part

\* kubectl is not sent to an API server behind a bastion before a tunnel was
\* set up, also if it was another worker that found the cluster online.
\* (provisioner.go:116-155 and kops.go:672-700)
TunnelBeforeKubectl ==
  \A a \in Actor : at[a] \in {"api", "ready"} /\ NeedsTunnel => portForwardingActive

\* Dry runs, and deletions that were not approved, change nothing in the
\* cluster: it is as what goes on in it leaves it.  (update.go, create.go,
\* delete.go, and the provisioners that are to pass `dryRun` on)
Harmless == dryRun \/ \A a \in Actor : setup.job[a] \in {"test deletion", "none"}
NothingUnwanted == [][Harmless => UNCHANGED clusterVars \/ ClusterEvolves]_vars

\* Every command comes to an end, whatever becomes of the cluster, of the
\* commands it runs and of the goroutines it leaves behind.
EveryJobEnds == \A a \in Actor : <>(task[a] = "end" \/ Crashed)
=============================================================================
