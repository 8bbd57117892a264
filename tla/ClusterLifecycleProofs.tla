------------------------ MODULE ClusterLifecycleProofs ------------------------
(***************************************************************************)
(* The safety of ClusterLifecycle for any number of actors, whatever their *)
(* jobs, the instance groups and the number of tries for a tunnel.  First  *)
(* it is shown where each action takes its actor (MovesFittingly); the     *)
(* conjuncts of the invariant that speak of actors follow from that.       *)
(***************************************************************************)
EXTENDS ClusterLifecycle, TLAPS

USE DEF clusterVars, statusVars, actorVars, sshVars, tunnelVars, vars

-----------------------------------------------------------------------------
(* The inductive invariant *)

\* What an actor is doing suits its job.
Proper(a, t, p) ==
  /\ p = "begin" => setup.job[a] # "none"
  /\ p = "connect" => t \in {"check", "check again", "await"}
  /\ t = "end" => p = "end"
  /\ t = "check" => setup.job[a] \in {"update", "update only"}
  /\ t \notin {"begin", "delete", "end"} => setup.job[a] \notin {"test deletion", "none"}

Placed == \A a \in Actor : Proper(a, task[a], at[a])

\* Whatever was learnt from kubectl behind a bastion came through a tunnel.
Tunnelled ==
  NeedsTunnel /\ ~portForwardingActive =>
    /\ ~isOnline
    /\ \A a \in Actor :
         /\ tunneller[a] # "succeeded"
         /\ at[a] \notin {"api", "ready"}
         /\ at[a] = "exists" => task[a] \notin {"check", "check again"}

\* Nobody has succeeded for whom the cluster was not ready.
Told ==
  ~seenReady =>
    /\ ~isReady
    /\ ~dryRun => \A a \in Actor : task[a] = "end" => result[a] \notin {"updated", "created"}

\* How far the configuration has been patched where an actor is.
Progress(a) ==
  /\ at[a] \in {"cluster", "groups", "launch"} => cluster # "absent"
  /\ at[a] = "groups" => {"cluster"} \cup (Group \ toPatch[a]) \subseteq patched
  /\ at[a] = "launch" => patched = Part

Patching ==
  Kops /\ ~deleted =>
    /\ cluster \in Launched => patched = Part
    /\ ~dryRun => \A a \in Actor : Progress(a)

ClusterInv == TypeOK /\ Placed /\ Tunnelled /\ Told /\ Patching

-----------------------------------------------------------------------------
(* Where actors go *)

Moves(a, t, p, r) ==
  /\ task' = [task EXCEPT ![a] = t]
  /\ at' = [at EXCEPT ![a] = p]
  /\ result' = [result EXCEPT ![a] = r]

\* Places that ask nothing of the tunnel, of the patches or of readiness.
Plain(a, t, p, r) ==
  /\ t \in Task /\ p \in Place /\ r \in Result
  /\ Proper(a, t, p)
  /\ p \notin {"api", "ready", "cluster", "groups", "launch"}
  /\ p = "exists" => t \notin {"check", "check again"}
  /\ t = "end" /\ r \in {"updated", "created"} => dryRun

MovesPlainly(a) ==
  /\ toPatch' = toPatch
  /\ \E t \in Task, p \in Place, r \in Result : Plain(a, t, p, r) /\ Moves(a, t, p, r)

LEMMA EndMoves ==
  ASSUME TypeOK, NEW a \in Actor, NEW r \in Result, End(a, r),
         r \in {"updated", "created"} => dryRun
  PROVE  MovesPlainly(a)
BY DEF End, MovesPlainly, Moves, Plain, Proper, Task, Place

\* A fact about the typing of an actor's variables.
LEMMA ActorTypes ==
  ASSUME TypeOK, NEW a \in Actor
  PROVE  /\ task[a] \in Task /\ at[a] \in Place /\ result[a] \in Result
         /\ setup.job[a] \in Job
         /\ setup.provisioner \in {"kops", "eks", "minikube", "none"}
         /\ dryRun \in BOOLEAN /\ setup.viaBastion \in BOOLEAN
BY SetupAssumption DEF TypeOK, Setup, dryRun

LEMMA GoMoves ==
  ASSUME TypeOK, NEW a \in Actor, NEW t \in Task \ {"end"}, NEW p \in Place, Go(a, t, p), Proper(a, t, p),
         p \notin {"api", "ready", "cluster", "groups", "launch"},
         p = "exists" => t \notin {"check", "check again"}
  PROVE  MovesPlainly(a)
<1>1. result[a] \in Result /\ result' = [result EXCEPT ![a] = result[a]]
  BY ActorTypes DEF Go, TypeOK
<1>2. Plain(a, t, p, result[a]) /\ Moves(a, t, p, result[a])
  BY <1>1 DEF Plain, Moves, Go
<1>3. QED
  BY <1>1, <1>2 DEF MovesPlainly, Go

LEMMA AwaitingMoves ==
  ASSUME TypeOK, NEW a \in Actor, StartAwaiting(a), setup.job[a] \notin {"test deletion", "none"}
  PROVE  MovesPlainly(a)
<1>1. CASE dryRun
  BY <1>1, EndMoves, ActorTypes DEF StartAwaiting
<1>2. CASE ~dryRun
  <2>1. Go(a, "await", "connect") /\ Proper(a, "await", "connect")
    BY <1>2 DEF StartAwaiting, Proper
  <2>2. QED
    BY <2>1, GoMoves DEF Task, Place
<1>3. QED
  BY <1>1, <1>2

LEMMA StartMoves ==
  ASSUME TypeOK, NEW a \in Actor, NEW t \in {"create", "update", "await"},
         NEW p \in {"connect", "exists", "command", "patch", "roll"}, NEW r \in Result,
         Start(a, t, p, r), p = "connect" => t = "await",
         setup.job[a] \notin {"test deletion", "none"}
  PROVE  MovesPlainly(a)
<1>1. Plain(a, t, p, r) /\ Moves(a, t, p, r)
  BY DEF Plain, Proper, Moves, Start, Task, Place
<1>2. t \in Task /\ p \in Place
  BY DEF Task, Place
<1>3. QED
  BY <1>1, <1>2 DEF MovesPlainly, Start

LEMMA CreatingMoves ==
  ASSUME TypeOK, NEW a \in Actor, StartCreating(a), setup.job[a] \notin {"test deletion", "none"}
  PROVE  MovesPlainly(a)
<1>1. CASE ChecksExistence
  <2>1. Start(a, "create", "exists", "created")
    BY <1>1 DEF StartCreating
  <2>2. QED
    BY <2>1, StartMoves DEF Result
<1>2. CASE ~ChecksExistence /\ setup.provisioner = "minikube"
  <2>1. Start(a, "create", "command", "created")
    BY <1>2 DEF StartCreating
  <2>2. QED
    BY <2>1, StartMoves DEF Result
<1>3. CASE ~ChecksExistence /\ setup.provisioner # "minikube" /\ dryRun
  BY <1>3, EndMoves DEF StartCreating, Result
<1>4. CASE ~ChecksExistence /\ setup.provisioner # "minikube" /\ ~dryRun
  BY <1>4, StartMoves DEF StartCreating, Result
<1>5. QED
  BY <1>1, <1>2, <1>3, <1>4

LEMMA UpdatingMoves ==
  ASSUME TypeOK, NEW a \in Actor, StartUpdating(a), setup.job[a] \notin {"test deletion", "none"}
  PROVE  MovesPlainly(a)
<1>1. CASE Kops
  <2>1. Start(a, "update", "patch", "updated")
    BY <1>1 DEF StartUpdating
  <2>2. QED
    BY <2>1, StartMoves DEF Result
<1>2. CASE ~Kops /\ setup.provisioner = "eks"
  <2>1. Start(a, "update", "roll", "updated")
    BY <1>2 DEF StartUpdating
  <2>2. QED
    BY <2>1, StartMoves DEF Result
<1>3. CASE ~Kops /\ setup.provisioner # "eks" /\ dryRun
  BY <1>3, EndMoves DEF StartUpdating, Result
<1>4. CASE ~Kops /\ setup.provisioner # "eks" /\ ~dryRun
  BY <1>4, StartMoves DEF StartUpdating, Result
<1>5. QED
  BY <1>1, <1>2, <1>3, <1>4

LEMMA ConcludeMoves ==
  ASSUME TypeOK, Placed, NEW a \in Actor, task[a] \in {"check", "check again"},
         NEW online \in BOOLEAN, Conclude(a, online)
  PROVE  MovesPlainly(a)
<1>1. /\ setup.job[a] \notin {"test deletion", "none"}
      /\ task[a] = "check" => setup.job[a] \in {"update", "update only"}
  BY DEF Placed, Proper
<1>2. CASE task[a] = "check" /\ online
  BY <1>1, <1>2, UpdatingMoves DEF Conclude
<1>3. CASE task[a] = "check" /\ ~online /\ setup.job[a] = "update only"
  BY <1>3, EndMoves DEF Conclude, Result
<1>4. CASE task[a] = "check" /\ ~online /\ setup.job[a] = "update"
  <2>1. CASE dryRun
    BY <1>1, <1>4, <2>1, CreatingMoves DEF Conclude
  <2>2. CASE ~dryRun
    <3>1. Go(a, "check again", "connect") /\ Proper(a, "check again", "connect")
      BY <1>4, <2>2 DEF Conclude, Proper
    <3>2. QED
      BY <3>1, GoMoves DEF Task, Place
  <2>3. QED
    BY <2>1, <2>2
<1>5. CASE task[a] = "check again" /\ online
  BY <1>5, EndMoves DEF Conclude, Result
<1>6. CASE task[a] = "check again" /\ ~online
  BY <1>1, <1>6, CreatingMoves DEF Conclude
<1>7. QED
  BY <1>1, <1>2, <1>3, <1>4, <1>5, <1>6

LEMMA BeginMoves ==
  ASSUME TypeOK, Placed, NEW a \in Actor, BeginJob(a)
  PROVE  MovesPlainly(a)
<1>1. setup.job[a] # "none" /\ setup.job[a] \in Job
  BY ActorTypes DEF BeginJob, Placed, Proper
<1>2. CASE setup.job[a] \in {"update", "update only"}
  <2>1. Go(a, "check", "connect") /\ Proper(a, "check", "connect")
    BY <1>2 DEF BeginJob, Begin, Proper
  <2>2. QED
    BY <2>1, GoMoves DEF Task, Place
<1>3. CASE setup.job[a] = "create"
  <2>1. CASE dryRun
    BY <1>3, <2>1, CreatingMoves DEF BeginJob, Begin
  <2>2. CASE ~dryRun
    <3>1. Go(a, "check again", "connect") /\ Proper(a, "check again", "connect")
      BY <1>3, <2>2 DEF BeginJob, Begin, Proper
    <3>2. QED
      BY <3>1, GoMoves DEF Task, Place
  <2>3. QED
    BY <2>1, <2>2
<1>4. CASE setup.job[a] \in {"delete", "test deletion"}
  <2>1. CASE ChecksExistence
    <3>1. Proper(a, "delete", "exists")
      BY <1>4 DEF Proper
    <3>3. Go(a, "delete", "exists")
      BY <1>4, <2>1 DEF BeginJob, Begin
    <3>2. QED
      BY <3>1, <3>3, GoMoves DEF Task, Place
  <2>2. CASE ~ChecksExistence /\ setup.provisioner = "minikube" /\ setup.job[a] = "delete"
    <3>1. Go(a, "delete", "command") /\ Proper(a, "delete", "command")
      BY <1>4, <2>2 DEF BeginJob, Begin, Proper
    <3>2. QED
      BY <3>1, GoMoves DEF Task, Place
  <2>3. CASE ~ChecksExistence /\ ~(setup.provisioner = "minikube" /\ setup.job[a] = "delete")
    BY <1>4, <2>3, EndMoves DEF BeginJob, Begin, Result
  <2>4. QED
    BY <2>1, <2>2, <2>3
<1>5. QED
  BY <1>1, <1>2, <1>3, <1>4 DEF Job

-----------------------------------------------------------------------------
(* What a step does to the actors *)

\* Where an actor goes, and what it needs there.
Fits(a, t, p, r) ==
  /\ t \in Task /\ p \in Place /\ r \in Result
  /\ Proper(a, t, p)
  /\ NeedsTunnel /\ ~portForwardingActive' =>
       p \notin {"api", "ready"} /\ (p = "exists" => t \notin {"check", "check again"})
  /\ t = "end" /\ r \in {"updated", "created"} => dryRun \/ seenReady'
  /\ p \in {"cluster", "groups", "launch"} => Patch(a) \/ PatchCluster(a) \/ patchInstanceGroup(a)

MovesFittingly(a) ==
  \E t \in Task, p \in Place, r \in Result : Fits(a, t, p, r) /\ Moves(a, t, p, r)

LEMMA PlainFits ==
  ASSUME NEW a \in Actor, MovesPlainly(a)
  PROVE  MovesFittingly(a) /\ toPatch' = toPatch
BY DEF MovesPlainly, MovesFittingly, Plain, Fits

\* To another place in the same task.
LEMMA StayMoves ==
  ASSUME TypeOK, NEW a \in Actor, NEW p \in Place, Stay(a, p), task[a] # "end", Proper(a, task[a], p),
         NeedsTunnel /\ ~portForwardingActive' =>
           p \notin {"api", "ready"} /\ (p = "exists" => task[a] \notin {"check", "check again"}),
         p \in {"cluster", "groups", "launch"} => Patch(a)
  PROVE  MovesFittingly(a) /\ toPatch' = toPatch
<1>1. result[a] \in Result /\ result' = [result EXCEPT ![a] = result[a]] /\ task[a] \in Task
  BY ActorTypes DEF Stay, Go, TypeOK
<1>2. Fits(a, task[a], p, result[a]) /\ Moves(a, task[a], p, result[a])
  BY <1>1 DEF Fits, Moves, Stay, Go
<1>3. QED
  BY <1>1, <1>2 DEF MovesFittingly, Stay, Go

LEMMA FailMoves ==
  ASSUME TypeOK, NEW a \in Actor, End(a, "failed")
  PROVE  MovesFittingly(a) /\ toPatch' = toPatch
BY EndMoves, PlainFits DEF Result

LEMMA EndReadyMoves ==
  ASSUME TypeOK, NEW a \in Actor, End(a, result[a]), seenReady'
  PROVE  MovesFittingly(a) /\ toPatch' = toPatch
<1>1. result[a] \in Result
  BY ActorTypes
<1>2. Fits(a, "end", "end", result[a]) /\ Moves(a, "end", "end", result[a])
  BY <1>1 DEF Fits, Proper, Moves, End, Task, Place
<1>3. QED
  BY <1>1, <1>2 DEF MovesFittingly, End, Task, Place

LEMMA ConnectedMoves ==
  ASSUME TypeOK, Placed, NEW a \in Actor, at[a] \in {"connect", "tunnel"}, Connected(a),
         NeedsTunnel => portForwardingActive'
  PROVE  MovesFittingly(a) /\ toPatch' = toPatch
<1>1. task[a] # "end" /\ \A p \in {"exists", "api"} : Proper(a, task[a], p)
  BY DEF Placed, Proper
<1>2. PICK p \in {"exists", "api"} : Stay(a, p)
  BY DEF Connected
<1>3. QED
  BY <1>1, <1>2, StayMoves DEF Place

LEMMA ConnectivityMoves ==
  ASSUME ClusterInv, NEW a \in Actor, EnsureClusterConnectivity(a)
  PROVE  MovesFittingly(a) /\ toPatch' = toPatch
<1>1. TypeOK /\ Placed /\ at[a] = "connect" /\ task[a] \in {"check", "check again", "await"}
  BY DEF ClusterInv, EnsureClusterConnectivity, Placed, Proper
<1>2. CASE (~NeedsTunnel \/ portForwardingActive) /\ Connected(a) /\ UNCHANGED tunnelVars
  BY <1>1, <1>2, ConnectedMoves
<1>3. CASE NotConnected(a)
  <2>1. CASE task[a] = "await"
    <3>1. Stay(a, "connect") /\ Proper(a, task[a], "connect")
      BY <1>1, <1>3, <2>1 DEF NotConnected, Placed
    <3>2. QED
      BY <1>1, <2>1, <3>1, StayMoves DEF Place
  <2>2. CASE task[a] # "await"
    BY <1>1, <1>3, <2>2, ConcludeMoves, PlainFits DEF NotConnected
  <2>3. QED
    BY <2>1, <2>2
<1>4. CASE Stay(a, "tunnel")
  <2>1. Proper(a, task[a], "tunnel")
    BY <1>1 DEF Placed, Proper
  <2>2. QED
    BY <1>1, <1>4, <2>1, StayMoves DEF Place
<1>5. QED
  BY <1>2, <1>3, <1>4 DEF EnsureClusterConnectivity

LEMMA TunnelMoves ==
  ASSUME ClusterInv, NEW a \in Actor, TunnelIsUp(a) \/ TunnelGivenUp(a) \/ TunnelTimeout(a)
  PROVE  MovesFittingly(a) /\ toPatch' = toPatch
<1>1. TypeOK /\ Placed /\ Tunnelled
  BY DEF ClusterInv
<1>2. CASE End(a, "failed")
  BY <1>1, <1>2, FailMoves
<1>3. CASE TunnelIsUp(a) /\ Connected(a)
  <2>1. at[a] = "tunnel" /\ tunneller[a] = "succeeded" /\ portForwardingActive' = portForwardingActive
    BY <1>3 DEF TunnelIsUp
  <2>2. QED
    BY <1>1, <1>3, <2>1, ConnectedMoves DEF Tunnelled
<1>4. QED
  BY <1>2, <1>3 DEF TunnelIsUp, TunnelGivenUp, TunnelTimeout

LEMMA CheckMoves ==
  ASSUME ClusterInv, NEW a \in Actor, CheckExists(a) \/ IsAlreadyOnline(a)
  PROVE  MovesFittingly(a) /\ toPatch' = toPatch
<1>1. TypeOK /\ Placed /\ Tunnelled /\ task[a] \in {"check", "check again"}
  BY DEF ClusterInv, CheckExists, IsAlreadyOnline
<1>2. CASE \E online \in BOOLEAN : Conclude(a, online)
  BY <1>1, <1>2, ConcludeMoves, PlainFits
<1>3. CASE CheckExists(a) /\ Stay(a, "api")
  <2>1. at[a] = "exists" /\ portForwardingActive' = portForwardingActive
    BY <1>3 DEF CheckExists
  <2>2. Proper(a, task[a], "api")
    BY <1>1, <2>1 DEF Placed, Proper
  <2>3. QED
    BY <1>1, <1>3, <2>1, <2>2, StayMoves DEF Tunnelled, Place
<1>4. SaysOnline \in BOOLEAN
  BY DEF SaysOnline
<1>5. QED
  BY <1>2, <1>3, <1>4 DEF CheckExists, IsAlreadyOnline

LEMMA CommandMoves ==
  ASSUME ClusterInv, NEW a \in Actor,
         CreateExists(a) \/ CreateCluster(a) \/ Patch(a) \/ Launch(a) \/ RollingUpdate(a)
           \/ DeleteExists(a) \/ Delete(a)
  PROVE  MovesFittingly(a) /\ toPatch' = toPatch
<1>1. TypeOK /\ Placed /\ at[a] # "connect" /\ at[a] # "begin" /\ task[a] \in {"create", "update", "delete"}
  BY DEF ClusterInv, Command, CreateExists, CreateCluster, Patch, Launch, RollingUpdate, DeleteExists, Delete
<1>2. task[a] \in {"create", "update"} => setup.job[a] \notin {"test deletion", "none"}
  BY <1>1 DEF Placed, Proper
<1>3. CASE End(a, "failed")
  BY <1>1, <1>3, FailMoves
<1>4. CASE StartAwaiting(a) /\ task[a] \in {"create", "update"}
  BY <1>1, <1>2, <1>4, AwaitingMoves, PlainFits
<1>5. CASE End(a, "deleted")
  BY <1>1, <1>5, EndMoves, PlainFits DEF Result
<1>6. CASE \E p \in {"command", "patch", "roll"} : Stay(a, p)
  <2>1. PICK p \in {"command", "patch", "roll"} : Stay(a, p)
    BY <1>6
  <2>2. Proper(a, task[a], p)
    BY <1>1 DEF Placed, Proper
  <2>3. QED
    BY <1>1, <2>1, <2>2, StayMoves DEF Place
<1>7. CASE CreateExists(a)
  BY <1>3, <1>4, <1>6, <1>7 DEF CreateExists, Command
<1>8. CASE CreateCluster(a)
  BY <1>3, <1>4, <1>6, <1>8 DEF CreateCluster, Command, Then, Refused
<1>9. CASE Patch(a)
  <2>1. CASE Stay(a, "cluster")
    <3>1. Proper(a, task[a], "cluster")
      BY <1>1 DEF Placed, Proper
    <3>2. QED
      BY <1>1, <1>9, <2>1, <3>1, StayMoves DEF Place
  <2>2. QED
    BY <1>3, <1>4, <1>6, <1>9, <2>1 DEF Patch, Command, AfterPatch
<1>10. CASE Launch(a)
  BY <1>3, <1>4, <1>6, <1>10 DEF Launch, Command, Then, AfterPatch, Refused
<1>11. CASE RollingUpdate(a)
  BY <1>3, <1>4, <1>11 DEF RollingUpdate, Command
<1>12. CASE DeleteExists(a)
  BY <1>3, <1>6, <1>12 DEF DeleteExists
<1>13. CASE Delete(a)
  BY <1>3, <1>5, <1>13 DEF Delete, Then
<1>14. QED
  BY <1>7, <1>8, <1>9, <1>10, <1>11, <1>12, <1>13

LEMMA PatchingMoves ==
  ASSUME ClusterInv, NEW a \in Actor, PatchCluster(a) \/ patchInstanceGroup(a)
  PROVE  MovesFittingly(a) /\ toPatch' \in [Actor -> SUBSET Group]
<1>1. /\ TypeOK /\ Placed /\ at[a] # "connect" /\ at[a] # "begin" /\ task[a] \in {"create", "update"}
      /\ toPatch \in [Actor -> SUBSET Group]
  BY DEF ClusterInv, Command, PatchCluster, patchInstanceGroup, TypeOK
<1>2. CASE End(a, "failed")
  BY <1>1, <1>2, FailMoves
<1>3. ASSUME \E p \in {"groups", "launch"} : at' = [at EXCEPT ![a] = p] /\ UNCHANGED <<task, result>>
      PROVE  MovesFittingly(a)
  <2>1. PICK p \in {"groups", "launch"} : at' = [at EXCEPT ![a] = p] /\ UNCHANGED <<task, result>>
    BY <1>3
  <2>2. Proper(a, task[a], p)
    BY <1>1 DEF Placed, Proper
  <2>3. /\ task[a] \in Task /\ result[a] \in Result
        /\ task' = [task EXCEPT ![a] = task[a]] /\ result' = [result EXCEPT ![a] = result[a]]
    BY <1>1, <2>1, ActorTypes DEF TypeOK
  <2>4. Fits(a, task[a], p, result[a]) /\ Moves(a, task[a], p, result[a])
    BY <1>1, <2>1, <2>2, <2>3 DEF Fits, Moves, Place
  <2>5. QED
    BY <2>3, <2>4 DEF MovesFittingly, Place, Fits
<1>4. CASE PatchCluster(a)
  <2>1. \/ End(a, "failed")
        \/ /\ \E p \in {"groups", "launch"} : at' = [at EXCEPT ![a] = p] /\ UNCHANGED <<task, result>>
           /\ toPatch' = [toPatch EXCEPT ![a] = Group]
    BY <1>4 DEF PatchCluster, Refused
  <2>2. toPatch' \in [Actor -> SUBSET Group]
    BY <1>1, <2>1 DEF End
  <2>3. QED
    BY <1>2, <1>3, <2>1, <2>2
<1>5. CASE patchInstanceGroup(a)
  <2>1. \/ End(a, "failed")
        \/ /\ \E p \in {"groups", "launch"} : at' = [at EXCEPT ![a] = p] /\ UNCHANGED <<task, result>>
           /\ \E g \in toPatch[a] : toPatch' = [toPatch EXCEPT ![a] = @ \ {g}]
    BY <1>5 DEF patchInstanceGroup, Refused
  <2>2. toPatch' \in [Actor -> SUBSET Group]
    BY <1>1, <2>1 DEF End
  <2>3. QED
    BY <1>2, <1>3, <2>1, <2>2
<1>6. QED
  BY <1>4, <1>5

LEMMA WaitMoves ==
  ASSUME ClusterInv, NEW a \in Actor, PollOnline(a) \/ PollReady(a) \/ OnlineTimeout(a) \/ ReadyTimeout(a)
  PROVE  MovesFittingly(a) /\ toPatch' = toPatch
<1>1. /\ TypeOK /\ Placed /\ Tunnelled /\ Told /\ task[a] = "await"
      /\ at[a] \in {"api", "connect", "ready"}
  BY DEF ClusterInv, PollOnline, PollReady, OnlineTimeout, ReadyTimeout
<1>2. \A p \in {"api", "connect", "ready"} : Proper(a, task[a], p)
  BY <1>1 DEF Placed, Proper
<1>3. CASE End(a, "failed")
  BY <1>1, <1>3, FailMoves
<1>4. CASE Stay(a, "connect")
  BY <1>1, <1>2, <1>4, StayMoves DEF Place
<1>5. CASE PollOnline(a)
  <2>1. CASE End(a, "panic")
    BY <1>1, <2>1, EndMoves, PlainFits DEF Result
  <2>2. CASE Stay(a, "ready")
    BY <1>1, <1>2, <1>5, <2>2, StayMoves DEF PollOnline, Tunnelled, Place
  <2>3. QED
    BY <1>4, <1>5, <2>1, <2>2 DEF PollOnline
<1>6. CASE OnlineTimeout(a)
  <2>1. CASE isOnline /\ Stay(a, "ready")
    BY <1>1, <1>2, <1>6, <2>1, StayMoves DEF OnlineTimeout, Tunnelled, Place
  <2>2. QED
    BY <1>3, <1>6, <2>1 DEF OnlineTimeout
<1>7. CASE End(a, result[a]) /\ isReady /\ seenReady' = seenReady
  <2>1. seenReady'
    BY <1>1, <1>7 DEF Told
  <2>2. QED
    BY <1>1, <1>7, <2>1, EndReadyMoves
<1>8. CASE PollReady(a)
  <2>1. \/ End(a, "failed")
        \/ End(a, result[a]) /\ isReady /\ seenReady' = seenReady
        \/ End(a, result[a]) /\ seenReady' = TRUE
    BY <1>8 DEF PollReady
  <2>2. QED
    BY <1>1, <1>3, <1>7, <2>1, EndReadyMoves
<1>9. CASE ReadyTimeout(a)
  BY <1>3, <1>7, <1>9 DEF ReadyTimeout
<1>10. QED
  BY <1>5, <1>6, <1>8, <1>9

-----------------------------------------------------------------------------
(* The invariant *)

\* A step is one of an actor, of a goroutine for a tunnel, or of the rest.
LEMMA StepCases ==
  ASSUME ClusterInv, Next
  PROVE  \/ \E a \in Actor : \/ BeginJob(a) \/ EnsureClusterConnectivity(a) \/ TunnelIsUp(a) \/ TunnelGivenUp(a)
                             \/ TunnelTimeout(a) \/ CheckExists(a) \/ IsAlreadyOnline(a) \/ CreateExists(a)
                             \/ CreateCluster(a) \/ Patch(a) \/ PatchCluster(a) \/ patchInstanceGroup(a)
                             \/ Launch(a) \/ RollingUpdate(a) \/ DeleteExists(a) \/ Delete(a)
                             \/ PollOnline(a) \/ PollReady(a) \/ CommandFails(a) \/ OnlineTimeout(a) \/ ReadyTimeout(a)
         \/ \E a \in Actor : SshConnects(a) \/ SshFails(a)
         \/ ClusterEvolves \/ SshDies \/ Close
BY DEF Next, Act, Fault, Deadline, Tunnelling

LEMMA ActorEffect ==
  ASSUME ClusterInv, Next
  PROVE  \/ UNCHANGED actorVars
         \/ \E a \in Actor : MovesFittingly(a) /\ toPatch' \in [Actor -> SUBSET Group]
<1>1. ASSUME NEW a \in Actor, BeginJob(a)
      PROVE  MovesFittingly(a) /\ toPatch' = toPatch
  BY <1>1, BeginMoves, PlainFits DEF ClusterInv
<1>2. ASSUME NEW a \in Actor, CommandFails(a)
      PROVE  MovesFittingly(a) /\ toPatch' = toPatch
  BY <1>2, FailMoves DEF CommandFails, ClusterInv
<1>3. CASE UNCHANGED actorVars
  BY <1>3
<1>4. ASSUME NEW a \in Actor, MovesFittingly(a), toPatch' = toPatch
      PROVE  toPatch' \in [Actor -> SUBSET Group]
  BY <1>4 DEF ClusterInv, TypeOK
<1>5. ASSUME \E a \in Actor : SshConnects(a) \/ SshFails(a)
      PROVE  UNCHANGED actorVars
  BY <1>5 DEF SshConnects, SshFails
<1>6. ASSUME ClusterEvolves \/ SshDies \/ Close
      PROVE  UNCHANGED actorVars
  BY <1>6 DEF ClusterEvolves, SshDies, Close
<1>7. QED
  BY <1>1, <1>2, <1>3, <1>4, <1>5, <1>6, StepCases, ConnectivityMoves, TunnelMoves, CheckMoves,
     CommandMoves, PatchingMoves, WaitMoves

LEMMA SetupStays ==
  ASSUME ClusterInv, Next
  PROVE  setup' = setup
BY StepCases DEF BeginJob, EnsureClusterConnectivity, TunnelIsUp, TunnelGivenUp, TunnelTimeout, CheckExists,
   IsAlreadyOnline, CreateExists, CreateCluster, Patch, PatchCluster, patchInstanceGroup, Launch, RollingUpdate,
   DeleteExists, Delete, PollOnline, PollReady, CommandFails, OnlineTimeout, ReadyTimeout, SshConnects, SshFails,
   ClusterEvolves, SshDies, Close, Command

LEMMA PlacedStep ==
  ASSUME ClusterInv, Next
  PROVE  Placed'
<1>1. setup' = setup /\ Placed /\ task \in [Actor -> Task] /\ at \in [Actor -> Place]
  BY SetupStays DEF ClusterInv, TypeOK
<1>2. CASE UNCHANGED actorVars
  BY <1>1, <1>2 DEF Placed, Proper
<1>3. ASSUME NEW a \in Actor, MovesFittingly(a)
      PROVE  Placed'
  <2>1. PICK t \in Task, p \in Place, r \in Result : Fits(a, t, p, r) /\ Moves(a, t, p, r)
    BY <1>3 DEF MovesFittingly
  <2>2. Proper(a, task'[a], at'[a])
    BY <1>1, <2>1 DEF Fits, Moves
  <2>3. \A c \in Actor \ {a} : task'[c] = task[c] /\ at'[c] = at[c]
    BY <1>1, <2>1 DEF Moves
  <2>4. QED
    BY <1>1, <2>2, <2>3 DEF Placed, Proper
<1>4. QED
  BY <1>2, <1>3, ActorEffect

\* Whether the cluster is ready is learnt once and not forgotten.
LEMMA ReadyEffect ==
  ASSUME ClusterInv, Next
  PROVE  seenReady \in BOOLEAN /\ seenReady' \in BOOLEAN /\ isReady' \in BOOLEAN
         /\ (~seenReady' => ~seenReady /\ ~isReady')
<1>1. Told /\ seenReady \in BOOLEAN /\ isReady \in BOOLEAN
  BY DEF ClusterInv, TypeOK
<1>2. ASSUME NEW a \in Actor, PollReady(a)
      PROVE  \/ isReady' = TRUE /\ seenReady' = TRUE
             \/ UNCHANGED <<isReady, seenReady>>
  BY <1>2 DEF PollReady
<1>3. \/ isReady' = TRUE /\ seenReady' = TRUE
      \/ UNCHANGED <<isReady, seenReady>>
  BY <1>2, StepCases DEF BeginJob, EnsureClusterConnectivity, TunnelIsUp, TunnelGivenUp, TunnelTimeout, CheckExists,
     IsAlreadyOnline, CreateExists, CreateCluster, Patch, PatchCluster, patchInstanceGroup, Launch, RollingUpdate,
     DeleteExists, Delete, PollOnline, CommandFails, OnlineTimeout, ReadyTimeout, SshConnects, SshFails,
     ClusterEvolves, SshDies, Close, Command
<1>4. CASE isReady' = TRUE /\ seenReady' = TRUE
  BY <1>1, <1>4
<1>5. CASE UNCHANGED <<isReady, seenReady>>
  BY <1>1, <1>5 DEF Told
<1>6. QED
  BY <1>3, <1>4, <1>5

LEMMA ToldStep ==
  ASSUME ClusterInv, Next
  PROVE  Told'
<1>1. setup' = setup /\ Told /\ task \in [Actor -> Task] /\ result \in [Actor -> Result]
  BY SetupStays DEF ClusterInv, TypeOK
<1>2. SUFFICES ASSUME ~seenReady'
               PROVE  ~isReady' /\ (~dryRun' => \A c \in Actor : task'[c] = "end" => result'[c] \notin {"updated", "created"})
  BY DEF Told
<1>3. ~seenReady /\ ~isReady'
  BY <1>2, ReadyEffect
<1>4. dryRun' = dryRun
  BY <1>1 DEF dryRun
<1>5. CASE UNCHANGED actorVars
  BY <1>1, <1>3, <1>4, <1>5 DEF Told
<1>6. ASSUME NEW a \in Actor, MovesFittingly(a)
      PROVE  ~dryRun' => \A c \in Actor : task'[c] = "end" => result'[c] \notin {"updated", "created"}
  <2>1. PICK t \in Task, p \in Place, r \in Result : Fits(a, t, p, r) /\ Moves(a, t, p, r)
    BY <1>6 DEF MovesFittingly
  <2>2. ~dryRun /\ task'[a] = "end" => result'[a] \notin {"updated", "created"}
    BY <1>1, <1>2, <2>1 DEF Fits, Moves
  <2>3. \A c \in Actor \ {a} : task'[c] = task[c] /\ result'[c] = result[c]
    BY <1>1, <2>1 DEF Moves
  <2>4. QED
    BY <1>1, <1>3, <1>4, <2>2, <2>3 DEF Told
<1>7. QED
  BY <1>3, <1>5, <1>6, ActorEffect

\* What is known of the tunnel and of the cluster at its other end.
Known ==
  /\ portForwardingActive \in BOOLEAN /\ isOnline \in BOOLEAN
  /\ tunneller \in [Actor -> {"none", "trying", "succeeded", "gave up", "done"}]
  /\ tries \in [Actor -> 0 .. SshMaxTries]
  /\ NeedsTunnel /\ ~portForwardingActive =>
       ~isOnline /\ \A a \in Actor : tunneller[a] # "succeeded"

LEMMA KnownStep ==
  ASSUME ClusterInv, Next
  PROVE  Known'
<1>0. Known /\ Tunnelled /\ setup' = setup /\ SshMaxTries \in Nat \ {0}
  BY SetupStays, TriesAssumption DEF ClusterInv, TypeOK, Tunnelled, Known
<1> USE DEF Known
<1>b. 1 \in 0 .. SshMaxTries /\ \A k \in 0 .. SshMaxTries : k < SshMaxTries => k + 1 \in 0 .. SshMaxTries
  BY TriesAssumption
<1>c. tries \in [Actor -> 0 .. SshMaxTries]
  BY <1>0
<1>a. NeedsTunnel' = NeedsTunnel
  BY <1>0 DEF NeedsTunnel, Kops
<1>1. ASSUME UNCHANGED <<tunneller, tries, portForwardingActive, isOnline>>
      PROVE  Known'
  BY <1>0, <1>a, <1>1
<1>2. ASSUME NEW a \in Actor, EnsureClusterConnectivity(a)
      PROVE  Known'
  <2>1. UNCHANGED isOnline /\ UNCHANGED portForwardingActive
    BY <1>2 DEF EnsureClusterConnectivity
  <2>2. \/ UNCHANGED <<tunneller, tries>>
        \/ tunneller' = [tunneller EXCEPT ![a] = "trying"] /\ tries' = [tries EXCEPT ![a] = 1]
    BY <1>2 DEF EnsureClusterConnectivity
  <2>3. CASE UNCHANGED <<tunneller, tries>>
    BY <1>1, <2>1, <2>3
  <2>4. CASE tunneller' = [tunneller EXCEPT ![a] = "trying"] /\ tries' = [tries EXCEPT ![a] = 1]
    <3>2. tries' \in [Actor -> 0 .. SshMaxTries]
      BY <1>b, <1>c, <2>4
    <3>3. QED
      BY <1>0, <1>a, <2>1, <2>4, <3>2
  <2>5. QED
    BY <2>2, <2>3, <2>4
<1>3. ASSUME NEW a \in Actor, SshConnects(a)
      PROVE  Known'
  BY <1>0, <1>a, <1>3 DEF SshConnects
<1>4. ASSUME NEW a \in Actor, SshFails(a)
      PROVE  Known'
  <2>1. UNCHANGED <<isOnline, portForwardingActive>>
    BY <1>4 DEF SshFails
  <2>2. \/ tries[a] < SshMaxTries /\ tries' = [tries EXCEPT ![a] = @ + 1] /\ UNCHANGED tunneller
        \/ tunneller' = [tunneller EXCEPT ![a] = "gave up"] /\ UNCHANGED tries
    BY <1>4 DEF SshFails
  <2>3. tries' \in [Actor -> 0 .. SshMaxTries]
    <3>2. CASE tries[a] < SshMaxTries /\ tries' = [tries EXCEPT ![a] = @ + 1]
      BY <1>b, <1>c, <3>2
    <3>3. CASE UNCHANGED tries
      BY <1>c, <3>3
    <3>4. QED
      BY <2>2, <3>2, <3>3
  <2>4. tunneller' = tunneller \/ tunneller' = [tunneller EXCEPT ![a] = "gave up"]
    BY <2>2
  <2>5. QED
    BY <1>0, <1>a, <2>1, <2>3, <2>4
<1>5. ASSUME NEW a \in Actor, TunnelIsUp(a)
      PROVE  Known'
  <2>1. UNCHANGED <<isOnline, portForwardingActive>>
    BY <1>5 DEF TunnelIsUp
  <2>2. \/ /\ tries[a] < SshMaxTries /\ tries' = [tries EXCEPT ![a] = @ + 1]
           /\ tunneller' = [tunneller EXCEPT ![a] = "trying"]
        \/ tunneller' = [tunneller EXCEPT ![a] = "done"] /\ UNCHANGED tries
    BY <1>5 DEF TunnelIsUp
  <2>3. tries' \in [Actor -> 0 .. SshMaxTries]
    <3>2. CASE tries[a] < SshMaxTries /\ tries' = [tries EXCEPT ![a] = @ + 1]
      BY <1>b, <1>c, <3>2
    <3>3. CASE UNCHANGED tries
      BY <1>c, <3>3
    <3>4. QED
      BY <2>2, <3>2, <3>3
  <2>4. \E next \in {"trying", "done"} : tunneller' = [tunneller EXCEPT ![a] = next]
    BY <2>2
  <2>5. QED
    BY <1>0, <1>a, <2>1, <2>3, <2>4
<1>6. ASSUME NEW a \in Actor, TunnelGivenUp(a)
      PROVE  Known'
  BY <1>0, <1>a, <1>6 DEF TunnelGivenUp
<1>7. ASSUME NEW a \in Actor, CheckExists(a) \/ IsAlreadyOnline(a) \/ PollOnline(a)
      PROVE  Known'
  <2>1. UNCHANGED tunnelVars
    BY <1>7 DEF CheckExists, IsAlreadyOnline, PollOnline
  <2>2. isOnline' \in BOOLEAN
    BY <1>0, <1>7 DEF CheckExists, IsAlreadyOnline, PollOnline, SaysOnline
  <2>3. isOnline' = FALSE \/ isOnline' = isOnline \/ at[a] = "api"
    BY <1>7 DEF CheckExists, IsAlreadyOnline, PollOnline
  <2>4. QED
    BY <1>0, <1>a, <2>1, <2>2, <2>3 DEF Tunnelled
<1>8. ASSUME \E a \in Actor : \/ BeginJob(a) \/ TunnelTimeout(a) \/ CreateExists(a)
                             \/ CreateCluster(a) \/ Patch(a) \/ PatchCluster(a) \/ patchInstanceGroup(a)
                             \/ Launch(a) \/ RollingUpdate(a) \/ DeleteExists(a) \/ Delete(a)
                             \/ PollReady(a) \/ CommandFails(a) \/ OnlineTimeout(a) \/ ReadyTimeout(a)
      PROVE  Known'
  <2>1. UNCHANGED <<tunneller, tries, portForwardingActive, isOnline>>
    BY <1>8 DEF BeginJob, TunnelTimeout, CreateExists, CreateCluster, Patch, PatchCluster, patchInstanceGroup,
       Launch, RollingUpdate, DeleteExists, Delete, PollReady, CommandFails, OnlineTimeout, ReadyTimeout, Command
  <2>2. QED
    BY <1>1, <2>1
<1>9. ASSUME ClusterEvolves \/ SshDies \/ Close
      PROVE  Known'
  <2>1. UNCHANGED <<tunneller, tries, portForwardingActive, isOnline>>
    BY <1>9 DEF ClusterEvolves, SshDies, Close
  <2>2. QED
    BY <1>1, <2>1
<1>10. QED
  BY <1>2, <1>3, <1>4, <1>5, <1>6, <1>7, <1>8, <1>9, StepCases

\* Port forwarding that was active is never said not to be.
LEMMA TunnelStays ==
  ASSUME ClusterInv, Next, portForwardingActive
  PROVE  portForwardingActive'
<1>1. portForwardingActive' = portForwardingActive \/ portForwardingActive' = TRUE
  BY StepCases DEF BeginJob, EnsureClusterConnectivity, TunnelIsUp, TunnelGivenUp, TunnelTimeout, CheckExists,
     IsAlreadyOnline, CreateExists, CreateCluster, Patch, PatchCluster, patchInstanceGroup, Launch, RollingUpdate,
     DeleteExists, Delete, PollOnline, PollReady, CommandFails, OnlineTimeout, ReadyTimeout, SshConnects, SshFails,
     ClusterEvolves, SshDies, Close, Command
<1>2. QED
  BY <1>1

LEMMA TunnelledStep ==
  ASSUME ClusterInv, Next
  PROVE  Tunnelled'
<1>1. /\ Known' /\ Tunnelled /\ setup' = setup
      /\ task \in [Actor -> Task] /\ at \in [Actor -> Place]
  BY KnownStep, SetupStays DEF ClusterInv, TypeOK
<1>2. SUFFICES ASSUME NeedsTunnel', ~portForwardingActive'
               PROVE  \A c \in Actor : at'[c] \notin {"api", "ready"}
                                       /\ (at'[c] = "exists" => task'[c] \notin {"check", "check again"})
  BY <1>1 DEF Tunnelled, Known
<1>3. NeedsTunnel /\ ~portForwardingActive
  BY <1>1, <1>2, TunnelStays DEF NeedsTunnel, Kops
<1>4. \A c \in Actor : at[c] \notin {"api", "ready"} /\ (at[c] = "exists" => task[c] \notin {"check", "check again"})
  BY <1>1, <1>3 DEF Tunnelled
<1>5. CASE UNCHANGED actorVars
  BY <1>4, <1>5
<1>6. ASSUME NEW a \in Actor, MovesFittingly(a)
      PROVE  \A c \in Actor : at'[c] \notin {"api", "ready"}
                              /\ (at'[c] = "exists" => task'[c] \notin {"check", "check again"})
  <2>1. PICK t \in Task, p \in Place, r \in Result : Fits(a, t, p, r) /\ Moves(a, t, p, r)
    BY <1>6 DEF MovesFittingly
  <2>2. at'[a] \notin {"api", "ready"} /\ (at'[a] = "exists" => task'[a] \notin {"check", "check again"})
    BY <1>1, <1>2, <1>3, <2>1 DEF Fits, Moves
  <2>3. \A c \in Actor \ {a} : task'[c] = task[c] /\ at'[c] = at[c]
    BY <1>1, <2>1 DEF Moves
  <2>4. QED
    BY <1>4, <2>2, <2>3
<1>7. QED
  BY <1>5, <1>6, ActorEffect

\* A dry run does nothing to the cluster, and a deletion is remembered.
LEMMA DryEffect ==
  ASSUME ClusterInv, Next
  PROVE  /\ deleted \in BOOLEAN /\ (deleted' = deleted \/ deleted' = TRUE)
         /\ dryRun => UNCHANGED clusterVars \/ ClusterEvolves
<1>1. deleted \in BOOLEAN /\ dryRun \in BOOLEAN
  BY SetupAssumption DEF ClusterInv, TypeOK, dryRun, Setup
<1>2. deleted' = deleted \/ deleted' = (deleted \/ ~dryRun)
  BY StepCases DEF BeginJob, EnsureClusterConnectivity, TunnelIsUp, TunnelGivenUp, TunnelTimeout, CheckExists,
     IsAlreadyOnline, CreateExists, CreateCluster, Patch, PatchCluster, patchInstanceGroup, Launch, RollingUpdate,
     DeleteExists, Delete, PollOnline, PollReady, CommandFails, OnlineTimeout, ReadyTimeout, SshConnects, SshFails,
     ClusterEvolves, SshDies, Close
<1>3. dryRun => UNCHANGED clusterVars \/ ClusterEvolves
  BY StepCases DEF BeginJob, EnsureClusterConnectivity, TunnelIsUp, TunnelGivenUp, TunnelTimeout, CheckExists,
     IsAlreadyOnline, CreateExists, CreateCluster, Patch, PatchCluster, patchInstanceGroup, Launch, RollingUpdate,
     DeleteExists, Delete, PollOnline, PollReady, CommandFails, OnlineTimeout, ReadyTimeout, SshConnects, SshFails,
     SshDies, Close, Execute, Refused
<1>4. deleted' = deleted \/ deleted' = TRUE
  BY <1>1, <1>2
<1>5. QED
  BY <1>1, <1>3, <1>4

\* Which steps change the cluster or its configuration.
LEMMA ClusterEffect ==
  ASSUME ClusterInv, Next
  PROVE  \/ UNCHANGED <<clusterVars, deleted>> \/ ClusterEvolves
         \/ \E a \in Actor : CreateCluster(a) \/ PatchCluster(a) \/ patchInstanceGroup(a) \/ Launch(a) \/ Delete(a)
BY StepCases DEF BeginJob, EnsureClusterConnectivity, TunnelIsUp, TunnelGivenUp, TunnelTimeout, CheckExists,
   IsAlreadyOnline, CreateExists, Patch, RollingUpdate, DeleteExists, PollOnline, PollReady, CommandFails,
   OnlineTimeout, ReadyTimeout, SshConnects, SshFails, SshDies, Close

\* Steps of actors that are not about patching lead none to patching.
LEMMA ElsewhereEffect ==
  ASSUME ClusterInv, Next, \A a \in Actor : ~Patch(a) /\ ~PatchCluster(a) /\ ~patchInstanceGroup(a)
  PROVE  /\ toPatch' = toPatch
         /\ \A c \in Actor : at'[c] \in {"cluster", "groups", "launch"} => at'[c] = at[c]
<1>1. at \in [Actor -> Place]
  BY DEF ClusterInv, TypeOK
<1>2. CASE UNCHANGED actorVars
  BY <1>2
<1>3. ASSUME NEW a \in Actor, MovesFittingly(a)
      PROVE  \A c \in Actor : at'[c] \in {"cluster", "groups", "launch"} => at'[c] = at[c]
  BY <1>1, <1>3 DEF MovesFittingly, Fits, Moves
<1>4. toPatch' = toPatch
  <2>1. ASSUME NEW a \in Actor, BeginJob(a)
        PROVE  toPatch' = toPatch
    BY <2>1, BeginMoves DEF MovesPlainly, ClusterInv
  <2>2. ASSUME NEW a \in Actor, CommandFails(a)
        PROVE  toPatch' = toPatch
    BY <2>2 DEF CommandFails, End
  <2>3. ASSUME \/ \E a \in Actor : SshConnects(a) \/ SshFails(a)
               \/ ClusterEvolves \/ SshDies \/ Close
        PROVE  toPatch' = toPatch
    BY <2>3 DEF SshConnects, SshFails, ClusterEvolves, SshDies, Close
  <2>4. QED
    BY <2>1, <2>2, <2>3, StepCases, ConnectivityMoves, TunnelMoves, CheckMoves, CommandMoves, WaitMoves
<1>5. QED
  BY <1>2, <1>3, <1>4, ActorEffect

LEMMA PatchingStep ==
  ASSUME ClusterInv, Next
  PROVE  Patching'
<1>1. /\ Patching /\ setup' = setup /\ cluster \in Exists \cup {"absent"} /\ patched \subseteq Part
      /\ toPatch \in [Actor -> SUBSET Group] /\ at \in [Actor -> Place]
  BY SetupStays DEF ClusterInv, TypeOK
<1>2. SUFFICES ASSUME Kops', ~deleted'
               PROVE  /\ cluster' \in Launched => patched' = Part
                      /\ ~dryRun' => \A c \in Actor : Progress(c)'
  BY DEF Patching
<1>3. Kops /\ ~deleted /\ dryRun' = dryRun
  BY <1>1, <1>2, DryEffect DEF Kops, dryRun
<1>4. /\ cluster \in Launched => patched = Part
      /\ ~dryRun => \A c \in Actor : Progress(c)
  BY <1>1, <1>3 DEF Patching
<1>5. CASE dryRun
  <2>1. UNCHANGED clusterVars \/ ClusterEvolves
    BY <1>5, DryEffect
  <2>2. QED
    BY <1>3, <1>4, <1>5, <2>1 DEF ClusterEvolves, Launched, Exists
<1>6. CASE ~dryRun /\ \E a \in Actor : Patch(a)
  <2>1. PICK a \in Actor : Patch(a)
    BY <1>6
  <2>2. UNCHANGED clusterVars
    BY <2>1 DEF Patch
  <2>3. MovesFittingly(a) /\ toPatch' = toPatch
    BY <2>1, CommandMoves
  <2>4. \A c \in Actor \ {a} : at'[c] = at[c]
    BY <1>1, <2>3 DEF MovesFittingly, Moves
  <2>5. at'[a] \in {"cluster", "groups", "launch"} => at'[a] = "cluster" /\ cluster # "absent"
    <3>1. CASE Stay(a, "cluster")
      BY <1>1, <1>6, <2>1, <3>1 DEF Patch, Command, Stay, Go, Missing, AfterPatch, StartAwaiting
    <3>2. CASE AfterPatch(a)
      BY <1>1, <3>2 DEF AfterPatch, StartAwaiting, Stay, Go, End
    <3>3. QED
      BY <2>1, <3>1, <3>2 DEF Patch
  <2>6. QED
    BY <1>4, <1>6, <2>2, <2>3, <2>4, <2>5 DEF Progress
<1>7. CASE ~dryRun /\ \E a \in Actor : PatchCluster(a)
  <2>1. PICK a \in Actor : PatchCluster(a)
    BY <1>7
  <2>2. CASE Refused(a)
    <3>1. UNCHANGED <<clusterVars, toPatch>> /\ at' = [at EXCEPT ![a] = "end"]
      BY <2>2 DEF Refused, End
    <3>2. QED
      BY <1>1, <1>4, <1>7, <3>1 DEF Progress
  <2>3. CASE ~Refused(a)
    <3>1. /\ cluster # "absent" /\ cluster' = cluster /\ patched' = patched \cup {"cluster"}
          /\ at' = [at EXCEPT ![a] = IF Group = {} THEN "launch" ELSE "groups"]
          /\ toPatch' = [toPatch EXCEPT ![a] = Group]
      BY <1>7, <2>1, <2>3 DEF PatchCluster, Execute, Missing
    <3>2. patched = Part => patched' = Part
      BY <3>1 DEF Part
    <3>3. \A c \in Actor \ {a} : Progress(c)'
      BY <1>1, <1>4, <1>7, <3>1, <3>2 DEF Progress
    <3>4. Progress(a)'
      BY <1>1, <3>1 DEF Progress, Part
    <3>5. QED
      BY <1>4, <3>1, <3>2, <3>3, <3>4
  <2>4. QED
    BY <2>2, <2>3
<1>8. CASE ~dryRun /\ \E a \in Actor : patchInstanceGroup(a)
  <2>1. PICK a \in Actor : patchInstanceGroup(a)
    BY <1>8
  <2>2. CASE Refused(a)
    <3>1. UNCHANGED <<clusterVars, toPatch>> /\ at' = [at EXCEPT ![a] = "end"]
      BY <2>2 DEF Refused, End
    <3>2. QED
      BY <1>1, <1>4, <1>8, <3>1 DEF Progress
  <2>3. CASE ~Refused(a)
    <3>1. PICK g \in toPatch[a] :
            /\ cluster' = cluster /\ patched' = patched \cup {g}
            /\ toPatch' = [toPatch EXCEPT ![a] = @ \ {g}]
            /\ at' = [at EXCEPT ![a] = IF toPatch[a] = {g} THEN "launch" ELSE "groups"]
      BY <1>8, <2>1, <2>3 DEF patchInstanceGroup, Execute
    <3>2. at[a] = "groups" /\ Progress(a) /\ g \in Group
      BY <1>1, <1>4, <1>8, <2>1, <3>1 DEF patchInstanceGroup, Command
    <3>3. patched = Part => patched' = Part
      BY <3>1, <3>2 DEF Part
    <3>4. \A c \in Actor \ {a} : Progress(c)'
      BY <1>1, <1>4, <1>8, <3>1, <3>3 DEF Progress
    <3>5. {"cluster"} \cup (Group \ toPatch'[a]) \subseteq patched'
      BY <1>1, <3>1, <3>2 DEF Progress
    <3>6. toPatch[a] = {g} => patched' = Part
      BY <1>1, <3>1, <3>2, <3>5 DEF Part
    <3>7. Progress(a)'
      BY <1>1, <3>1, <3>2, <3>5, <3>6 DEF Progress
    <3>8. QED
      BY <1>4, <3>1, <3>3, <3>4, <3>7
  <2>4. QED
    BY <2>2, <2>3
<1>9. CASE ~dryRun /\ \A a \in Actor : ~Patch(a) /\ ~PatchCluster(a) /\ ~patchInstanceGroup(a)
  <2>1. /\ toPatch' = toPatch
        /\ \A c \in Actor : at'[c] \in {"cluster", "groups", "launch"} => at'[c] = at[c]
    BY <1>9, ElsewhereEffect
  <2>2. ASSUME patched' = patched, cluster' = "absent" => cluster = "absent", cluster' \in Launched => patched = Part
        PROVE  /\ cluster' \in Launched => patched' = Part
               /\ ~dryRun' => \A c \in Actor : Progress(c)'
    BY <1>4, <1>9, <2>1, <2>2 DEF Progress
  <2>3. CASE UNCHANGED <<clusterVars, deleted>>
    BY <1>4, <2>2, <2>3
  <2>4. CASE ClusterEvolves
    BY <1>4, <2>2, <2>4 DEF ClusterEvolves, Launched, Exists
  <2>5. ASSUME NEW a \in Actor, CreateCluster(a)
        PROVE  /\ cluster' \in Launched => patched' = Part
               /\ ~dryRun' => \A c \in Actor : Progress(c)'
    <3>1. CASE UNCHANGED clusterVars
      BY <1>4, <2>2, <3>1
    <3>2. CASE cluster = "absent" /\ cluster' = "configured" /\ patched' = {}
      BY <1>4, <1>9, <2>1, <3>2 DEF Progress, Launched, Exists
    <3>3. QED
      BY <1>3, <1>9, <2>5, <3>1, <3>2 DEF CreateCluster, Missing, Execute, Refused, Kops
  <2>6. ASSUME NEW a \in Actor, Launch(a)
        PROVE  /\ cluster' \in Launched => patched' = Part
               /\ ~dryRun' => \A c \in Actor : Progress(c)'
    <3>1. CASE UNCHANGED clusterVars
      BY <1>4, <2>2, <3>1
    <3>2. CASE patched' = patched /\ cluster' = IF cluster = "configured" THEN "starting" ELSE cluster
      <4>1. at[a] = "launch" /\ Progress(a)
        BY <1>4, <1>9, <2>6 DEF Launch, Command
      <4>2. patched = Part
        BY <4>1 DEF Progress
      <4>3. QED
        BY <2>2, <3>2, <4>2
    <3>3. QED
      BY <1>9, <2>6, <3>1, <3>2 DEF Launch, Execute, Refused
  <2>7. ASSUME NEW a \in Actor, Delete(a)
        PROVE  UNCHANGED clusterVars
    BY <1>2, <1>9, <2>7 DEF Delete
  <2>8. QED
    BY <1>4, <1>9, <2>2, <2>3, <2>4, <2>5, <2>6, <2>7, ClusterEffect
<1>10. QED
  BY <1>5, <1>6, <1>7, <1>8, <1>9

LEMMA TypeStep ==
  ASSUME ClusterInv, Next
  PROVE  TypeOK'
<1>0. TypeOK
  BY DEF ClusterInv
<1>1. setup' \in Setups
  BY <1>0, SetupStays DEF TypeOK
<1>2. /\ task' \in [Actor -> Task] /\ at' \in [Actor -> Place]
      /\ toPatch' \in [Actor -> SUBSET Group] /\ result' \in [Actor -> Result]
  <2>1. CASE UNCHANGED actorVars
    BY <1>0, <2>1 DEF TypeOK
  <2>2. ASSUME NEW a \in Actor, MovesFittingly(a), toPatch' \in [Actor -> SUBSET Group]
        PROVE  task' \in [Actor -> Task] /\ at' \in [Actor -> Place] /\ result' \in [Actor -> Result]
    BY <1>0, <2>2 DEF MovesFittingly, Moves, TypeOK
  <2>3. QED
    BY <2>1, <2>2, ActorEffect DEF TypeOK
<1>3. Known' /\ isReady' \in BOOLEAN /\ seenReady' \in BOOLEAN /\ deleted' \in BOOLEAN
  BY KnownStep, ReadyEffect, DryEffect
<1>4. cluster' \in Exists \cup {"absent"} /\ patched' \subseteq Part
  <2>0. /\ cluster \in Exists \cup {"absent"} /\ patched \subseteq Part
        /\ toPatch \in [Actor -> SUBSET Group]
    BY <1>0 DEF TypeOK
  <2>1. CASE UNCHANGED clusterVars
    BY <2>0, <2>1
  <2>2. CASE ClusterEvolves
    BY <2>0, <2>2 DEF ClusterEvolves, Exists
  <2>3. ASSUME NEW a \in Actor, CreateCluster(a) \/ Delete(a) \/ Launch(a)
        PROVE  cluster' \in Exists \cup {"absent"} /\ patched' \subseteq Part
    <3>1. \/ UNCHANGED clusterVars
          \/ cluster' \in {cluster, "configured", "starting", "absent"} /\ patched' \in {patched, {}}
      BY <2>3 DEF CreateCluster, Delete, Launch, Execute, Refused
    <3>2. QED
      BY <2>0, <2>1, <3>1 DEF Exists
  <2>4. ASSUME NEW a \in Actor, PatchCluster(a) \/ patchInstanceGroup(a)
        PROVE  cluster' \in Exists \cup {"absent"} /\ patched' \subseteq Part
    <3>1. \/ UNCHANGED clusterVars
          \/ cluster' = cluster /\ \E part \in {"cluster"} \cup toPatch[a] : patched' = patched \cup {part}
      BY <2>4 DEF PatchCluster, patchInstanceGroup, Execute, Refused
    <3>2. QED
      BY <2>0, <2>1, <3>1 DEF Part
  <2>5. QED
    BY <2>1, <2>2, <2>3, <2>4, ClusterEffect
<1>5. strays' \in BOOLEAN /\ sshCommand' \in {"none", "running", "exited", "killed"}
  <2>0. strays \in BOOLEAN /\ sshCommand \in {"none", "running", "exited", "killed"}
    BY <1>0 DEF TypeOK
  <2>1. ASSUME NEW a \in Actor, SshConnects(a) \/ SshFails(a)
        PROVE  strays' \in BOOLEAN /\ sshCommand' \in {"none", "running", "exited", "killed"}
    <3>1. \E outcome \in {"none", "running", "exited", "killed"} : RunSsh(outcome)
      BY <2>1 DEF SshConnects, SshFails
    <3>2. QED
      BY <3>1 DEF RunSsh
  <2>2. CASE SshDies
    BY <2>0, <2>2 DEF SshDies
  <2>3. CASE UNCHANGED <<strays, sshCommand>>
    BY <2>0, <2>3
  <2>4. ~SshDies /\ (\A a \in Actor : ~SshConnects(a) /\ ~SshFails(a)) => UNCHANGED <<strays, sshCommand>>
    BY StepCases DEF BeginJob, EnsureClusterConnectivity, TunnelIsUp, TunnelGivenUp, TunnelTimeout, CheckExists,
       IsAlreadyOnline, CreateExists, CreateCluster, Patch, PatchCluster, patchInstanceGroup, Launch, RollingUpdate,
       DeleteExists, Delete, PollOnline, PollReady, CommandFails, OnlineTimeout, ReadyTimeout, ClusterEvolves,
       Close, Command
  <2>5. QED
    BY <2>1, <2>2, <2>3, <2>4
<1>6. closed' \in {"no", "nothing to do", "error"}
  <2>1. Close => closed' \in {"nothing to do", "error"}
    BY DEF Close
  <2>2. ~Close => closed' = closed
    BY StepCases DEF BeginJob, EnsureClusterConnectivity, TunnelIsUp, TunnelGivenUp, TunnelTimeout, CheckExists,
       IsAlreadyOnline, CreateExists, CreateCluster, Patch, PatchCluster, patchInstanceGroup, Launch, RollingUpdate,
       DeleteExists, Delete, PollOnline, PollReady, CommandFails, OnlineTimeout, ReadyTimeout, ClusterEvolves,
       SshConnects, SshFails, SshDies, Command
  <2>3. QED
    BY <1>0, <2>1, <2>2 DEF TypeOK
<1>7. QED
  BY <1>1, <1>2, <1>3, <1>4, <1>5, <1>6 DEF TypeOK, Known

LEMMA ClusterInit == Init => ClusterInv
<1> SUFFICES ASSUME Init PROVE ClusterInv
  OBVIOUS
<1>1. setup \in Setup /\ setup.before \in Exists \cup {"absent"} /\ setup.job \in [Actor -> Job]
  BY SetupAssumption DEF Init, Setup
<1>2. TypeOK
  <2>1. cluster \in Exists \cup {"absent"} /\ patched \subseteq Part /\ setup \in Setups
    BY <1>1 DEF Init
  <2>2. /\ task \in [Actor -> Task] /\ at \in [Actor -> Place]
        /\ toPatch \in [Actor -> SUBSET Group] /\ result \in [Actor -> Result]
    BY DEF Init, Task, Place, Result
  <2>3. tries \in [Actor -> 0 .. SshMaxTries]
    <3>1. 0 \in 0 .. SshMaxTries
      BY TriesAssumption
    <3>2. QED
      BY <3>1 DEF Init
  <2>4. QED
    BY <2>1, <2>2, <2>3 DEF Init, TypeOK
<1>3. Placed
  BY DEF Init, Placed, Proper
<1>4. Tunnelled /\ Told
  BY DEF Init, Tunnelled, Told
<1>5. Patching
  BY DEF Init, Patching, Progress
<1>6. QED
  BY <1>2, <1>3, <1>4, <1>5 DEF ClusterInv

LEMMA ClusterUnchanged ==
  ASSUME ClusterInv, UNCHANGED vars
  PROVE  ClusterInv'
<1>1. TypeOK' /\ Placed'
  BY DEF ClusterInv, TypeOK, Placed, Proper
<1>2. Tunnelled' /\ Told'
  BY DEF ClusterInv, Tunnelled, Told, NeedsTunnel, Kops, dryRun
<1>3. Patching'
  BY DEF ClusterInv, Patching, Progress, Kops, dryRun
<1>4. QED
  BY <1>1, <1>2, <1>3 DEF ClusterInv

-----------------------------------------------------------------------------
(* The theorems *)

\* For every set of actors with whatever jobs, every provisioner and any
\* course of the cluster, the invariant above holds.
THEOREM ClusterInvariant == Spec => []ClusterInv
<1>1. ClusterInv /\ [Next]_vars => ClusterInv'
  <2>1. CASE Next
    BY <2>1, TypeStep, PlacedStep, TunnelledStep, ToldStep, PatchingStep DEF ClusterInv
  <2>2. CASE UNCHANGED vars
    BY <2>2, ClusterUnchanged
  <2>3. QED
    BY <2>1, <2>2
<1>2. QED
  BY <1>1, ClusterInit, PTL DEF Spec

\* The variables of the commands, of the cluster and of the tunnel keep
\* their types (provisioner.go, kops.go).
THEOREM ClusterTypeCorrect == Spec => []TypeOK
<1>1. ClusterInv => TypeOK
  BY DEF ClusterInv
<1>2. QED
  BY <1>1, ClusterInvariant, PTL

\* Success means that the cluster was ready, with any number of workers that
\* create, update and delete it (provisioner.go:107-190).
THEOREM SuccessIsReady == Spec => []SuccessMeansReady
<1>1. ClusterInv => SuccessMeansReady
  BY DEF ClusterInv, Told, SuccessMeansReady
<1>2. QED
  BY <1>1, ClusterInvariant, PTL

\* For any instance groups and any number of workers, no cluster is up whose
\* configuration was patched in part (kops.go:353-520).
THEOREM LaunchesPatched == Spec => []LaunchedPatched
<1>1. ClusterInv => LaunchedPatched
  BY DEF ClusterInv, Patching, LaunchedPatched
<1>2. QED
  BY <1>1, ClusterInvariant, PTL

\* kubectl waits for the tunnel, for any number of workers and of tries
\* (provisioner.go:116-155, kops.go:672-700).
THEOREM TunnelComesFirst == Spec => []TunnelBeforeKubectl
<1>1. ClusterInv => TunnelBeforeKubectl
  BY DEF ClusterInv, Tunnelled, TunnelBeforeKubectl
<1>2. QED
  BY <1>1, ClusterInvariant, PTL

\* Dry runs and tests of deletions change nothing, whichever provisioner
\* carries them out (update.go, create.go, delete.go).
THEOREM DryRunsAreHarmless == Spec => NothingUnwanted
<1>1. ClusterInv /\ [Next]_vars => [Harmless => UNCHANGED clusterVars \/ ClusterEvolves]_vars
  <2>1. SUFFICES ASSUME ClusterInv, Next, Harmless, ~dryRun
                 PROVE  UNCHANGED clusterVars \/ ClusterEvolves
    BY DryEffect
  <2>2. \A a \in Actor : task[a] \in {"begin", "delete", "end"} /\ setup.job[a] # "delete"
    BY <2>1 DEF Harmless, ClusterInv, Placed, Proper
  <2>3. QED
    BY <2>1, <2>2, ClusterEffect
    DEF CreateCluster, PatchCluster, patchInstanceGroup, Launch, Delete, Command
<1>2. QED
  BY <1>1, ClusterInvariant, PTL DEF Spec, NothingUnwanted
================================================================================
