-------------------------- MODULE MCClusterLifecycle --------------------------
(* Commands of the CLI, alone, and pairs of workers with cluster actions. *)
EXTENDS ClusterLifecycle, TLC

CONSTANTS a, b

Alone(job) == (a :> job) @@ (b :> "none")
Both(j, k) == (a :> j) @@ (b :> k)

Stack(provisioner, viaBastion, dryRuns, jobs, clusters) ==
  [provisioner : {provisioner}, viaBastion : {viaBastion}, dryRun : dryRuns, job : jobs,
   before : clusters]

Commands == {Alone(j) : j \in {"update", "update only", "create", "delete", "test deletion"}}
Updates == Both("update", "update")
UpdateAndDelete == Both("update", "delete")

Clusters == {"absent", "starting", "bare", "online", "ready"}

MCSetups ==
  Stack("kops", FALSE, BOOLEAN, Commands, Clusters \cup {"configured"})
  \cup Stack("kops", FALSE, {FALSE}, {Updates, UpdateAndDelete}, {"absent", "configured", "online"})
  \cup Stack("kops", FALSE, {TRUE}, {UpdateAndDelete}, {"ready"})
  \cup Stack("kops", TRUE, BOOLEAN, Commands, Clusters \cup {"configured"})
  \cup Stack("kops", TRUE, {FALSE}, {Updates}, {"online"})
  \cup Stack("eks", FALSE, BOOLEAN, Commands, Clusters)
  \cup Stack("eks", FALSE, {FALSE}, {Updates, UpdateAndDelete}, {"absent", "online"})
  \cup Stack("minikube", FALSE, BOOLEAN, Commands, Clusters)
  \cup Stack("none", FALSE, BOOLEAN, Commands, {"absent"})
=============================================================================
