----------------------------- MODULE DagSchedule -----------------------------
(***************************************************************************)
(* What walking the DAG promises to the code that consumes it: every node  *)
(* is started at most once, and only after every node it depends on has    *)
(* been reported as processed; the end of the walk is announced at most    *)
(* once, after the last report.  No channel, goroutine or lock appears.    *)
(***************************************************************************)
CONSTANTS
  Node,            \* nodes of the graph
  Dependency       \* pairs <<n, d>>: d must be processed before n

VARIABLES
  phase,           \* progress of each node
  announced        \* has the end of the walk been announced?

vars == <<phase, announced>>

Phase == {"waiting", "started", "reported"}

TypeOK ==
  /\ phase \in [Node -> Phase]
  /\ announced \in BOOLEAN

Dependencies(n) == {d \in Node : <<n, d>> \in Dependency}

Init ==
  /\ phase = [n \in Node |-> "waiting"]
  /\ announced = FALSE

\* A worker starts on node n.
Start(n) ==
  /\ phase[n] = "waiting"
  /\ \A d \in Dependencies(n) : phase[d] = "reported"
  /\ phase' = [phase EXCEPT ![n] = "started"]
  /\ UNCHANGED announced

\* A worker reports that it is done with node n.
Report(n) ==
  /\ phase[n] = "started"
  /\ phase' = [phase EXCEPT ![n] = "reported"]
  /\ UNCHANGED announced

\* Whoever waits for the walk learns that it is over.
Announce ==
  /\ ~announced
  /\ \A n \in Node : phase[n] = "reported"
  /\ announced' = TRUE
  /\ UNCHANGED phase

Next ==
  \/ \E n \in Node : Start(n) \/ Report(n)
  \/ Announce

Spec == Init /\ [][Next]_vars

=============================================================================
