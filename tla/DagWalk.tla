------------------------------- MODULE DagWalk -------------------------------
(***************************************************************************)
(* The concurrent DAG walk of plan/dag.go: the loop goroutine started by   *)
(* walk(), the goroutines it spawns to look for eligible nodes, the        *)
(* mutex-protected status map they share, and the two channels between     *)
(* them and a pool of workers.  Workers are as general as the code's: they *)
(* take nodes while the process channel delivers, report them or return    *)
(* without reporting, and may return after a report.                       *)
(*                                                                         *)
(* A critical section of the mutex is one step, except the one of          *)
(* processEligibleNodes that claims a node, which is two (lock, then       *)
(* write and unlock): the loop touches the same map without the mutex, and *)
(* Go's runtime may abort the program when the two overlap (MapFault).     *)
(***************************************************************************)
EXTENDS Naturals, Sequences, FiniteSets, SequencesExt

CONSTANTS
  Node,            \* nodes of the graph
  Edge,            \* pairs <<parent, child>>
  Down,            \* TRUE for walkDown, FALSE for walkUp
  Worker,          \* goroutines of the worker pool
  ProcessCap,      \* capacity of processCh
  DoneCap,         \* capacity of doneCh; 0 is a rendezvous
  Boot,            \* the goroutine of the initial pass over the nodes
  NoNode           \* the absence of a node

ASSUME GraphAssumption == Edge \subseteq Node \X Node
ASSUME DirectionAssumption == Down \in BOOLEAN
ASSUME ChannelAssumption == ProcessCap \in Nat \ {0} /\ DoneCap \in Nat
ASSUME NamesAssumption == Boot \notin Node /\ NoNode \notin Node

VARIABLES
  status,          \* nodeStatusesById: status of each node
  loopPc,          \* where the loop goroutine is
  loopNode,        \* the node it received from doneCh
  scanPc,          \* where each scanning goroutine is
  todo,            \* eligible nodes of its copy of the map it has yet to visit
  target,          \* the node it is claiming or sending
  sawAll,          \* goroutines whose copy of the map was all finished
  processCh,       \* buffer of the channel to the workers
  doneCh,          \* buffer of the channel from the workers
  closed,          \* which of the three channels are closed
  channelsClosed,  \* the flag the goroutines keep about it
  workerPc,        \* where each worker is
  held,            \* the node it is processing, or returned with
  fatal            \* the Go runtime aborted the program

walkerVars == <<status, loopPc, loopNode, scanPc, todo, target, sawAll,
                closed, channelsClosed, fatal>>
channelVars == <<processCh, doneCh>>
workerVars == <<workerPc, held>>
vars == <<walkerVars, channelVars, workerVars>>

\* A node finished is a goroutine spawned: name the goroutine after the node.
Scanner == Node \cup {Boot}

Status == {"unprocessed", "running", "finished"}
LoopPc == {"select", "received", "ticking", "drained"}
ScanPc == {"idle", "spawned", "scanning", "claiming", "sending",
           "closeFinished", "closeDone", "closeProcess", "ended"}
WorkerPc == {"idle", "busy", "reporting", "stopped"}

TypeOK ==
  /\ status \in [Node -> Status]
  /\ loopPc \in LoopPc
  /\ loopNode \in Node \cup {NoNode}
  /\ scanPc \in [Scanner -> ScanPc]
  /\ todo \in [Scanner -> SUBSET Node]
  /\ target \in [Scanner -> Node \cup {NoNode}]
  /\ sawAll \subseteq Node
  /\ processCh \in Seq(Node)
  /\ doneCh \in Seq(Node)
  /\ closed \subseteq {"finishedCh", "doneCh", "processCh"}
  /\ channelsClosed \in BOOLEAN
  /\ workerPc \in [Worker -> WorkerPc]
  /\ held \in [Worker -> Node \cup {NoNode}]
  /\ fatal \in BOOLEAN

-----------------------------------------------------------------------------
(* The graph and the status map *)

Dependencies(n) ==
  IF Down THEN {p \in Node : <<p, n>> \in Edge} ELSE {c \in Node : <<n, c>> \in Edge}

\* A mistaken variant of dependenciesSatisfied, to show what the properties notice.
dependenciesStarted(n) == \A d \in Dependencies(n) : status[d] # "unprocessed"

dependenciesSatisfied(n) == \A d \in Dependencies(n) : status[d] = "finished"

allDone(statuses) == \A n \in Node : statuses[n] = "finished"

\* A mistaken variant of Eligible, to show what the properties notice.
Unprocessed == {n \in Node : status[n] = "unprocessed"}

\* Nodes a pass over the current map would queue.
Eligible == {n \in Node : status[n] = "unprocessed" /\ dependenciesSatisfied(n)}

MutexFree == \A s \in Scanner : scanPc[s] # "claiming"

-----------------------------------------------------------------------------
Init ==
  /\ status = [n \in Node |-> "unprocessed"]
  /\ loopPc = "select"
  /\ loopNode = NoNode
  /\ scanPc = [s \in Scanner |-> "idle"]
  /\ todo = [s \in Scanner |-> {}]
  /\ target = [s \in Scanner |-> NoNode]
  /\ sawAll = {}
  /\ processCh = <<>>
  /\ doneCh = <<>>
  /\ closed = {}
  /\ channelsClosed = FALSE
  /\ workerPc = [w \in Worker |-> "idle"]
  /\ held = [w \in Worker |-> NoNode]
  /\ fatal = FALSE

-----------------------------------------------------------------------------
(* The loop goroutine *)

\* walk() sends on initialiseCh; the loop spawns the initial pass.
Initialise ==
  /\ loopPc = "select"
  /\ scanPc[Boot] = "idle"
  /\ scanPc' = [scanPc EXCEPT ![Boot] = "spawned"]
  /\ UNCHANGED <<status, loopPc, loopNode, todo, target, sawAll, closed,
                 channelsClosed, fatal, channelVars, workerVars>>

\* The loop takes a report out of the buffer of doneCh.
ReceiveDone ==
  /\ loopPc = "select"
  /\ doneCh # <<>>
  /\ loopPc' = "received"
  /\ loopNode' = Head(doneCh)
  /\ doneCh' = Tail(doneCh)
  /\ UNCHANGED <<status, scanPc, todo, target, sawAll, closed, channelsClosed,
                 fatal, processCh, workerVars>>

\* Two mistaken variants of RecordFinished.
RecordFinishedLastScan ==
  /\ loopPc = "received"
  /\ MutexFree
  /\ status' = [status EXCEPT ![loopNode] = "finished"]
  /\ sawAll' = IF allDone(status') THEN sawAll \cup {loopNode} ELSE sawAll
  /\ scanPc' = [scanPc EXCEPT ![loopNode] = IF allDone(status') THEN "spawned" ELSE "ended"]
  /\ loopPc' = "select"
  /\ loopNode' = NoNode
  /\ UNCHANGED <<todo, target, closed, channelsClosed, fatal, channelVars, workerVars>>

RecordFinishedCopyFirst ==
  /\ loopPc = "received"
  /\ MutexFree
  /\ sawAll' = IF allDone(status) THEN sawAll \cup {loopNode} ELSE sawAll
  /\ status' = [status EXCEPT ![loopNode] = "finished"]
  /\ scanPc' = [scanPc EXCEPT ![loopNode] = "spawned"]
  /\ loopPc' = "select"
  /\ loopNode' = NoNode
  /\ UNCHANGED <<todo, target, closed, channelsClosed, fatal, channelVars, workerVars>>

\* The loop records the node as finished, copies the map and spawns a
\* goroutine that looks for nodes this made eligible.
RecordFinished ==
  /\ loopPc = "received"
  /\ MutexFree
  /\ status' = [status EXCEPT ![loopNode] = "finished"]
  /\ sawAll' = IF allDone(status') THEN sawAll \cup {loopNode} ELSE sawAll
  /\ scanPc' = [scanPc EXCEPT ![loopNode] = "spawned"]
  /\ loopPc' = "select"
  /\ loopNode' = NoNode
  /\ UNCHANGED <<todo, target, closed, channelsClosed, fatal, channelVars, workerVars>>

\* The progress ticker fires: the loop iterates over the map ...
Tick ==
  /\ loopPc = "select"
  /\ loopPc' = "ticking"
  /\ UNCHANGED <<status, loopNode, scanPc, todo, target, sawAll, closed,
                 channelsClosed, fatal, channelVars, workerVars>>

\* ... and a receive from the closed and empty doneCh succeeds at once.
ReceiveClosed ==
  /\ loopPc = "select"
  /\ "doneCh" \in closed
  /\ doneCh = <<>>
  /\ loopPc' = "drained"
  /\ UNCHANGED <<status, loopNode, scanPc, todo, target, sawAll, closed,
                 channelsClosed, fatal, channelVars, workerVars>>

\* Neither changes anything; the loop selects again.
SelectAgain ==
  /\ loopPc \in {"ticking", "drained"}
  /\ loopPc' = "select"
  /\ UNCHANGED <<status, loopNode, scanPc, todo, target, sawAll, closed,
                 channelsClosed, fatal, channelVars, workerVars>>

Loop == Initialise \/ ReceiveDone \/ RecordFinished \/ Tick \/ ReceiveClosed \/ SelectAgain

-----------------------------------------------------------------------------
(* The goroutines that look for eligible nodes and, at the end, close the  *)
(* channels: processEligibleNodes and what walk() does after it            *)

\* Copy the map under the mutex.  Everything the pass reads from the copy
\* is which nodes are unprocessed with their dependencies finished.
CopyStatuses(s) ==
  /\ scanPc[s] = "spawned"
  /\ MutexFree
  /\ todo' = [todo EXCEPT ![s] = Eligible]
  /\ scanPc' = [scanPc EXCEPT ![s] = "scanning"]
  /\ UNCHANGED <<status, loopPc, loopNode, target, sawAll, closed,
                 channelsClosed, fatal, channelVars, workerVars>>

\* Go on to the next eligible node, in any order, and lock the mutex.
LockNext(s) ==
  /\ scanPc[s] = "scanning"
  /\ MutexFree
  /\ \E n \in todo[s] :
       /\ target' = [target EXCEPT ![s] = n]
       /\ todo' = [todo EXCEPT ![s] = @ \ {n}]
  /\ scanPc' = [scanPc EXCEPT ![s] = "claiming"]
  /\ UNCHANGED <<status, loopPc, loopNode, sawAll, closed, channelsClosed,
                 fatal, channelVars, workerVars>>

\* A mistaken variant of Claim, to show what the properties notice.
ClaimUnchecked(s) ==
  /\ scanPc[s] = "claiming"
  /\ status' = [status EXCEPT ![target[s]] = "running"]
  /\ scanPc' = [scanPc EXCEPT ![s] = "sending"]
  /\ UNCHANGED <<loopPc, loopNode, todo, target, sawAll, closed,
                 channelsClosed, fatal, channelVars, workerVars>>

\* The node is still unprocessed: mark it running and unlock.
Claim(s) ==
  /\ scanPc[s] = "claiming"
  /\ status[target[s]] = "unprocessed"
  /\ status' = [status EXCEPT ![target[s]] = "running"]
  /\ scanPc' = [scanPc EXCEPT ![s] = "sending"]
  /\ UNCHANGED <<loopPc, loopNode, todo, target, sawAll, closed,
                 channelsClosed, fatal, channelVars, workerVars>>

\* Another goroutine claimed it first: unlock and keep searching.
SkipClaimed(s) ==
  /\ scanPc[s] = "claiming"
  /\ status[target[s]] # "unprocessed"
  /\ scanPc' = [scanPc EXCEPT ![s] = "scanning"]
  /\ target' = [target EXCEPT ![s] = NoNode]
  /\ UNCHANGED <<status, loopPc, loopNode, todo, sawAll, closed,
                 channelsClosed, fatal, channelVars, workerVars>>

\* Send the claimed node to the workers once the channel has room.
SendProcess(s) ==
  /\ scanPc[s] = "sending"
  /\ Len(processCh) < ProcessCap
  /\ processCh' = Append(processCh, target[s])
  /\ scanPc' = [scanPc EXCEPT ![s] = "scanning"]
  /\ target' = [target EXCEPT ![s] = NoNode]
  /\ UNCHANGED <<status, loopPc, loopNode, todo, sawAll, closed,
                 channelsClosed, fatal, doneCh, workerVars>>

\* A mistaken variant of EndScan, to show what the properties notice.
EndScanUnchecked(s) ==
  /\ scanPc[s] = "scanning"
  /\ todo[s] = {}
  /\ scanPc' = [scanPc EXCEPT ![s] = IF ~channelsClosed THEN "closeFinished" ELSE "ended"]
  /\ UNCHANGED <<status, loopPc, loopNode, todo, target, sawAll, closed,
                 channelsClosed, fatal, channelVars, workerVars>>

\* The pass is over: close the channels if all nodes were finished when the
\* goroutine was spawned and nobody has recorded closing them.
EndScan(s) ==
  /\ scanPc[s] = "scanning"
  /\ todo[s] = {}
  /\ scanPc' = [scanPc EXCEPT ![s] =
                  IF s \in sawAll /\ ~channelsClosed THEN "closeFinished" ELSE "ended"]
  /\ UNCHANGED <<status, loopPc, loopNode, todo, target, sawAll, closed,
                 channelsClosed, fatal, channelVars, workerVars>>

Close(s, at, channel, next) ==
  /\ scanPc[s] = at
  /\ closed' = closed \cup {channel}
  /\ scanPc' = [scanPc EXCEPT ![s] = next]
  /\ UNCHANGED <<status, loopPc, loopNode, todo, target, sawAll, fatal,
                 channelVars, workerVars>>

CloseFinishedCh(s) ==
  Close(s, "closeFinished", "finishedCh", "closeDone") /\ UNCHANGED channelsClosed

CloseDoneCh(s) ==
  Close(s, "closeDone", "doneCh", "closeProcess") /\ UNCHANGED channelsClosed

\* A mistaken variant of CloseProcessCh, to show what the properties notice.
CloseNothing(s) ==
  /\ scanPc[s] = "closeProcess"
  /\ scanPc' = [scanPc EXCEPT ![s] = "ended"]
  /\ channelsClosed' = TRUE
  /\ UNCHANGED <<status, loopPc, loopNode, todo, target, sawAll, closed, fatal,
                 channelVars, workerVars>>

CloseProcessCh(s) ==
  Close(s, "closeProcess", "processCh", "ended") /\ channelsClosed' = TRUE

Scan(s) ==
  \/ CopyStatuses(s) \/ LockNext(s) \/ Claim(s) \/ SkipClaimed(s)
  \/ SendProcess(s) \/ EndScan(s)
  \/ CloseFinishedCh(s) \/ CloseDoneCh(s) \/ CloseProcessCh(s)

-----------------------------------------------------------------------------
(* The loop reads or iterates over the map without the mutex while a       *)
(* goroutine that holds the mutex is about to write to it                  *)

MapRace ==
  /\ loopPc \in {"received", "ticking"}
  /\ \E s \in Scanner : scanPc[s] = "claiming" /\ status[target[s]] = "unprocessed"

\* The Go runtime notices the overlap and aborts the program.
MapFault ==
  /\ MapRace
  /\ fatal' = TRUE
  /\ UNCHANGED <<status, loopPc, loopNode, scanPc, todo, target, sawAll,
                 closed, channelsClosed, channelVars, workerVars>>

Walker == Loop \/ (\E s \in Scanner : Scan(s)) \/ MapFault

-----------------------------------------------------------------------------
(* The workers' side of the channels *)

\* `for node := range processCh` delivers a node.
Take(w) ==
  /\ workerPc[w] = "idle"
  /\ processCh # <<>>
  /\ held' = [held EXCEPT ![w] = Head(processCh)]
  /\ processCh' = Tail(processCh)
  /\ workerPc' = [workerPc EXCEPT ![w] = "busy"]
  /\ UNCHANGED <<walkerVars, doneCh>>

\* The worker is through with its node and about to send it on doneCh.
Work(w) ==
  /\ workerPc[w] = "busy"
  /\ workerPc' = [workerPc EXCEPT ![w] = "reporting"]
  /\ UNCHANGED <<walkerVars, channelVars, held>>

\* The worker returns without reporting its node.
Abandon(w) ==
  /\ workerPc[w] = "busy"
  /\ workerPc' = [workerPc EXCEPT ![w] = "stopped"]
  /\ UNCHANGED <<walkerVars, channelVars, held>>

\* `doneCh <- node` on a buffered channel; then the worker is at `next`.
ReportBuffered(w, next) ==
  /\ workerPc[w] = "reporting"
  /\ Len(doneCh) < DoneCap
  /\ doneCh' = Append(doneCh, held[w])
  /\ workerPc' = [workerPc EXCEPT ![w] = next]
  /\ held' = [held EXCEPT ![w] = NoNode]
  /\ UNCHANGED <<walkerVars, processCh>>

\* The same on an unbuffered one: the loop receives in the same step.
ReportDirectly(w, next) ==
  /\ workerPc[w] = "reporting"
  /\ DoneCap = 0
  /\ loopPc = "select"
  /\ loopPc' = "received"
  /\ loopNode' = held[w]
  /\ workerPc' = [workerPc EXCEPT ![w] = next]
  /\ held' = [held EXCEPT ![w] = NoNode]
  /\ UNCHANGED <<status, scanPc, todo, target, sawAll, closed, channelsClosed,
                 fatal, channelVars>>

Report(w, next) == ReportBuffered(w, next) \/ ReportDirectly(w, next)

\* The range loop ends: processCh is closed and drained.
Leave(w) ==
  /\ workerPc[w] = "idle"
  /\ "processCh" \in closed
  /\ processCh = <<>>
  /\ workerPc' = [workerPc EXCEPT ![w] = "stopped"]
  /\ UNCHANGED <<walkerVars, channelVars, held>>

WorkerStep(w) ==
  \/ Take(w) \/ Work(w) \/ Abandon(w) \/ Leave(w)
  \/ \E next \in {"idle", "stopped"} : Report(w, next)

Next ==
  /\ ~fatal
  /\ Walker \/ \E w \in Worker : WorkerStep(w)

Spec == Init /\ [][Next]_vars

-----------------------------------------------------------------------------
(* Where a claimed node is until the loop has recorded it as finished *)

Sending(n) == \E s \in Scanner : scanPc[s] = "sending" /\ target[s] = n
Queued(n) == n \in ToSet(processCh)
Held(n) == \E w \in Worker : held[w] = n
Reported(n) == n \in ToSet(doneCh)
Received(n) == loopPc = "received" /\ loopNode = n

Places(n) ==
  {s \in Scanner : scanPc[s] = "sending" /\ target[s] = n} \X {"sending"}
    \cup {i \in DOMAIN processCh : processCh[i] = n} \X {"queued"}
    \cup {w \in Worker : held[w] = n} \X {"held"}
    \cup {i \in DOMAIN doneCh : doneCh[i] = n} \X {"reported"}
    \cup {l \in {loopNode} : Received(n)} \X {"received"}

(* A running node is in exactly one place on its way from the goroutine    *)
(* that claimed it through the channels and a worker back to the loop; any *)
(* other node is in none.  So no interleaving of the goroutines, which all *)
(* work from copies of the status map, processes a node twice or loses it. *)
OnePlace ==
  \A n \in Node : Cardinality(Places(n)) = IF status[n] = "running" THEN 1 ELSE 0

(* No goroutine or worker is about to send on a closed channel, or about   *)
(* to close one that is closed already: Go panics on both.  The code       *)
(* guards this only by the unsynchronised flag channelsClosed.             *)
NoChannelPanic ==
  /\ \A s \in Scanner :
       /\ scanPc[s] = "sending" => "processCh" \notin closed
       /\ scanPc[s] = "closeFinished" => "finishedCh" \notin closed
       /\ scanPc[s] = "closeDone" => "doneCh" \notin closed
       /\ scanPc[s] = "closeProcess" => "processCh" \notin closed
  /\ \A w \in Worker : workerPc[w] \in {"busy", "reporting"} => "doneCh" \notin closed

\* Goroutine s has yet to copy the map, or has node n on its list.
Watches(s, n) ==
  \/ scanPc[s] = "spawned"
  \/ scanPc[s] \in {"scanning", "claiming", "sending"} /\ n \in todo[s]
  \/ scanPc[s] = "claiming" /\ target[s] = n

(* No wakeup is lost: as long as nobody has claimed a node that may run    *)
(* now, some goroutine watches it.  Each pass reads its copy of the map    *)
(* once and then ends, so a node that becomes eligible behind every pass   *)
(* would never be processed.                                               *)
NoLostWakeup ==
  \A n \in Eligible : scanPc[Boot] = "idle" \/ \E s \in Scanner : Watches(s, n)

(* The walk implements its schedule: seen from the workers, a node starts  *)
(* once, after all its dependencies were reported, and closing finishedCh  *)
(* announces a walk in which every node was reported.                      *)
PhaseOf(n) ==
  IF status[n] = "finished" \/ Reported(n) \/ Received(n) THEN "reported"
  ELSE IF Held(n) THEN "started" ELSE "waiting"

Sched == INSTANCE DagSchedule WITH
  Dependency <- {e \in Node \X Node : e[2] \in Dependencies(e[1])},
  phase <- [n \in Node |-> PhaseOf(n)],
  announced <- "finishedCh" \in closed

Schedule == Sched!Spec
=============================================================================
