----------------------------- MODULE DagWalkInv ------------------------------
(***************************************************************************)
(* The inductive invariant behind the safety of the DAG walk, one named    *)
(* conjunct per idea.  DagWalkProofs proves it; a TLC run checks it first. *)
(***************************************************************************)
EXTENDS DagWalk

\* A program counter and the node that goes with it agree.
LocalState ==
  /\ \A s \in Scanner : target[s] \in Node <=> scanPc[s] \in {"claiming", "sending"}
  /\ \A w \in Worker :
       /\ workerPc[w] \in {"busy", "reporting"} => held[w] \in Node
       /\ workerPc[w] = "idle" => held[w] = NoNode
  /\ loopPc = "received" <=> loopNode \in Node

\* A goroutine runs exactly for the nodes recorded as finished, and works
\* only on nodes whose dependencies are, as every node past "unprocessed".
Ordered ==
  /\ \A n \in Node : scanPc[n] = "idle" <=> status[n] # "finished"
  /\ \A s \in Scanner : \A n \in todo[s] \cup {target[s]} :
       n \in Node => dependenciesSatisfied(n)
  /\ \A n \in Node : status[n] # "unprocessed" => dependenciesSatisfied(n)

\* The running nodes are those on their way ...
Located ==
  \A n \in Node : status[n] = "running" <=>
    Sending(n) \/ Queued(n) \/ Held(n) \/ Reported(n) \/ Received(n)

\* ... each in one place of a kind ...
Separate ==
  /\ \A s, t \in Scanner :
       scanPc[s] = "sending" /\ scanPc[t] = "sending" /\ target[s] = target[t] => s = t
  /\ \A w, v \in Worker : held[w] = held[v] /\ held[w] \in Node => w = v
  /\ IsInjective(processCh)
  /\ IsInjective(doneCh)

\* ... and of one kind of place only.
Exclusive ==
  \A n \in Node :
    /\ Sending(n) => ~Queued(n) /\ ~Held(n) /\ ~Reported(n) /\ ~Received(n)
    /\ Queued(n) => ~Held(n) /\ ~Reported(n) /\ ~Received(n)
    /\ Held(n) => ~Reported(n) /\ ~Received(n)
    /\ Reported(n) => ~Received(n)

ClosePc == {"closeFinished", "closeDone", "closeProcess"}

\* One goroutine at most saw all nodes finished, so one closes the channels.
Closing ==
  /\ \A s \in sawAll : allDone(status)
  /\ \A s, t \in sawAll : s = t
  /\ closed # {} => allDone(status)
  /\ closed # {} => channelsClosed \/ \E s \in Scanner : scanPc[s] \in {"closeDone", "closeProcess"}
  /\ \A s \in Scanner :
       /\ scanPc[s] \in ClosePc => s \in sawAll /\ ~channelsClosed
       /\ scanPc[s] = "closeFinished" => closed = {}
       /\ scanPc[s] = "closeDone" => closed = {"finishedCh"}
       /\ scanPc[s] = "closeProcess" => closed = {"finishedCh", "doneCh"}

IInv ==
  /\ TypeOK
  /\ LocalState
  /\ Ordered
  /\ Located
  /\ Separate
  /\ Exclusive
  /\ Closing
  /\ NoLostWakeup
=============================================================================
