------------------------------ MODULE DagPrint -------------------------------
(***************************************************************************)
(* Dag.Print: a walk down the DAG with workers that print a node and       *)
(* report it, and a caller that waits for finishedCh.  Printing always     *)
(* succeeds, so this is the walk at its best: every step of it must make   *)
(* progress with nobody to blame but the walk itself.                      *)
(***************************************************************************)
EXTENDS DagWalk

VARIABLE mainPc      \* the goroutine that called Print

printVars == <<vars, mainPc>>

PrintInit == Init /\ mainPc = "waiting"

\* One turn of a worker's range loop: print the node and report it.
PrintWorker(w) == Take(w) \/ Work(w) \/ Report(w, "idle") \/ Leave(w)

\* `<-finishedCh` succeeds once the channel is closed.
Return ==
  /\ mainPc = "waiting"
  /\ "finishedCh" \in closed
  /\ mainPc' = "returned"
  /\ UNCHANGED vars

\* A step of the program while it has not been aborted.
Step(A) == ~fatal /\ A /\ UNCHANGED mainPc

PrintNext ==
  \/ Step(Walker)
  \/ \E w \in Worker : Step(PrintWorker(w))
  \/ ~fatal /\ Return

(***************************************************************************)
(* Every goroutine that can go on does.  The loop's select chooses at      *)
(* random among the ready cases, so a case that is ready again and again   *)
(* is chosen even while the ticker and the closed doneCh compete with it.  *)
(***************************************************************************)
Fairness ==
  /\ \A s \in Scanner : WF_printVars(Step(Scan(s)))
  /\ WF_printVars(Step(RecordFinished))
  /\ WF_printVars(Step(SelectAgain))
  /\ SF_printVars(Step(Initialise))
  /\ SF_printVars(Step(ReceiveDone))
  /\ SF_printVars(Step(ReceiveClosed))
  /\ \A w \in Worker :
       /\ WF_printVars(Step(Take(w) \/ Work(w) \/ Leave(w)))
       /\ SF_printVars(Step(Report(w, "idle")))
  /\ WF_printVars(~fatal /\ Return)

PrintSpec == PrintInit /\ [][PrintNext]_printVars

FairPrintSpec == PrintSpec /\ Fairness

-----------------------------------------------------------------------------
(* Print returns, whatever the interleaving, unless the Go runtime aborts  *)
(* the program: no lost wakeup, no full channel and no pair of goroutines  *)
(* waiting for each other stops the walk.                                  *)
PrintReturns == <>(fatal \/ mainPc = "returned")

(* The goroutines of the walk other than its loop all end: none is left    *)
(* behind blocked on a channel nobody reads any more.                      *)
GoroutinesEnd ==
  <>[](\/ fatal
       \/ /\ \A s \in Scanner : scanPc[s] = "ended"
          /\ \A w \in Worker : workerPc[w] = "stopped")
=============================================================================
