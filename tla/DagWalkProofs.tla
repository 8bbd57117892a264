--------------------------- MODULE DagWalkProofs ---------------------------
(***************************************************************************)
(* Proofs about DagWalk for every graph, direction, pool and capacity: the *)
(* inductive invariant of DagWalkInv, the safety properties that follow    *)
(* from it, and that the walk implements DagSchedule; and about DagExecute *)
(* and DagVisualise, whose workers receive their nodes from it.            *)
(***************************************************************************)
EXTENDS DagWalkInv, DagVisualise, DagExecute, FiniteSetTheorems, TLAPS

USE DEF walkerVars, channelVars, workerVars, vars

-----------------------------------------------------------------------------
(* A channel's buffer as a sequence: what sending and receiving do to the  *)
(* values in it                                                            *)

\* Sending adds the value to what is in the buffer.
LEMMA AppendElements ==
  ASSUME NEW S, NEW q \in Seq(S), NEW x \in S
  PROVE  ToSet(Append(q, x)) = ToSet(q) \cup {x}
<1>1. /\ Len(q) \in Nat /\ DOMAIN q = 1..Len(q)
      /\ DOMAIN Append(q, x) = 1..(Len(q) + 1)
      /\ \A i \in 1..Len(q) : Append(q, x)[i] = q[i]
      /\ Append(q, x)[Len(q) + 1] = x
  OBVIOUS
<1>2. 1..(Len(q) + 1) = 1..Len(q) \cup {Len(q) + 1}
  BY <1>1
<1>3. QED
  BY <1>1, <1>2, Zenon DEF ToSet

\* Sending a value that is not in the buffer keeps its values distinct.
LEMMA AppendDistinct ==
  ASSUME NEW S, NEW q \in Seq(S), NEW x \in S, IsInjective(q), x \notin ToSet(q)
  PROVE  IsInjective(Append(q, x))
<1>1. /\ Len(q) \in Nat /\ DOMAIN q = 1..Len(q)
      /\ DOMAIN Append(q, x) = 1..(Len(q) + 1)
      /\ \A i \in 1..Len(q) : Append(q, x)[i] = q[i]
      /\ Append(q, x)[Len(q) + 1] = x
  OBVIOUS
<1>2. \A i, j \in 1..Len(q) : q[i] = q[j] => i = j
  BY <1>1 DEF IsInjective
<1>3. \A i \in 1..Len(q) : q[i] # x
  BY <1>1 DEF ToSet
<1>4. SUFFICES ASSUME NEW i \in 1..(Len(q) + 1), NEW j \in 1..(Len(q) + 1),
                      Append(q, x)[i] = Append(q, x)[j]
               PROVE  i = j
  BY <1>1 DEF IsInjective
<1>5. QED
  BY <1>1, <1>2, <1>3, <1>4

\* Receiving takes the first of the distinct values out of the buffer.
LEMMA TailElements ==
  ASSUME NEW S, NEW q \in Seq(S), q # <<>>, IsInjective(q)
  PROVE  /\ Head(q) \in ToSet(q)
         /\ ToSet(Tail(q)) = ToSet(q) \ {Head(q)}
         /\ IsInjective(Tail(q))
<1>1. /\ Len(q) \in Nat /\ Len(q) >= 1 /\ DOMAIN q = 1..Len(q)
      /\ Head(q) = q[1]
      /\ Len(Tail(q)) = Len(q) - 1 /\ DOMAIN Tail(q) = 1..(Len(q) - 1)
      /\ \A i \in 1..(Len(q) - 1) : Tail(q)[i] = q[i + 1]
  OBVIOUS
<1>2. \A i, j \in 1..Len(q) : q[i] = q[j] => i = j
  BY <1>1 DEF IsInjective
<1>3. Head(q) \in ToSet(q)
  BY <1>1 DEF ToSet
<1>4. ASSUME NEW y \in ToSet(q), y # Head(q) PROVE y \in ToSet(Tail(q))
  <2>1. PICK i \in 1..Len(q) : q[i] = y
    BY <1>1 DEF ToSet
  <2>2. i - 1 \in 1..(Len(q) - 1) /\ Tail(q)[i - 1] = y
    BY <1>1, <1>4, <2>1
  <2>3. QED
    BY <1>1, <2>2 DEF ToSet
<1>5. ASSUME NEW y \in ToSet(Tail(q)) PROVE y \in ToSet(q) /\ y # Head(q)
  <2>1. PICK i \in 1..(Len(q) - 1) : Tail(q)[i] = y
    BY <1>1 DEF ToSet
  <2>2. i + 1 \in 1..Len(q) /\ q[i + 1] = y /\ i + 1 # 1
    BY <1>1, <2>1
  <2>3. QED
    BY <1>1, <1>2, <2>2 DEF ToSet
<1>6. IsInjective(Tail(q))
  BY <1>1, <1>2 DEF IsInjective
<1>7. QED
  BY <1>3, <1>4, <1>5, <1>6

-----------------------------------------------------------------------------
(* Types *)

LEMMA TypeInit == Init => TypeOK
<1> SUFFICES ASSUME Init PROVE TypeOK
  OBVIOUS
<1>1. status \in [Node -> Status]
  BY DEF Init, Status
<1>2. scanPc \in [Scanner -> ScanPc] /\ todo \in [Scanner -> SUBSET Node]
  BY DEF Init, ScanPc
<1>3. target \in [Scanner -> Node \cup {NoNode}] /\ held \in [Worker -> Node \cup {NoNode}]
  BY DEF Init
<1>4. workerPc \in [Worker -> WorkerPc] /\ loopPc \in LoopPc
  BY DEF Init, WorkerPc, LoopPc
<1>5. processCh \in Seq(Node) /\ doneCh \in Seq(Node)
  BY DEF Init
<1>6. QED
  BY <1>1, <1>2, <1>3, <1>4, <1>5 DEF Init, TypeOK

LEMMA TypeStep == TypeOK /\ LocalState /\ [Next]_vars => TypeOK'
<1> SUFFICES ASSUME TypeOK, LocalState, [Next]_vars PROVE TypeOK'
  OBVIOUS
<1> USE DEF TypeOK, LocalState, Status, LoopPc, ScanPc, WorkerPc
<1>1. CASE Loop
  <2>1. CASE Initialise
    BY <2>1 DEF Initialise, Scanner
  <2>2. CASE ReceiveDone
    BY <2>2 DEF ReceiveDone
  <2>3. CASE RecordFinished
    BY <2>3 DEF RecordFinished, Scanner
  <2>4. CASE Tick \/ ReceiveClosed \/ SelectAgain
    BY <2>4 DEF Tick, ReceiveClosed, SelectAgain
  <2>5. QED
    BY <1>1, <2>1, <2>2, <2>3, <2>4 DEF Loop
<1>2. ASSUME NEW s \in Scanner, Scan(s) PROVE TypeOK'
  <2>1. CASE CopyStatuses(s)
    BY <2>1 DEF CopyStatuses, Eligible
  <2>2. CASE LockNext(s)
    BY <2>2 DEF LockNext
  <2>3. CASE Claim(s)
    BY <2>3 DEF Claim
  <2>4. CASE SkipClaimed(s)
    BY <2>4 DEF SkipClaimed
  <2>5. CASE SendProcess(s)
    BY <2>5 DEF SendProcess
  <2>6. CASE EndScan(s)
    BY <2>6 DEF EndScan
  <2>7. CASE CloseFinishedCh(s) \/ CloseDoneCh(s) \/ CloseProcessCh(s)
    BY <2>7 DEF CloseFinishedCh, CloseDoneCh, CloseProcessCh, Close
  <2>8. QED
    BY <1>2, <2>1, <2>2, <2>3, <2>4, <2>5, <2>6, <2>7 DEF Scan
<1>3. CASE MapFault
  BY <1>3 DEF MapFault
<1>4. ASSUME NEW w \in Worker, WorkerStep(w) PROVE TypeOK'
  <2>1. CASE Take(w)
    BY <2>1 DEF Take
  <2>2. CASE Work(w) \/ Abandon(w) \/ Leave(w)
    BY <2>2 DEF Work, Abandon, Leave
  <2>3. ASSUME NEW next \in {"idle", "stopped"}, ReportBuffered(w, next) PROVE TypeOK'
    BY <2>3 DEF ReportBuffered
  <2>4. ASSUME NEW next \in {"idle", "stopped"}, ReportDirectly(w, next) PROVE TypeOK'
    BY <2>4 DEF ReportDirectly
  <2>5. QED
    BY <1>4, <2>1, <2>2, <2>3, <2>4 DEF WorkerStep, Report
<1>5. CASE UNCHANGED vars
  BY <1>5
<1>6. QED
  BY <1>1, <1>2, <1>3, <1>4, <1>5 DEF Next, Walker

-----------------------------------------------------------------------------
(* What the invariant says of a node the loop has received *)

LEMMA ReceivedNode ==
  ASSUME IInv, loopPc = "received"
  PROVE  /\ loopNode \in Node
         /\ status[loopNode] = "running"
         /\ scanPc[loopNode] = "idle"
         /\ sawAll = {} /\ closed = {}
<1>1. loopNode \in Node
  BY DEF IInv, LocalState
<1>2. status[loopNode] = "running"
  BY <1>1 DEF IInv, Located, Received
<1>3. scanPc[loopNode] = "idle"
  BY <1>1, <1>2 DEF IInv, Ordered
<1>4. QED
  BY <1>1, <1>2, <1>3 DEF IInv, Closing, allDone, TypeOK

LEMMA LocalStep == IInv /\ [Next]_vars => LocalState'
<1> SUFFICES ASSUME IInv, [Next]_vars PROVE LocalState'
  OBVIOUS
<1>0. TypeOK /\ LocalState
  BY DEF IInv
<1> USE <1>0, NamesAssumption DEF TypeOK, LocalState
<1>1. CASE Loop
  <2>1. CASE Initialise
    BY <2>1 DEF Initialise, Scanner
  <2>2. CASE ReceiveDone
    BY <2>2 DEF ReceiveDone
  <2>3. CASE RecordFinished
    BY <2>3, ReceivedNode DEF RecordFinished, Scanner
  <2>4. CASE Tick \/ ReceiveClosed \/ SelectAgain
    BY <2>4 DEF Tick, ReceiveClosed, SelectAgain
  <2>5. QED
    BY <1>1, <2>1, <2>2, <2>3, <2>4 DEF Loop
<1>2. ASSUME NEW s \in Scanner, Scan(s) PROVE LocalState'
  <2>1. CASE CopyStatuses(s)
    BY <2>1 DEF CopyStatuses
  <2>2. CASE LockNext(s)
    BY <2>2 DEF LockNext
  <2>3. CASE Claim(s)
    BY <2>3 DEF Claim
  <2>4. CASE SkipClaimed(s)
    BY <2>4 DEF SkipClaimed
  <2>5. CASE SendProcess(s)
    BY <2>5 DEF SendProcess
  <2>6. CASE EndScan(s)
    BY <2>6 DEF EndScan
  <2>7. CASE CloseFinishedCh(s) \/ CloseDoneCh(s) \/ CloseProcessCh(s)
    BY <2>7 DEF CloseFinishedCh, CloseDoneCh, CloseProcessCh, Close
  <2>8. QED
    BY <1>2, <2>1, <2>2, <2>3, <2>4, <2>5, <2>6, <2>7 DEF Scan
<1>3. CASE MapFault
  BY <1>3 DEF MapFault
<1>4. ASSUME NEW w \in Worker, WorkerStep(w) PROVE LocalState'
  <2>1. CASE Take(w)
    BY <2>1 DEF Take
  <2>2. CASE Work(w) \/ Abandon(w) \/ Leave(w)
    BY <2>2 DEF Work, Abandon, Leave
  <2>3. ASSUME NEW next \in {"idle", "stopped"}, ReportBuffered(w, next) PROVE LocalState'
    BY <2>3 DEF ReportBuffered
  <2>4. ASSUME NEW next \in {"idle", "stopped"}, ReportDirectly(w, next) PROVE LocalState'
    BY <2>4 DEF ReportDirectly
  <2>5. QED
    BY <1>4, <2>1, <2>2, <2>3, <2>4 DEF WorkerStep, Report
<1>5. CASE UNCHANGED vars
  BY <1>5
<1>6. QED
  BY <1>1, <1>2, <1>3, <1>4, <1>5 DEF Next, Walker

LEMMA OrderedStep == IInv /\ [Next]_vars => Ordered'
<1> SUFFICES ASSUME IInv, [Next]_vars PROVE Ordered'
  OBVIOUS
<1>0. TypeOK /\ LocalState /\ Ordered
  BY DEF IInv
<1> USE <1>0, NamesAssumption DEF TypeOK, LocalState, Ordered, dependenciesSatisfied
<1>1. CASE Loop
  <2>1. CASE Initialise
    BY <2>1 DEF Initialise, Scanner
  <2>2. CASE ReceiveDone
    BY <2>2 DEF ReceiveDone
  <2>3. CASE RecordFinished
    BY <2>3, ReceivedNode DEF RecordFinished, Scanner
  <2>4. CASE Tick \/ ReceiveClosed \/ SelectAgain
    BY <2>4 DEF Tick, ReceiveClosed, SelectAgain
  <2>5. QED
    BY <1>1, <2>1, <2>2, <2>3, <2>4 DEF Loop
<1>2. ASSUME NEW s \in Scanner, Scan(s) PROVE Ordered'
  <2>1. CASE CopyStatuses(s)
    BY <2>1 DEF CopyStatuses, Eligible
  <2>2. CASE LockNext(s)
    BY <2>2 DEF LockNext
  <2>3. CASE Claim(s)
    BY <2>3 DEF Claim
  <2>4. CASE SkipClaimed(s)
    BY <2>4 DEF SkipClaimed
  <2>5. CASE SendProcess(s)
    BY <2>5 DEF SendProcess
  <2>6. CASE EndScan(s)
    BY <2>6 DEF EndScan
  <2>7. ASSUME NEW from \in ClosePc, NEW channel, NEW next \in ScanPc \ {"idle"},
               Close(s, from, channel, next)
        PROVE  Ordered'
    BY <2>7 DEF Close, ClosePc
  <2>8. QED
    BY <1>2, <2>1, <2>2, <2>3, <2>4, <2>5, <2>6, <2>7
    DEF Scan, CloseFinishedCh, CloseDoneCh, CloseProcessCh, ClosePc, ScanPc
<1>3. CASE MapFault
  BY <1>3 DEF MapFault
<1>4. ASSUME NEW w \in Worker, WorkerStep(w) PROVE UNCHANGED <<status, scanPc, todo, target>>
  BY <1>4 DEF WorkerStep, Take, Work, Abandon, Leave, Report, ReportBuffered, ReportDirectly
<1>5. CASE UNCHANGED <<status, scanPc, todo, target>>
  BY <1>5
<1>6. QED
  BY <1>1, <1>2, <1>3, <1>4, <1>5 DEF Next, Walker

-----------------------------------------------------------------------------
(* Where the claimed nodes are *)

Placed == Located /\ Separate /\ Exclusive

\* A step that moves no node keeps every node where it is.
LEMMA NothingMoves ==
  ASSUME Placed,
         UNCHANGED <<status, processCh, doneCh, held>>,
         \A s \in Scanner : scanPc'[s] = "sending" <=> scanPc[s] = "sending",
         \A s \in Scanner : scanPc[s] = "sending" => target'[s] = target[s],
         loopPc' = "received" <=> loopPc = "received",
         loopPc = "received" => loopNode' = loopNode
  PROVE  Placed'
<1>1. ASSUME NEW n \in Node
      PROVE  /\ Sending(n)' <=> Sending(n)
             /\ Queued(n)' <=> Queued(n)
             /\ Held(n)' <=> Held(n)
             /\ Reported(n)' <=> Reported(n)
             /\ Received(n)' <=> Received(n)
  BY DEF Sending, Queued, Held, Reported, Received
<1>2. Located'
  BY <1>1 DEF Placed, Located
<1>3. Exclusive'
  BY <1>1 DEF Placed, Exclusive
<1>4. Separate'
  BY DEF Placed, Separate
<1>5. QED
  BY <1>2, <1>3, <1>4 DEF Placed

LEMMA ReceiveDonePlaced == IInv /\ ReceiveDone => Placed'
<1> SUFFICES ASSUME IInv, ReceiveDone PROVE Placed'
  OBVIOUS
<1>0. TypeOK /\ Located /\ Separate /\ Exclusive
  BY DEF IInv
<1>1. /\ Head(doneCh) \in ToSet(doneCh) /\ Head(doneCh) \in Node
      /\ ToSet(doneCh') = ToSet(doneCh) \ {Head(doneCh)}
      /\ IsInjective(doneCh')
  BY <1>0, TailElements DEF ReceiveDone, TypeOK, Separate
<1>2. ASSUME NEW n \in Node
      PROVE  /\ Sending(n)' <=> Sending(n)
             /\ Queued(n)' <=> Queued(n)
             /\ Held(n)' <=> Held(n)
             /\ Reported(n)' <=> Reported(n) /\ n # Head(doneCh)
             /\ Received(n)' <=> n = Head(doneCh)
             /\ ~Received(n)
  BY <1>1 DEF ReceiveDone, Sending, Queued, Held, Reported, Received
<1>3. Reported(Head(doneCh))
  BY <1>1 DEF Reported
<1>4. Located'
  BY <1>0, <1>1, <1>2, <1>3 DEF Located, ReceiveDone
<1>5. Exclusive'
  BY <1>0, <1>1, <1>2, <1>3 DEF Exclusive
<1>6. Separate'
  BY <1>0, <1>1 DEF Separate, ReceiveDone
<1>7. QED
  BY <1>4, <1>5, <1>6 DEF Placed

LEMMA RecordFinishedPlaced == IInv /\ RecordFinished => Placed'
<1> SUFFICES ASSUME IInv, RecordFinished PROVE Placed'
  OBVIOUS
<1>0. TypeOK /\ Located /\ Separate /\ Exclusive
  BY DEF IInv
<1>1. loopNode \in Node /\ scanPc[loopNode] = "idle" /\ Received(loopNode)
  BY ReceivedNode DEF RecordFinished, Received
<1>2. ASSUME NEW n \in Node
      PROVE  /\ Sending(n)' <=> Sending(n)
             /\ Queued(n)' <=> Queued(n)
             /\ Held(n)' <=> Held(n)
             /\ Reported(n)' <=> Reported(n)
             /\ ~Received(n)'
             /\ Received(n) <=> n = loopNode
             /\ status'[n] = IF n = loopNode THEN "finished" ELSE status[n]
  BY <1>0, <1>1 DEF RecordFinished, TypeOK, Scanner, Sending, Queued, Held, Reported, Received
<1>3. Located'
  BY <1>0, <1>1, <1>2 DEF Located, Exclusive
<1>4. Exclusive'
  BY <1>0, <1>2 DEF Exclusive
<1>5. Separate'
  BY <1>0, <1>1 DEF RecordFinished, TypeOK, Scanner, Separate
<1>6. QED
  BY <1>3, <1>4, <1>5 DEF Placed

LEMMA ClaimPlaced ==
  ASSUME IInv, NEW s \in Scanner, Claim(s)
  PROVE  Placed'
<1>0. TypeOK /\ LocalState /\ Located /\ Separate /\ Exclusive
  BY DEF IInv
<1>1. target[s] \in Node /\ status[target[s]] = "unprocessed"
  BY <1>0 DEF Claim, LocalState
<1>2. ASSUME NEW n \in Node
      PROVE  /\ Sending(n)' <=> Sending(n) \/ n = target[s]
             /\ Queued(n)' <=> Queued(n)
             /\ Held(n)' <=> Held(n)
             /\ Reported(n)' <=> Reported(n)
             /\ Received(n)' <=> Received(n)
             /\ status'[n] = IF n = target[s] THEN "running" ELSE status[n]
  BY <1>0, <1>1 DEF Claim, TypeOK, Sending, Queued, Held, Reported, Received
<1>3. Located'
  BY <1>0, <1>1, <1>2 DEF Located
<1>4. Exclusive'
  BY <1>0, <1>1, <1>2 DEF Located, Exclusive
<1>5. \A t \in Scanner : scanPc[t] = "sending" => target[t] # target[s]
  BY <1>0, <1>1 DEF Located, Sending
<1>6. Separate'
  BY <1>0, <1>5 DEF Claim, TypeOK, Separate
<1>7. QED
  BY <1>3, <1>4, <1>6 DEF Placed

LEMMA SendProcessPlaced ==
  ASSUME IInv, NEW s \in Scanner, SendProcess(s)
  PROVE  Placed'
<1>0. TypeOK /\ LocalState /\ Located /\ Separate /\ Exclusive
  BY DEF IInv
<1>1. target[s] \in Node /\ Sending(target[s])
  BY <1>0 DEF SendProcess, LocalState, Sending
<1>2. ToSet(processCh') = ToSet(processCh) \cup {target[s]}
  BY <1>0, <1>1, AppendElements DEF SendProcess, TypeOK
<1>3. target[s] \notin ToSet(processCh)
  BY <1>0, <1>1 DEF Exclusive, Queued
<1>4. IsInjective(processCh')
  BY <1>0, <1>1, <1>3, AppendDistinct DEF SendProcess, TypeOK, Separate
<1>5. ASSUME NEW n \in Node
      PROVE  /\ Sending(n)' <=> Sending(n) /\ n # target[s]
             /\ Queued(n)' <=> Queued(n) \/ n = target[s]
             /\ Held(n)' <=> Held(n)
             /\ Reported(n)' <=> Reported(n)
             /\ Received(n)' <=> Received(n)
  <2>1. Queued(n)' <=> Queued(n) \/ n = target[s]
    BY <1>2 DEF Queued
  <2>2. Sending(n)' <=> Sending(n) /\ n # target[s]
    BY <1>0, <1>1 DEF SendProcess, TypeOK, Separate, Sending
  <2>3. QED
    BY <2>1, <2>2 DEF SendProcess, Held, Reported, Received
<1>6. Located'
  BY <1>0, <1>1, <1>5 DEF Located, SendProcess
<1>7. Exclusive'
  BY <1>0, <1>1, <1>5 DEF Exclusive
<1>8. Separate'
  BY <1>0, <1>4 DEF SendProcess, TypeOK, Separate
<1>9. QED
  BY <1>6, <1>7, <1>8 DEF Placed

LEMMA TakePlaced ==
  ASSUME IInv, NEW w \in Worker, Take(w)
  PROVE  Placed'
<1>0. TypeOK /\ LocalState /\ Located /\ Separate /\ Exclusive
  BY DEF IInv
<1>1. /\ Head(processCh) \in ToSet(processCh) /\ Head(processCh) \in Node
      /\ ToSet(processCh') = ToSet(processCh) \ {Head(processCh)}
      /\ IsInjective(processCh')
  BY <1>0, TailElements DEF Take, TypeOK, Separate
<1>2. Queued(Head(processCh)) /\ held[w] = NoNode
  BY <1>0, <1>1 DEF Queued, Take, LocalState
<1>3. ASSUME NEW n \in Node
      PROVE  /\ Sending(n)' <=> Sending(n)
             /\ Queued(n)' <=> Queued(n) /\ n # Head(processCh)
             /\ Held(n)' <=> Held(n) \/ n = Head(processCh)
             /\ Reported(n)' <=> Reported(n)
             /\ Received(n)' <=> Received(n)
  <2>1. Queued(n)' <=> Queued(n) /\ n # Head(processCh)
    BY <1>1 DEF Queued
  <2>2. Held(n)' <=> Held(n) \/ n = Head(processCh)
    BY <1>0, <1>2, NamesAssumption DEF Take, TypeOK, Held
  <2>3. QED
    BY <2>1, <2>2 DEF Take, Sending, Reported, Received
<1>4. Located'
  BY <1>0, <1>1, <1>2, <1>3 DEF Located, Take
<1>5. Exclusive'
  BY <1>0, <1>1, <1>2, <1>3 DEF Exclusive
<1>6. \A v \in Worker : held[v] # Head(processCh)
  BY <1>0, <1>1, <1>2 DEF Exclusive, Held
<1>7. Separate'
  BY <1>0, <1>1, <1>6 DEF Take, TypeOK, Separate
<1>8. QED
  BY <1>4, <1>5, <1>7 DEF Placed

LEMMA ReportBufferedPlaced ==
  ASSUME IInv, NEW w \in Worker, NEW next \in {"idle", "stopped"}, ReportBuffered(w, next)
  PROVE  Placed'
<1>0. TypeOK /\ LocalState /\ Located /\ Separate /\ Exclusive
  BY DEF IInv
<1>1. held[w] \in Node /\ Held(held[w])
  BY <1>0 DEF ReportBuffered, LocalState, Held
<1>2. ToSet(doneCh') = ToSet(doneCh) \cup {held[w]}
  BY <1>0, <1>1, AppendElements DEF ReportBuffered, TypeOK
<1>3. held[w] \notin ToSet(doneCh)
  BY <1>0, <1>1 DEF Exclusive, Reported
<1>4. IsInjective(doneCh')
  BY <1>0, <1>1, <1>3, AppendDistinct DEF ReportBuffered, TypeOK, Separate
<1>5. ASSUME NEW n \in Node
      PROVE  /\ Sending(n)' <=> Sending(n)
             /\ Queued(n)' <=> Queued(n)
             /\ Held(n)' <=> Held(n) /\ n # held[w]
             /\ Reported(n)' <=> Reported(n) \/ n = held[w]
             /\ Received(n)' <=> Received(n)
  <2>1. Reported(n)' <=> Reported(n) \/ n = held[w]
    BY <1>2 DEF Reported
  <2>2. Held(n)' <=> Held(n) /\ n # held[w]
    BY <1>0, <1>1, NamesAssumption DEF ReportBuffered, TypeOK, Separate, Held
  <2>3. QED
    BY <2>1, <2>2 DEF ReportBuffered, Sending, Queued, Received
<1>6. Located'
  BY <1>0, <1>1, <1>5 DEF Located, ReportBuffered
<1>7. Exclusive'
  BY <1>0, <1>1, <1>5 DEF Exclusive
<1>8. Separate'
  BY <1>0, <1>4, NamesAssumption DEF ReportBuffered, TypeOK, Separate
<1>9. QED
  BY <1>6, <1>7, <1>8 DEF Placed

LEMMA ReportDirectlyPlaced ==
  ASSUME IInv, NEW w \in Worker, NEW next \in {"idle", "stopped"}, ReportDirectly(w, next)
  PROVE  Placed'
<1>0. TypeOK /\ LocalState /\ Located /\ Separate /\ Exclusive
  BY DEF IInv
<1>1. held[w] \in Node /\ Held(held[w])
  BY <1>0 DEF ReportDirectly, LocalState, Held
<1>2. ASSUME NEW n \in Node
      PROVE  /\ Sending(n)' <=> Sending(n)
             /\ Queued(n)' <=> Queued(n)
             /\ Held(n)' <=> Held(n) /\ n # held[w]
             /\ Reported(n)' <=> Reported(n)
             /\ Received(n)' <=> n = held[w]
             /\ ~Received(n)
  <2>1. Held(n)' <=> Held(n) /\ n # held[w]
    BY <1>0, <1>1, NamesAssumption DEF ReportDirectly, TypeOK, Separate, Held
  <2>2. QED
    BY <2>1 DEF ReportDirectly, Sending, Queued, Reported, Received
<1>3. Located'
  BY <1>0, <1>1, <1>2 DEF Located, ReportDirectly
<1>4. Exclusive'
  BY <1>0, <1>1, <1>2 DEF Exclusive
<1>5. Separate'
  BY <1>0, NamesAssumption DEF ReportDirectly, TypeOK, Separate
<1>6. QED
  BY <1>3, <1>4, <1>5 DEF Placed

\* The steps of a scanning goroutine that move no node.
LEMMA ScanMovesNothing ==
  ASSUME IInv, NEW s \in Scanner, Scan(s), ~Claim(s), ~SendProcess(s)
  PROVE  Placed'
<1>0. TypeOK /\ Placed
  BY DEF IInv, Placed
<1>1. CASE CopyStatuses(s)
  BY <1>0, <1>1, NothingMoves DEF CopyStatuses, TypeOK
<1>2. CASE LockNext(s)
  BY <1>0, <1>2, NothingMoves DEF LockNext, TypeOK
<1>3. CASE SkipClaimed(s)
  BY <1>0, <1>3, NothingMoves DEF SkipClaimed, TypeOK
<1>4. CASE EndScan(s)
  BY <1>0, <1>4, NothingMoves DEF EndScan, TypeOK
<1>5. CASE CloseFinishedCh(s) \/ CloseDoneCh(s) \/ CloseProcessCh(s)
  BY <1>0, <1>5, NothingMoves DEF CloseFinishedCh, CloseDoneCh, CloseProcessCh, Close, TypeOK
<1>6. QED
  BY <1>1, <1>2, <1>3, <1>4, <1>5 DEF Scan

LEMMA PlacedStep == IInv /\ [Next]_vars => Placed'
<1> SUFFICES ASSUME IInv, [Next]_vars PROVE Placed'
  OBVIOUS
<1>0. TypeOK /\ Placed
  BY DEF IInv, Placed
<1>1. CASE Loop
  <2>1. CASE Initialise
    BY <1>0, <2>1, NothingMoves DEF Initialise, TypeOK, Scanner
  <2>2. CASE Tick \/ ReceiveClosed
    BY <1>0, <2>2, NothingMoves DEF Tick, ReceiveClosed
  <2>3. CASE SelectAgain
    BY <1>0, <2>3, NothingMoves DEF SelectAgain
  <2>4. QED
    BY <1>1, <2>1, <2>2, <2>3, ReceiveDonePlaced, RecordFinishedPlaced DEF Loop
<1>2. ASSUME NEW s \in Scanner, Scan(s) PROVE Placed'
  BY <1>2, ScanMovesNothing, ClaimPlaced, SendProcessPlaced
<1>3. CASE MapFault
  BY <1>0, <1>3, NothingMoves DEF MapFault
<1>4. ASSUME NEW w \in Worker, WorkerStep(w) PROVE Placed'
  <2>1. CASE Work(w) \/ Abandon(w) \/ Leave(w)
    BY <1>0, <2>1, NothingMoves DEF Work, Abandon, Leave
  <2>2. QED
    BY <1>4, <2>1, TakePlaced, ReportBufferedPlaced, ReportDirectlyPlaced DEF WorkerStep, Report
<1>5. CASE UNCHANGED vars
  BY <1>0, <1>5, NothingMoves
<1>6. QED
  BY <1>1, <1>2, <1>3, <1>4, <1>5 DEF Next, Walker

-----------------------------------------------------------------------------
(* Closing the channels *)

LEMMA ClosingStep == IInv /\ [Next]_vars => Closing'
<1> SUFFICES ASSUME IInv, [Next]_vars PROVE Closing'
  OBVIOUS
<1>0. TypeOK /\ LocalState /\ Closing
  BY DEF IInv
<1> USE <1>0 DEF TypeOK, Closing, ClosePc, allDone
<1>1. CASE Loop
  <2>1. CASE Initialise
    BY <2>1 DEF Initialise, Scanner
  <2>2. CASE ReceiveDone
    BY <2>2 DEF ReceiveDone
  <2>3. CASE RecordFinished
    <3>1. /\ loopNode \in Node /\ sawAll = {} /\ closed = {}
      BY <2>3, ReceivedNode DEF RecordFinished
    <3>2. \A s \in sawAll' : s = loopNode /\ allDone(status')
      BY <2>3, <3>1 DEF RecordFinished
    <3>3. \A s \in Scanner : scanPc'[s] \notin ClosePc
      BY <2>3, <3>1 DEF RecordFinished, Scanner
    <3>4. QED
      BY <2>3, <3>1, <3>2, <3>3 DEF RecordFinished
  <2>4. CASE Tick \/ ReceiveClosed \/ SelectAgain
    BY <2>4 DEF Tick, ReceiveClosed, SelectAgain
  <2>5. QED
    BY <1>1, <2>1, <2>2, <2>3, <2>4 DEF Loop
<1>2. ASSUME NEW s \in Scanner, Scan(s) PROVE Closing'
  <2>1. CASE CopyStatuses(s)
    BY <2>1 DEF CopyStatuses
  <2>2. CASE LockNext(s)
    BY <2>2 DEF LockNext
  <2>3. CASE Claim(s)
    <3>1. target[s] \in Node /\ ~allDone(status)
      BY <2>3 DEF Claim, LocalState
    <3>2. sawAll = {} /\ closed = {}
      BY <3>1
    <3>3. QED
      BY <2>3, <3>2 DEF Claim
  <2>4. CASE SkipClaimed(s)
    BY <2>4 DEF SkipClaimed
  <2>5. CASE SendProcess(s)
    BY <2>5 DEF SendProcess
  <2>6. CASE EndScan(s)
    <3>1. s \in sawAll /\ ~channelsClosed => closed = {}
      BY <2>6 DEF EndScan
    <3>2. QED
      BY <2>6, <3>1 DEF EndScan
  <2>7. CASE CloseFinishedCh(s)
    BY <2>7 DEF CloseFinishedCh, Close
  <2>8. CASE CloseDoneCh(s)
    BY <2>8 DEF CloseDoneCh, Close
  <2>9. CASE CloseProcessCh(s)
    BY <2>9 DEF CloseProcessCh, Close
  <2>10. QED
    BY <1>2, <2>1, <2>2, <2>3, <2>4, <2>5, <2>6, <2>7, <2>8, <2>9 DEF Scan
<1>3. CASE MapFault
  BY <1>3 DEF MapFault
<1>4. ASSUME NEW w \in Worker, WorkerStep(w)
      PROVE  UNCHANGED <<status, scanPc, sawAll, closed, channelsClosed>>
  BY <1>4 DEF WorkerStep, Take, Work, Abandon, Leave, Report, ReportBuffered, ReportDirectly
<1>5. CASE UNCHANGED <<status, scanPc, sawAll, closed, channelsClosed>>
  BY <1>5
<1>6. QED
  BY <1>1, <1>2, <1>3, <1>4, <1>5 DEF Next, Walker

-----------------------------------------------------------------------------
(* Wakeups *)

LEMMA WakeupStep == IInv /\ [Next]_vars => NoLostWakeup'
<1> SUFFICES ASSUME IInv, [Next]_vars PROVE NoLostWakeup'
  OBVIOUS
<1>0. TypeOK /\ LocalState /\ NoLostWakeup
  BY DEF IInv
<1>1. CASE RecordFinished
  <2>1. loopNode \in Scanner /\ scanPc'[loopNode] = "spawned"
    BY <1>0, <1>1, ReceivedNode DEF RecordFinished, Scanner, TypeOK
  <2>2. QED
    BY <2>1 DEF NoLostWakeup, Watches
<1>2. CASE Initialise
  BY <1>0, <1>2 DEF Initialise, TypeOK, Scanner, NoLostWakeup, Watches
<1>3. ASSUME NEW s \in Scanner, Scan(s) PROVE NoLostWakeup'
  <2> SUFFICES ASSUME NEW n \in Eligible', scanPc'[Boot] # "idle"
               PROVE  \E t \in Scanner : Watches(t, n)'
    BY DEF NoLostWakeup
  <2>1. ASSUME NEW t \in Scanner, Watches(t, n), t # s PROVE Watches(t, n)'
    BY <1>0, <1>3, <2>1
    DEF TypeOK, Scan, CopyStatuses, LockNext, Claim, SkipClaimed, SendProcess, EndScan,
        CloseFinishedCh, CloseDoneCh, CloseProcessCh, Close, Watches
  <2>2. CASE CopyStatuses(s)
    BY <1>0, <2>2 DEF CopyStatuses, TypeOK, Eligible, dependenciesSatisfied, Watches
  <2>3. CASE ~CopyStatuses(s)
    <3>1. n \in Eligible
      <4>1. CASE Claim(s)
        BY <1>0, <4>1 DEF Claim, TypeOK, LocalState, Eligible, dependenciesSatisfied
      <4>2. CASE UNCHANGED status
        BY <4>2 DEF Eligible, dependenciesSatisfied
      <4>3. QED
        BY <1>3, <4>1, <4>2
        DEF Scan, CopyStatuses, LockNext, SkipClaimed, SendProcess, EndScan,
            CloseFinishedCh, CloseDoneCh, CloseProcessCh, Close
    <3>2. scanPc[Boot] # "idle"
      BY <1>0, <1>3
      DEF TypeOK, Scan, CopyStatuses, LockNext, Claim, SkipClaimed, SendProcess, EndScan,
          CloseFinishedCh, CloseDoneCh, CloseProcessCh, Close, Scanner
    <3>3. PICK t \in Scanner : Watches(t, n)
      BY <1>0, <3>1, <3>2 DEF NoLostWakeup
    <3>4. CASE t # s
      BY <2>1, <3>3, <3>4
    <3>5. CASE t = s
      <4>1. CASE LockNext(s)
        BY <1>0, <3>3, <3>5, <4>1 DEF LockNext, TypeOK, Watches
      <4>2. CASE Claim(s)
        <5>1. n # target[s]
          BY <1>0, <4>2 DEF Claim, TypeOK, LocalState, Eligible
        <5>2. QED
          BY <1>0, <3>3, <3>5, <4>2, <5>1 DEF Claim, TypeOK, Watches
      <4>3. CASE SkipClaimed(s)
        <5>1. n # target[s]
          BY <3>1, <4>3 DEF SkipClaimed, Eligible
        <5>2. QED
          BY <1>0, <3>3, <3>5, <4>3, <5>1 DEF SkipClaimed, TypeOK, Watches
      <4>4. CASE SendProcess(s)
        BY <1>0, <3>3, <3>5, <4>4 DEF SendProcess, TypeOK, Watches
      <4>5. CASE EndScan(s)
        BY <3>3, <3>5, <4>5 DEF EndScan, Watches
      <4>6. CASE CloseFinishedCh(s) \/ CloseDoneCh(s) \/ CloseProcessCh(s)
        BY <3>3, <3>5, <4>6 DEF CloseFinishedCh, CloseDoneCh, CloseProcessCh, Close, Watches
      <4>7. QED
        BY <1>3, <2>3, <4>1, <4>2, <4>3, <4>4, <4>5, <4>6 DEF Scan
    <3>6. QED
      BY <3>4, <3>5
  <2>4. QED
    BY <2>2, <2>3
<1>4. CASE UNCHANGED <<status, scanPc, todo, target>>
  BY <1>0, <1>4 DEF NoLostWakeup, Eligible, dependenciesSatisfied, Watches
<1>5. CASE ReceiveDone \/ Tick \/ ReceiveClosed \/ SelectAgain \/ MapFault
  BY <1>4, <1>5 DEF ReceiveDone, Tick, ReceiveClosed, SelectAgain, MapFault
<1>6. ASSUME NEW w \in Worker, WorkerStep(w) PROVE UNCHANGED <<status, scanPc, todo, target>>
  BY <1>6 DEF WorkerStep, Take, Work, Abandon, Leave, Report, ReportBuffered, ReportDirectly
<1>7. QED
  BY <1>1, <1>2, <1>3, <1>4, <1>5, <1>6 DEF Next, Walker, Loop

-----------------------------------------------------------------------------
(* The inductive invariant *)

LEMMA InvariantInit == Init => IInv
<1> SUFFICES ASSUME Init PROVE IInv
  OBVIOUS
<1>1. TypeOK
  BY TypeInit
<1>2. LocalState /\ Ordered /\ Closing
  BY NamesAssumption DEF Init, Scanner, LocalState, Ordered, Closing, ClosePc
<1>3. ASSUME NEW n \in Node
      PROVE  ~Sending(n) /\ ~Queued(n) /\ ~Held(n) /\ ~Reported(n) /\ ~Received(n)
  BY NamesAssumption DEF Init, Sending, Queued, Held, Reported, Received, ToSet
<1>4. Located /\ Exclusive
  BY <1>3 DEF Init, Located, Exclusive
<1>5. Separate
  BY NamesAssumption DEF Init, Separate, IsInjective
<1>6. NoLostWakeup
  BY DEF Init, NoLostWakeup, Scanner
<1>7. QED
  BY <1>1, <1>2, <1>4, <1>5, <1>6 DEF IInv

\* The invariant holds in every reachable state, for every graph, either
\* direction of the walk, every number of workers and every capacity of the
\* channels: the concurrent walk() of plan/dag.go in full.
THEOREM Invariant == Spec => []IInv
<1>1. Init => IInv
  BY InvariantInit
<1>2. IInv /\ [Next]_vars => IInv'
  <2>1. IInv => TypeOK /\ LocalState
    BY DEF IInv
  <2>2. QED
    BY <2>1, TypeStep, LocalStep, OrderedStep, PlacedStep, ClosingStep, WakeupStep
    DEF IInv, Placed
<1>3. QED
  BY <1>1, <1>2, PTL DEF Spec

-----------------------------------------------------------------------------
(* Every reachable state of the walk is well typed: statuses, goroutines'   *)
(* positions and channel buffers hold what dag.go can put there.            *)
THEOREM TypeCorrect == Spec => []TypeOK
<1>1. IInv => TypeOK
  BY DEF IInv
<1>2. QED
  BY <1>1, Invariant, PTL

(* No node that became eligible is ever forgotten by all the passes of      *)
(* processEligibleNodes, in whatever order they copy the map.               *)
THEOREM WakeupsKept == Spec => []NoLostWakeup
<1>1. IInv => NoLostWakeup
  BY DEF IInv
<1>2. QED
  BY <1>1, Invariant, PTL

\* While a node is running nothing is closed.
LEMMA RunningOpen ==
  ASSUME IInv, NEW n \in Node, status[n] = "running"
  PROVE  closed = {}
BY DEF IInv, Closing, allDone

(* Closing the three channels behind the flag channelsClosed, which no lock *)
(* protects, never meets a goroutine or worker that still sends, nor a      *)
(* second goroutine that closes.                                            *)
THEOREM ChannelsSafe == Spec => []NoChannelPanic
<1>1. ASSUME IInv PROVE NoChannelPanic
  <2>0. TypeOK /\ LocalState /\ Located /\ Closing
    BY <1>1 DEF IInv
  <2>1. ASSUME NEW s \in Scanner, scanPc[s] = "sending" PROVE closed = {}
    <3>1. target[s] \in Node /\ Sending(target[s])
      BY <2>0, <2>1 DEF LocalState, Sending
    <3>2. status[target[s]] = "running"
      BY <2>0, <3>1 DEF Located
    <3>3. QED
      BY <1>1, <3>1, <3>2, RunningOpen
  <2>2. ASSUME NEW w \in Worker, workerPc[w] \in {"busy", "reporting"} PROVE closed = {}
    <3>1. held[w] \in Node /\ Held(held[w])
      BY <2>0, <2>2 DEF LocalState, Held
    <3>2. status[held[w]] = "running"
      BY <2>0, <3>1 DEF Located
    <3>3. QED
      BY <1>1, <3>1, <3>2, RunningOpen
  <2>3. QED
    BY <2>0, <2>1, <2>2 DEF NoChannelPanic, Closing
<1>2. QED
  BY <1>1, Invariant, PTL

-----------------------------------------------------------------------------
LEMMA OneTagged ==
  ASSUME NEW A, NEW k, A # {}, \A x, y \in A : x = y
  PROVE  \E p : A \X {k} = {p}
<1>1. PICK a \in A : A = {a}
  OBVIOUS
<1>2. A \X {k} = {<<a, k>>}
  BY <1>1
<1>3. QED
  BY <1>2

(* A running node is in exactly one place: no interleaving of the scanning  *)
(* goroutines queues a node twice, and no channel operation loses one.      *)
THEOREM RunningOnce == Spec => []OnePlace
<1>1. ASSUME IInv, NEW n \in Node
      PROVE  Cardinality(Places(n)) = IF status[n] = "running" THEN 1 ELSE 0
  <2> DEFINE S == {s \in Scanner : scanPc[s] = "sending" /\ target[s] = n}
             Q == {i \in DOMAIN processCh : processCh[i] = n}
             H == {w \in Worker : held[w] = n}
             R == {i \in DOMAIN doneCh : doneCh[i] = n}
             L == {l \in {loopNode} : Received(n)}
  <2>0. TypeOK /\ Located /\ Separate /\ Exclusive
    BY <1>1 DEF IInv
  <2>1. Places(n) = S \X {"sending"} \cup Q \X {"queued"} \cup H \X {"held"}
                      \cup R \X {"reported"} \cup L \X {"received"}
    BY DEF Places
  <2>2. /\ (S = {} <=> ~Sending(n)) /\ (Q = {} <=> ~Queued(n)) /\ (H = {} <=> ~Held(n))
        /\ (R = {} <=> ~Reported(n)) /\ (L = {} <=> ~Received(n))
    BY DEF Sending, Queued, Held, Reported, Received, ToSet
  <2>3. /\ \A x, y \in S : x = y
        /\ \A x, y \in Q : x = y
        /\ \A x, y \in H : x = y
        /\ \A x, y \in R : x = y
        /\ \A x, y \in L : x = y
    BY <2>0 DEF Separate, IsInjective
  <2> HIDE DEF S, Q, H, R, L
  <2>4. CASE status[n] # "running"
    <3>1. Places(n) = {}
      BY <2>0, <2>1, <2>2, <2>4 DEF Located
    <3>2. QED
      BY <2>4, <3>1, FS_EmptySet
  <2>5. CASE status[n] = "running"
    <3>1. \E p : Places(n) = {p}
      <4>1. Sending(n) \/ Queued(n) \/ Held(n) \/ Reported(n) \/ Received(n)
        BY <2>0, <2>5 DEF Located
      <4>2. CASE Sending(n)
        <5>1. Places(n) = S \X {"sending"}
          BY <2>0, <2>1, <2>2, <4>2 DEF Exclusive
        <5>2. QED
          BY <2>2, <2>3, <4>2, <5>1, OneTagged
      <4>3. CASE Queued(n)
        <5>1. Places(n) = Q \X {"queued"}
          BY <2>0, <2>1, <2>2, <4>3 DEF Exclusive
        <5>2. QED
          BY <2>2, <2>3, <4>3, <5>1, OneTagged
      <4>4. CASE Held(n)
        <5>1. Places(n) = H \X {"held"}
          BY <2>0, <2>1, <2>2, <4>4 DEF Exclusive
        <5>2. QED
          BY <2>2, <2>3, <4>4, <5>1, OneTagged
      <4>5. CASE Reported(n)
        <5>1. Places(n) = R \X {"reported"}
          BY <2>0, <2>1, <2>2, <4>5 DEF Exclusive
        <5>2. QED
          BY <2>2, <2>3, <4>5, <5>1, OneTagged
      <4>6. CASE Received(n)
        <5>1. Places(n) = L \X {"received"}
          BY <2>0, <2>1, <2>2, <4>6 DEF Exclusive
        <5>2. QED
          BY <2>2, <2>3, <4>6, <5>1, OneTagged
      <4>7. QED
        BY <4>1, <4>2, <4>3, <4>4, <4>5, <4>6
    <3>2. QED
      BY <2>5, <3>1, FS_Singleton
  <2>6. QED
    BY <2>4, <2>5
<1>2. IInv => OnePlace
  BY <1>1 DEF OnePlace
<1>3. QED
  BY <1>2, Invariant, PTL

-----------------------------------------------------------------------------
(* The walk implements its schedule *)

\* A step that changes no node's phase and does not announce the end is a
\* stuttering step of the schedule.
LEMMA Stutters ==
  ASSUME \A n \in Node : PhaseOf(n)' = PhaseOf(n),
         ("finishedCh" \in closed') = ("finishedCh" \in closed)
  PROVE  UNCHANGED Sched!vars
BY Zenon DEF Sched!vars

\* The phase of a node, given where it is.
LEMMA PhaseLemma ==
  ASSUME IInv, NEW n \in Node
  PROVE  /\ status[n] = "unprocessed" => PhaseOf(n) = "waiting"
         /\ Sending(n) \/ Queued(n) => PhaseOf(n) = "waiting"
         /\ Held(n) => PhaseOf(n) = "started"
         /\ Reported(n) \/ Received(n) \/ status[n] = "finished" => PhaseOf(n) = "reported"
<1>1. Located /\ Exclusive
  BY DEF IInv
<1>2. QED
  BY <1>1 DEF Located, Exclusive, PhaseOf

LEMMA TakeStarts ==
  ASSUME IInv, IInv', NEW w \in Worker, Take(w), NEW m \in Node, m = Head(processCh)
  PROVE  Sched!Start(m)
<1>0. TypeOK /\ LocalState /\ Ordered /\ Located /\ Separate /\ Exclusive
  BY DEF IInv
<1>1. m \in ToSet(processCh) /\ m \in Node /\ ToSet(processCh') = ToSet(processCh) \ {m}
  BY <1>0, TailElements DEF Take, TypeOK, Separate
<1>2. Queued(m) /\ Held(m)' /\ held[w] = NoNode
  BY <1>0, <1>1 DEF Queued, Held, Take, TypeOK, LocalState
<1>3. PhaseOf(m) = "waiting" /\ PhaseOf(m)' = "started"
  <2>1. PhaseOf(m) = "waiting"
    BY <1>1, <1>2, PhaseLemma
  <2>2. status'[m] # "finished" /\ ~Reported(m)' /\ ~Received(m)'
    BY <1>1, <1>2 DEF IInv, Located, Exclusive
  <2>3. QED
    BY <1>2, <2>1, <2>2 DEF PhaseOf
<1>4. ASSUME NEW n \in Node, n # m PROVE PhaseOf(n)' = PhaseOf(n)
  BY <1>0, <1>2, <1>4, NamesAssumption DEF Take, TypeOK, PhaseOf, Held, Reported, Received
<1>5. ASSUME NEW d \in Dependencies(m) PROVE PhaseOf(d) = "reported"
  <2>1. status[m] = "running"
    BY <1>0, <1>1, <1>2 DEF Located
  <2>2. status[d] = "finished"
    BY <1>0, <1>1, <1>5, <2>1 DEF Ordered, dependenciesSatisfied
  <2>3. QED
    BY <2>2 DEF PhaseOf
<1>6. UNCHANGED closed
  BY DEF Take
<1>7. QED
  <2>1. Sched!Dependencies(m) \subseteq Dependencies(m) /\ Dependencies(m) \subseteq Node
    BY <1>1 DEF Sched!Dependencies, Dependencies
  <2>2. [n \in Node |-> PhaseOf(n)][m] = "waiting"
    BY <1>1, <1>3
  <2>3. \A d \in Sched!Dependencies(m) : [n \in Node |-> PhaseOf(n)][d] = "reported"
    BY <1>5, <2>1
  <2>4. [n \in Node |-> PhaseOf(n)]' = [[n \in Node |-> PhaseOf(n)] EXCEPT ![m] = "started"]
    BY <1>1, <1>3, <1>4
  <2>5. QED
    BY <1>6, <2>2, <2>3, <2>4 DEF Sched!Start

LEMMA ReportReports ==
  ASSUME IInv, IInv', NEW w \in Worker, NEW m \in Node, m = held[w],
         NEW next \in {"idle", "stopped"}, Report(w, next)
  PROVE  Sched!Report(m)
<1>0. TypeOK /\ LocalState /\ Separate
  BY DEF IInv
<1>1. Held(m) /\ (Reported(m)' \/ Received(m)')
  <2>1. CASE ReportBuffered(w, next)
    <3>1. ToSet(doneCh') = ToSet(doneCh) \cup {m}
      BY <1>0, <2>1, AppendElements DEF ReportBuffered, TypeOK
    <3>2. QED
      BY <3>1 DEF Held, Reported
  <2>2. CASE ReportDirectly(w, next)
    BY <2>2 DEF ReportDirectly, Held, Received
  <2>3. QED
    BY <2>1, <2>2 DEF Report
<1>2. PhaseOf(m) = "started" /\ PhaseOf(m)' = "reported"
  BY <1>1, PhaseLemma DEF PhaseOf
<1>3. ASSUME NEW n \in Node, n # m PROVE PhaseOf(n)' = PhaseOf(n)
  <2>1. Held(n)' <=> Held(n)
    BY <1>0, <1>3, NamesAssumption DEF Report, ReportBuffered, ReportDirectly, TypeOK, Held
  <2>2. status'[n] = status[n]
    BY DEF Report, ReportBuffered, ReportDirectly
  <2>3. Reported(n)' \/ Received(n)' <=> Reported(n) \/ Received(n)
    <3>1. CASE ReportBuffered(w, next)
      <4>1. ToSet(doneCh') = ToSet(doneCh) \cup {m}
        BY <1>0, <3>1, AppendElements DEF ReportBuffered, TypeOK
      <4>2. QED
        BY <1>3, <3>1, <4>1 DEF ReportBuffered, Reported, Received
    <3>2. CASE ReportDirectly(w, next)
      BY <1>3, <3>2 DEF ReportDirectly, Reported, Received
    <3>3. QED
      BY <3>1, <3>2 DEF Report
  <2>4. QED
    BY <2>1, <2>2, <2>3 DEF PhaseOf
<1>4. UNCHANGED closed
  BY DEF Report, ReportBuffered, ReportDirectly
<1>5. QED
  <2>1. [n \in Node |-> PhaseOf(n)][m] = "started"
    BY <1>2
  <2>2. [n \in Node |-> PhaseOf(n)]' = [[n \in Node |-> PhaseOf(n)] EXCEPT ![m] = "reported"]
    BY <1>2, <1>3
  <2>3. QED
    BY <1>4, <2>1, <2>2 DEF Sched!Report

LEMMA CloseAnnounces ==
  ASSUME IInv, NEW s \in Scanner, CloseFinishedCh(s)
  PROVE  Sched!Announce
<1>1. closed = {} /\ s \in sawAll /\ allDone(status)
  BY DEF IInv, Closing, ClosePc, CloseFinishedCh, Close
<1>2. \A n \in Node : PhaseOf(n) = "reported"
  BY <1>1 DEF allDone, PhaseOf
<1>3. \A n \in Node : PhaseOf(n)' = PhaseOf(n)
  BY DEF CloseFinishedCh, Close, PhaseOf, Held, Reported, Received
<1>4. "finishedCh" \notin closed /\ "finishedCh" \in closed'
  BY <1>1 DEF CloseFinishedCh, Close
<1>5. QED
  BY <1>2, <1>3, <1>4 DEF Sched!Announce

\* The loop moves a reported node on without changing its phase.
LEMMA LoopStutters ==
  ASSUME IInv, IInv', Loop
  PROVE  UNCHANGED Sched!vars
<1>0. TypeOK /\ LocalState /\ Separate
  BY DEF IInv
<1>1. UNCHANGED <<held, closed>>
  BY DEF Loop, Initialise, ReceiveDone, RecordFinished, Tick, ReceiveClosed, SelectAgain
<1>2. ASSUME NEW n \in Node PROVE PhaseOf(n)' = PhaseOf(n)
  <2>1. Held(n)' <=> Held(n)
    BY <1>1 DEF Held
  <2>2. CASE ReceiveDone
    <3>1. /\ Head(doneCh) \in ToSet(doneCh)
          /\ ToSet(doneCh') = ToSet(doneCh) \ {Head(doneCh)}
      BY <1>0, <2>2, TailElements DEF ReceiveDone, TypeOK, Separate
    <3>2. Reported(n)' \/ Received(n)' <=> Reported(n) \/ Received(n)
      BY <2>2, <3>1 DEF ReceiveDone, Reported, Received
    <3>3. QED
      BY <2>1, <2>2, <3>2 DEF ReceiveDone, PhaseOf
  <2>3. CASE RecordFinished
    <3>1. Received(loopNode) /\ loopNode \in Node
      BY <2>3, ReceivedNode DEF RecordFinished, Received
    <3>2. status'[n] = IF n = loopNode THEN "finished" ELSE status[n]
      BY <1>0, <2>3 DEF RecordFinished, TypeOK
    <3>3. ~Received(n)' /\ (Received(n) <=> n = loopNode) /\ (Reported(n)' <=> Reported(n))
      BY <2>3, <3>1 DEF RecordFinished, Received, Reported
    <3>4. QED
      BY <2>1, <3>2, <3>3 DEF PhaseOf
  <2>4. CASE Initialise \/ Tick \/ ReceiveClosed \/ SelectAgain
    BY <2>1, <2>4
    DEF Initialise, Tick, ReceiveClosed, SelectAgain, PhaseOf, Reported, Received
  <2>5. QED
    BY <2>2, <2>3, <2>4 DEF Loop
<1>3. QED
  BY <1>1, <1>2, Stutters

\* A scanning goroutine's steps before the first close are invisible.
LEMMA ScanStutters ==
  ASSUME IInv, IInv', NEW s \in Scanner, Scan(s), ~CloseFinishedCh(s)
  PROVE  UNCHANGED Sched!vars
<1>0. TypeOK /\ LocalState
  BY DEF IInv
<1>1. UNCHANGED <<held, doneCh, loopPc, loopNode>>
  BY DEF Scan, CopyStatuses, LockNext, Claim, SkipClaimed, SendProcess, EndScan,
         CloseDoneCh, CloseProcessCh, Close
<1>2. ASSUME NEW n \in Node PROVE status'[n] = "finished" <=> status[n] = "finished"
  <2>1. CASE Claim(s)
    BY <1>0, <2>1 DEF Claim, TypeOK, LocalState
  <2>2. CASE ~Claim(s)
    BY <2>2 DEF Scan, CopyStatuses, LockNext, SkipClaimed, SendProcess, EndScan,
                CloseDoneCh, CloseProcessCh, Close
  <2>3. QED
    BY <2>1, <2>2
<1>3. ("finishedCh" \in closed') = ("finishedCh" \in closed)
  BY DEF Scan, CopyStatuses, LockNext, Claim, SkipClaimed, SendProcess, EndScan,
         CloseDoneCh, CloseProcessCh, Close
<1>4. \A n \in Node : PhaseOf(n)' = PhaseOf(n)
  BY <1>1, <1>2 DEF PhaseOf, Held, Reported, Received
<1>5. QED
  BY <1>3, <1>4, Stutters

LEMMA ScheduleInit == Init => Sched!Init
<1> SUFFICES ASSUME Init PROVE Sched!Init
  OBVIOUS
<1>1. \A n \in Node : PhaseOf(n) = "waiting"
  <2>1. ASSUME NEW n \in Node
        PROVE  ~Held(n) /\ ~Reported(n) /\ ~Received(n) /\ status[n] = "unprocessed"
    BY NamesAssumption DEF Init, Held, Reported, Received, ToSet
  <2>2. QED
    BY <2>1 DEF PhaseOf
<1>2. QED
  BY <1>1 DEF Init, Sched!Init

LEMMA ScheduleStep == IInv /\ IInv' /\ [Next]_vars => [Sched!Next]_(Sched!vars)
<1> SUFFICES ASSUME IInv, IInv', [Next]_vars PROVE Sched!Next \/ UNCHANGED Sched!vars
  OBVIOUS
<1>0. TypeOK /\ LocalState /\ Separate
  BY DEF IInv
<1>1. CASE Loop
  BY <1>1, LoopStutters
<1>2. ASSUME NEW s \in Scanner, Scan(s) PROVE Sched!Next \/ UNCHANGED Sched!vars
  BY <1>2, ScanStutters, CloseAnnounces DEF Sched!Next
<1>3. ASSUME UNCHANGED <<status, held, doneCh, loopPc, loopNode, closed>>
      PROVE  UNCHANGED Sched!vars
  <2>1. \A n \in Node : PhaseOf(n)' = PhaseOf(n)
    BY <1>3 DEF PhaseOf, Held, Reported, Received
  <2>2. QED
    BY <1>3, <2>1, Stutters
<1>4. ASSUME NEW w \in Worker, WorkerStep(w) PROVE Sched!Next \/ UNCHANGED Sched!vars
  <2>1. CASE Take(w)
    <3>1. Head(processCh) \in Node
      BY <1>0, <2>1 DEF Take, TypeOK
    <3>2. PICK m \in Node : m = Head(processCh)
      BY <3>1
    <3>3. QED
      BY <2>1, <3>2, TakeStarts DEF Sched!Next
  <2>2. ASSUME NEW next \in {"idle", "stopped"}, Report(w, next)
        PROVE  Sched!Next
    <3>1. held[w] \in Node
      BY <1>0, <2>2 DEF Report, ReportBuffered, ReportDirectly, LocalState
    <3>2. PICK m \in Node : m = held[w]
      BY <3>1
    <3>3. QED
      BY <2>2, <3>2, ReportReports DEF Sched!Next
  <2>3. CASE Work(w) \/ Abandon(w) \/ Leave(w)
    BY <1>3, <2>3 DEF Work, Abandon, Leave
  <2>4. QED
    BY <1>4, <2>1, <2>2, <2>3 DEF WorkerStep
<1>5. CASE MapFault
  BY <1>3, <1>5 DEF MapFault
<1>6. CASE UNCHANGED vars
  BY <1>3, <1>6
<1>7. QED
  BY <1>1, <1>2, <1>4, <1>5, <1>6 DEF Next, Walker

(* The walk keeps its promise to the workers for every graph, direction,    *)
(* pool and capacity: a node starts once, after all it depends on has been  *)
(* reported, and finishedCh closes once, after the last report.             *)
THEOREM ImplementsSchedule == Spec => Schedule
<1>1. Init => Sched!Init
  BY ScheduleInit
<1>2. IInv /\ IInv' /\ [Next]_vars => [Sched!Next]_(Sched!vars)
  BY ScheduleStep
<1>3. QED
  BY <1>1, <1>2, Invariant, PTL DEF Spec, Schedule, Sched!Spec

-----------------------------------------------------------------------------
(* What the steps of the walk do to a node *)

\* The node was processed: its worker is reporting it or has done so.
Through(n) ==
  \/ status[n] = "finished" \/ Reported(n) \/ Received(n)
  \/ \E w \in Worker : workerPc[w] = "reporting" /\ held[w] = n

\* No step takes a node back to where nobody has claimed it.
LEMMA ClaimedForEver ==
  ASSUME TypeOK, LocalState, [Next]_vars, NEW n \in Node, status[n] # "unprocessed"
  PROVE  status'[n] # "unprocessed"
<1> USE DEF TypeOK
<1>1. CASE Loop
  BY <1>1 DEF Loop, Initialise, ReceiveDone, RecordFinished, Tick, ReceiveClosed, SelectAgain
<1>2. ASSUME NEW s \in Scanner, Scan(s) PROVE status'[n] # "unprocessed"
  BY <1>2 DEF Scan, CopyStatuses, LockNext, Claim, SkipClaimed, SendProcess, EndScan,
              CloseFinishedCh, CloseDoneCh, CloseProcessCh, Close
<1>3. CASE MapFault
  BY <1>3 DEF MapFault
<1>4. ASSUME NEW w \in Worker, WorkerStep(w) PROVE status'[n] # "unprocessed"
  BY <1>4 DEF WorkerStep, Take, Work, Abandon, Leave, Report, ReportBuffered, ReportDirectly
<1>5. QED
  BY <1>1, <1>2, <1>3, <1>4 DEF Next, Walker

\* The loop and the goroutines it spawns process no node: they only pass on
\* what the workers reported.
LEMMA WalkerThrough ==
  ASSUME IInv, Walker, NEW n \in Node, Through(n)'
  PROVE  Through(n)
<1>0. TypeOK /\ LocalState /\ Separate
  BY DEF IInv
<1> USE <1>0 DEF TypeOK, Through, Reported, Received
<1>1. CASE ReceiveDone
  <2>1. Head(doneCh) \in ToSet(doneCh) /\ ToSet(Tail(doneCh)) \subseteq ToSet(doneCh)
    BY <1>1, TailElements DEF ReceiveDone, Separate
  <2>2. QED
    BY <1>1, <2>1 DEF ReceiveDone
<1>2. CASE RecordFinished
  BY <1>2 DEF RecordFinished
<1>3. CASE Initialise \/ Tick \/ ReceiveClosed \/ SelectAgain
  BY <1>3 DEF Initialise, Tick, ReceiveClosed, SelectAgain
<1>4. ASSUME NEW s \in Scanner, Scan(s) PROVE Through(n)
  BY <1>4 DEF Scan, CopyStatuses, LockNext, Claim, SkipClaimed, SendProcess, EndScan,
              CloseFinishedCh, CloseDoneCh, CloseProcessCh, Close
<1>5. CASE MapFault
  BY <1>5 DEF MapFault
<1>6. QED
  BY <1>1, <1>2, <1>3, <1>4, <1>5 DEF Walker, Loop

\* Neither does the report itself,
LEMMA ReportThrough ==
  ASSUME IInv, NEW w \in Worker, NEW next \in {"idle", "stopped"}, Report(w, next),
         NEW n \in Node, Through(n)'
  PROVE  Through(n)
<1>0. TypeOK /\ LocalState
  BY DEF IInv
<1> USE <1>0 DEF TypeOK, Through, Reported, Received
<1>1. held[w] \in Node /\ Through(held[w])
  BY DEF LocalState, Report, ReportBuffered, ReportDirectly
<1>2. CASE ReportBuffered(w, next)
  <2>1. ToSet(doneCh') = ToSet(doneCh) \cup {held[w]}
    BY <1>1, <1>2, AppendElements DEF ReportBuffered
  <2>2. QED
    BY <1>1, <1>2, <2>1 DEF ReportBuffered
<1>3. CASE ReportDirectly(w, next)
  BY <1>1, <1>3 DEF ReportDirectly
<1>4. QED
  BY <1>2, <1>3 DEF Report

\* nor what a worker does before it, but for the node that it has.
LEMMA WorkThrough ==
  ASSUME IInv, NEW w \in Worker, Take(w) \/ Work(w) \/ Abandon(w) \/ Leave(w),
         NEW n \in Node, Through(n)'
  PROVE  Through(n) \/ (Work(w) /\ n = held[w])
BY DEF IInv, TypeOK, Through, Reported, Received, Take, Work, Abandon, Leave

\* A node in the hands of a worker is running.
LEMMA HeldRunning ==
  ASSUME IInv, NEW w \in Worker, workerPc[w] \in {"busy", "reporting"}
  PROVE  held[w] \in Node /\ status[held[w]] = "running"
BY DEF IInv, LocalState, Located, Held

(***************************************************************************)
(* DagVisualise, for every graph and set of marked nodes                   *)
(***************************************************************************)

USE DEF walkerVars, channelVars, workerVars, vars, drawVars, visualiseVars

-----------------------------------------------------------------------------
\* Every step of the drawing is a step of the walk with general workers.
LEMMA VisualiseStepOfWalk == [VisualiseNext]_visualiseVars => [Next]_vars
<1> SUFFICES ASSUME [VisualiseNext]_visualiseVars PROVE Next \/ UNCHANGED vars
  OBVIOUS
<1>1. CASE ~fatal /\ Walker
  BY <1>1 DEF Next
<1>2. ASSUME ~fatal, NEW w \in Worker, VisualiseWorker(w)
      PROVE  WorkerStep(w) \/ UNCHANGED vars
  <2>1. CASE Draw(w)
    BY <2>1 DEF Draw
  <2>2. CASE EndOfNode(w)
    BY <2>2 DEF EndOfNode, WorkerStep
  <2>3. CASE Take(w) \/ Report(w, "idle") \/ Leave(w)
    BY <2>3 DEF WorkerStep
  <2>4. QED
    BY <1>2, <2>1, <2>2, <2>3 DEF VisualiseWorker
<1>3. CASE Return
  BY <1>3 DEF Return
<1>4. CASE UNCHANGED visualiseVars
  BY <1>4
<1>5. QED
  BY <1>1, <1>2, <1>3, <1>4 DEF VisualiseNext, Next

THEOREM VisualiseIsWalk == VisualiseSpec => Spec
<1>1. VisualiseInit => Init
  BY DEF VisualiseInit
<1>2. QED
  BY <1>1, VisualiseStepOfWalk, PTL DEF VisualiseSpec, Spec

(* While a graph is drawn no goroutine sends on or closes a closed channel, *)
(* and nodes are drawn in the order of the schedule.                        *)
THEOREM VisualiseKeepsSchedule == VisualiseSpec => []NoChannelPanic /\ Schedule
BY VisualiseIsWalk, ChannelsSafe, ImplementsSchedule, PTL

-----------------------------------------------------------------------------
(* The inductive invariant behind the arrows *)

DrawAt == {"colour", "colouring", "coloured", "parents", "drawing", "boxing", "drawn"}
Entry == ({"colour", "box"} \X Node) \cup ({"arrow"} \X Node \X Node)

DrawTypeOK ==
  /\ marked \subseteq Node
  /\ graphVizNodes \subseteq Entry
  /\ hasParents \in BOOLEAN
  /\ at \in [Worker -> DrawAt]
  /\ parents \in [Worker -> SUBSET Node]
  /\ copy \in [Worker -> SUBSET Entry]
  /\ mutex \subseteq Worker
  /\ callerPc \in {"waiting", "returned"}

\* A worker draws the node that it holds.
BusyDrawing == \A w \in Worker : at[w] # "colour" => workerPc[w] = "busy"

\* Appends of arrows and boxes do not overlap, and there are no others.
AppendsApart ==
  \A w \in Worker :
    /\ at[w] \notin {"colouring", "coloured"}
    /\ at[w] \in {"drawing", "boxing"} => mutex = {w} /\ graphVizNodes \subseteq copy[w]

\* Where the arrows that a worker has drawn are.
Drawing(w) == IF at[w] = "drawing" THEN copy[w] ELSE graphVizNodes

\* A worker is through with the parents that it no longer has to draw ...
ParentsDrawn ==
  \A w \in Worker :
    /\ at[w] # "colour" =>
         \A p \in Parents(held[w]) \ parents[w] : Arrow(p, held[w]) \in Drawing(w)
    /\ at[w] \in {"boxing", "drawn"} => parents[w] = {}

\* ... and everybody with those of the nodes that were processed.
ThroughDrawn ==
  \A n \in Node : Through(n) => \A p \in Parents(n) : Arrow(p, n) \in graphVizNodes

VInv ==
  /\ DrawTypeOK
  /\ BusyDrawing
  /\ marked = Node => AppendsApart /\ ParentsDrawn /\ ThroughDrawn
  /\ callerPc = "returned" => "finishedCh" \in closed

-----------------------------------------------------------------------------
(* One lemma for each part of it *)

\* The walk's own steps and the caller's draw nothing.
Elsewhere == (Walker /\ UNCHANGED <<drawVars, callerPc>>) \/ Return \/ UNCHANGED visualiseVars

LEMMA ElsewhereKeeps ==
  ASSUME Elsewhere
  PROVE  UNCHANGED <<drawVars, workerPc, held>>
BY DEF Elsewhere, Return, Walker, Loop, Initialise, ReceiveDone, RecordFinished, Tick,
       ReceiveClosed, SelectAgain, Scan, CopyStatuses, LockNext, Claim, SkipClaimed, SendProcess,
       EndScan, CloseFinishedCh, CloseDoneCh, CloseProcessCh, Close, MapFault

LEMMA VisualiseCases ==
  ASSUME [VisualiseNext]_visualiseVars
  PROVE  /\ marked' = marked
         /\ Elsewhere \/ \E w \in Worker : VisualiseWorker(w) /\ UNCHANGED callerPc
BY DEF VisualiseNext, Elsewhere

LEMMA DrawTypeStep ==
  ASSUME IInv, DrawTypeOK, [VisualiseNext]_visualiseVars
  PROVE  DrawTypeOK'
<1> USE DEF DrawTypeOK
<1>1. marked' = marked
  BY VisualiseCases
<1>2. CASE Elsewhere
  BY <1>1, <1>2, ElsewhereKeeps DEF Elsewhere, Return
<1>3. ASSUME NEW w \in Worker, VisualiseWorker(w), UNCHANGED callerPc PROVE DrawTypeOK'
  <2>1. CASE Draw(w)
    <3>1. held[w] \in Node
      BY <2>1, HeldRunning DEF Draw
    <3>2. Parents(held[w]) \subseteq Node
      BY DEF Parents
    <3>3. /\ Colour(held[w]) \in Entry /\ Box(held[w]) \in Entry
          /\ \A p \in Node : Arrow(p, held[w]) \in Entry
      BY <3>1 DEF Entry, Colour, Box, Arrow
    <3>4. CASE StartColour(w) \/ StartBox(w)
      BY <1>1, <1>3, <3>3, <3>4 DEF StartColour, StartBox, StartAppend, Lock, GoTo, DrawAt
    <3>5. CASE EndColour(w) \/ EndArrow(w) \/ EndBox(w)
      BY <1>1, <1>3, <3>5 DEF EndColour, EndArrow, EndBox, EndAppend, GoTo, DrawAt
    <3>6. CASE ForgetParents(w)
      BY <1>1, <1>3, <3>2, <3>6 DEF ForgetParents, GoTo, DrawAt
    <3>7. CASE NextParent(w)
      BY <1>1, <1>3, <3>3, <3>7 DEF NextParent, StartAppend, Lock, GoTo, DrawAt
    <3>8. CASE NoBox(w)
      BY <1>1, <1>3, <3>8 DEF NoBox, GoTo, DrawAt
    <3>9. QED
      BY <2>1, <3>4, <3>5, <3>6, <3>7, <3>8 DEF Draw
  <2>2. CASE EndOfNode(w)
    BY <1>1, <1>3, <2>2 DEF EndOfNode, GoTo, DrawAt
  <2>3. CASE UNCHANGED drawVars
    BY <1>1, <1>3, <2>3
  <2>4. QED
    BY <1>3, <2>1, <2>2, <2>3 DEF VisualiseWorker
<1>4. QED
  BY <1>2, <1>3, VisualiseCases

LEMMA BusyStep ==
  ASSUME IInv, DrawTypeOK, BusyDrawing, [VisualiseNext]_visualiseVars
  PROVE  BusyDrawing'
<1> USE DEF BusyDrawing
<1>0. TypeOK
  BY DEF IInv
<1>1. CASE Elsewhere
  BY <1>1, ElsewhereKeeps
<1>2. ASSUME NEW w \in Worker, VisualiseWorker(w) PROVE BusyDrawing'
  <2>1. CASE Draw(w)
    <3>1. workerPc' = workerPc /\ workerPc[w] = "busy"
      BY <2>1 DEF Draw
    <3>2. \A v \in Worker \ {w} : at'[v] = at[v]
      BY <2>1 DEF Draw, DrawTypeOK, StartColour, EndColour, ForgetParents, NextParent, EndArrow,
                  StartBox, EndBox, NoBox, StartAppend, EndAppend, GoTo
    <3>3. QED
      BY <3>1, <3>2
  <2>2. CASE EndOfNode(w)
    BY <1>0, <2>2 DEF EndOfNode, Work, GoTo, TypeOK, DrawTypeOK
  <2>3. CASE (Take(w) \/ Report(w, "idle") \/ Leave(w)) /\ UNCHANGED drawVars
    BY <1>0, <2>3 DEF Take, Report, ReportBuffered, ReportDirectly, Leave, TypeOK, DrawTypeOK
  <2>4. QED
    BY <1>2, <2>1, <2>2, <2>3 DEF VisualiseWorker
<1>3. QED
  BY <1>1, <1>2, VisualiseCases

\* While all nodes are marked, no worker is about to append without the mutex,
\* so the list only grows.
LEMMA Grows ==
  ASSUME DrawTypeOK, marked = Node, AppendsApart, IInv, [VisualiseNext]_visualiseVars
  PROVE  graphVizNodes \subseteq graphVizNodes'
<1>1. CASE Elsewhere
  BY <1>1, ElsewhereKeeps
<1>2. ASSUME NEW w \in Worker, VisualiseWorker(w) PROVE graphVizNodes \subseteq graphVizNodes'
  <2>1. CASE EndColour(w)
    BY <2>1 DEF EndColour, EndAppend, AppendsApart
  <2>2. CASE EndArrow(w) \/ EndBox(w)
    BY <2>2 DEF EndArrow, EndBox, EndAppend, AppendsApart
  <2>3. CASE StartColour(w) \/ ForgetParents(w) \/ NextParent(w) \/ StartBox(w) \/ NoBox(w) \/ EndOfNode(w)
             \/ UNCHANGED drawVars
    BY <2>3 DEF StartColour, ForgetParents, NextParent, StartBox, NoBox, EndOfNode, StartAppend
  <2>4. QED
    BY <1>2, <2>1, <2>2, <2>3 DEF VisualiseWorker, Draw
<1>3. QED
  BY <1>1, <1>2, VisualiseCases

LEMMA ApartStep ==
  ASSUME DrawTypeOK, marked = Node, AppendsApart, IInv, [VisualiseNext]_visualiseVars
  PROVE  AppendsApart'
<1> USE DEF AppendsApart, DrawTypeOK
<1>1. CASE Elsewhere
  BY <1>1, ElsewhereKeeps
<1>2. ASSUME NEW w \in Worker, VisualiseWorker(w) PROVE AppendsApart'
  <2>1. CASE Draw(w)
    <3>0. held[w] \in marked
      BY <2>1, HeldRunning DEF Draw
    <3>1. CASE StartColour(w) \/ EndColour(w)
      BY <3>0, <3>1 DEF StartColour, EndColour, EndAppend
    <3>2. CASE ForgetParents(w) \/ NoBox(w)
      BY <3>2 DEF ForgetParents, NoBox, GoTo
    <3>3. CASE NextParent(w) \/ StartBox(w)
      BY <3>3 DEF NextParent, StartBox, StartAppend, Lock, GoTo
    <3>4. CASE EndArrow(w) \/ EndBox(w)
      <4>1. mutex = {w} /\ \A v \in Worker \ {w} : at[v] \notin {"drawing", "boxing"}
        BY <3>4 DEF EndArrow, EndBox, EndAppend
      <4>2. QED
        BY <3>4, <4>1 DEF EndArrow, EndBox, EndAppend, GoTo
    <3>5. QED
      BY <2>1, <3>1, <3>2, <3>3, <3>4 DEF Draw
  <2>2. CASE EndOfNode(w)
    BY <2>2 DEF EndOfNode, GoTo
  <2>3. CASE UNCHANGED drawVars
    BY <2>3
  <2>4. QED
    BY <1>2, <2>1, <2>2, <2>3 DEF VisualiseWorker
<1>3. QED
  BY <1>1, <1>2, VisualiseCases

LEMMA ParentsStep ==
  ASSUME DrawTypeOK, BusyDrawing, marked = Node, AppendsApart, ParentsDrawn, IInv,
         [VisualiseNext]_visualiseVars
  PROVE  ParentsDrawn'
<1> USE DEF ParentsDrawn, DrawTypeOK
<1>0. TypeOK /\ graphVizNodes \subseteq graphVizNodes'
  BY Grows DEF IInv
<1>1. CASE Elsewhere
  BY <1>1, ElsewhereKeeps DEF Drawing
<1>2. ASSUME NEW w \in Worker, VisualiseWorker(w) PROVE ParentsDrawn'
  <2>1. \A v \in Worker \ {w} :
          at'[v] = at[v] /\ parents'[v] = parents[v] /\ copy'[v] = copy[v] /\ held'[v] = held[v]
    <3>1. CASE Draw(w)
      <4>1. UNCHANGED held
        BY <3>1 DEF Draw
      <4>2. QED
        BY <3>1, <4>1 DEF Draw, StartColour, EndColour, ForgetParents, NextParent, EndArrow, StartBox,
                          EndBox, NoBox, StartAppend, EndAppend, GoTo
    <3>2. CASE EndOfNode(w)
      BY <1>0, <3>2 DEF EndOfNode, Work, GoTo, TypeOK
    <3>3. CASE (Take(w) \/ Report(w, "idle") \/ Leave(w)) /\ UNCHANGED drawVars
      BY <1>0, <3>3 DEF Take, Report, ReportBuffered, ReportDirectly, Leave, TypeOK
    <3>4. QED
      BY <1>2, <3>1, <3>2, <3>3 DEF VisualiseWorker
  <2>2. \A v \in Worker \ {w} : Drawing(v) \subseteq Drawing(v)'
    BY <1>0, <2>1 DEF Drawing
  <2>3. ASSUME at'[w] # "colour"
        PROVE  /\ \A p \in Parents(held'[w]) \ parents'[w] : Arrow(p, held'[w]) \in Drawing(w)'
               /\ at'[w] \in {"boxing", "drawn"} => parents'[w] = {}
    <3>1. CASE Draw(w)
      <4>0. UNCHANGED held /\ held[w] \in marked
        BY <3>1, HeldRunning DEF Draw
      <4>1. CASE StartColour(w) \/ EndColour(w)
        BY <4>0, <4>1 DEF StartColour, EndColour, EndAppend, AppendsApart
      <4>2. CASE ForgetParents(w)
        BY <4>0, <4>2 DEF ForgetParents, GoTo
      <4>3. CASE NextParent(w)
        BY <4>0, <4>3 DEF NextParent, StartAppend, GoTo, Drawing
      <4>4. CASE EndArrow(w)
        BY <4>0, <4>4 DEF EndArrow, EndAppend, GoTo, Drawing
      <4>5. CASE StartBox(w) \/ NoBox(w)
        BY <4>0, <4>5 DEF StartBox, NoBox, StartAppend, GoTo, Drawing
      <4>6. CASE EndBox(w)
        BY <1>0, <4>0, <4>6 DEF EndBox, EndAppend, GoTo, Drawing
      <4>7. QED
        BY <3>1, <4>1, <4>2, <4>3, <4>4, <4>5, <4>6 DEF Draw
    <3>2. CASE EndOfNode(w)
      BY <2>3, <3>2 DEF EndOfNode, GoTo
    <3>3. CASE (Take(w) \/ Report(w, "idle") \/ Leave(w)) /\ UNCHANGED drawVars
      BY <2>3, <3>3 DEF BusyDrawing, Take, Report, ReportBuffered, ReportDirectly, Leave
    <3>4. QED
      BY <1>2, <3>1, <3>2, <3>3 DEF VisualiseWorker
  <2>4. QED
    <3> SUFFICES ASSUME NEW v \in Worker
                 PROVE  /\ at'[v] # "colour" =>
                             \A p \in Parents(held'[v]) \ parents'[v] : Arrow(p, held'[v]) \in Drawing(v)'
                        /\ at'[v] \in {"boxing", "drawn"} => parents'[v] = {}
      BY DEF Parents, Arrow
    <3>1. CASE v = w
      BY <2>3, <3>1
    <3>2. CASE v # w
      BY <2>1, <2>2, <3>2
    <3>3. QED
      BY <3>1, <3>2
<1>3. QED
  BY <1>1, <1>2, VisualiseCases

LEMMA ThroughDrawnStep ==
  ASSUME DrawTypeOK, BusyDrawing, marked = Node, AppendsApart, ParentsDrawn, ThroughDrawn, IInv,
         [VisualiseNext]_visualiseVars
  PROVE  ThroughDrawn'
<1>0. graphVizNodes \subseteq graphVizNodes'
  BY Grows
<1> SUFFICES ASSUME NEW n \in Node, Through(n)', ~Through(n)
             PROVE  \A p \in Parents(n) : Arrow(p, n) \in graphVizNodes'
  BY <1>0 DEF ThroughDrawn, Parents, Arrow
<1>1. CASE Elsewhere
  <2>1. CASE Walker
    BY <2>1, WalkerThrough
  <2>2. CASE UNCHANGED vars
    BY <2>2 DEF Through, Reported, Received
  <2>3. QED
    BY <1>1, <2>1, <2>2 DEF Elsewhere, Return
<1>2. ASSUME NEW w \in Worker, VisualiseWorker(w)
      PROVE  \A p \in Parents(n) : Arrow(p, n) \in graphVizNodes'
  <2>1. CASE Draw(w)
    BY <2>1 DEF Draw, Through, Reported, Received
  <2>2. CASE EndOfNode(w)
    <3>1. n = held[w]
      BY <2>2, WorkThrough DEF EndOfNode
    <3>2. at[w] = "drawn" /\ graphVizNodes' = graphVizNodes
      BY <2>2 DEF EndOfNode
    <3>3. QED
      BY <3>1, <3>2 DEF ParentsDrawn, Drawing
  <2>3. CASE Take(w) \/ Leave(w)
    BY <2>3, WorkThrough DEF Take, Leave, Work
  <2>4. CASE Report(w, "idle")
    BY <2>4, ReportThrough
  <2>5. QED
    BY <1>2, <2>1, <2>2, <2>3, <2>4 DEF VisualiseWorker
<1>3. QED
  BY <1>1, <1>2, VisualiseCases

LEMMA ReturnedStep ==
  ASSUME callerPc = "returned" => "finishedCh" \in closed, [VisualiseNext]_visualiseVars
  PROVE  (callerPc = "returned" => "finishedCh" \in closed)'
<1>1. closed \subseteq closed'
  <2>1. CASE Walker
    BY <2>1 DEF Walker, Loop, Initialise, ReceiveDone, RecordFinished, Tick, ReceiveClosed,
                SelectAgain, Scan, CopyStatuses, LockNext, Claim, SkipClaimed, SendProcess, EndScan,
                CloseFinishedCh, CloseDoneCh, CloseProcessCh, Close, MapFault
  <2>2. ASSUME NEW w \in Worker, VisualiseWorker(w) PROVE closed' = closed
    BY <2>2 DEF VisualiseWorker, Draw, EndOfNode, Work, Take, Report, ReportBuffered, ReportDirectly, Leave
  <2>3. QED
    BY <2>1, <2>2 DEF VisualiseNext, Return
<1>2. callerPc' = callerPc \/ "finishedCh" \in closed
  BY DEF VisualiseNext, Return
<1>3. QED
  BY <1>1, <1>2

-----------------------------------------------------------------------------
LEMMA VisualiseBegins == VisualiseInit => VInv
<1> SUFFICES ASSUME VisualiseInit PROVE VInv
  OBVIOUS
<1> USE DEF VisualiseInit
<1>1. DrawTypeOK
  BY MarkedAssumption DEF DrawTypeOK, DrawAt
<1>2. BusyDrawing /\ AppendsApart /\ ParentsDrawn
  BY DEF BusyDrawing, AppendsApart, ParentsDrawn
<1>3. ThroughDrawn
  BY NamesAssumption DEF ThroughDrawn, Through, Reported, Received, Init, ToSet
<1>4. callerPc # "returned"
  OBVIOUS
<1>5. QED
  BY <1>1, <1>2, <1>3, <1>4 DEF VInv

LEMMA VInvStep == IInv /\ VInv /\ [VisualiseNext]_visualiseVars => VInv'
<1> SUFFICES ASSUME IInv, VInv, [VisualiseNext]_visualiseVars PROVE VInv'
  OBVIOUS
<1>1. DrawTypeOK' /\ BusyDrawing'
  BY DrawTypeStep, BusyStep DEF VInv
<1>2. marked' = marked
  BY VisualiseCases
<1>3. marked = Node => AppendsApart' /\ ParentsDrawn' /\ ThroughDrawn'
  BY ApartStep, ParentsStep, ThroughDrawnStep DEF VInv
<1>4. (callerPc = "returned" => "finishedCh" \in closed)'
  BY ReturnedStep DEF VInv
<1>5. QED
  BY <1>1, <1>2, <1>3, <1>4 DEF VInv

\* VInv is an invariant of the drawing.
THEOREM VisualiseInvariant == VisualiseSpec => [](IInv /\ VInv)
<1>1. VisualiseSpec => []IInv
  BY VisualiseIsWalk, Invariant, PTL
<1>2. QED
  BY <1>1, VisualiseBegins, VInvStep, PTL DEF VisualiseSpec

(* If all nodes are marked, the picture has every dependency, for every     *)
(* graph and number of workers: the mutex keeps the appends of arrows and   *)
(* boxes apart, and finishedCh is closed after the last of them.            *)
THEOREM NoArrowLost == VisualiseSpec => []ArrowsDrawn
<1>1. ASSUME IInv, VInv PROVE ArrowsDrawn
  <2> SUFFICES ASSUME callerPc = "returned", marked = Node, NEW e \in Edge
               PROVE  Arrow(e[1], e[2]) \in graphVizNodes
    BY DEF ArrowsDrawn
  <2>1. e[1] \in Node /\ e[2] \in Node /\ e = <<e[1], e[2]>>
    BY GraphAssumption
  <2>2. allDone(status)
    BY <1>1 DEF VInv, IInv, Closing
  <2>3. Through(e[2])
    BY <2>1, <2>2 DEF allDone, Through
  <2>4. e[1] \in Parents(e[2])
    BY <2>1 DEF Parents
  <2>5. QED
    BY <1>1, <2>1, <2>3, <2>4 DEF VInv, ThroughDrawn
<1>2. QED
  BY <1>1, VisualiseInvariant, PTL

(***************************************************************************)
(* DagExecute, for every graph, action and option                          *)
(***************************************************************************)

USE DEF walkerVars, channelVars, workerVars, vars, executorVars, executeVars

-----------------------------------------------------------------------------
\* Every step of an execution is a step of the walk with general workers.
LEMMA StepOfWalk == [ExecuteNext]_executeVars => [Next]_vars
<1> SUFFICES ASSUME [ExecuteNext]_executeVars PROVE Next \/ UNCHANGED vars
  OBVIOUS
<1>1. CASE ~fatal /\ WalkerStep
  BY <1>1 DEF WalkerStep, Next
<1>2. ASSUME ~fatal, NEW w \in Worker, ExecutorStep(w)
      PROVE  WorkerStep(w) \/ UNCHANGED vars
  <2>1. CASE Receive(w) \/ EndOfRange(w)
    BY <2>1 DEF Receive, EndOfRange, WorkerStep
  <2>2. CASE WorkOn(w)
    BY <2>2 DEF WorkOn, SkipInvalid, Finish, PassStage, IgnoreFailure, GiveUp, FailStage, WorkerStep
  <2>3. CASE SendError(w)
    BY <2>3 DEF SendError, WorkerStep
  <2>4. CASE ReportNode(w)
    <3>1. \E next \in {"idle", "stopped"} : Report(w, next)
      BY <2>4 DEF ReportNode
    <3>2. QED
      BY <3>1 DEF WorkerStep
  <2>5. QED
    BY <1>2, <2>1, <2>2, <2>3, <2>4 DEF ExecutorStep
<1>3. CASE ReturnNil
  BY <1>3 DEF ReturnNil
<1>4. CASE UNCHANGED executeVars
  BY <1>4
<1>5. QED
  BY <1>1, <1>2, <1>3, <1>4 DEF ExecuteNext, Next

(* The workers of executor.go use the channels as the walk of dag.go        *)
(* assumes, whatever the action and wherever they fail.                     *)
THEOREM ExecuteIsWalk == ExecuteSpec => WalkWithWorkers
<1>1. ExecuteInit => Init
  BY DEF ExecuteInit
<1>2. QED
  BY <1>1, StepOfWalk, PTL DEF ExecuteSpec, WalkWithWorkers, Spec

(* So while kapps are executed no goroutine sends on or closes a closed     *)
(* channel, and kapps are started in the order of the schedule.             *)
THEOREM ExecuteKeepsSchedule == ExecuteSpec => []NoChannelPanic /\ Schedule
BY ExecuteIsWalk, ChannelsSafe, ImplementsSchedule, PTL DEF WalkWithWorkers

-----------------------------------------------------------------------------
(* The stages of a node *)

LEMMA WhenSeq == \A condition \in BOOLEAN, stage \in Stage : When(condition, stage) \in Seq(Stage)
BY DEF When

LEMMA ScriptSeq ==
  ASSUME command \in Commands, NEW n \in Node
  PROVE  Script(n) \in Seq(Stage)
<1> DEFINE isMarked == n \in command.marked
<1>1. /\ command \in Command
      /\ isMarked \in BOOLEAN
      /\ command.plan \in BOOLEAN /\ command.approved \in BOOLEAN
  BY CommandsAssumption DEF Command
<1>2. InstallOrDelete(isMarked) \in Seq(Stage)
  <2>1. <<"render">> \in Seq(Stage) /\ <<"finish">> \in Seq(Stage)
    BY DEF Stage
  <2>2. /\ When(isMarked /\ command.plan, "plan") \in Seq(Stage)
        /\ When(isMarked /\ command.approved, "pre") \in Seq(Stage)
        /\ When(isMarked /\ command.approved, "apply") \in Seq(Stage)
        /\ When(isMarked /\ command.approved, "post") \in Seq(Stage)
    BY <1>1, WhenSeq DEF Stage
  <2>3. QED
    BY <2>1, <2>2 DEF InstallOrDelete
<1>3. CleanOrOutput(isMarked) \in Seq(Stage)
  <2>1. <<>> \in Seq(Stage) /\ <<"describe", "apply">> \in Seq(Stage)
    BY DEF Stage
  <2>2. QED
    BY <1>1, <2>1 DEF CleanOrOutput
<1>4. Template(isMarked) \in Seq(Stage)
  <2>1. <<"describe", "outputs", "register">> \in Seq(Stage)
    BY DEF Stage
  <2>2. When(isMarked, "template") \in Seq(Stage) /\ When(isMarked, "apply") \in Seq(Stage)
    BY <1>1, WhenSeq DEF Stage
  <2>3. QED
    BY <2>1, <2>2 DEF Template
<1>5. InitRegistry \in Seq(Stage) /\ PrintVars \in Seq(Stage)
  BY DEF InitRegistry, PrintVars, Stage
<1>6. When(command.action # "vars", "parents") \in Seq(Stage)
  <2>1. (command.action # "vars") \in BOOLEAN /\ "parents" \in Stage
    BY DEF Stage
  <2>2. QED
    BY <2>1, WhenSeq, Zenon
<1>7. command.action \in {"install", "delete", "clean", "output", "template", "init", "vars"}
  BY <1>1 DEF Command
<1> DEFINE rest ==
      CASE command.action \in {"install", "delete"} -> InstallOrDelete(isMarked)
        [] command.action \in {"clean", "output"} -> CleanOrOutput(isMarked)
        [] command.action = "template" -> Template(isMarked)
        [] command.action = "init" -> InitRegistry
        [] command.action = "vars" -> PrintVars
<1>8. rest \in Seq(Stage)
  BY <1>2, <1>3, <1>4, <1>5, <1>7
<1>9. Script(n) = When(command.action # "vars", "parents") \o <<"prepare">> \o rest
  BY DEF Script
<1>10. <<"prepare">> \in Seq(Stage)
  BY DEF Stage
<1> HIDE DEF rest
<1>11. QED
  BY <1>6, <1>8, <1>9, <1>10

\* A node is one that the action is applied to if one of its stages is that.
LEMMA SelectedStage ==
  ASSUME command \in Commands, NEW n \in Node
  PROVE  n \in Selected <=>
           ~Skipped(n) /\ \E j \in 1..Len(Script(n)) : Script(n)[j] = "apply"
<1>1. DOMAIN Script(n) = 1..Len(Script(n))
  BY ScriptSeq
<1>2. QED
  BY <1>1 DEF Selected, ToSet

-----------------------------------------------------------------------------
(* The inductive invariant behind what a nil error means *)

\* Only what is in the hands of a worker that is sending an error has failed.
FailuresInSight ==
  /\ \A n \in failed : \E w \in Worker : erring[w] # "none" /\ held[w] = n
  /\ \A w \in Worker : erring[w] # "none" => workerPc[w] = "busy" /\ ~Skipped(held[w])

\* What a worker is through with was done to its node, or excused.
StagesDone ==
  \A w \in Worker : workerPc[w] = "busy" /\ ~Skipped(held[w]) =>
    \A j \in 1..pos[w] :
      j <= Len(Script(held[w])) /\ Script(held[w])[j] = "apply" => held[w] \in applied \cup excused

\* What was processed was applied, or excused.
AppliedThrough == \A n \in Selected : Through(n) => n \in applied \cup excused

\* Nothing is done to a node before a worker received it, and a failure is
\* excused with --ignore-errors only.
AppliedStarted ==
  /\ \A n \in applied \cup excused \cup failed : status[n] # "unprocessed"
  /\ excused # {} => command.ignoreErrors

EInv ==
  /\ ExecuteTypeOK
  /\ AppliedStarted
  /\ mainPc # "failed" => FailuresInSight /\ StagesDone /\ AppliedThrough
  /\ mainPc = "succeeded" => "finishedCh" \in closed

-----------------------------------------------------------------------------
(* Types, and what is applied *)

LEMMA ExecuteTypeStep ==
  IInv /\ ExecuteTypeOK /\ [ExecuteNext]_executeVars => ExecuteTypeOK'
<1> SUFFICES ASSUME IInv, ExecuteTypeOK, [ExecuteNext]_executeVars PROVE ExecuteTypeOK'
  OBVIOUS
<1> USE DEF ExecuteTypeOK
<1>1. CASE WalkerStep \/ ReturnNil \/ UNCHANGED executeVars
  BY <1>1 DEF WalkerStep, ReturnNil
<1>2. ASSUME NEW w \in Worker, ExecutorStep(w) PROVE ExecuteTypeOK'
  <2>1. CASE Receive(w) \/ ReportNode(w) \/ EndOfRange(w) \/ SkipInvalid(w) \/ Finish(w)
    BY <2>1 DEF Receive, ReportNode, EndOfRange, SkipInvalid, Finish
  <2>2. CASE SendError(w)
    BY <2>2 DEF SendError
  <2>3. ASSUME NEW stage \in Stage,
               PassStage(w, stage) \/ IgnoreFailure(w, stage) \/ GiveUp(w, stage) \/ FailStage(w, stage)
        PROVE  ExecuteTypeOK'
    <3>1. held[w] \in Node
      BY <2>3, HeldRunning DEF PassStage, IgnoreFailure, GiveUp, FailStage, At
    <3>2. CASE PassStage(w, stage)
      BY <3>1, <3>2 DEF PassStage, Advance
    <3>3. CASE GiveUp(w, stage)
      BY <3>1, <3>3 DEF GiveUp
    <3>4. CASE FailStage(w, stage)
      BY <3>1, <3>4 DEF FailStage, AfterError
    <3>5. CASE IgnoreFailure(w, stage)
      BY <3>1, <3>5 DEF IgnoreFailure
    <3>6. QED
      BY <2>3, <3>2, <3>3, <3>4, <3>5
  <2>4. QED
    BY <1>2, <2>1, <2>2, <2>3 DEF ExecutorStep, WorkOn
<1>3. QED
  BY <1>1, <1>2 DEF ExecuteNext

\* The options do not change, nor what they say of a node.
LEMMA SameCommand ==
  ASSUME [ExecuteNext]_executeVars
  PROVE  /\ command' = command /\ Selected' = Selected
         /\ \A n : Script(n)' = Script(n) /\ Skipped(n)' = Skipped(n)
<1>1. command' = command
  BY DEF ExecuteNext, WalkerStep, ReturnNil, ExecutorStep, Receive, ReportNode, EndOfRange, WorkOn,
         SkipInvalid, Finish, SendError, PassStage, IgnoreFailure, GiveUp, FailStage
<1>2. \A n : Script(n)' = Script(n) /\ Skipped(n)' = Skipped(n)
  BY <1>1 DEF Script, Skipped, When, InstallOrDelete, CleanOrOutput, Template
<1>3. QED
  BY <1>1, <1>2 DEF Selected

\* A worker that is at a stage has a node that is not skipped, and applying
\* it makes it one of those that are selected.
LEMMA AtStage ==
  ASSUME IInv, ExecuteTypeOK, NEW w \in Worker, NEW stage \in Stage, At(w, stage)
  PROVE  /\ held[w] \in Node /\ status[held[w]] = "running" /\ ~Skipped(held[w])
         /\ pos[w] + 1 \in 1..Len(Script(held[w]))
         /\ stage = Script(held[w])[pos[w] + 1]
         /\ stage = "apply" => held[w] \in Selected
<1>1. held[w] \in Node /\ status[held[w]] = "running"
  BY HeldRunning DEF At
<1>2. Len(Script(held[w])) \in Nat /\ pos[w] \in Nat
  BY <1>1, ScriptSeq DEF ExecuteTypeOK
<1>3. QED
  BY <1>1, <1>2, SelectedStage DEF At, ExecuteTypeOK

LEMMA AppliedStep ==
  IInv /\ ExecuteTypeOK /\ AppliedStarted /\ [ExecuteNext]_executeVars => AppliedStarted'
<1> SUFFICES ASSUME IInv, ExecuteTypeOK, AppliedStarted, [ExecuteNext]_executeVars
             PROVE  AppliedStarted'
  OBVIOUS
<1> DEFINE touched == applied \cup excused \cup failed
<1>1. command' = command /\ touched \subseteq Node
  BY SameCommand DEF ExecuteTypeOK
<1>2. \A n \in Node : status[n] # "unprocessed" => status'[n] # "unprocessed"
  BY ClaimedForEver, StepOfWalk DEF IInv
<1>3. /\ \A n \in touched' \ touched : n \in Node /\ status[n] # "unprocessed"
      /\ excused' = excused \/ command.ignoreErrors
  <2>1. CASE WalkerStep \/ ReturnNil \/ UNCHANGED executeVars
    BY <2>1 DEF WalkerStep, ReturnNil
  <2>2. ASSUME NEW w \in Worker, Receive(w) \/ ReportNode(w) \/ EndOfRange(w) \/ SkipInvalid(w)
                                  \/ Finish(w) \/ SendError(w)
        PROVE  UNCHANGED <<applied, excused, failed>>
    BY <2>2 DEF Receive, ReportNode, EndOfRange, SkipInvalid, Finish, SendError
  <2>3. ASSUME NEW w \in Worker, NEW stage \in Stage,
               PassStage(w, stage) \/ IgnoreFailure(w, stage) \/ GiveUp(w, stage) \/ FailStage(w, stage)
        PROVE  /\ touched' \subseteq touched \cup {held[w]}
               /\ held[w] \in Node /\ status[held[w]] # "unprocessed"
               /\ excused' = excused \/ command.ignoreErrors
    <3>1. held[w] \in Node /\ status[held[w]] = "running"
      BY <2>3, AtStage DEF PassStage, IgnoreFailure, GiveUp, FailStage
    <3>2. QED
      BY <2>3, <3>1 DEF PassStage, IgnoreFailure, Ignored, GiveUp, IgnoredLast, FailStage, Advance
  <2>4. QED
    BY <2>1, <2>2, <2>3 DEF ExecuteNext, ExecutorStep, WorkOn
<1>4. QED
  BY <1>1, <1>2, <1>3 DEF AppliedStarted

-----------------------------------------------------------------------------
(* Failures and what was done, as long as the caller has no error *)

LEMMA FailuresStep ==
  ASSUME IInv, ExecuteTypeOK, FailuresInSight, [ExecuteNext]_executeVars, mainPc' # "failed"
  PROVE  FailuresInSight'
<1> USE DEF FailuresInSight, ExecuteTypeOK
<1>0. TypeOK /\ \A n : Skipped(n)' = Skipped(n)
  BY SameCommand DEF IInv
<1>1. CASE WalkerStep
  <2>1. UNCHANGED <<workerPc, held, erring, failed>>
    BY <1>1 DEF WalkerStep, Walker, Loop, Initialise, ReceiveDone, RecordFinished, Tick, ReceiveClosed,
                SelectAgain, Scan, CopyStatuses, LockNext, Claim, SkipClaimed, SendProcess, EndScan,
                CloseFinishedCh, CloseDoneCh, CloseProcessCh, Close, MapFault
  <2>2. QED
    BY <1>0, <2>1
<1>2. ASSUME NEW w \in Worker, ExecutorStep(w) PROVE FailuresInSight'
  <2>1. CASE Receive(w) \/ ReportNode(w) \/ EndOfRange(w)
    BY <1>0, <2>1 DEF TypeOK, Receive, ReportNode, EndOfRange, Take, Leave, Report, ReportBuffered, ReportDirectly
  <2>2. CASE SkipInvalid(w) \/ Finish(w)
    BY <1>0, <2>2 DEF TypeOK, SkipInvalid, Finish, Work
  <2>3. CASE SendError(w)
    BY <2>3 DEF SendError
  <2>4. ASSUME NEW stage \in Stage, PassStage(w, stage) \/ IgnoreFailure(w, stage) \/ GiveUp(w, stage)
        PROVE  FailuresInSight'
    BY <1>0, <2>4 DEF TypeOK, PassStage, IgnoreFailure, GiveUp, At, Work
  <2>5. ASSUME NEW stage \in Stage, FailStage(w, stage) PROVE FailuresInSight'
    BY <1>0, <2>5 DEF TypeOK, FailStage, At, AfterError
  <2>6. QED
    BY <1>2, <2>1, <2>2, <2>3, <2>4, <2>5 DEF ExecutorStep, WorkOn
<1>3. CASE ReturnNil \/ UNCHANGED executeVars
  BY <1>0, <1>3 DEF ReturnNil
<1>4. QED
  BY <1>1, <1>2, <1>3 DEF ExecuteNext

LEMMA StagesStep ==
  ASSUME IInv, ExecuteTypeOK, StagesDone, [ExecuteNext]_executeVars, mainPc' # "failed"
  PROVE  StagesDone'
<1> USE DEF StagesDone, ExecuteTypeOK
<1>0. TypeOK /\ \A n : Skipped(n)' = Skipped(n) /\ Script(n)' = Script(n)
  BY SameCommand DEF IInv
<1>1. CASE WalkerStep
  <2>1. UNCHANGED <<workerPc, held, pos, applied, excused>>
    BY <1>1 DEF WalkerStep, Walker, Loop, Initialise, ReceiveDone, RecordFinished, Tick, ReceiveClosed,
                SelectAgain, Scan, CopyStatuses, LockNext, Claim, SkipClaimed, SendProcess, EndScan,
                CloseFinishedCh, CloseDoneCh, CloseProcessCh, Close, MapFault
  <2>2. QED
    BY <1>0, <2>1
<1>2. ASSUME NEW w \in Worker, ExecutorStep(w) PROVE StagesDone'
  <2>1. CASE Receive(w)
    BY <1>0, <2>1 DEF TypeOK, Receive, Take
  <2>2. CASE ReportNode(w) \/ EndOfRange(w)
    BY <1>0, <2>2 DEF TypeOK, ReportNode, EndOfRange, Leave, Report, ReportBuffered, ReportDirectly
  <2>3. CASE SkipInvalid(w) \/ Finish(w)
    BY <1>0, <2>3 DEF TypeOK, SkipInvalid, Finish, Work
  <2>4. CASE SendError(w)
    BY <2>4 DEF SendError
  <2>5. ASSUME NEW stage \in Stage, PassStage(w, stage) \/ IgnoreFailure(w, stage) PROVE StagesDone'
    <3>1. stage = Script(held[w])[pos[w] + 1]
      BY <2>5 DEF PassStage, IgnoreFailure, At
    <3>2. UNCHANGED <<workerPc, held>> /\ applied \cup excused \subseteq (applied \cup excused)'
      BY <2>5 DEF PassStage, IgnoreFailure, Advance
    <3>3. /\ pos' = [pos EXCEPT ![w] = @ + 1]
          /\ stage = "apply" => held[w] \in (applied \cup excused)'
      BY <2>5 DEF PassStage, IgnoreFailure, Advance
    <3>4. SUFFICES ASSUME NEW v \in Worker, workerPc[v] = "busy", ~Skipped(held[v]),
                          NEW j \in 1..pos'[v], j <= Len(Script(held[v])), Script(held[v])[j] = "apply"
                   PROVE  held[v] \in (applied \cup excused)'
      BY <1>0, <3>2
    <3>5. j \in 1..pos[v] \/ (v = w /\ j = pos[w] + 1)
      BY <3>3
    <3>6. QED
      BY <3>1, <3>2, <3>3, <3>4, <3>5
  <2>6. ASSUME NEW stage \in Stage, GiveUp(w, stage) \/ FailStage(w, stage) PROVE StagesDone'
    BY <1>0, <2>6 DEF TypeOK, GiveUp, FailStage, Work
  <2>7. QED
    BY <1>2, <2>1, <2>2, <2>3, <2>4, <2>5, <2>6 DEF ExecutorStep, WorkOn
<1>3. CASE ReturnNil \/ UNCHANGED executeVars
  BY <1>0, <1>3 DEF ReturnNil
<1>4. QED
  BY <1>1, <1>2, <1>3 DEF ExecuteNext

LEMMA ThroughStep ==
  ASSUME IInv, ExecuteTypeOK, StagesDone, AppliedThrough, [ExecuteNext]_executeVars, mainPc' # "failed"
  PROVE  AppliedThrough'
<1>0. Selected' = Selected /\ Selected \subseteq Node
  BY SameCommand DEF Selected
<1>1. applied \cup excused \subseteq (applied \cup excused)'
  BY DEF ExecuteNext, WalkerStep, ReturnNil, ExecutorStep, Receive, ReportNode, EndOfRange, WorkOn,
         SkipInvalid, Finish, SendError, PassStage, Advance, IgnoreFailure, GiveUp, FailStage
<1> SUFFICES ASSUME NEW n \in Selected, Through(n)', ~Through(n)
             PROVE  n \in (applied \cup excused)'
  BY <1>0, <1>1 DEF AppliedThrough
<1>2. CASE WalkerStep
  BY <1>0, <1>2, WalkerThrough DEF WalkerStep
<1>3. ASSUME NEW w \in Worker, ExecutorStep(w) PROVE n \in (applied \cup excused)'
  <2>1. CASE Receive(w) \/ EndOfRange(w)
    BY <1>0, <2>1, WorkThrough DEF Receive, EndOfRange, Take, Work, Leave
  <2>2. CASE ReportNode(w)
    BY <1>0, <2>2, ReportThrough DEF ReportNode
  <2>3. CASE SkipInvalid(w)
    BY <1>0, <2>3, WorkThrough DEF SkipInvalid, Selected
  <2>4. CASE Finish(w)
    <3>1. n = held[w] /\ ~Skipped(n) /\ pos[w] = Len(Script(n)) /\ workerPc[w] = "busy"
      BY <1>0, <2>4, WorkThrough DEF Finish, Work
    <3>2. PICK j \in 1..Len(Script(n)) : Script(n)[j] = "apply"
      BY <1>0, SelectedStage DEF ExecuteTypeOK
    <3>3. Len(Script(n)) \in Nat
      BY <1>0, ScriptSeq DEF ExecuteTypeOK
    <3>4. QED
      BY <1>1, <3>1, <3>2, <3>3 DEF StagesDone
  <2>5. CASE SendError(w)
    BY <2>5 DEF SendError
  <2>6. ASSUME NEW stage \in Stage, PassStage(w, stage) \/ IgnoreFailure(w, stage) \/ FailStage(w, stage)
        PROVE  FALSE
    BY <2>6 DEF PassStage, IgnoreFailure, FailStage, Through, Reported, Received
  <2>7. ASSUME NEW stage \in Stage, GiveUp(w, stage) PROVE n \in (applied \cup excused)'
    BY <1>0, <2>7, WorkThrough DEF GiveUp
  <2>8. QED
    BY <1>3, <2>1, <2>2, <2>3, <2>4, <2>5, <2>6, <2>7 DEF ExecutorStep, WorkOn
<1>4. CASE ReturnNil \/ UNCHANGED executeVars
  BY <1>4 DEF ReturnNil, Through, Reported, Received
<1>5. QED
  BY <1>2, <1>3, <1>4 DEF ExecuteNext

LEMMA ExecuteInvariantInit == ExecuteInit => EInv
<1> SUFFICES ASSUME ExecuteInit PROVE EInv
  OBVIOUS
<1>1. ExecuteTypeOK
  BY DEF ExecuteInit, ExecuteTypeOK
<1>2. AppliedStarted /\ FailuresInSight /\ StagesDone
  BY DEF ExecuteInit, Init, AppliedStarted, FailuresInSight, StagesDone
<1>3. AppliedThrough
  BY DEF ExecuteInit, Init, AppliedThrough, Selected, Through, Reported, Received, ToSet
<1>4. QED
  BY <1>1, <1>2, <1>3 DEF EInv, ExecuteInit

LEMMA ExecuteInvariantStep == IInv /\ EInv /\ [ExecuteNext]_executeVars => EInv'
<1> SUFFICES ASSUME IInv, EInv, [ExecuteNext]_executeVars PROVE EInv'
  OBVIOUS
<1>1. ExecuteTypeOK' /\ AppliedStarted'
  BY ExecuteTypeStep, AppliedStep DEF EInv
<1>2. mainPc' # "failed" => mainPc # "failed"
  BY DEF ExecuteNext, WalkerStep, ReturnNil, ExecutorStep, Receive, ReportNode, EndOfRange, WorkOn,
         SkipInvalid, Finish, SendError, PassStage, IgnoreFailure, GiveUp, FailStage
<1>3. mainPc' # "failed" => FailuresInSight' /\ StagesDone' /\ AppliedThrough'
  BY <1>2, FailuresStep, StagesStep, ThroughStep DEF EInv
<1>4. mainPc' = "succeeded" => "finishedCh" \in closed'
  <2>1. closed \subseteq closed'
    <3>1. Next \/ UNCHANGED vars
      BY StepOfWalk
    <3>2. QED
      BY <3>1 DEF Next, Walker, Loop, Initialise, ReceiveDone, RecordFinished, Tick, ReceiveClosed,
                SelectAgain, Scan, CopyStatuses, LockNext, Claim, SkipClaimed, SendProcess, EndScan,
                CloseFinishedCh, CloseDoneCh, CloseProcessCh, Close, MapFault, WorkerStep, Take, Work,
                Abandon, Leave, Report, ReportBuffered, ReportDirectly
  <2>2. mainPc' = "succeeded" => mainPc = "succeeded" \/ ReturnNil
    BY DEF ExecuteNext, WalkerStep, ExecutorStep, Receive, ReportNode, EndOfRange, WorkOn,
           SkipInvalid, Finish, SendError, PassStage, IgnoreFailure, GiveUp, FailStage
  <2>3. QED
    BY <2>1, <2>2 DEF EInv, ReturnNil
<1>5. QED
  BY <1>1, <1>3, <1>4 DEF EInv

(* The invariants of the walk and of the execution hold together.           *)
THEOREM ExecuteInvariant == ExecuteSpec => [](IInv /\ EInv)
<1>1. ExecuteSpec => []IInv
  BY ExecuteIsWalk, Invariant, PTL DEF WalkWithWorkers
<1>2. QED
  BY <1>1, ExecuteInvariantInit, ExecuteInvariantStep, PTL DEF ExecuteSpec

(* Types: a worker that leaves is a worker, what is applied or fails is a   *)
(* node.                                                                    *)
THEOREM ExecuteTypeCorrect == ExecuteSpec => []ExecuteTypeOK
<1>1. EInv => ExecuteTypeOK
  BY DEF EInv
<1>2. QED
  BY <1>1, ExecuteInvariant, PTL

(* Execute returns nil only if nothing failed but what --ignore-errors lets *)
(* pass, and after every selected kapp was applied or let pass in that way, *)
(* for every action, graph and number of workers.                           *)
THEOREM NilMeansApplied == ExecuteSpec => []SuccessMeansApplied
<1>1. ASSUME IInv, EInv, mainPc = "succeeded"
      PROVE  /\ failed = {}
             /\ \A n \in Selected : n \in applied \/ (command.ignoreErrors /\ n \in excused)
  <2>1. \A n \in Node : status[n] = "finished"
    BY <1>1 DEF IInv, EInv, Closing, allDone
  <2>2. failed = {}
    BY <1>1, <2>1, HeldRunning DEF EInv, FailuresInSight
  <2>3. Selected \subseteq applied \cup excused
    BY <1>1, <2>1 DEF EInv, AppliedThrough, Through, Selected
  <2>4. QED
    BY <1>1, <2>2, <2>3 DEF EInv, AppliedStarted
<1>2. IInv /\ EInv => SuccessMeansApplied
  BY <1>1 DEF SuccessMeansApplied
<1>3. QED
  BY <1>2, ExecuteInvariant, PTL

(* Until Execute has an error, nothing is done to a kapp before those it    *)
(* depends on were applied, or let pass with --ignore-errors, for every     *)
(* graph, pool and channel, installing or deleting.                         *)
THEOREM OrderKept == ExecuteSpec => []AppliedInOrder
<1>1. ASSUME IInv, EInv, mainPc # "failed", NEW n \in applied \cup excused \cup failed,
             NEW d \in Dependencies(n) \cap Selected
      PROVE  d \notin failed /\ (d \in applied \/ (command.ignoreErrors /\ d \in excused))
  <2>1. n \in Node /\ d \in Node
    BY <1>1 DEF EInv, ExecuteTypeOK, Selected
  <2>2. status[d] = "finished"
    BY <1>1, <2>1 DEF IInv, EInv, AppliedStarted, Ordered, dependenciesSatisfied
  <2>3. d \in applied \cup excused
    BY <1>1, <2>2 DEF EInv, AppliedThrough, Through
  <2>4. d \notin failed
    BY <1>1, <2>2, HeldRunning DEF EInv, FailuresInSight
  <2>5. QED
    BY <1>1, <2>3, <2>4 DEF EInv, AppliedStarted
<1>2. IInv /\ EInv => AppliedInOrder
  BY <1>1 DEF AppliedInOrder
<1>3. QED
  BY <1>2, ExecuteInvariant, PTL
=============================================================================
