----------------------------- MODULE DagVisualise -----------------------------
(***************************************************************************)
(* Dag.Visualise: a walk down the DAG whose workers append what they are   *)
(* to draw to a list that they share.  Some of the appends hold a mutex.   *)
(* An append reads the list, then writes it back with one entry more: two  *)
(* that overlap lose entries.  The list is kept as the set of its entries. *)
(***************************************************************************)
EXTENDS DagWalk

CONSTANT MarkedSets    \* the sets of nodes that may be marked

ASSUME MarkedAssumption == MarkedSets \subseteq SUBSET Node

VARIABLES
  marked,          \* nodes marked for processing
  graphVizNodes,   \* entries of the list
  hasParents,      \* one variable for all workers
  at,              \* where each worker is with its node
  parents,         \* parents whose edges it has yet to draw
  copy,            \* the list as it read it, with its own entry appended
  mutex,           \* the worker that holds it, if any
  callerPc         \* the goroutine that called Visualise

drawVars == <<graphVizNodes, hasParents, at, parents, copy, mutex>>
visualiseVars == <<vars, marked, drawVars, callerPc>>

Colour(n) == <<"colour", n>>
Arrow(p, n) == <<"arrow", p, n>>
Box(n) == <<"box", n>>

Parents(n) == {p \in Node : <<p, n>> \in Edge}

VisualiseInit ==
  /\ Init
  /\ marked \in MarkedSets
  /\ graphVizNodes = {} /\ hasParents = FALSE
  /\ at = [w \in Worker |-> "colour"]
  /\ parents = [w \in Worker |-> {}]
  /\ copy = [w \in Worker |-> {}]
  /\ mutex = {}
  /\ callerPc = "waiting"

-----------------------------------------------------------------------------
(* One node in the hands of a worker *)

GoTo(w, next) == at' = [at EXCEPT ![w] = next]

\* The first half of an append, with or without the mutex ...
StartAppend(w, entry, next) ==
  /\ copy' = [copy EXCEPT ![w] = graphVizNodes \cup {entry}]
  /\ GoTo(w, next)
  /\ UNCHANGED graphVizNodes

\* A mistaken variant of Lock, to show what the properties notice.
LockNothing(w) == mutex' = {w}

Lock(w) == mutex = {} /\ mutex' = {w}

\* ... and the second.
EndAppend(w, from, next) ==
  /\ at[w] = from
  /\ graphVizNodes' = copy[w]
  /\ copy' = [copy EXCEPT ![w] = {}]
  /\ mutex' = mutex \ {w}
  /\ GoTo(w, next)
  /\ UNCHANGED <<hasParents, parents>>

\* An unmarked node gets another colour: an append without the mutex.
StartColour(w) ==
  /\ at[w] = "colour" /\ held[w] \notin marked
  /\ StartAppend(w, Colour(held[w]), "colouring")
  /\ UNCHANGED <<hasParents, parents, mutex>>

EndColour(w) == EndAppend(w, "colouring", "coloured")

ForgetParents(w) ==
  /\ \/ at[w] = "coloured"
     \/ at[w] = "colour" /\ held[w] \in marked
  /\ hasParents' = FALSE
  /\ parents' = [parents EXCEPT ![w] = Parents(held[w])]
  /\ GoTo(w, "parents")
  /\ UNCHANGED <<graphVizNodes, copy, mutex>>

\* The next parent, in any order.
NextParent(w) ==
  /\ at[w] = "parents"
  /\ \E p \in parents[w] :
       /\ Lock(w)
       /\ StartAppend(w, Arrow(p, held[w]), "drawing")
       /\ parents' = [parents EXCEPT ![w] = @ \ {p}]
  /\ hasParents' = TRUE

EndArrow(w) == EndAppend(w, "drawing", "parents")

\* A node without parents, as the shared variable has it, gets a box.
StartBox(w) ==
  /\ at[w] = "parents" /\ parents[w] = {} /\ ~hasParents
  /\ Lock(w)
  /\ StartAppend(w, Box(held[w]), "boxing")
  /\ UNCHANGED <<hasParents, parents>>

EndBox(w) == EndAppend(w, "boxing", "drawn")

NoBox(w) ==
  /\ at[w] = "parents" /\ parents[w] = {} /\ hasParents
  /\ GoTo(w, "drawn")
  /\ UNCHANGED <<graphVizNodes, hasParents, parents, copy, mutex>>

Draw(w) ==
  /\ workerPc[w] = "busy"
  /\ \/ StartColour(w) \/ EndColour(w) \/ ForgetParents(w)
     \/ NextParent(w) \/ EndArrow(w)
     \/ StartBox(w) \/ EndBox(w) \/ NoBox(w)
  /\ UNCHANGED vars

\* It is drawn: report it, and be ready for another one.
EndOfNode(w) ==
  /\ at[w] = "drawn"
  /\ Work(w)
  /\ GoTo(w, "colour")
  /\ UNCHANGED <<graphVizNodes, hasParents, parents, copy, mutex>>

VisualiseWorker(w) ==
  \/ Draw(w)
  \/ EndOfNode(w)
  \/ /\ Take(w) \/ Report(w, "idle") \/ Leave(w)
     /\ UNCHANGED drawVars

\* `<-finishedCh`; the list is put together to the text of the graph.
Return ==
  /\ callerPc = "waiting"
  /\ "finishedCh" \in closed
  /\ callerPc' = "returned"
  /\ UNCHANGED <<vars, drawVars>>

VisualiseNext ==
  /\ ~fatal
  /\ UNCHANGED marked
  /\ \/ Walker /\ UNCHANGED <<drawVars, callerPc>>
     \/ \E w \in Worker : VisualiseWorker(w) /\ UNCHANGED callerPc
     \/ Return

VisualiseSpec == VisualiseInit /\ [][VisualiseNext]_visualiseVars

-----------------------------------------------------------------------------
(* If all nodes are marked, the graph that Visualise returns has an arrow  *)
(* for every dependency, whatever its workers did at the same time: the    *)
(* mutex keeps appends of arrows and boxes apart.  It does not keep those  *)
(* of colours apart from anything, nor does it protect hasParents: unmarked *)
(* nodes and a kapp with neither parents nor children may be lost.         *)
(* (dag.go:636-672)                                                        *)
ArrowsDrawn ==
  callerPc = "returned" /\ marked = Node => \A e \in Edge : Arrow(e[1], e[2]) \in graphVizNodes
=============================================================================
