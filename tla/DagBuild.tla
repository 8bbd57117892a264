------------------------------ MODULE DagBuild -------------------------------
(***************************************************************************)
(* Creating the DAG for the selected kapps (plan/manifests.go and the      *)
(* first half of plan/dag.go): dependencies are collected from the         *)
(* manifests, build() turns them into a graph or an error, and subGraph()  *)
(* copies the selected nodes and their ancestors into a second graph while *)
(* it decides which of them are marked for processing.                     *)
(*                                                                         *)
(* NamedNode is a struct: the table of nodes by name, the graph and the    *)
(* local variables hold copies, which the code updates one at a time.      *)
(* Graphs are gonum's, where SetEdge stores the endpoints it is given.     *)
(***************************************************************************)
EXTENDS Naturals, Sequences, SequencesExt

CONSTANTS
  Node,            \* kapps, by fully qualified ID
  Manifests,       \* the manifests: a sequence of sequences of kapps
  Declarable       \* pairs <<kapp, dependency>> that descriptors may declare

ASSUME ManifestsAssumption == Node = UNION {ToSet(Manifests[m]) : m \in DOMAIN Manifests}

VARIABLES
  declared,        \* input: declared dependencies whose conditions hold
  sequential,      \* input: manifests marked as sequential
  valid,           \* input: kapps whose conditions all hold
  includeParents,  \* input: the option to process ancestors too
  phase,           \* where Create is
  pending,         \* descriptors build() has yet to add
  inputEdges,      \* edges of the graph built, from dependency to dependent
  names,           \* selected nodes subGraph() has yet to add
  selected,        \* the nodes selected
  table,           \* ogNodesByName: subGraph's nodes by name
  graph,           \* the nodes stored in outputGraph
  edges,           \* the edges of outputGraph
  stack            \* calls of addAncestors

inputVars == <<declared, sequential, valid, includeParents, selected>>
buildVars == <<pending, inputEdges>>
outputVars == <<names, table, graph, edges, stack>>
vars == <<inputVars, phase, buildVars, outputVars>>

Copy == [marked : BOOLEAN, conditionsValid : BOOLEAN]
Partial(S) == UNION {[T -> S] : T \in SUBSET Node}
Frame == [node : Node, copy : Copy, parents : SUBSET Node]

TypeOK ==
  /\ phase \in {"build", "check", "select", "created",
                "templateError", "missingError", "selfError", "cycleError"}
  /\ pending \subseteq Node
  /\ inputEdges \subseteq Node \X Node
  /\ names \subseteq Node
  /\ DOMAIN graph \subseteq DOMAIN table
  /\ table \in Partial(Copy)
  /\ graph \in Partial(Copy)
  /\ edges \subseteq (DOMAIN graph) \X (DOMAIN graph)
  /\ stack \in Seq(Frame)

-----------------------------------------------------------------------------
(* findDependencies *)

\* The kapp before n in its manifest, if that manifest is sequential.
Previous(n) ==
  {p \in Node : \E m \in sequential : \E i \in 1..(Len(Manifests[m]) - 1) :
     Manifests[m][i] = p /\ Manifests[m][i + 1] = n}

\* A sequential manifest's dependency on the previous kapp replaces what
\* the kapp declares.
DependsOn(n) ==
  IF Previous(n) # {} THEN Previous(n) ELSE {e[2] : e \in {f \in declared : f[1] = n}}

-----------------------------------------------------------------------------
Init ==
  /\ declared \in SUBSET Declarable
  /\ sequential \in SUBSET DOMAIN Manifests
  /\ valid = {}
  /\ includeParents = FALSE
  /\ selected = {}
  /\ phase = "build"
  /\ pending = Node
  /\ inputEdges = {}
  /\ names = {}
  /\ table = <<>>
  /\ graph = <<>>
  /\ edges = {}
  /\ stack = <<>>

\* build() adds the descriptor of n, its dependencies and their edges, or
\* fails at the first dependency it cannot add.  Descriptors come in any
\* order.
AddDescriptor(n) ==
  /\ phase = "build"
  /\ n \in pending
  /\ \/ /\ DependsOn(n) \subseteq Node \ {n}
        /\ pending' = pending \ {n}
        /\ inputEdges' = inputEdges \cup {<<d, n>> : d \in DependsOn(n)}
        /\ UNCHANGED phase
     \/ /\ ~(DependsOn(n) \subseteq Node)
        /\ phase' = "missingError"
        /\ UNCHANGED buildVars
     \/ /\ n \in DependsOn(n)
        /\ phase' = "selfError"
        /\ UNCHANGED buildVars
  /\ UNCHANGED <<inputVars, outputVars>>

\* Templating a descriptor or evaluating its conditions fails.
FailTemplate ==
  /\ phase = "build"
  /\ pending # {}
  /\ phase' = "templateError"
  /\ UNCHANGED <<inputVars, buildVars, outputVars>>

\* topo.Sort succeeds when every set of nodes has one without a
\* predecessor in the set.
isAcyclic ==
  \A S \in (SUBSET Node) \ {{}} : \E n \in S : \A m \in S : <<m, n>> \notin inputEdges

\* A mistaken variant of EndBuild, to show what the properties notice.
EndBuildUnchecked ==
  /\ phase = "build"
  /\ pending = {}
  /\ phase' = "check"
  /\ UNCHANGED <<inputVars, buildVars, outputVars>>

EndBuild ==
  /\ phase = "build"
  /\ pending = {}
  /\ phase' = IF isAcyclic THEN "check" ELSE "cycleError"
  /\ UNCHANGED <<inputVars, buildVars, outputVars>>

-----------------------------------------------------------------------------
(* subGraph *)

\* The selection, and the inputs that matter from here on.
StartSubGraph ==
  /\ phase = "check"
  /\ phase' = "select"
  /\ selected' \in (SUBSET Node) \ {{}}
  /\ valid' \in SUBSET Node
  /\ includeParents' \in BOOLEAN
  /\ names' = selected'
  /\ UNCHANGED <<declared, sequential, buildVars, table, graph, edges, stack>>

\* The order of the manifests, in which the selected nodes come.
Before(n, o) ==
  \E l, m \in DOMAIN Manifests : \E i \in DOMAIN Manifests[l], j \in DOMAIN Manifests[m] :
    /\ Manifests[l][i] = n /\ Manifests[m][j] = o
    /\ l < m \/ (l = m /\ i < j)

IsFirst(n) == n \in names /\ \A o \in names \ {n} : Before(n, o)

Parents(n) == {p \in Node : <<p, n>> \in inputEdges}

Put(f, n, copy) == [m \in DOMAIN f \cup {n} |-> IF m = n THEN copy ELSE f[m]]

\* A mistaken variant of Added.
AddedMarked(n, shouldProcess) ==
  IF n \in DOMAIN table THEN table[n]
  ELSE [marked |-> TRUE, conditionsValid |-> shouldProcess]

\* addNode(): the copy it returns, which it also keeps in the table ...
Added(n, shouldProcess) ==
  IF n \in DOMAIN table /\ (table[n].marked \/ ~shouldProcess) THEN table[n]
  ELSE [marked |-> shouldProcess, conditionsValid |-> shouldProcess]

\* ... while it stores only a new node in the graph.
GraphWith(n, shouldProcess) ==
  IF n \in DOMAIN table THEN graph ELSE Put(graph, n, Added(n, shouldProcess))

\* What addAncestors() keeps of a parent: marked only if ancestors are to be
\* processed, but with its own conditions in either case.
AncestorUncorrected(p) == Added(p, includeParents /\ p \in valid)   \* a mistaken variant

AncestorCopy(p) ==
  [Added(p, includeParents /\ p \in valid) EXCEPT !.conditionsValid = p \in valid]

\* A mistaken variant of AddSelected, to show what the properties notice.
AddSelectedOnce(n) ==
  /\ phase = "select"
  /\ stack = <<>>
  /\ IsFirst(n)
  /\ n \notin DOMAIN table
  /\ table' = Put(table, n, Added(n, n \in valid))
  /\ graph' = GraphWith(n, n \in valid)
  /\ stack' = <<[node |-> n, copy |-> Added(n, n \in valid), parents |-> Parents(n)]>>
  /\ names' = names \ {n}
  /\ UNCHANGED <<inputVars, phase, buildVars, edges>>

\* Add the next selected node and call addAncestors for it.
AddSelected(n) ==
  /\ phase = "select"
  /\ stack = <<>>
  /\ IsFirst(n)
  /\ table' = Put(table, n, Added(n, n \in valid))
  /\ graph' = GraphWith(n, n \in valid)
  /\ stack' = <<[node |-> n,
                 copy |-> [Added(n, n \in valid) EXCEPT !.conditionsValid = n \in valid],
                 parents |-> Parents(n)]>>
  /\ names' = names \ {n}
  /\ UNCHANGED <<inputVars, phase, buildVars, edges>>

\* addAncestors(): add a parent of the node at the top, set the edge, which
\* stores both copies in the graph, and recurse into the parent.
AddParent(p) ==
  /\ phase = "select"
  /\ stack # <<>>
  /\ p \in Last(stack).parents
  /\ LET top == Last(stack)
         shouldProcess == includeParents /\ p \in valid
         copy == AncestorCopy(p)
     IN /\ table' = Put(table, p, Added(p, shouldProcess))
        /\ graph' = Put(Put(GraphWith(p, shouldProcess), p, copy), top.node, top.copy)
        /\ edges' = edges \cup {<<p, top.node>>}
        /\ stack' = Append([stack EXCEPT ![Len(stack)] = [top EXCEPT !.parents = @ \ {p}]],
                           [node |-> p, copy |-> copy, parents |-> Parents(p)])
  /\ UNCHANGED <<inputVars, phase, buildVars, names>>

\* A mistaken variant of ReturnFromAncestors.
ReturnEarly ==
  /\ phase = "select"
  /\ stack # <<>>
  /\ stack' = Front(stack)
  /\ UNCHANGED <<inputVars, phase, buildVars, names, table, graph, edges>>

\* A call of addAncestors returns.
ReturnFromAncestors ==
  /\ phase = "select"
  /\ stack # <<>>
  /\ Last(stack).parents = {}
  /\ stack' = Front(stack)
  /\ UNCHANGED <<inputVars, phase, buildVars, names, table, graph, edges>>

EndSubGraph ==
  /\ phase = "select"
  /\ stack = <<>>
  /\ names = {}
  /\ phase' = "created"
  /\ UNCHANGED <<inputVars, buildVars, outputVars>>

Next ==
  \/ \E n \in Node : AddDescriptor(n) \/ AddSelected(n) \/ AddParent(n)
  \/ FailTemplate
  \/ EndBuild
  \/ StartSubGraph
  \/ ReturnFromAncestors
  \/ EndSubGraph

Spec == Init /\ [][Next]_vars

\* Create runs to its end: it is one sequential function.
FairSpec == Spec /\ WF_vars(Next)

-----------------------------------------------------------------------------
\* The selected nodes and all their ancestors: the least set with both.
Closed(S) == selected \subseteq S /\ \A n \in S : Parents(n) \subseteq S
Ancestry == {n \in Node : \A S \in SUBSET Node : Closed(S) => n \in S}

(* The DAG holds the selected kapps with all their ancestors and every     *)
(* dependency between these, nothing else: a kapp's outputs are loaded     *)
(* before those of the kapps that use them, however few are selected.      *)
ExactAncestry ==
  phase = "created" =>
    /\ DOMAIN graph = Ancestry
    /\ edges = inputEdges \cap (Ancestry \X Ancestry)

(* Only kapps that were asked for, and whose conditions hold, are marked   *)
(* for processing, whatever order copies of a node are stored in.          *)
MarkedWereAskedFor ==
  \A n \in DOMAIN graph :
    graph[n].marked => n \in valid /\ (n \in selected \/ includeParents)

(* The finished DAG tells for every node whether its conditions hold, and  *)
(* marks every such node if ancestors are to be processed too.             *)
CopiesAgree ==
  phase = "created" =>
    \A n \in DOMAIN graph :
      /\ graph[n].conditionsValid = (n \in valid)
      /\ includeParents => graph[n].marked = (n \in valid)

(* A DAG is created exactly from dependencies that admit one.              *)
OnlyDags ==
  phase \in {"select", "created"} =>
    /\ \A n \in Node : DependsOn(n) = Parents(n)
    /\ isAcyclic

(* Creating the DAG ends: the walk over the ancestors, which visits a node *)
(* once for every path to it, never goes round in circles.                 *)
CreateEnds == <>(phase \notin {"build", "check", "select"})
=============================================================================
