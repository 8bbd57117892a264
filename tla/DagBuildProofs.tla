--------------------------- MODULE DagBuildProofs ---------------------------
(***************************************************************************)
(* Proofs about DagBuild for every manifest, declared dependency,          *)
(* selection and condition.                                                *)
(***************************************************************************)
EXTENDS DagBuild, SequenceTheorems, TLAPS

USE DEF inputVars, buildVars, outputVars, vars

-----------------------------------------------------------------------------
(* The inductive invariant *)

Deciding == phase \in {"select", "created"}

Inputs ==
  /\ selected \subseteq Node
  /\ valid \subseteq Node
  /\ includeParents \in BOOLEAN

\* The edges are the dependencies of the descriptors that were added.
Collected ==
  /\ \A n \in Node : Parents(n) = IF n \in pending THEN {} ELSE DependsOn(n)
  /\ phase \in {"check", "select", "created"} => pending = {} /\ isAcyclic

NotBefore ==
  ~Deciding => names = {} /\ table = <<>> /\ graph = <<>> /\ edges = {} /\ stack = <<>>

\* What is right in every copy of a node, and what only in those that are
\* or will be in the graph.
Kept(n, copy) ==
  /\ copy.marked => n \in valid /\ (n \in selected \/ includeParents)
  /\ includeParents => (copy.marked <=> n \in valid)

Fits(n, copy) == Kept(n, copy) /\ (copy.conditionsValid <=> n \in valid)

Copies ==
  /\ DOMAIN graph = DOMAIN table
  /\ \A n \in DOMAIN graph : Fits(n, graph[n]) /\ Kept(n, table[n])
  /\ \A i \in DOMAIN stack : Fits(stack[i].node, stack[i].copy)

\* Nothing is in the graph that is not in every closed set ...
Within ==
  /\ names \subseteq selected
  /\ \A S \in SUBSET Node : Closed(S) => DOMAIN graph \subseteq S
  /\ edges \subseteq inputEdges
  /\ \A i \in DOMAIN stack :
       stack[i].node \in DOMAIN graph /\ stack[i].parents \subseteq Parents(stack[i].node)

\* ... and the graph will be closed itself: some call of addAncestors will
\* add the edge from p to n.
Awaited(p, n) == \E i \in DOMAIN stack : stack[i].node = n /\ p \in stack[i].parents

Covering ==
  /\ Deciding => selected \subseteq DOMAIN graph \cup names
  /\ \A n \in DOMAIN graph : \A p \in Parents(n) : <<p, n>> \in edges \/ Awaited(p, n)
  /\ phase = "created" => names = {} /\ stack = <<>>

BuildInv ==
  TypeOK /\ Inputs /\ Collected /\ NotBefore /\ Copies /\ Within /\ Covering

-----------------------------------------------------------------------------
(* The steps, in three groups *)

Building == (\E n \in Node : AddDescriptor(n)) \/ FailTemplate \/ EndBuild

LEMMA Steps ==
  ASSUME [Next]_vars
  PROVE  \/ Building \/ StartSubGraph \/ EndSubGraph \/ ReturnFromAncestors \/ UNCHANGED vars
         \/ \E n \in Node : AddSelected(n) \/ AddParent(n)
BY DEF Next, Building

LEMMA BuildingSteps ==
  ASSUME Building
  PROVE  /\ phase = "build"
         /\ phase' \in {"build", "check", "templateError", "missingError", "selfError", "cycleError"}
         /\ UNCHANGED <<inputVars, outputVars>>
BY DEF Building, AddDescriptor, FailTemplate, EndBuild

LEMMA PutType ==
  ASSUME NEW f \in Partial(Copy), NEW n \in Node, NEW copy \in Copy
  PROVE  Put(f, n, copy) \in Partial(Copy)
<1>1. PICK T \in SUBSET Node : f \in [T -> Copy]
  BY DEF Partial
<1>2. Put(f, n, copy) \in [T \cup {n} -> Copy]
  BY <1>1 DEF Put
<1>3. QED
  BY <1>2 DEF Partial

LEMMA GraphWithType ==
  ASSUME TypeOK, Copies, NEW n \in Node, NEW b, Added(n, b) \in Copy
  PROVE  /\ GraphWith(n, b) \in Partial(Copy)
         /\ DOMAIN GraphWith(n, b) = DOMAIN graph \cup {n}
         /\ \A m \in DOMAIN graph \cup {n} :
              GraphWith(n, b)[m] = IF n \in DOMAIN graph THEN graph[m]
                                   ELSE IF m = n THEN Added(n, b) ELSE graph[m]
<1>1. graph \in Partial(Copy) /\ DOMAIN graph = DOMAIN table
  BY DEF TypeOK, Copies
<1>2. CASE n \in DOMAIN table
  BY <1>1, <1>2, Zenon DEF GraphWith
<1>3. CASE n \notin DOMAIN table
  <2>1. GraphWith(n, b) = Put(graph, n, Added(n, b))
    BY <1>3 DEF GraphWith
  <2>2. Put(graph, n, Added(n, b)) \in Partial(Copy)
    BY <1>1, PutType
  <2>3. QED
    BY <1>1, <1>3, <2>1, <2>2 DEF Put
<1>4. QED
  BY <1>2, <1>3

LEMMA PartialValue ==
  ASSUME NEW f \in Partial(Copy)
  PROVE  DOMAIN f \subseteq Node /\ \A n \in DOMAIN f : f[n] \in Copy
BY DEF Partial

\* What addNode returns is a copy that is right.
LEMMA AddedFits ==
  ASSUME TypeOK, Inputs, Copies, NEW n \in Node
  PROVE  /\ \A b \in BOOLEAN : Added(n, b) \in Copy
         /\ n \in selected => Kept(n, Added(n, n \in valid))
         /\ Kept(n, Added(n, includeParents /\ n \in valid))
         /\ AncestorCopy(n) \in Copy /\ Fits(n, AncestorCopy(n))
<1>1. n \in DOMAIN table => table[n] \in Copy /\ Kept(n, table[n])
  BY PartialValue DEF TypeOK, Copies
<1>2. \A b \in BOOLEAN : Added(n, b) \in Copy
  BY <1>1 DEF Added, Copy
<1>3. /\ n \in selected => Kept(n, Added(n, n \in valid))
      /\ Kept(n, Added(n, includeParents /\ n \in valid))
  <2>1. ASSUME NEW b \in BOOLEAN
        PROVE  \/ n \in DOMAIN table /\ Added(n, b) = table[n] /\ (table[n].marked \/ ~b)
               \/ (Added(n, b).marked <=> b)
    <3>1. CASE n \in DOMAIN table /\ (table[n].marked \/ ~b)
      BY <3>1 DEF Added
    <3>2. CASE ~(n \in DOMAIN table /\ (table[n].marked \/ ~b))
      BY <3>2 DEF Added
    <3>3. QED
      BY <3>1, <3>2
  <2>2. /\ (n \in valid) \in BOOLEAN /\ (includeParents /\ n \in valid) \in BOOLEAN
    OBVIOUS
  <2>3. n \in selected => Kept(n, Added(n, n \in valid))
    BY <1>1, <2>1, <2>2 DEF Kept
  <2>4. Kept(n, Added(n, includeParents /\ n \in valid))
    BY <1>1, <2>1, <2>2 DEF Kept
  <2>5. QED
    BY <2>3, <2>4
<1>4. AncestorCopy(n) \in Copy /\ Fits(n, AncestorCopy(n))
  <2>1. (includeParents /\ n \in valid) \in BOOLEAN
    OBVIOUS
  <2> DEFINE added == Added(n, includeParents /\ n \in valid)
  <2>2. added \in Copy /\ Kept(n, added)
    BY <1>2, <1>3, <2>1
  <2>3. AncestorCopy(n) = [added EXCEPT !.conditionsValid = n \in valid]
    BY DEF AncestorCopy
  <2> HIDE DEF added
  <2>4. /\ AncestorCopy(n) \in Copy /\ AncestorCopy(n).marked = added.marked
        /\ AncestorCopy(n).conditionsValid <=> n \in valid
    <3>1. PICK b \in BOOLEAN : b <=> n \in valid
      OBVIOUS
    <3>2. AncestorCopy(n) = [added EXCEPT !.conditionsValid = b]
      <4>1. b = (n \in valid)
        BY <3>1, Zenon
      <4>2. QED
        BY <2>3, <4>1, Zenon
    <3>3. QED
      BY <2>2, <3>1, <3>2 DEF Copy
  <2>5. QED
    BY <2>2, <2>4 DEF Fits, Kept
<1>5. QED
  BY <1>2, <1>3, <1>4

\* The frames before and after a call of addAncestors.
LEMMA TopFrame ==
  ASSUME TypeOK, stack # <<>>
  PROVE  /\ Len(stack) \in Nat \ {0} /\ DOMAIN stack = 1..Len(stack)
         /\ Len(stack) \in DOMAIN stack
         /\ Last(stack) = stack[Len(stack)] /\ Last(stack) \in Frame
BY DEF TypeOK, Last

LEMMA CallFrames ==
  ASSUME TypeOK, Inputs, Copies, NEW p \in Node, AddParent(p)
  PROVE  /\ stack' \in Seq(Frame)
         /\ DOMAIN stack' = 1..(Len(stack) + 1)
         /\ \A i \in 1..Len(stack) :
              /\ stack'[i].node = stack[i].node /\ stack'[i].copy = stack[i].copy
              /\ stack'[i].parents = IF i = Len(stack) THEN stack[i].parents \ {p} ELSE stack[i].parents
         /\ stack'[Len(stack) + 1].node = p
         /\ stack'[Len(stack) + 1].copy = AncestorCopy(p)
         /\ stack'[Len(stack) + 1].parents = Parents(p)
<1> DEFINE k == Len(stack)
           frame == [node |-> p, copy |-> AncestorCopy(p), parents |-> Parents(p)]
           callers == [stack EXCEPT ![k] = [stack[k] EXCEPT !.parents = @ \ {p}]]
<1>1. k \in Nat \ {0} /\ stack \in Seq(Frame)
  BY TopFrame DEF AddParent, TypeOK
<1>2. frame \in Frame
  BY AddedFits DEF Frame, Parents
<1>3. callers \in Seq(Frame) /\ Len(callers) = k
  <2>1. k \in 1..Len(stack) /\ stack[k] \in Frame
    BY <1>1
  <2>2. [stack[k] EXCEPT !.parents = @ \ {p}] \in Frame
    BY <2>1 DEF Frame
  <2> HIDE DEF k
  <2>3. QED
    BY <1>1, <2>1, <2>2, ExceptSeq DEF k
<1>4. stack' = Append(callers, frame)
  BY TopFrame DEF AddParent
<1>5. /\ \A i \in 1..(k - 1) : callers[i] = stack[i]
      /\ callers[k].node = stack[k].node /\ callers[k].copy = stack[k].copy
      /\ callers[k].parents = stack[k].parents \ {p}
  BY <1>1 DEF Frame
<1> HIDE DEF callers, frame
<1>6. /\ stack' \in Seq(Frame) /\ Len(stack') = k + 1
      /\ \A i \in 1..k : stack'[i] = callers[i]
      /\ stack'[k + 1] = frame
  BY <1>1, <1>2, <1>3, <1>4
<1>7. /\ frame.node = p /\ frame.copy = AncestorCopy(p) /\ frame.parents = Parents(p)
  BY DEF frame
<1>8. DOMAIN stack' = 1..(k + 1)
  BY <1>6
<1>9. ASSUME NEW i \in 1..k
      PROVE  /\ stack'[i].node = stack[i].node /\ stack'[i].copy = stack[i].copy
             /\ stack'[i].parents = IF i = k THEN stack[i].parents \ {p} ELSE stack[i].parents
  <2>1. CASE i = k
    BY <1>1, <1>5, <1>6, <2>1
  <2>2. CASE i # k
    <3>1. i \in 1..(k - 1)
      BY <1>1, <2>2
    <3>2. stack'[i] = stack[i]
      BY <1>5, <1>6, <3>1
    <3>3. QED
      BY <2>2, <3>2
  <2>3. QED
    BY <2>1, <2>2
<1>10. QED
  BY <1>6, <1>7, <1>8, <1>9

LEMMA ReturnFrames ==
  ASSUME TypeOK, ReturnFromAncestors
  PROVE  /\ stack' \in Seq(Frame)
         /\ DOMAIN stack' = 1..(Len(stack) - 1)
         /\ \A i \in 1..(Len(stack) - 1) : stack'[i] = stack[i]
         /\ stack[Len(stack)].parents = {}
<1>1. Len(stack) \in Nat \ {0} /\ stack \in Seq(Frame)
  BY TopFrame DEF ReturnFromAncestors, TypeOK
<1>2. stack' = [i \in 1..(Len(stack) - 1) |-> stack[i]]
  BY DEF ReturnFromAncestors, Front
<1>3. QED
  BY <1>1, <1>2, TopFrame DEF ReturnFromAncestors

\* What AddParent does to the graph's nodes.
LEMMA ParentAdded ==
  ASSUME TypeOK, Inputs, Copies, Within, NEW p \in Node, AddParent(p)
  PROVE  DOMAIN graph' = DOMAIN graph \cup {p}
<1> DEFINE shouldProcess == includeParents /\ p \in valid
           old == GraphWith(p, shouldProcess)
           top == Last(stack)
<1>1. graph' = Put(Put(old, p, AncestorCopy(p)), top.node, top.copy)
  BY DEF AddParent
<1>2. Added(p, shouldProcess) \in Copy
  <2>1. shouldProcess \in BOOLEAN
    OBVIOUS
  <2>2. QED
    BY <2>1, AddedFits
<1>3. top.node \in DOMAIN graph
  BY TopFrame DEF AddParent, Within
<1> HIDE DEF shouldProcess, top
<1>4. DOMAIN old = DOMAIN graph \cup {p}
  BY <1>2, GraphWithType
<1> HIDE DEF old
<1>5. QED
  BY <1>1, <1>3, <1>4 DEF Put

-----------------------------------------------------------------------------
(* Types and inputs *)

LEMMA TypeStep ==
  ASSUME TypeOK, Inputs, Copies, Within, [Next]_vars
  PROVE  TypeOK' /\ Inputs'
<1>1. CASE Building \/ UNCHANGED vars
  <2>1. pending' \subseteq Node /\ inputEdges' \subseteq Node \X Node
    BY <1>1 DEF Building, AddDescriptor, FailTemplate, EndBuild, TypeOK
  <2>2. UNCHANGED <<inputVars, outputVars>> /\ phase' \in {phase} \cup
          {"build", "check", "templateError", "missingError", "selfError", "cycleError"}
    BY <1>1, BuildingSteps
  <2>3. QED
    BY <2>1, <2>2 DEF TypeOK, Inputs
<1>2. CASE StartSubGraph
  BY <1>2 DEF StartSubGraph, TypeOK, Inputs
<1>3. CASE EndSubGraph
  BY <1>3 DEF EndSubGraph, TypeOK, Inputs
<1>4. CASE ReturnFromAncestors
  <2>1. stack' \in Seq(Frame)
    BY <1>4, ReturnFrames
  <2>2. QED
    BY <1>4, <2>1 DEF ReturnFromAncestors, TypeOK, Inputs
<1>5. ASSUME NEW n \in Node, AddSelected(n) PROVE TypeOK' /\ Inputs'
  <2>1. Added(n, n \in valid) \in Copy
    <3>1. (n \in valid) \in BOOLEAN
      OBVIOUS
    <3>2. QED
      BY <3>1, AddedFits
  <2>2. table' \in Partial(Copy) /\ graph' \in Partial(Copy)
    <3>1. table' = Put(table, n, Added(n, n \in valid)) /\ graph' = GraphWith(n, n \in valid)
      BY <1>5 DEF AddSelected
    <3>2. table \in Partial(Copy)
      BY DEF TypeOK
    <3>3. QED
      BY <2>1, <3>1, <3>2, PutType, GraphWithType
  <2>3. DOMAIN graph' \subseteq DOMAIN table' /\ DOMAIN graph \subseteq DOMAIN graph'
    <3>1. table' = Put(table, n, Added(n, n \in valid)) /\ graph' = GraphWith(n, n \in valid)
      BY <1>5 DEF AddSelected
    <3>2. QED
      <4>1. DOMAIN table' = DOMAIN table \cup {n}
        BY <3>1 DEF Put
      <4>2. DOMAIN graph' = DOMAIN graph \cup {n}
        BY <2>1, <3>1, GraphWithType
      <4>3. QED
        BY <4>1, <4>2 DEF Copies
  <2>4. stack' \in Seq(Frame)
    <3>1. [Added(n, n \in valid) EXCEPT !.conditionsValid = n \in valid] \in Copy
      <4>1. (n \in valid) \in BOOLEAN
        OBVIOUS
      <4> HIDE DEF Added
      <4>2. \A c \in Copy, b \in BOOLEAN : [c EXCEPT !.conditionsValid = b] \in Copy
        BY DEF Copy
      <4>3. QED
        BY <2>1, <4>1, <4>2, Zenon
    <3>2. QED
      BY <1>5, <3>1 DEF AddSelected, Frame, Parents
  <2>5. UNCHANGED <<inputVars, phase, buildVars, edges>> /\ names' \subseteq names
    BY <1>5 DEF AddSelected
  <2>6. edges' \subseteq (DOMAIN graph') \X (DOMAIN graph')
    <3>1. edges \subseteq (DOMAIN graph) \X (DOMAIN graph)
      BY DEF TypeOK
    <3>2. QED
      BY <2>3, <2>5, <3>1
  <2>7. QED
    BY <2>2, <2>3, <2>4, <2>5, <2>6 DEF TypeOK, Inputs
<1>6. ASSUME NEW p \in Node, AddParent(p) PROVE TypeOK' /\ Inputs'
  <2> DEFINE shouldProcess == includeParents /\ p \in valid
             top == Last(stack)
  <2>1. Added(p, shouldProcess) \in Copy /\ AncestorCopy(p) \in Copy
    <3>1. shouldProcess \in BOOLEAN
      OBVIOUS
    <3>2. QED
      BY <3>1, AddedFits
  <2>2. top.node \in Node /\ top.copy \in Copy /\ top.node \in DOMAIN graph
    BY <1>6, TopFrame DEF AddParent, Frame, Within
  <2>3. /\ table' = Put(table, p, Added(p, shouldProcess))
        /\ graph' = Put(Put(GraphWith(p, shouldProcess), p, AncestorCopy(p)), top.node, top.copy)
        /\ edges' = edges \cup {<<p, top.node>>}
        /\ UNCHANGED <<inputVars, phase, buildVars, names>>
    BY <1>6 DEF AddParent
  <2> HIDE DEF top, shouldProcess
  <2> DEFINE old == GraphWith(p, shouldProcess)
             withParent == Put(old, p, AncestorCopy(p))
  <2>4. old \in Partial(Copy) /\ DOMAIN old = DOMAIN graph \cup {p}
    BY <2>1, GraphWithType
  <2> HIDE DEF old
  <2>4a. withParent \in Partial(Copy) /\ DOMAIN withParent = DOMAIN graph \cup {p}
    <3>1. withParent \in Partial(Copy)
      BY <2>1, <2>4, PutType
    <3>2. DOMAIN withParent = DOMAIN old \cup {p}
      BY DEF Put
    <3>3. QED
      BY <2>4, <3>1, <3>2
  <2>4b. graph' = Put(withParent, top.node, top.copy)
    BY <2>3 DEF old
  <2> HIDE DEF withParent
  <2>5. table' \in Partial(Copy) /\ graph' \in Partial(Copy)
    <3>1. table \in Partial(Copy)
      BY DEF TypeOK
    <3>2. QED
      BY <2>1, <2>2, <2>3, <2>4a, <2>4b, <3>1, PutType
  <2>6. DOMAIN graph' = DOMAIN graph \cup {p} /\ DOMAIN table' = DOMAIN table \cup {p}
    BY <2>2, <2>3, <2>4a, <2>4b DEF Put
  <2>7. stack' \in Seq(Frame)
    BY <1>6, CallFrames
  <2>8. edges' \subseteq (DOMAIN graph') \X (DOMAIN graph')
    <3>1. edges \subseteq (DOMAIN graph) \X (DOMAIN graph)
      BY DEF TypeOK
    <3>2. QED
      BY <2>2, <2>3, <2>6, <3>1
  <2>9. DOMAIN graph' \subseteq DOMAIN table'
    BY <2>6 DEF Copies
  <2>10. QED
    BY <2>3, <2>5, <2>7, <2>8, <2>9 DEF TypeOK, Inputs
<1>7. QED
  BY <1>1, <1>2, <1>3, <1>4, <1>5, <1>6, Steps

-----------------------------------------------------------------------------
(* Dependencies *)

LEMMA CollectedStep ==
  ASSUME TypeOK, Collected, [Next]_vars
  PROVE  Collected'
<1>0. declared' = declared /\ sequential' = sequential
  BY DEF Next, AddDescriptor, FailTemplate, EndBuild, StartSubGraph, AddSelected, AddParent,
         ReturnFromAncestors, EndSubGraph
<1>1. \A n : DependsOn(n)' = DependsOn(n)
  BY <1>0 DEF DependsOn, Previous
<1>2. CASE Building
  <2>1. CASE EndBuild
    <3>1. UNCHANGED inputEdges /\ pending' = {} /\ pending = {}
          /\ phase' = IF isAcyclic THEN "check" ELSE "cycleError"
      BY <2>1 DEF EndBuild
    <3>2. (\A n : Parents(n)' = Parents(n)) /\ (isAcyclic' <=> isAcyclic)
      BY <3>1 DEF Parents, isAcyclic
    <3>3. QED
      BY <1>1, <3>1, <3>2 DEF Collected
  <2>2. CASE FailTemplate
    BY <1>1, <2>2 DEF FailTemplate, Collected, Parents
  <2>3. ASSUME NEW n \in Node, AddDescriptor(n) PROVE Collected'
    <3>1. phase = "build" /\ phase' \in {"build", "missingError", "selfError"}
      BY <2>3 DEF AddDescriptor
    <3>2. CASE UNCHANGED buildVars
      BY <1>1, <3>1, <3>2 DEF Collected, Parents
    <3>3. CASE ~UNCHANGED buildVars
      <4>1. /\ n \in pending /\ pending' = pending \ {n}
            /\ DependsOn(n) \subseteq Node \ {n}
            /\ inputEdges' = inputEdges \cup {<<d, n>> : d \in DependsOn(n)}
        BY <2>3, <3>3 DEF AddDescriptor
      <4>2. \A m \in Node : Parents(m)' = IF m = n THEN Parents(m) \cup DependsOn(n) ELSE Parents(m)
        BY <4>1 DEF Parents
      <4>3. QED
        BY <1>1, <3>1, <4>1, <4>2 DEF Collected
    <3>4. QED
      BY <3>2, <3>3
  <2>4. QED
    BY <1>2, <2>1, <2>2, <2>3 DEF Building
<1>3. ASSUME UNCHANGED buildVars,
             phase' \in {"check", "select", "created"} => phase \in {"check", "select", "created"}
      PROVE  Collected'
  BY <1>1, <1>3 DEF Collected, Parents, isAcyclic
<1>4. CASE StartSubGraph \/ EndSubGraph \/ ReturnFromAncestors \/ UNCHANGED vars
  BY <1>3, <1>4 DEF StartSubGraph, EndSubGraph, ReturnFromAncestors
<1>5. ASSUME NEW n \in Node, AddSelected(n) \/ AddParent(n) PROVE Collected'
  BY <1>3, <1>5 DEF AddSelected, AddParent
<1>6. QED
  BY <1>2, <1>4, <1>5, Steps

LEMMA NotBeforeStep ==
  ASSUME NotBefore, [Next]_vars
  PROVE  NotBefore'
<1>1. CASE Building \/ UNCHANGED vars
  BY <1>1, BuildingSteps DEF NotBefore, Deciding
<1>2. CASE StartSubGraph \/ EndSubGraph \/ ReturnFromAncestors
  BY <1>2 DEF StartSubGraph, EndSubGraph, ReturnFromAncestors, NotBefore, Deciding
<1>3. ASSUME NEW n \in Node, AddSelected(n) \/ AddParent(n) PROVE NotBefore'
  BY <1>3 DEF AddSelected, AddParent, NotBefore, Deciding
<1>4. QED
  BY <1>1, <1>2, <1>3, Steps

-----------------------------------------------------------------------------
(* Copies of nodes *)

LEMMA SameInputs ==
  ASSUME UNCHANGED inputVars
  PROVE  \A m, c : (Kept(m, c)' <=> Kept(m, c)) /\ (Fits(m, c)' <=> Fits(m, c))
BY DEF Kept, Fits

\* What addNode returns, and what subGraph corrects in it.
LEMMA SelectedFits ==
  ASSUME TypeOK, Inputs, Copies, NEW n \in selected
  PROVE  /\ Added(n, n \in valid) \in Copy
         /\ n \notin DOMAIN table => Fits(n, Added(n, n \in valid))
         /\ Kept(n, Added(n, n \in valid))
         /\ Fits(n, [Added(n, n \in valid) EXCEPT !.conditionsValid = n \in valid])
<1>1. PICK b \in BOOLEAN : b = (n \in valid)
  <2>1. (n \in valid) \in BOOLEAN
    OBVIOUS
  <2>2. QED
    BY <2>1, Zenon
<1>2. n \in Node /\ Added(n, b) \in Copy /\ Kept(n, Added(n, b))
  <2>1. n \in Node
    BY DEF Inputs
  <2>2. Added(n, b) \in Copy
    BY <2>1, AddedFits
  <2>3. Kept(n, Added(n, n \in valid))
    BY <2>1, AddedFits
  <2>4. QED
    BY <1>1, <2>1, <2>2, <2>3, Zenon
<1>3. n \notin DOMAIN table => Added(n, b).conditionsValid = b
  BY DEF Added
<1>4. n \notin DOMAIN table => Fits(n, Added(n, b))
  BY <1>1, <1>2, <1>3 DEF Fits
<1>5. Fits(n, [Added(n, b) EXCEPT !.conditionsValid = b])
  <2>1. PICK c \in Copy : c = Added(n, b)
    BY <1>2
  <2>2. [c EXCEPT !.conditionsValid = b].marked = c.marked /\ [c EXCEPT !.conditionsValid = b].conditionsValid = b
    BY DEF Copy
  <2>3. Fits(n, [c EXCEPT !.conditionsValid = b])
    BY <1>1, <1>2, <2>1, <2>2 DEF Fits, Kept
  <2>4. QED
    BY <2>1, <2>3
<1>6. QED
  BY <1>1, <1>2, <1>4, <1>5, Zenon

LEMMA CopiesStep ==
  ASSUME TypeOK, Inputs, NotBefore, Copies, Within, [Next]_vars
  PROVE  Copies'
<1>1. CASE Building
  <2>1. (table = <<>> /\ graph = <<>> /\ stack = <<>>)'
    BY <1>1, BuildingSteps DEF NotBefore, Deciding
  <2>2. QED
    BY <2>1 DEF Copies
<1>2. CASE StartSubGraph
  <2>1. (table = <<>> /\ graph = <<>> /\ stack = <<>>)'
    BY <1>2 DEF StartSubGraph, NotBefore, Deciding
  <2>2. QED
    BY <2>1 DEF Copies
<1>3. CASE EndSubGraph \/ UNCHANGED vars
  BY <1>3, SameInputs DEF EndSubGraph, Copies
<1>4. CASE ReturnFromAncestors
  <2>1. UNCHANGED <<inputVars, table, graph>>
    BY <1>4 DEF ReturnFromAncestors
  <2>2. DOMAIN stack' \subseteq DOMAIN stack /\ \A i \in DOMAIN stack' : stack'[i] = stack[i]
    BY <1>4, ReturnFrames, TopFrame DEF ReturnFromAncestors
  <2>3. QED
    BY <2>1, <2>2, SameInputs DEF Copies
<1>5. ASSUME NEW n \in Node, AddSelected(n) PROVE Copies'
  <2> DEFINE added == Added(n, n \in valid)
             corrected == [added EXCEPT !.conditionsValid = n \in valid]
  <2>1. /\ table' = Put(table, n, added)
        /\ graph' = GraphWith(n, n \in valid)
        /\ stack' = <<[node |-> n, copy |-> corrected, parents |-> Parents(n)]>>
        /\ UNCHANGED inputVars
    BY <1>5 DEF AddSelected
  <2>2. n \in selected
    BY <1>5 DEF AddSelected, IsFirst, Within
  <2>3. /\ added \in Copy
        /\ n \notin DOMAIN table => Fits(n, added)
        /\ Kept(n, added) /\ Fits(n, corrected)
    BY <2>2, SelectedFits
  <2>4. /\ DOMAIN graph' = DOMAIN graph \cup {n}
        /\ \A m \in DOMAIN graph \cup {n} :
             graph'[m] = IF n \in DOMAIN graph THEN graph[m] ELSE IF m = n THEN added ELSE graph[m]
    BY <2>1, <2>3, GraphWithType
  <2> HIDE DEF added, corrected
  <2>5. /\ DOMAIN table' = DOMAIN table \cup {n}
        /\ \A m \in DOMAIN table \cup {n} : table'[m] = IF m = n THEN added ELSE table[m]
    BY <2>1 DEF Put
  <2>6. \A i \in DOMAIN stack' : stack'[i].node = n /\ stack'[i].copy = corrected
    BY <2>1
  <2>7. \A m \in DOMAIN graph' : Fits(m, graph'[m]) /\ Kept(m, table'[m])
    BY <2>3, <2>4, <2>5 DEF Copies
  <2>8. QED
    BY <2>1, <2>3, <2>4, <2>5, <2>6, <2>7, SameInputs DEF Copies
<1>6. ASSUME NEW p \in Node, AddParent(p) PROVE Copies'
  <2> DEFINE shouldProcess == includeParents /\ p \in valid
             added == Added(p, shouldProcess)
             old == GraphWith(p, shouldProcess)
             top == Last(stack)
  <2>1. /\ table' = Put(table, p, added)
        /\ graph' = Put(Put(old, p, AncestorCopy(p)), top.node, top.copy)
        /\ UNCHANGED inputVars
    BY <1>6 DEF AddParent
  <2>2. added \in Copy /\ Kept(p, added) /\ Fits(p, AncestorCopy(p))
    <3>1. shouldProcess \in BOOLEAN
      OBVIOUS
    <3>2. QED
      BY <3>1, AddedFits
  <2> HIDE DEF shouldProcess, top
  <2>3. /\ DOMAIN old = DOMAIN graph \cup {p}
        /\ \A m \in DOMAIN graph : m # p => old[m] = graph[m]
    BY <2>2, GraphWithType
  <2>4. top.node \in DOMAIN graph /\ Fits(top.node, top.copy)
    BY <1>6, TopFrame DEF AddParent, Within, Copies, top
  <2> HIDE DEF added, old
  <2>5. /\ DOMAIN table' = DOMAIN table \cup {p}
        /\ \A m \in DOMAIN table \cup {p} : table'[m] = IF m = p THEN added ELSE table[m]
    BY <2>1 DEF Put
  <2>6. /\ DOMAIN graph' = DOMAIN graph \cup {p}
        /\ \A m \in DOMAIN graph \cup {p} :
             graph'[m] = IF m = top.node THEN top.copy ELSE IF m = p THEN AncestorCopy(p) ELSE old[m]
    BY <2>1, <2>3, <2>4 DEF Put
  <2>7. \A m \in DOMAIN graph' : Fits(m, graph'[m]) /\ Kept(m, table'[m])
    BY <2>2, <2>3, <2>4, <2>5, <2>6 DEF Copies
  <2>8. \A i \in DOMAIN stack' : Fits(stack'[i].node, stack'[i].copy)
    <3>1. /\ DOMAIN stack' = 1..(Len(stack) + 1) /\ DOMAIN stack = 1..Len(stack) /\ Len(stack) \in Nat
          /\ \A i \in 1..Len(stack) : stack'[i].node = stack[i].node /\ stack'[i].copy = stack[i].copy
      BY <1>6, CallFrames, TopFrame DEF AddParent
    <3>2. stack'[Len(stack) + 1].node = p /\ stack'[Len(stack) + 1].copy = AncestorCopy(p)
      BY <1>6, CallFrames
    <3>3. QED
      BY <2>2, <3>1, <3>2 DEF Copies
  <2>9. DOMAIN graph' = DOMAIN table'
    BY <2>5, <2>6 DEF Copies
  <2>10. QED
    BY <2>1, <2>7, <2>8, <2>9, SameInputs DEF Copies
<1>7. QED
  BY <1>1, <1>2, <1>3, <1>4, <1>5, <1>6, Steps
-----------------------------------------------------------------------------
(* The selected nodes and their ancestors *)

LEMMA SameClosed ==
  ASSUME UNCHANGED <<inputVars, inputEdges>>
  PROVE  /\ \A n : Parents(n)' = Parents(n)
         /\ \A S : Closed(S)' <=> Closed(S)
<1>1. \A n : Parents(n)' = Parents(n)
  BY DEF Parents
<1>2. QED
  BY <1>1 DEF Closed

LEMMA WithinStep ==
  ASSUME TypeOK, Inputs, NotBefore, Copies, Within, [Next]_vars
  PROVE  Within'
<1>1. CASE Building
  <2>1. (names = {} /\ graph = <<>> /\ edges = {} /\ stack = <<>>)'
    BY <1>1, BuildingSteps DEF NotBefore, Deciding
  <2>2. QED
    BY <2>1 DEF Within
<1>2. CASE StartSubGraph
  <2>1. (names = selected /\ graph = <<>> /\ edges = {} /\ stack = <<>>)'
    BY <1>2 DEF StartSubGraph, NotBefore, Deciding
  <2>2. QED
    BY <2>1 DEF Within
<1>3. CASE EndSubGraph \/ UNCHANGED vars
  BY <1>3, SameClosed DEF EndSubGraph, Within
<1>4. CASE ReturnFromAncestors
  <2>1. UNCHANGED <<inputVars, buildVars, names, graph, edges>>
    BY <1>4 DEF ReturnFromAncestors
  <2>2. DOMAIN stack' \subseteq DOMAIN stack /\ \A i \in DOMAIN stack' : stack'[i] = stack[i]
    BY <1>4, ReturnFrames, TopFrame DEF ReturnFromAncestors
  <2>3. QED
    BY <2>1, <2>2, SameClosed DEF Within
<1>5. ASSUME NEW n \in Node, AddSelected(n) PROVE Within'
  <2>1. /\ graph' = GraphWith(n, n \in valid)
        /\ n \in names /\ names' = names \ {n}
        /\ UNCHANGED <<inputVars, buildVars, edges>>
    BY <1>5 DEF AddSelected, IsFirst
  <2>2. \A i \in DOMAIN stack' : stack'[i].node = n /\ stack'[i].parents = Parents(n)
    BY <1>5 DEF AddSelected
  <2>3. n \in selected
    BY <2>1 DEF Within
  <2>4. DOMAIN graph' = DOMAIN graph \cup {n}
    BY <2>1, <2>3, SelectedFits, GraphWithType
  <2>5. \A S \in SUBSET Node : Closed(S) => DOMAIN graph' \subseteq S
    BY <2>3, <2>4 DEF Within, Closed
  <2>6. \A i \in DOMAIN stack' :
          stack'[i].node \in DOMAIN graph' /\ stack'[i].parents \subseteq Parents(stack'[i].node)
    BY <2>2, <2>4
  <2>7. QED
    BY <2>1, <2>5, <2>6, SameClosed DEF Within
<1>6. ASSUME NEW p \in Node, AddParent(p) PROVE Within'
  <2>a. PICK k \in Nat : k = Len(stack)
    BY <1>6, TopFrame DEF AddParent
  <2> DEFINE top == stack[k]
  <2>0. /\ DOMAIN stack' = 1..(k + 1)
        /\ \A i \in 1..k :
             /\ stack'[i].node = stack[i].node
             /\ stack'[i].parents = IF i = k THEN stack[i].parents \ {p} ELSE stack[i].parents
        /\ stack'[k + 1].node = p
        /\ stack'[k + 1].parents = Parents(p)
    BY <1>6, <2>a, CallFrames
  <2>1. k \in DOMAIN stack /\ DOMAIN stack = 1..k /\ Last(stack) = top
    BY <1>6, <2>a, TopFrame DEF AddParent
  <2>2. p \in top.parents /\ edges' = edges \cup {<<p, top.node>>}
        /\ UNCHANGED <<inputVars, buildVars, names>>
    BY <1>6, <2>1 DEF AddParent
  <2>3. top.node \in DOMAIN graph /\ p \in Parents(top.node)
    BY <2>1, <2>2 DEF Within
  <2>4. <<p, top.node>> \in inputEdges
    BY <2>3 DEF Parents
  <2>5. DOMAIN graph' = DOMAIN graph \cup {p}
    BY <1>6, ParentAdded
  <2>6. \A S \in SUBSET Node : Closed(S) => p \in S
    BY <2>3 DEF Within, Closed
  <2>7. \A i \in DOMAIN stack' :
          stack'[i].node \in DOMAIN graph' /\ stack'[i].parents \subseteq Parents(stack'[i].node)
    <3>1. ASSUME NEW i \in 1..k
          PROVE  stack'[i].node \in DOMAIN graph' /\ stack'[i].parents \subseteq Parents(stack'[i].node)
      BY <2>0, <2>1, <2>5 DEF Within
    <3>2. QED
      BY <2>0, <2>1, <2>5, <3>1
  <2> HIDE DEF top
  <2>8. QED
    BY <2>2, <2>4, <2>5, <2>6, <2>7, SameClosed DEF Within
<1>7. QED
  BY <1>1, <1>2, <1>3, <1>4, <1>5, <1>6, Steps

LEMMA CoveringStep ==
  ASSUME TypeOK, Inputs, NotBefore, Copies, Within, Covering, [Next]_vars
  PROVE  Covering'
<1>1. CASE Building
  <2>1. (~Deciding /\ graph = <<>>)'
    BY <1>1, BuildingSteps DEF NotBefore, Deciding
  <2>2. QED
    BY <2>1 DEF Covering, Deciding
<1>2. CASE StartSubGraph
  <2>1. (names = selected /\ graph = <<>> /\ phase = "select")'
    BY <1>2 DEF StartSubGraph, NotBefore, Deciding
  <2>2. QED
    BY <2>1 DEF Covering
<1>3. CASE EndSubGraph \/ UNCHANGED vars
  BY <1>3, SameClosed DEF EndSubGraph, Covering, Awaited, Deciding
<1>4. CASE ReturnFromAncestors
  <2>1. UNCHANGED <<inputVars, buildVars, phase, names, graph, edges>> /\ phase = "select"
    BY <1>4 DEF ReturnFromAncestors
  <2>2. /\ DOMAIN stack = 1..Len(stack) /\ Len(stack) \in Nat
        /\ DOMAIN stack' = 1..(Len(stack) - 1)
        /\ \A i \in 1..(Len(stack) - 1) : stack'[i] = stack[i]
        /\ stack[Len(stack)].parents = {}
    BY <1>4, ReturnFrames, TopFrame DEF ReturnFromAncestors
  <2>3. \A p, n : Awaited(p, n) => Awaited(p, n)'
    BY <2>2 DEF Awaited
  <2>4. QED
    BY <2>1, <2>3, SameClosed DEF Covering, Deciding
<1>5. ASSUME NEW n \in Node, AddSelected(n) PROVE Covering'
  <2>1. /\ graph' = GraphWith(n, n \in valid)
        /\ n \in names /\ names' = names \ {n}
        /\ UNCHANGED <<inputVars, buildVars, phase, edges>>
        /\ phase = "select" /\ stack = <<>>
    BY <1>5 DEF AddSelected, IsFirst
  <2>2. DOMAIN graph' = DOMAIN graph \cup {n}
    BY <2>1, SelectedFits, GraphWithType DEF Within
  <2>3. \A p \in Parents(n) : Awaited(p, n)'
    <3>1. DOMAIN stack' = {1} /\ stack'[1].node = n /\ stack'[1].parents = Parents(n)
      BY <1>5 DEF AddSelected
    <3>2. QED
      BY <3>1 DEF Awaited
  <2>4. \A p, m : ~Awaited(p, m)
    BY <2>1 DEF Awaited
  <2>5. QED
    BY <2>1, <2>2, <2>3, <2>4, SameClosed DEF Covering, Deciding
<1>6. ASSUME NEW p \in Node, AddParent(p) PROVE Covering'
  <2>a. PICK k \in Nat : k = Len(stack)
    BY <1>6, TopFrame DEF AddParent
  <2> DEFINE top == stack[k]
  <2>0. /\ DOMAIN stack' = 1..(k + 1)
        /\ \A i \in 1..k :
             /\ stack'[i].node = stack[i].node
             /\ stack'[i].parents = IF i = k THEN stack[i].parents \ {p} ELSE stack[i].parents
        /\ stack'[k + 1].node = p
        /\ stack'[k + 1].parents = Parents(p)
    BY <1>6, <2>a, CallFrames
  <2>1. k \in DOMAIN stack /\ DOMAIN stack = 1..k /\ Last(stack) = top
    BY <1>6, <2>a, TopFrame DEF AddParent
  <2>2. edges' = edges \cup {<<p, top.node>>}
        /\ UNCHANGED <<inputVars, buildVars, phase, names>> /\ phase = "select"
    BY <1>6, <2>1 DEF AddParent
  <2>3. DOMAIN graph' = DOMAIN graph \cup {p}
    BY <1>6, ParentAdded
  <2>4. \A q \in Parents(p) : Awaited(q, p)'
    <3>1. k + 1 \in DOMAIN stack'
      BY <2>0, <2>1
    <3>2. QED
      BY <2>0, <3>1 DEF Awaited
  <2>5. ASSUME NEW m, NEW q, Awaited(q, m)
        PROVE  Awaited(q, m)' \/ <<q, m>> \in edges'
    <3>1. PICK i \in DOMAIN stack : stack[i].node = m /\ q \in stack[i].parents
      BY <2>5 DEF Awaited
    <3>2. i \in 1..k /\ i \in DOMAIN stack' /\ stack'[i].node = m
      <4>1. i \in 1..k
        BY <2>1
      <4>2. i \in 1..(k + 1)
        BY <4>1
      <4>3. QED
        BY <2>0, <3>1, <4>1, <4>2
    <3>3. CASE q \in stack'[i].parents
      BY <3>2, <3>3 DEF Awaited
    <3>4. CASE q \notin stack'[i].parents
      <4>1. i = k /\ q = p
        BY <2>0, <3>1, <3>2, <3>4
      <4>2. QED
        BY <2>2, <3>1, <4>1
    <3>5. QED
      BY <3>3, <3>4
  <2> HIDE DEF top
  <2>6. QED
    BY <2>2, <2>3, <2>4, <2>5, SameClosed DEF Covering, Deciding
<1>7. QED
  BY <1>1, <1>2, <1>3, <1>4, <1>5, <1>6, Steps

-----------------------------------------------------------------------------
LEMMA BuildBegins == Init => BuildInv
<1> SUFFICES ASSUME Init PROVE BuildInv
  OBVIOUS
<1> USE DEF Init
<1>1. TypeOK
  <2>1. table \in Partial(Copy) /\ graph \in Partial(Copy)
    <3>1. <<>> \in [{} -> Copy]
      OBVIOUS
    <3>2. QED
      BY <3>1 DEF Partial
  <2>2. QED
    BY <2>1 DEF TypeOK
<1>2. Inputs /\ NotBefore
  BY DEF Inputs, NotBefore
<1>3. Collected
  BY DEF Collected, Parents
<1>4. Copies /\ Within
  BY DEF Copies, Within
<1>5. Covering
  BY DEF Covering, Deciding
<1>6. QED
  BY <1>1, <1>2, <1>3, <1>4, <1>5 DEF BuildInv

\* BuildInv is an invariant of creating the DAG.
THEOREM BuildInvariant == Spec => []BuildInv
<1>1. BuildInv /\ [Next]_vars => BuildInv'
  <2> SUFFICES ASSUME BuildInv, [Next]_vars PROVE BuildInv'
    OBVIOUS
  <2>1. TypeOK' /\ Inputs' /\ Collected' /\ NotBefore'
    BY TypeStep, CollectedStep, NotBeforeStep DEF BuildInv
  <2>2. Copies' /\ Within' /\ Covering'
    BY CopiesStep, WithinStep, CoveringStep DEF BuildInv
  <2>3. QED
    BY <2>1, <2>2 DEF BuildInv
<1>2. QED
  BY <1>1, BuildBegins, PTL DEF Spec

(* Tables, graph and frames hold what they should in every state.           *)
THEOREM BuildTypeCorrect == Spec => []TypeOK
<1>1. BuildInv => TypeOK
  BY DEF BuildInv
<1>2. QED
  BY <1>1, BuildInvariant, PTL

(* Whatever is selected, the DAG has exactly the selected kapps and their   *)
(* ancestors, in whatever order addAncestors meets them and however many    *)
(* paths lead to one.                                                       *)
THEOREM OnlyAncestors == Spec => []ExactAncestry
<1>1. ASSUME BuildInv PROVE ExactAncestry
  <2> SUFFICES ASSUME phase = "created"
               PROVE  /\ DOMAIN graph = Ancestry
                      /\ edges = inputEdges \cap (Ancestry \X Ancestry)
    BY DEF ExactAncestry
  <2>0. DOMAIN graph \subseteq Node /\ edges \subseteq (DOMAIN graph) \X (DOMAIN graph)
        /\ inputEdges \subseteq Node \X Node
    <3>1. graph \in Partial(Copy)
      BY <1>1 DEF BuildInv, TypeOK
    <3>2. QED
      BY <1>1, <3>1, PartialValue DEF BuildInv, TypeOK
  <2>1. stack = <<>> /\ names = {}
    BY <1>1 DEF BuildInv, Covering
  <2>2. \A n \in DOMAIN graph : \A p \in Parents(n) : <<p, n>> \in edges
    <3>1. \A p, n : ~Awaited(p, n)
      BY <2>1 DEF Awaited
    <3>2. QED
      BY <1>1, <3>1 DEF BuildInv, Covering
  <2>3. Closed(DOMAIN graph)
    <3>1. selected \subseteq DOMAIN graph
      BY <1>1, <2>1 DEF BuildInv, Covering, Deciding
    <3>2. \A n \in DOMAIN graph : Parents(n) \subseteq DOMAIN graph
      BY <2>0, <2>2
    <3>3. QED
      BY <3>1, <3>2 DEF Closed
  <2>4. DOMAIN graph = Ancestry
    BY <1>1, <2>0, <2>3 DEF Ancestry, BuildInv, Within
  <2>5. edges = inputEdges \cap ((DOMAIN graph) \X (DOMAIN graph))
    <3>1. edges \subseteq inputEdges
      BY <1>1 DEF BuildInv, Within
    <3>2. \A p, n \in DOMAIN graph : <<p, n>> \in inputEdges => <<p, n>> \in edges
      BY <2>0, <2>2 DEF Parents
    <3>3. QED
      BY <2>0, <3>1, <3>2
  <2>6. QED
    BY <2>4, <2>5
<1>2. QED
  BY <1>1, BuildInvariant, PTL

(* No kapp is marked that nobody asked for, in whatever order the copies of *)
(* its node are stored.                                                     *)
THEOREM MarksAsked == Spec => []MarkedWereAskedFor
<1>1. BuildInv => MarkedWereAskedFor
  BY DEF BuildInv, Copies, Fits, Kept, MarkedWereAskedFor
<1>2. QED
  BY <1>1, BuildInvariant, PTL

(* The finished graph's copies say whether conditions hold, and mark every  *)
(* such kapp if ancestors are to be processed.                              *)
THEOREM CopiesRight == Spec => []CopiesAgree
<1>1. ASSUME BuildInv PROVE CopiesAgree
  <2>1. graph \in Partial(Copy)
    BY <1>1 DEF BuildInv, TypeOK
  <2>2. \A n \in DOMAIN graph : graph[n].marked \in BOOLEAN /\ graph[n].conditionsValid \in BOOLEAN
    BY <2>1, PartialValue DEF Copy
  <2>3. QED
    BY <1>1, <2>2 DEF BuildInv, Copies, Fits, Kept, CopiesAgree
<1>2. QED
  BY <1>1, BuildInvariant, PTL

(* A DAG is created exactly from the dependencies that were found, and only *)
(* if these have no cycle.                                                  *)
THEOREM DagsOnly == Spec => []OnlyDags
<1>1. BuildInv => OnlyDags
  BY DEF BuildInv, Collected, OnlyDags
<1>2. QED
  BY <1>1, BuildInvariant, PTL
=============================================================================
