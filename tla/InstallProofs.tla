----------------------------- MODULE InstallProofs -----------------------------
(***************************************************************************)
(* Theorems about what a kapp's files make of it and about what its run    *)
(* units do.                                                               *)
(*                                                                         *)
(* RunSteps, for any units, steps and limit of recursions.  Calls are      *)
(* replaced in rounds, and each call may be replaced with several lists,   *)
(* one for each order of the units.  That a list is one of those Inlined   *)
(* gives is shown in three parts: the rounds are taken apart from the first*)
(* one (FirstRound); what is left of a step after a number of rounds it may*)
(* stand for that many calls deep, with the priority of the outermost call *)
(* (LevelOfReplacement), and so, by induction over the rounds, with a list *)
(* of steps (RoundsAreLevels, InterpolatedIsInlined).  Sorting is by       *)
(* induction over the list (SortedFacts).  The invariant then says of the  *)
(* list that some computation for the outputs loaded so far gives it.      *)
(*                                                                         *)
(* KappDescriptor, for any programs and configurations.  A layer is added  *)
(* above all the others or below them; what is carried has then arrived at *)
(* the top, so that merging is looking there (TopIsMerged), and what was   *)
(* added counts if nothing above it gives the field (AppendMerges,         *)
(* PrependMerges).  The files loaded so far are neighbours in the order of *)
(* precedence, and the next one is always next to them.                    *)
(***************************************************************************)
EXTENDS RunSteps, KappDescriptor, SequenceFacts

-----------------------------------------------------------------------------
(* Sequences that are mapped one by one *)
Mapped(h, s) == [j \in DOMAIN s |-> h[s[j]]]

(* To map is to replace each element with one.                             *)
LEMMA MappedIsFlatMap ==
  ASSUME NEW T, NEW U, NEW h \in [T -> U]
  PROVE  \A s \in Seq(T) : Mapped(h, s) = FlatMap([e \in T |-> <<h[e]>>], s)
<1> DEFINE f == [e \in T |-> <<h[e]>>]
           S == {s \in Seq(T) : Mapped(h, s) = FlatMap(f, s)}
<1>1. Replaces(f, T, U) /\ \A e \in T : f[e] = <<h[e]>> /\ h[e] \in U
  BY DEF Replaces
<1> HIDE DEF f
<1>2. <<>> \in S
  <2>1. DOMAIN <<>> = {}
    BY EmptySeq, LenProperties
  <2>2. Mapped(h, <<>>) = <<>>
    BY <2>1 DEF Mapped
  <2>3. QED
    BY <2>2, FlatMapEmpty, EmptySeq
<1>3. ASSUME NEW s \in Seq(T), NEW e \in T, s \in S
      PROVE  Append(s, e) \in S
  <2> DEFINE st == Append(s, e)
  <2>1. /\ Len(s) \in Nat /\ st \in Seq(T) /\ Len(st) = Len(s) + 1
        /\ st[Len(s) + 1] = e /\ \A j \in 1..Len(s) : st[j] = s[j]
    BY LenProperties, AppendProperties
  <2>2. FlatMap(f, st) = FlatMap(f, s) \o <<h[e]>>
    <3>1. Replaces(f, T, U)
      BY <1>1
    <3>2. FlatMap(f, Append(s, e)) = FlatMap(f, s) \o f[e]
      BY <3>1, FlatMapAppend
    <3>3. QED
      BY <1>1, <3>2
  <2> HIDE DEF st
  <2>3. \A t \in Seq(T) : Mapped(h, t) \in Seq(U) /\ Len(Mapped(h, t)) = Len(t)
    <3> TAKE t \in Seq(T)
    <3>1. Len(t) \in Nat /\ DOMAIN t = 1..Len(t) /\ \A j \in 1..Len(t) : t[j] \in T
      BY LenProperties, ElementOfSeq
    <3> DEFINE m == Mapped(h, t)
    <3>2. m \in [1..Len(t) -> U]
      BY <3>1 DEF Mapped
    <3> HIDE DEF m
    <3>3. m \in Seq(U)
      BY <3>1, <3>2, SeqDef
    <3>4. DOMAIN m = 1..Len(t) /\ DOMAIN m = 1..Len(m) /\ Len(m) \in Nat
      BY <3>2, <3>3, LenProperties
    <3>5. Len(m) = Len(t)
      BY <3>1, <3>4
    <3>6. QED
      BY <3>3, <3>5 DEF m
  <2> DEFINE a == Mapped(h, s)
             b == Mapped(h, st)
             c == Append(a, h[e])
  <2>4. a \in Seq(U) /\ Len(a) = Len(s) /\ b \in Seq(U) /\ Len(b) = Len(s) + 1
    BY <2>1, <2>3
  <2>5. /\ b[Len(s) + 1] = h[e]
        /\ \A j \in 1..Len(s) : b[j] = a[j]
    <3>1. DOMAIN s = 1..Len(s) /\ DOMAIN st = 1..Len(st)
      BY <2>1, LenProperties
    <3>2. QED
      BY <2>1, <3>1 DEF Mapped
  <2> HIDE DEF a, b
  <2>6. c \in Seq(U) /\ Len(c) = Len(s) + 1 /\ c[Len(s) + 1] = h[e] /\ \A j \in 1..Len(s) : c[j] = a[j]
    BY <1>1, <2>4, AppendProperties
  <2>7. c = a \o <<h[e]>>
    BY <1>1, <2>4, AppendIsConcat
  <2> HIDE DEF c
  <2>8. \A j \in 1..(Len(s) + 1) : b[j] = c[j]
    <3> TAKE j \in 1..(Len(s) + 1)
    <3>1. CASE j = Len(s) + 1
      BY <2>5, <2>6, <3>1
    <3>2. CASE j \in 1..Len(s)
      BY <2>5, <2>6, <3>2
    <3>3. QED
      BY <2>1, <3>1, <3>2
  <2>9. b = c
    BY <2>4, <2>6, <2>8, SeqEqual
  <2>10. b = FlatMap(f, st)
    <3>1. a = FlatMap(f, s)
      BY <1>3 DEF a
    <3>2. QED
      BY <2>2, <2>7, <2>9, <3>1
  <2>11. QED
    BY <2>1, <2>10 DEF b, st
<1> HIDE DEF S
<1>4. Seq(T) \subseteq S
  BY <1>2, <1>3, SequenceInduction
<1>5. QED
  BY <1>4 DEF S, f

-----------------------------------------------------------------------------
(* Steps and their priorities *)
Prioritised(s, p) == IF p = NoPriority THEN s ELSE [s EXCEPT !.priority = p]

\* The steps of some run units, with whatever priorities.
Steps(units) == {Prioritised(s, p) : s \in RawSteps(units), p \in Priority}

(* A priority is all that is changed, and the last one given counts.       *)
LEMMA PrioritisedFacts ==
  ASSUME NEW s \in Step, NEW p \in Priority
  PROVE  /\ Prioritised(s, p) \in Step
         /\ Prioritised(s, p).priority = IF p = NoPriority THEN s.priority ELSE p
         /\ Prioritised(s, p).call = s.call /\ Prioritised(s, p).command = s.command
         /\ \A q \in Priority :
              Prioritised(Prioritised(s, p), q) = Prioritised(s, IF q = NoPriority THEN p ELSE q)
         /\ [s EXCEPT !.priority = s.priority] = s
  BY DEF Step, Prioritised

(* The priorities of steps, and the phases they call steps in.             *)
LEMMA StepFacts ==
  ASSUME NEW s \in Step
  PROVE  s.priority \in Priority /\ (IsCall(s) => s.call.phase \in Phase)
  BY DEF Step, IsCall

(* What run units have are steps.                                          *)
LEMMA RawStepsFacts ==
  ASSUME NEW units \in Seq(RunUnit)
  PROVE  /\ RawSteps(units) \subseteq Steps(units) /\ Steps(units) \subseteq Step
         /\ \A p \in Phase : AllSteps(units, p) \in Seq(RawSteps(units))
<1> DEFINE T == RawSteps(units)
<1>1. Len(units) \in Nat /\ DOMAIN units = 1..Len(units) /\ \A j \in 1..Len(units) : units[j] \in RunUnit
  BY LenProperties, ElementOfSeq
<1>2. \A j \in 1..Len(units) : \A p \in Phase : units[j].steps[p] \in Seq(Step)
  BY <1>1 DEF RunUnit
<1>3. \A j \in 1..Len(units) : \A p \in Phase :
        /\ ToSet(units[j].steps[p]) \subseteq Step
        /\ units[j].steps[p] \in Seq(ToSet(units[j].steps[p]))
  BY <1>2, ToSetFacts
<1>4. T \subseteq Step
  BY <1>1, <1>3 DEF RawSteps
<1>5. T \subseteq Steps(units)
  <2>1. \A s \in T : s = Prioritised(s, NoPriority) /\ NoPriority \in Priority
    BY DEF Prioritised, Priority
  <2>2. QED
    BY <2>1 DEF Steps
<1>6. Steps(units) \subseteq Step
  BY <1>4, PrioritisedFacts DEF Steps
<1>7. ASSUME NEW p \in Phase
      PROVE  AllSteps(units, p) \in Seq(T)
  <2> DEFINE parts == [j \in DOMAIN units |-> units[j].steps[p]]
  <2>1. ASSUME NEW j \in 1..Len(units)
        PROVE  units[j].steps[p] \in Seq(T)
    <3> DEFINE S == ToSet(units[j].steps[p])
    <3>1. S \subseteq T
      BY <1>1 DEF RawSteps
    <3>2. units[j].steps[p] \in Seq(S)
      BY <1>3
    <3> HIDE DEF S, T
    <3>3. QED
      BY <3>1, <3>2, SeqMonotonic
  <2> HIDE DEF T
  <2>2. parts \in [1..Len(units) -> Seq(T)]
    BY <1>1, <2>1
  <2> HIDE DEF parts
  <2>3. parts \in Seq(Seq(T))
    BY <1>1, <2>2, SeqDef
  <2>4. QED
    BY <2>3, FlattenType DEF AllSteps, parts
<1>8. QED
  BY <1>5, <1>6, <1>7

(* A step that is found is one that the units have.                        *)
LEMMA FindStepFacts ==
  ASSUME NEW units \in Seq(RunUnit), NEW call, call.phase \in Phase
  PROVE  FindStep(units, call) \in Seq(RawSteps(units))
<1> DEFINE T == RawSteps(units)
           steps == AllSteps(units, call.phase)
           named == Filtered(steps, {s \in ToSet(steps) : s.name = call.name})
<1>1. steps \in Seq(T)
  BY RawStepsFacts
<1> HIDE DEF steps, T
<1>2. named \in Seq(T)
  BY <1>1, FilteredFacts
<1>3. FindStep(units, call) = IF named = <<>> THEN <<>> ELSE <<named[1]>>
  BY DEF FindStep, steps
<1> HIDE DEF named
<1>4. named # <<>> => <<named[1]>> \in Seq(T)
  <2>1. named # <<>> => named[1] \in T
    BY <1>2, EmptySeq, LenProperties, ElementOfSeq
  <2>2. QED
    BY <2>1
<1>5. FindStep(units, call) \in Seq(T)
  BY <1>3, <1>4, EmptySeq
<1>6. QED
  BY <1>5 DEF T

\* What a call calls.
Called(units, s) ==
  IF s.call.name = Every THEN AllSteps(units, s.call.phase) ELSE FindStep(units, s.call)

\* Whether it is left as it is.
Left(units, s) == ~IsCall(s) \/ Unresolvable(units, s)

(* What is called are steps of the units.                                  *)
LEMMA CalledFacts ==
  ASSUME NEW units \in Seq(RunUnit), NEW s \in Step, IsCall(s)
  PROVE  Called(units, s) \in Seq(RawSteps(units))
<1>1. s.call.phase \in Phase
  BY StepFacts
<1>2. AllSteps(units, s.call.phase) \in Seq(RawSteps(units))
  BY <1>1, RawStepsFacts
<1>3. FindStep(units, s.call) \in Seq(RawSteps(units))
  BY <1>1, FindStepFacts
<1>4. QED
  BY <1>2, <1>3 DEF Called

(* Prioritising a list of steps.                                           *)
LEMMA WithPriorityFacts ==
  ASSUME NEW steps \in Seq(Step), NEW p \in Priority
  PROVE  LET h == [s \in Step |-> Prioritised(s, p)] IN
         WithPriority(steps, p) = Mapped(h, steps) /\ Outermost(p, steps) = Mapped(h, steps)
<1> DEFINE h == [s \in Step |-> Prioritised(s, p)]
<1>1. DOMAIN steps = 1..Len(steps) /\ \A j \in 1..Len(steps) : steps[j] \in Step
  BY LenProperties, ElementOfSeq
<1>2. Mapped(h, steps) = [j \in DOMAIN steps |-> Prioritised(steps[j], p)]
  BY <1>1 DEF Mapped
<1>3. WithPriority(steps, p) = [j \in DOMAIN steps |-> Prioritised(steps[j], p)]
  <2>1. CASE p = NoPriority
    <3>1. \A j \in DOMAIN steps : Prioritised(steps[j], p) = steps[j]
      BY <2>1 DEF Prioritised
    <3>2. steps = [j \in DOMAIN steps |-> steps[j]]
      BY <1>1, SeqDef
    <3>3. QED
      BY <2>1, <3>1, <3>2 DEF WithPriority
  <2>2. CASE p # NoPriority
    BY <2>2 DEF WithPriority, Prioritised
  <2>3. QED
    BY <2>1, <2>2
<1>4. Outermost(p, steps) = [j \in DOMAIN steps |-> Prioritised(steps[j], p)]
  <2>1. \A j \in DOMAIN steps :
          [steps[j] EXCEPT !.priority = IF p = NoPriority THEN @ ELSE p] = Prioritised(steps[j], p)
    <3> TAKE j \in DOMAIN steps
    <3>1. CASE p = NoPriority
      <4>1. [steps[j] EXCEPT !.priority = steps[j].priority] = steps[j]
        BY <1>1, PrioritisedFacts DEF Priority
      <4>2. QED
        BY <3>1, <4>1 DEF Prioritised
    <3>2. CASE p # NoPriority
      BY <3>2 DEF Prioritised
    <3>3. QED
      BY <3>1, <3>2
  <2>2. QED
    BY <2>1 DEF Outermost
<1>5. QED
  BY <1>2, <1>3, <1>4

\* One step, prioritised.
Single(p) == [s \in Step |-> <<Prioritised(s, p)>>]

(* Prioritising a list is prioritising its steps.                          *)
LEMMA PriorityIsFlatMap ==
  ASSUME NEW steps \in Seq(Step), NEW p \in Priority
  PROVE  /\ WithPriority(steps, p) = FlatMap(Single(p), steps)
         /\ Outermost(p, steps) = FlatMap(Single(p), steps)
         /\ Replaces(Single(p), Step, Step)
<1> DEFINE h == [s \in Step |-> Prioritised(s, p)]
<1>1. h \in [Step -> Step] /\ \A s \in Step : h[s] = Prioritised(s, p)
  BY PrioritisedFacts
<1>2. WithPriority(steps, p) = Mapped(h, steps) /\ Outermost(p, steps) = Mapped(h, steps)
  BY WithPriorityFacts
<1> DEFINE f == [s \in Step |-> <<h[s]>>]
<1>3. f = Single(p)
  BY <1>1 DEF Single
<1> HIDE DEF h
<1>4. Mapped(h, steps) = FlatMap(f, steps)
  BY <1>1, MappedIsFlatMap
<1>5. Replaces(Single(p), Step, Step)
  BY PrioritisedFacts DEF Single, Replaces
<1>6. QED
  BY <1>2, <1>3, <1>4, <1>5

(* What a step is replaced with.                                           *)
LEMMA ReplacementFacts ==
  ASSUME NEW units \in Seq(RunUnit), NEW s \in Steps(units)
  PROVE  /\ Left(units, s) => Replacement(units, s) = <<s>>
         /\ ~Left(units, s) => /\ Called(units, s) \in Seq(Step)
                               /\ Replacement(units, s) = FlatMap(Single(s.priority), Called(units, s))
         /\ Replacement(units, s) \in Seq(Steps(units))
<1> DEFINE R == RawSteps(units)
           T == Steps(units)
<1>1. R \subseteq T /\ R \subseteq Step /\ s \in Step /\ s.priority \in Priority
  BY RawStepsFacts, StepFacts
<1>2. CASE Left(units, s)
  <2>1. Replacement(units, s) = <<s>>
    BY <1>2 DEF Left, Replacement
  <2>2. <<s>> \in Seq(T)
    OBVIOUS
  <2>3. QED
    BY <1>2, <2>1, <2>2
<1>3. CASE ~Left(units, s)
  <2> DEFINE called == Called(units, s)
  <2>1. called \in Seq(R)
    BY <1>1, <1>3, CalledFacts DEF Left
  <2>2. Replacement(units, s) = WithPriority(called, s.priority)
    BY <1>3 DEF Left, Replacement, Called
  <2> HIDE DEF called
  <2>3. called \in Seq(Step)
    <3> HIDE DEF R
    <3>1. QED
      BY <1>1, <2>1, SeqMonotonic
  <2>4. Replacement(units, s) = FlatMap(Single(s.priority), called)
    BY <1>1, <2>2, <2>3, PriorityIsFlatMap
  <2>5. FlatMap(Single(s.priority), called) \in Seq(T)
    <3> DEFINE f == Single(s.priority)
    <3>1. Replaces([r \in R |-> f[r]], R, T)
      <4>1. \A r \in R : <<Prioritised(r, s.priority)>> \in Seq(T)
        BY <1>1 DEF Steps
      <4>2. QED
        BY <1>1, <4>1 DEF Replaces, Single
    <3> DEFINE g == [r \in R |-> f[r]]
    <3>2. \A r \in R : g[r] = f[r]
      OBVIOUS
    <3> HIDE DEF f, g, R
    <3>3. FlatMap(g, called) = FlatMap(f, called)
      BY <2>1, <3>2, FlatMapAgree
    <3>4. FlatMap(g, called) \in Seq(T)
      <4>1. Replaces(g, R, T)
        BY <3>1 DEF g
      <4> HIDE DEF T
      <4>2. QED
        BY <2>1, <4>1, FlatMapType
    <3>5. QED
      BY <3>3, <3>4 DEF f
  <2>6. QED
    BY <1>3, <2>3, <2>4, <2>5 DEF called
<1>4. QED
  BY <1>2, <1>3

(* Prioritising twice is prioritising once.                                *)
LEMMA SingleTwice ==
  ASSUME NEW p \in Priority, NEW q \in Priority, NEW list \in Seq(Step)
  PROVE  FlatMap(Single(p), FlatMap(Single(q), list)) = FlatMap(Single(IF p = NoPriority THEN q ELSE p), list)
<1> DEFINE f == Single(q)
           g == Single(p)
           k == Single(IF p = NoPriority THEN q ELSE p)
           h == [s \in Step |-> FlatMap(g, f[s])]
<1>1. Replaces(f, Step, Step) /\ Replaces(g, Step, Step)
  BY PriorityIsFlatMap, EmptySeq
<1>2. \A s \in Step : /\ f[s] = <<Prioritised(s, q)>> /\ Prioritised(s, q) \in Step
                      /\ g[Prioritised(s, q)] = k[s]
  <2> TAKE s \in Step
  <2>1. Prioritised(s, q) \in Step
    BY PrioritisedFacts
  <2>2. Prioritised(Prioritised(s, q), p) = Prioritised(s, IF p = NoPriority THEN q ELSE p)
    BY PrioritisedFacts
  <2>3. QED
    BY <2>1, <2>2 DEF Single
<1> HIDE DEF f, g, k
<1>3. \A s \in Step : h[s] = k[s]
  <2> TAKE s \in Step
  <2> DEFINE e == Prioritised(s, q)
  <2>1. e \in Step /\ f[s] = <<e>> /\ g[e] = k[s]
    BY <1>2
  <2> HIDE DEF e
  <2>2. FlatMap(g, <<e>>) = g[e]
    BY <1>1, <2>1, FlatMapOne
  <2>3. QED
    BY <2>1, <2>2
<1>4. FlatMap(g, FlatMap(f, list)) = FlatMap(h, list)
  BY <1>1, FlatMapTwice
<1> HIDE DEF h
<1>5. FlatMap(h, list) = FlatMap(k, list)
  BY <1>3, FlatMapAgree
<1>6. QED
  BY <1>4, <1>5 DEF f, g, k

-----------------------------------------------------------------------------
(* Orders *)

(* An order has all the units.                                             *)
LEMMA OrderFacts ==
  ASSUME NEW o \in Orders
  PROVE  o \in Seq(Unit) /\ ToSet(o) = Unit
<1> DEFINE n == Cardinality(Unit)
<1>1. n \in Nat /\ IsFiniteSet(Unit)
  BY UnitsAssumption, FS_CardinalityType
<1>2. o \in [1..n -> Unit] /\ \A a, b \in 1..n : a # b => o[a] # o[b]
  BY DEF Orders, SetToSeqs
<1> HIDE DEF n
<1>3. o \in Seq(Unit)
  BY <1>1, <1>2, SeqDef
<1>4. Len(o) = n
  <2>1. DOMAIN o = 1..n /\ DOMAIN o = 1..Len(o) /\ Len(o) \in Nat
    BY <1>2, <1>3, LenProperties
  <2>2. QED
    BY <1>1, <2>1
<1>5. \A a, b \in 1..Len(o) : a < b => o[a] # o[b]
  BY <1>1, <1>2, <1>4
<1>6. Cardinality(ToSet(o)) = Len(o)
  BY <1>3, <1>5, DistinctCount
<1>7. ToSet(o) \in SUBSET Unit
  BY <1>3, ToSetFacts
<1>8. ToSet(o) = Unit
  BY <1>1, <1>4, <1>6, <1>7, FS_Subset DEF n
<1>9. QED
  BY <1>3, <1>8

(* There is an order.                                                      *)
LEMMA SomeOrder == SetToSeq(Unit) \in Orders
<1> DEFINE n == Cardinality(Unit)
<1>1. ExistsBijection(1..n, Unit)
  BY UnitsAssumption, FS_CardinalityType
<1>2. PICK f : f \in Bijection(1..n, Unit)
  BY <1>1 DEF ExistsBijection
<1>3. f \in [1..n -> Unit] /\ IsInjective(f)
  BY <1>2 DEF Bijection, Injection
<1>4. SetToSeq(Unit) \in [1..n -> Unit] /\ IsInjective(SetToSeq(Unit))
  BY <1>3 DEF SetToSeq
<1>5. QED
  BY <1>4 DEF IsInjective, Orders, SetToSeqs

(* In any order the units have the steps they have.                        *)
LEMMA InOrderFacts ==
  ASSUME NEW o \in Orders, runUnits \in [Unit -> RunUnit]
  PROVE  /\ InOrder(o) \in Seq(RunUnit)
         /\ RawSteps(InOrder(o)) = RawSteps(runUnits)
         /\ Steps(InOrder(o)) = Steps(runUnits)
<1> DEFINE units == InOrder(o)
<1>1. /\ Len(o) \in Nat /\ DOMAIN o = 1..Len(o) /\ \A j \in 1..Len(o) : o[j] \in Unit
      /\ Unit = {o[j] : j \in 1..Len(o)}
  BY OrderFacts, LenProperties, ElementOfSeq, ToSetFacts
<1>2. units \in [1..Len(o) -> RunUnit]
  BY <1>1 DEF InOrder
<1>3. units \in Seq(RunUnit)
  <2> DEFINE n == Len(o)
  <2>1. n \in Nat /\ units \in [1..n -> RunUnit]
    BY <1>1, <1>2
  <2> HIDE DEF n, units
  <2>2. QED
    BY <2>1, SeqDef
<1>4. \A j \in 1..Len(o) : units[j] = runUnits[o[j]]
  BY <1>1 DEF InOrder
<1>5. DOMAIN units = 1..Len(o) /\ DOMAIN runUnits = Unit
  BY <1>2
<1> HIDE DEF units
<1>6. RawSteps(units) = RawSteps(runUnits)
  <2>1. ASSUME NEW s
        PROVE  s \in RawSteps(units) <=> s \in RawSteps(runUnits)
    <3>1. s \in RawSteps(units) <=> \E j \in 1..Len(o), p \in Phase : s \in ToSet(units[j].steps[p])
      BY <1>5 DEF RawSteps
    <3>2. s \in RawSteps(runUnits) <=> \E u \in Unit, p \in Phase : s \in ToSet(runUnits[u].steps[p])
      BY <1>5 DEF RawSteps
    <3>3. \A j \in 1..Len(o) : o[j] \in Unit /\ units[j] = runUnits[o[j]]
      BY <1>1, <1>4
    <3>4. \A x \in Unit : \E j \in 1..Len(o) : x = o[j]
      BY <1>1
    <3>5. ASSUME NEW p \in Phase
          PROVE  (\E j \in 1..Len(o) : s \in ToSet(units[j].steps[p]))
                   <=> \E x \in Unit : s \in ToSet(runUnits[x].steps[p])
      BY <3>3, <3>4
    <3>6. QED
      BY <3>1, <3>2, <3>5
  <2>2. QED
    BY <2>1
<1>7. QED
  BY <1>3, <1>6 DEF units, Steps

(* A step of the kapp's units has only a priority of its own.              *)
LEMMA StepsAre ==
  ASSUME runUnits \in [Unit -> RunUnit]
  PROVE  Steps(runUnits) \subseteq Step /\ \A s \in Steps(runUnits) : IsStep(s)
<1>1. RawSteps(runUnits) \subseteq Step /\ Steps(runUnits) \subseteq Step
  BY SomeOrder, InOrderFacts, RawStepsFacts
<1>2. ASSUME NEW s \in Steps(runUnits)
      PROVE  IsStep(s)
  <2>1. PICK r \in RawSteps(runUnits), p \in Priority : s = Prioritised(r, p)
    BY DEF Steps
  <2>2. s = [r EXCEPT !.priority = s.priority]
    <3>1. CASE p = NoPriority
      BY <1>1, <2>1, <3>1, PrioritisedFacts DEF Prioritised
    <3>2. CASE p # NoPriority
      BY <1>1, <2>1, <3>2, PrioritisedFacts DEF Prioritised
    <3>3. QED
      BY <3>1, <3>2
  <2>3. QED
    BY <2>2 DEF IsStep
<1>3. QED
  BY <1>1, <1>2

-----------------------------------------------------------------------------
(* Concatenations of what each step may stand for *)

\* Each member of T may stand for lists of members of U.
Offers(f, T, U) == \A e \in T : f[e] \in SUBSET Seq(U)

Joined(A, B) == {list \o next : list \in A, next \in B}

(* Each list of the one before each of the other.                          *)
LEMMA JoinedMembers == \A A, B, x : x \in Joined(A, B) <=> \E a \in A, b \in B : x = a \o b
  BY DEF Joined

(* What is joined are lists.                                               *)
LEMMA JoinedType ==
  ASSUME NEW U, NEW A, A \in SUBSET Seq(U), NEW B, B \in SUBSET Seq(U)
  PROVE  Joined(A, B) \in SUBSET Seq(U)
<1>1. ASSUME NEW x \in Joined(A, B)
      PROVE  x \in Seq(U)
  <2>1. PICK a \in A, b \in B : x = a \o b
    BY JoinedMembers
  <2>2. a \in Seq(U) /\ b \in Seq(U)
    OBVIOUS
  <2>3. QED
    BY <2>1, <2>2, ConcatProperties
<1>2. QED
  BY <1>1

(* Joining is associative.                                                 *)
LEMMA JoinedAssociative ==
  ASSUME NEW U, NEW A, A \in SUBSET Seq(U), NEW B, B \in SUBSET Seq(U), NEW D, D \in SUBSET Seq(U)
  PROVE  Joined(Joined(A, B), D) = Joined(A, Joined(B, D))
<1> DEFINE AB == Joined(A, B)
           BD == Joined(B, D)
<1>1. \A y \in AB : \E a \in A, b \in B : y = a \o b
  <2> TAKE y \in AB
  <2>1. PICK a \in A, b \in B : y = a \o b
    BY JoinedMembers
  <2>2. QED
    BY <2>1
<1>2. /\ \A a \in A, b \in B : a \o b \in AB
      /\ \A b \in B, d \in D : b \o d \in BD
  BY JoinedMembers
<1>3. \A y \in BD : \E b \in B, d \in D : y = b \o d
  <2> TAKE y \in BD
  <2>1. PICK b \in B, d \in D : y = b \o d
    BY JoinedMembers
  <2>2. QED
    BY <2>1
<1>4. \A a \in A, b \in B, d \in D : (a \o b) \o d = a \o (b \o d)
  <2> TAKE a \in A, b \in B, d \in D
  <2>1. a \in Seq(U) /\ b \in Seq(U) /\ d \in Seq(U)
    OBVIOUS
  <2>2. QED
    BY <2>1, ConcatAssociative
<1> HIDE DEF AB, BD
<1>5. ASSUME NEW x \in Joined(AB, D)
      PROVE  x \in Joined(A, BD)
  <2>1. PICK ab \in AB, d \in D : x = ab \o d
    BY JoinedMembers
  <2>2. PICK a \in A, b \in B : ab = a \o b
    BY <1>1
  <2> DEFINE bd == b \o d
  <2>3. bd \in BD
    BY <1>2
  <2>4. x = a \o bd
    BY <1>4, <2>1, <2>2
  <2> HIDE DEF bd
  <2>5. QED
    BY <2>3, <2>4, JoinedMembers
<1>6. ASSUME NEW x \in Joined(A, BD)
      PROVE  x \in Joined(AB, D)
  <2>1. PICK a \in A, bd \in BD : x = a \o bd
    BY JoinedMembers
  <2>2. PICK b \in B, d \in D : bd = b \o d
    BY <1>3
  <2> DEFINE ab == a \o b
  <2>3. ab \in AB
    BY <1>2
  <2>4. x = ab \o d
    BY <1>4, <2>1, <2>2
  <2> HIDE DEF ab
  <2>5. QED
    BY <2>3, <2>4, JoinedMembers
<1>7. Joined(AB, D) = Joined(A, BD)
  BY <1>5, <1>6
<1>8. QED
  BY <1>7 DEF AB, BD

(* The empty list before or after adds nothing.                            *)
LEMMA JoinedWithNone ==
  ASSUME NEW U, NEW A, A \in SUBSET Seq(U)
  PROVE  Joined({<<>>}, A) = A /\ Joined(A, {<<>>}) = A
<1> DEFINE none == <<>>
           E == {none}
<1>1. \A a \in A : none \o a = a /\ a \o none = a
  BY ConcatEmptySeq
<1>2. \A e \in E : e = none
  OBVIOUS
<1>3. none \in E
  OBVIOUS
<1> HIDE DEF none, E
<1>4. Joined(E, A) = A
  <2>1. ASSUME NEW x \in Joined(E, A)
        PROVE  x \in A
    <3>1. PICK e \in E, a \in A : x = e \o a
      BY JoinedMembers
    <3>2. QED
      BY <1>1, <1>2, <3>1
  <2>2. ASSUME NEW a \in A
        PROVE  a \in Joined(E, A)
    <3>1. a = none \o a
      BY <1>1
    <3>2. QED
      BY <1>3, <3>1, JoinedMembers
  <2>3. QED
    BY <2>1, <2>2
<1>5. Joined(A, E) = A
  <2>1. ASSUME NEW x \in Joined(A, E)
        PROVE  x \in A
    <3>1. PICK a \in A, e \in E : x = a \o e
      BY JoinedMembers
    <3>2. QED
      BY <1>1, <1>2, <3>1
  <2>2. ASSUME NEW a \in A
        PROVE  a \in Joined(A, E)
    <3>1. a = a \o none
      BY <1>1
    <3>2. QED
      BY <1>3, <3>1, JoinedMembers
  <2>3. QED
    BY <2>1, <2>2
<1>6. QED
  BY <1>4, <1>5 DEF E, none

(* Of more lists there are more.                                           *)
LEMMA JoinedGrows ==
  ASSUME NEW A, NEW B, NEW C, NEW D, A \subseteq C, B \subseteq D
  PROVE  Joined(A, B) \subseteq Joined(C, D)
<1> SUFFICES ASSUME NEW x \in Joined(A, B)
             PROVE  x \in Joined(C, D)
  OBVIOUS
<1>1. PICK a \in A, b \in B : x = a \o b
  BY JoinedMembers
<1>2. a \in C /\ b \in D
  OBVIOUS
<1>3. QED
  BY <1>1, <1>2, JoinedMembers

\* One step's lists are joined after another's.
AreJoined(f, U, s, g) ==
  /\ g \in [0..Len(s) -> SUBSET Seq(U)]
  /\ g[0] = {<<>>}
  /\ \A n \in 1..Len(s) : g[n] = Joined(g[n - 1], f[s[n]])

(* This is what Concatenations does.                                       *)
LEMMA ConcatenationsFunction ==
  ASSUME NEW T, NEW U, NEW f, Offers(f, T, U), NEW s \in Seq(T)
  PROVE  \E g : AreJoined(f, U, s, g) /\ Concatenations(f, s) = g[Len(s)]
<1> DEFINE N == Len(s)
           V == SUBSET Seq(U)
           Round == [x \in V \X Nat |-> IF x[2] \in 1..N THEN Joined(x[1], f[s[x[2]]]) ELSE {<<>>}]
           Body(n, g) == IF n = 0 THEN {<<>>} ELSE Joined(g[n - 1], f[s[n]])
           Equation(g) == g = [n \in 0..N |-> Body(n, g)]
           joined == CHOOSE g : Equation(g)
<1>1. N \in Nat /\ 0 \in 0..N /\ \A n \in 1..N : s[n] \in T /\ n \in 0..N /\ n # 0 /\ n - 1 \in 0..N /\ n \in Nat
  BY LenProperties, ElementOfSeq
<1>2. {<<>>} \in V /\ \A A \in V, n \in 1..N : Joined(A, f[s[n]]) \in V
  <2>1. ASSUME NEW A \in V, NEW n \in 1..N
        PROVE  Joined(A, f[s[n]]) \in V
    <3> DEFINE B == f[s[n]]
    <3>1. B \in SUBSET Seq(U)
      BY <1>1 DEF Offers
    <3> HIDE DEF B
    <3>2. Joined(A, B) \in SUBSET Seq(U)
      BY <3>1, JoinedType
    <3>3. QED
      BY <3>2 DEF B
  <2>2. QED
    BY <2>1, EmptySeq
<1> HIDE DEF N, V
<1>3. PICK g \in [0..N -> V] : \A n \in 0..N : g[n] = IF n = 0 THEN {<<>>} ELSE Round[<<g[n - 1], n>>]
  <2> DEFINE zero == 0
             c == {<<>>}
  <2>1. Round \in [V \X Nat -> V]
    BY <1>2
  <2>2. c \in V /\ N \in Nat /\ zero \in Nat
    BY <1>1, <1>2
  <2> HIDE DEF Round, zero, c
  <2>3. Recursion(V, c, Round, zero, N)
    BY <2>1, <2>2, RecursionExists
  <2>4. QED
    BY <2>3 DEF Recursion, zero, c
<1>4. ASSUME NEW n \in 1..N
      PROVE  g[n] = Joined(g[n - 1], f[s[n]])
  <2>1. n \in 0..N /\ n # 0 /\ n - 1 \in 0..N /\ n \in Nat
    BY <1>1
  <2>2. g[n - 1] \in V
    BY <2>1
  <2> DEFINE x == <<g[n - 1], n>>
  <2>3. x \in V \X Nat /\ x[1] = g[n - 1] /\ x[2] = n
    BY <2>1, <2>2
  <2>4. g[n] = Round[x]
    BY <1>3, <2>1
  <2> HIDE DEF x
  <2>5. Round[x] = Joined(x[1], f[s[x[2]]])
    BY <2>3
  <2>6. QED
    BY <2>3, <2>4, <2>5
<1> HIDE DEF Round
<1>5. \A n \in 0..N : g[n] = Body(n, g)
  <2> TAKE n \in 0..N
  <2>1. n # 0 => n \in 1..N
    BY <1>1
  <2>2. QED
    BY <1>3, <1>4, <2>1
<1> HIDE DEF Body
<1>6. Equation(g)
  <2>1. DOMAIN g = 0..N /\ g = [n \in DOMAIN g |-> g[n]]
    OBVIOUS
  <2>2. QED
    BY <1>5, <2>1
<1>7. Equation(joined)
  BY <1>6
<1>8. Concatenations(f, s) = joined[N]
  BY DEF Concatenations, Joined, Body, N
<1> HIDE DEF joined
<1>9. \A n \in 0..N : joined[n] = Body(n, joined)
  BY <1>7
<1>10. joined[0] = {<<>>} /\ \A n \in 1..N : joined[n] = Joined(joined[n - 1], f[s[n]])
  BY <1>1, <1>9 DEF Body
<1>11. g[0] = {<<>>}
  BY <1>1, <1>3
<1>12. 0..N \subseteq {n \in 0..N : joined[n] = g[n]}
  <2> DEFINE S == {n \in 0..N : joined[n] = g[n]}
             zero == 0
  <2>1. zero \in Nat /\ N \in Nat /\ (zero <= N => zero \in S)
    BY <1>1, <1>10, <1>11
  <2>2. \A n \in zero..N : n # zero /\ n - 1 \in S => n \in S
    <3> SUFFICES ASSUME NEW n \in zero..N, n # zero, n - 1 \in S
                 PROVE  n \in S
      OBVIOUS
    <3>1. n \in 1..N /\ n \in 0..N
      BY <1>1
    <3>2. QED
      BY <1>4, <1>10, <3>1
  <2> HIDE DEF S, zero
  <2>3. zero..N \subseteq S
    BY <2>1, <2>2, IntervalInduction
  <2>4. QED
    BY <2>3 DEF S, zero
<1>13. joined[N] = g[N]
  BY <1>1, <1>12
<1>14. AreJoined(f, U, s, g)
  BY <1>3, <1>4, <1>11 DEF N, V, AreJoined
<1>15. QED
  BY <1>8, <1>13, <1>14 DEF N

(* Of no steps there is the empty list.                                    *)
LEMMA ConcatenationsEmpty == \A f : Concatenations(f, <<>>) = {<<>>}
<1> TAKE f
<1> DEFINE s == <<>>
           T == {}
<1>1. s \in Seq(T)
  BY EmptySeq
<1>2. Len(s) = 0
  BY EmptySeq
<1>3. Offers(f, T, T)
  BY DEF Offers
<1> HIDE DEF s, T
<1>4. PICK g : AreJoined(f, T, s, g) /\ Concatenations(f, s) = g[Len(s)]
  BY <1>1, <1>3, ConcatenationsFunction
<1>5. Concatenations(f, s) = {<<>>}
  BY <1>2, <1>4 DEF AreJoined
<1>6. QED
  BY <1>5 DEF s

(* With one step more, its lists come after the others.                    *)
LEMMA ConcatenationsAppend ==
  ASSUME NEW T, NEW U, NEW f, Offers(f, T, U), NEW s \in Seq(T), NEW e \in T
  PROVE  /\ Concatenations(f, s) \in SUBSET Seq(U)
         /\ Concatenations(f, Append(s, e)) = Joined(Concatenations(f, s), f[e])
<1> DEFINE t == Append(s, e)
           N == Len(s)
           zero == 0
<1>1. /\ N \in Nat /\ t \in Seq(T) /\ Len(t) = N + 1
      /\ t[N + 1] = e /\ \A n \in 1..N : t[n] = s[n]
  BY LenProperties, AppendProperties
<1>2. PICK g : AreJoined(f, U, s, g) /\ Concatenations(f, s) = g[Len(s)]
  BY ConcatenationsFunction
<1>3. /\ g \in [0..N -> SUBSET Seq(U)]
      /\ Concatenations(f, s) = g[N] /\ g[0] = {<<>>}
      /\ \A n \in 1..N : g[n] = Joined(g[n - 1], f[s[n]])
  BY <1>2 DEF AreJoined
<1> HIDE DEF t, N
<1>4. PICK h : AreJoined(f, U, t, h) /\ Concatenations(f, t) = h[Len(t)]
  BY <1>1, ConcatenationsFunction
<1>5. h[0] = {<<>>} /\ \A n \in 1..Len(t) : h[n] = Joined(h[n - 1], f[t[n]])
  BY <1>4 DEF AreJoined
<1> DEFINE S == {n \in 0..N : h[n] = g[n]}
<1>6. zero..N \subseteq S
  <2>1. 0 \in S
    <3>1. 0 \in 0..N /\ h[0] = g[0]
      BY <1>1, <1>3, <1>5
    <3>2. QED
      BY <3>1
  <2>2. \A n \in zero..N : n # zero /\ n - 1 \in S => n \in S
    <3> SUFFICES ASSUME NEW n \in zero..N, n # zero, n - 1 \in S
                 PROVE  n \in S
      OBVIOUS
    <3>1. n \in 1..N /\ n \in 0..N /\ n \in 1..Len(t)
      BY <1>1
    <3>2. g[n] = Joined(g[n - 1], f[s[n]]) /\ h[n] = Joined(h[n - 1], f[t[n]]) /\ h[n - 1] = g[n - 1] /\ t[n] = s[n]
      BY <1>1, <1>3, <1>5, <3>1
    <3>3. QED
      BY <3>1, <3>2
  <2>3. zero \in Nat /\ N \in Nat /\ (zero <= N => zero \in S)
    BY <1>1, <2>1
  <2> HIDE DEF S, zero
  <2>4. QED
    BY <2>2, <2>3, IntervalInduction
<1>7. h[N] = g[N] /\ N \in 0..N
  BY <1>1, <1>6
<1>8. h[Len(t)] = Joined(h[N], f[e])
  <2>1. Len(t) \in 1..Len(t) /\ Len(t) - 1 = N /\ t[Len(t)] = e
    BY <1>1
  <2>2. h[Len(t)] = Joined(h[Len(t) - 1], f[t[Len(t)]])
    BY <1>5, <2>1
  <2>3. QED
    BY <2>1, <2>2
<1>9. g[N] \in SUBSET Seq(U)
  BY <1>3, <1>7
<1>10. QED
  BY <1>3, <1>4, <1>7, <1>8, <1>9 DEF t

(* They are lists.                                                         *)
LEMMA ConcatenationsType ==
  ASSUME NEW T, NEW U, NEW f, Offers(f, T, U)
  PROVE  \A s \in Seq(T) : Concatenations(f, s) \in SUBSET Seq(U)
<1> TAKE s \in Seq(T)
<1>1. CASE s = <<>>
  <2> DEFINE c == {<<>>}
  <2>1. <<>> \in Seq(U)
    BY EmptySeq
  <2>2. c \in SUBSET Seq(U)
    BY <2>1
  <2>3. Concatenations(f, s) = c
    BY <1>1, ConcatenationsEmpty
  <2> HIDE DEF c
  <2>4. QED
    BY <2>2, <2>3
<1>2. CASE s # <<>>
  <2>1. s[1] \in T
    BY <1>2, EmptySeq, LenProperties, ElementOfSeq
  <2>2. QED
    BY <2>1, ConcatenationsAppend
<1>3. QED
  BY <1>1, <1>2

(* One step has its lists.                                                 *)
LEMMA ConcatenationsOne ==
  ASSUME NEW T, NEW U, NEW f, Offers(f, T, U), NEW e \in T
  PROVE  Concatenations(f, <<e>>) = f[e]
<1> DEFINE nil == <<>>
           A == f[e]
<1>1. Append(nil, e) = <<e>> /\ nil \in Seq(T)
  BY EmptySeq, AppendIsConcat, ConcatEmptySeq
<1>2. Concatenations(f, nil) = {<<>>}
  BY ConcatenationsEmpty
<1>3. A \in SUBSET Seq(U)
  BY DEF Offers
<1>4. Concatenations(f, Append(nil, e)) = Joined(Concatenations(f, nil), f[e])
  <2>1. nil \in Seq(T)
    BY <1>1
  <2> HIDE DEF nil
  <2>2. QED
    BY <2>1, ConcatenationsAppend
<1>5. Joined({<<>>}, A) = A
  <2> HIDE DEF A
  <2>1. QED
    BY <1>3, JoinedWithNone
<1>6. QED
  BY <1>1, <1>2, <1>4, <1>5

(* The lists of two lists of steps.                                        *)
LEMMA ConcatenationsConcat ==
  ASSUME NEW T, NEW U, NEW f, Offers(f, T, U), NEW s \in Seq(T)
  PROVE  \A t \in Seq(T) : Concatenations(f, s \o t) = Joined(Concatenations(f, s), Concatenations(f, t))
<1> DEFINE A == Concatenations(f, s)
           S == {t \in Seq(T) : Concatenations(f, s \o t) = Joined(A, Concatenations(f, t))}
<1>1. A \in SUBSET Seq(U)
  BY ConcatenationsType
<1>2. <<>> \in S
  <2>1. s \o <<>> = s /\ <<>> \in Seq(T)
    BY EmptySeq, ConcatEmptySeq
  <2>2. Joined(A, {<<>>}) = A
    <3> HIDE DEF A
    <3>1. QED
      BY <1>1, JoinedWithNone
  <2>3. QED
    BY <2>1, <2>2, ConcatenationsEmpty
<1>3. ASSUME NEW t \in Seq(T), NEW e \in T, t \in S
      PROVE  Append(t, e) \in S
  <2> DEFINE B == Concatenations(f, t)
             D == f[e]
             st == s \o t
  <2>1. Append(t, e) \in Seq(T) /\ st \in Seq(T)
    BY AppendProperties, ConcatProperties
  <2>2. s \o Append(t, e) = Append(st, e)
    <3>1. Append(t, e) = t \o <<e>> /\ Append(st, e) = st \o <<e>> /\ <<e>> \in Seq(T)
      <4> HIDE DEF st
      <4>1. QED
        BY <2>1, AppendIsConcat
    <3>2. QED
      BY <3>1, ConcatAssociative
  <2>3. B \in SUBSET Seq(U) /\ D \in SUBSET Seq(U)
    BY ConcatenationsType DEF Offers
  <2>4. Concatenations(f, st) = Joined(A, B)
    BY <1>3
  <2> HIDE DEF st
  <2>5. Concatenations(f, Append(st, e)) = Joined(Concatenations(f, st), f[e])
    BY <2>1, ConcatenationsAppend
  <2>6. Concatenations(f, Append(t, e)) = Joined(Concatenations(f, t), f[e])
    BY ConcatenationsAppend
  <2>7. Joined(Joined(A, B), D) = Joined(A, Joined(B, D))
    <3>1. A \in SUBSET Seq(U) /\ B \in SUBSET Seq(U) /\ D \in SUBSET Seq(U)
      BY <1>1, <2>3
    <3> HIDE DEF A, B, D
    <3>2. QED
      BY <3>1, JoinedAssociative
  <2>8. QED
    BY <2>1, <2>2, <2>4, <2>5, <2>6, <2>7
<1> HIDE DEF S
<1>4. Seq(T) \subseteq S
  BY <1>2, <1>3, SequenceInduction
<1>5. QED
  BY <1>4 DEF S, A

(* If each step has all the lists that another function gives it, so have  *)
(* all lists of steps.                                                     *)
LEMMA ConcatenationsGrow ==
  ASSUME NEW T, NEW U, NEW f, Offers(f, T, U), NEW g, Offers(g, T, U), \A e \in T : f[e] \subseteq g[e]
  PROVE  \A s \in Seq(T) : Concatenations(f, s) \subseteq Concatenations(g, s)
<1> DEFINE S == {s \in Seq(T) : Concatenations(f, s) \subseteq Concatenations(g, s)}
<1>1. <<>> \in S
  BY ConcatenationsEmpty, EmptySeq
<1>2. ASSUME NEW s \in Seq(T), NEW e \in T, s \in S
      PROVE  Append(s, e) \in S
  <2>1. Append(s, e) \in Seq(T)
    BY AppendProperties
  <2>2. Concatenations(f, Append(s, e)) = Joined(Concatenations(f, s), f[e])
    BY ConcatenationsAppend
  <2>3. Concatenations(g, Append(s, e)) = Joined(Concatenations(g, s), g[e])
    BY ConcatenationsAppend
  <2>4. Joined(Concatenations(f, s), f[e]) \subseteq Joined(Concatenations(g, s), g[e])
    <3>1. Concatenations(f, s) \subseteq Concatenations(g, s) /\ f[e] \subseteq g[e]
      BY <1>2
    <3>2. QED
      BY <3>1, JoinedGrows
  <2>5. QED
    BY <2>1, <2>2, <2>3, <2>4
<1> HIDE DEF S
<1>3. Seq(T) \subseteq S
  BY <1>1, <1>2, SequenceInduction
<1>4. QED
  BY <1>3 DEF S

\* What steps stand for when those are replaced that they stand for.
Composed(f, g, T) == [e \in T |-> UNION {Concatenations(g, list) : list \in f[e]}]

(* To concatenate what the steps of a concatenation stand for is to do so  *)
(* with what each step stands for in two steps.                            *)
LEMMA ConcatenationsTwice ==
  ASSUME NEW T, NEW U, NEW V, NEW f, Offers(f, T, U), NEW g, Offers(g, U, V)
  PROVE  /\ Offers(Composed(f, g, T), T, V)
         /\ \A s \in Seq(T) : \A m \in Concatenations(f, s) :
              Concatenations(g, m) \subseteq Concatenations(Composed(f, g, T), s)
<1> DEFINE h == Composed(f, g, T)
           S == {s \in Seq(T) : \A m \in Concatenations(f, s) : Concatenations(g, m) \subseteq Concatenations(h, s)}
<1>1. \A e \in T : f[e] \in SUBSET Seq(U)
  BY DEF Offers
<1>2. \A list \in Seq(U) : Concatenations(g, list) \in SUBSET Seq(V)
  BY ConcatenationsType
<1>3. Offers(h, T, V)
  BY <1>1, <1>2 DEF Offers, Composed
<1>4. \A e \in T : \A list \in f[e] : Concatenations(g, list) \subseteq h[e]
  BY DEF Composed
<1> HIDE DEF h
<1>5. <<>> \in S
  BY ConcatenationsEmpty, EmptySeq
<1>6. ASSUME NEW s \in Seq(T), NEW e \in T, s \in S
      PROVE  Append(s, e) \in S
  <2>1. Append(s, e) \in Seq(T)
    BY AppendProperties
  <2>2. Concatenations(f, Append(s, e)) = Joined(Concatenations(f, s), f[e]) /\ Concatenations(f, s) \in SUBSET Seq(U)
    BY ConcatenationsAppend
  <2>3. Concatenations(h, Append(s, e)) = Joined(Concatenations(h, s), h[e])
    BY <1>3, ConcatenationsAppend
  <2>4. ASSUME NEW m \in Concatenations(f, Append(s, e))
        PROVE  Concatenations(g, m) \subseteq Concatenations(h, Append(s, e))
    <3>1. PICK a \in Concatenations(f, s), b \in f[e] : m = a \o b
      BY <2>2, JoinedMembers
    <3>2. a \in Seq(U) /\ b \in Seq(U)
      BY <1>1, <2>2
    <3>3. Concatenations(g, a \o b) = Joined(Concatenations(g, a), Concatenations(g, b))
      BY <3>2, ConcatenationsConcat
    <3>4. Concatenations(g, a) \subseteq Concatenations(h, s)
      BY <1>6
    <3>5. Concatenations(g, b) \subseteq h[e]
      BY <1>4
    <3>6. Joined(Concatenations(g, a), Concatenations(g, b)) \subseteq Joined(Concatenations(h, s), h[e])
      BY <3>4, <3>5, JoinedMembers
    <3>7. QED
      BY <2>3, <3>1, <3>3, <3>6
  <2>5. QED
    BY <2>1, <2>4
<1> HIDE DEF S
<1>7. Seq(T) \subseteq S
  BY <1>5, <1>6, SequenceInduction
<1>8. QED
  BY <1>3, <1>7 DEF S, h

(* If each step stands for nothing but itself, so does a list.             *)
LEMMA ConcatenationsSelf ==
  ASSUME NEW T, NEW f, \A e \in T : f[e] = {<<e>>}
  PROVE  \A s \in Seq(T) : s \in Concatenations(f, s)
<1> DEFINE S == {s \in Seq(T) : s \in Concatenations(f, s)}
<1>1. Offers(f, T, T)
  <2>1. \A e \in T : <<e>> \in Seq(T)
    OBVIOUS
  <2>2. QED
    BY <2>1 DEF Offers
<1>2. <<>> \in S
  BY ConcatenationsEmpty, EmptySeq
<1>3. ASSUME NEW s \in Seq(T), NEW e \in T, s \in S
      PROVE  Append(s, e) \in S
  <2>1. Append(s, e) \in Seq(T) /\ Append(s, e) = s \o <<e>>
    BY AppendProperties, AppendIsConcat
  <2>2. Concatenations(f, Append(s, e)) = Joined(Concatenations(f, s), f[e])
    BY <1>1, ConcatenationsAppend
  <2>3. s \o <<e>> \in Joined(Concatenations(f, s), {<<e>>})
    BY <1>3, JoinedMembers
  <2>4. QED
    BY <2>1, <2>2, <2>3
<1> HIDE DEF S
<1>4. Seq(T) \subseteq S
  BY <1>2, <1>3, SequenceInduction
<1>5. QED
  BY <1>4 DEF S

-----------------------------------------------------------------------------
(* Rounds of replacements *)
Rounds == MaxRecursions + 1

(* Counting the rounds.                                                    *)
LEMMA RoundsFacts ==
  /\ Rounds \in Nat /\ 0 \in 0..Rounds
  /\ \A n \in 0..Rounds : n # 0 => n \in 1..Rounds /\ n - 1 \in 0..Rounds
  /\ \A n \in 1..Rounds : n \in 0..Rounds /\ n # 0
  BY MaxRecursionsAssumption DEF Rounds

(* What holds at first, and after a round if it did before, always holds.  *)
LEMMA RoundsInduction ==
  ASSUME NEW S, 0 \in S, \A n \in 1..Rounds : n - 1 \in S => n \in S
  PROVE  0..Rounds \subseteq S
<1> DEFINE zero == 0
<1>1. zero \in Nat /\ Rounds \in Nat /\ (zero <= Rounds => zero \in S)
  BY RoundsFacts
<1>2. \A n \in zero..Rounds : n # zero /\ n - 1 \in S => n \in S
  BY RoundsFacts
<1> HIDE DEF zero
<1>3. zero..Rounds \subseteq S
  BY <1>1, <1>2, IntervalInduction
<1>4. QED
  BY <1>3 DEF zero

\* The steps that the kapp's units have, and those with other priorities.
OwnStep == RawSteps(runUnits)
AnyStep == Steps(runUnits)

\* What a call may be replaced with, by steps of any priority.
Replacing == [s \in AnyStep |-> Replacements(s)]

(* What is replaced are steps of the units, with whatever priorities.      *)
LEMMA ReplacingFacts ==
  ASSUME runUnits \in [Unit -> RunUnit]
  PROVE  /\ OwnStep \subseteq AnyStep /\ AnyStep \subseteq Step
         /\ Offers(Replacing, AnyStep, AnyStep)
         /\ \A list \in Seq(AnyStep) :
              Concatenations([s \in ToSet(list) |-> Replacements(s)], list) = Concatenations(Replacing, list)
<1>1. OwnStep \subseteq AnyStep /\ AnyStep \subseteq Step
  BY SomeOrder, InOrderFacts, RawStepsFacts DEF OwnStep, AnyStep
<1>2. \A s \in AnyStep : Replacements(s) \in SUBSET Seq(AnyStep)
  BY InOrderFacts, ReplacementFacts DEF Replacements, AnyStep
<1>3. Offers(Replacing, AnyStep, AnyStep)
  BY <1>2 DEF Offers, Replacing
<1>4. ASSUME NEW list \in Seq(AnyStep)
      PROVE  Concatenations([s \in ToSet(list) |-> Replacements(s)], list) = Concatenations(Replacing, list)
  <2> DEFINE S == ToSet(list)
             f == [s \in S |-> Replacements(s)]
             g == Replacing
  <2>1. S \subseteq AnyStep /\ list \in Seq(S)
    BY ToSetFacts
  <2>2. \A e \in S : f[e] = g[e] /\ f[e] \in SUBSET Seq(AnyStep)
    BY <1>2, <2>1 DEF Replacing
  <2> HIDE DEF f, g, S
  <2>3. Offers(f, S, AnyStep) /\ Offers(g, S, AnyStep)
    BY <2>2 DEF Offers
  <2>4. Concatenations(f, list) \subseteq Concatenations(g, list)
    BY <2>1, <2>2, <2>3, ConcatenationsGrow
  <2>5. Concatenations(g, list) \subseteq Concatenations(f, list)
    BY <2>1, <2>2, <2>3, ConcatenationsGrow
  <2>6. QED
    BY <2>4, <2>5 DEF f, g, S
<1>5. QED
  BY <1>1, <1>3, <1>4

\* What may become of any list in each round.
AreRounds(G) ==
  /\ G \in [0..Rounds -> [Seq(AnyStep) -> SUBSET Seq(AnyStep)]]
  /\ \A list \in Seq(AnyStep) : G[0][list] = {list}
  /\ \A n \in 1..Rounds : \A list \in Seq(AnyStep) :
       G[n][list] = UNION {Concatenations(Replacing, m) : m \in G[n - 1][list]}

(* interpolateCalls() makes as many rounds.                                *)
LEMMA InterpolateFacts ==
  ASSUME runUnits \in [Unit -> RunUnit]
  PROVE  \E G : AreRounds(G) /\ \A steps \in Seq(AnyStep) : interpolateCalls(steps) = G[Rounds][steps]
<1> DEFINE V == Seq(AnyStep)
           W == [V -> SUBSET V]
           c == [list \in V |-> {list}]
           Next1(h) == [list \in V |-> UNION {Concatenations(Replacing, m) : m \in h[list]}]
           Round == [x \in W \X Nat |-> Next1(x[1])]
<1>1. \A m \in V : Concatenations(Replacing, m) \in SUBSET V
  BY ReplacingFacts, ConcatenationsType
<1>2. \A h \in W : Next1(h) \in W
  <2> SUFFICES ASSUME NEW h \in W
               PROVE  \A list \in V : UNION {Concatenations(Replacing, m) : m \in h[list]} \in SUBSET V
    OBVIOUS
  <2>1. \A list \in V : h[list] \in SUBSET V
    OBVIOUS
  <2>2. QED
    BY <1>1, <2>1
<1>3. c \in W
  OBVIOUS
<1> HIDE DEF V, c, Next1
<1>4. PICK G \in [0..Rounds -> W] : \A n \in 0..Rounds : G[n] = IF n = 0 THEN c ELSE Round[<<G[n - 1], n>>]
  <2> DEFINE zero == 0
  <2>1. Round \in [W \X Nat -> W]
    <3>1. \A x \in W \X Nat : x[1] \in W
      OBVIOUS
    <3> HIDE DEF W
    <3>2. QED
      BY <1>2, <3>1
  <2>2. c \in W /\ Rounds \in Nat /\ zero \in Nat
    BY <1>3, RoundsFacts
  <2> HIDE DEF Round, W, zero
  <2>3. Recursion(W, c, Round, zero, Rounds)
    BY <2>1, <2>2, RecursionExists
  <2>4. QED
    BY <2>3 DEF Recursion, zero
<1>5. ASSUME NEW n \in 1..Rounds
      PROVE  G[n] = Next1(G[n - 1])
  <2>1. n \in 0..Rounds /\ n # 0 /\ n - 1 \in 0..Rounds /\ n \in Nat
    BY RoundsFacts
  <2>2. G[n - 1] \in W
    BY <2>1
  <2> DEFINE x == <<G[n - 1], n>>
  <2>3. x \in W \X Nat /\ x[1] = G[n - 1]
    BY <2>1, <2>2
  <2>4. G[n] = Round[x]
    BY <1>4, <2>1
  <2> HIDE DEF x, W
  <2>5. Round[x] = Next1(x[1])
    BY <2>3
  <2>6. QED
    BY <2>3, <2>4, <2>5
<1>6. \A list \in V : G[0][list] = {list}
  <2>1. G[0] = c
    BY <1>4, RoundsFacts
  <2>2. QED
    BY <2>1 DEF c
<1>7. \A n \in 1..Rounds : \A list \in V :
        G[n][list] = UNION {Concatenations(Replacing, m) : m \in G[n - 1][list]}
  BY <1>5 DEF Next1
<1>8. AreRounds(G)
  BY <1>6, <1>7 DEF AreRounds, V
<1> HIDE DEF Round
<1>9. ASSUME NEW steps \in V
      PROVE  interpolateCalls(steps) = G[Rounds][steps]
  <2> DEFINE Body(n, g) ==
               IF n = 0 THEN {steps}
               ELSE UNION {Concatenations([s \in ToSet(list) |-> Replacements(s)], list) : list \in g[n - 1]}
             Equation(g) == g = [n \in 0..Rounds |-> Body(n, g)]
             after == CHOOSE g : Equation(g)
             run == [n \in 0..Rounds |-> G[n][steps]]
  <2>1. \A n \in 1..Rounds : n \in 0..Rounds /\ n - 1 \in 0..Rounds /\ n # 0
    BY RoundsFacts
  <2>2. \A n \in 0..Rounds : G[n][steps] \in SUBSET V
    OBVIOUS
  <2>3. \A list \in V : Concatenations([s \in ToSet(list) |-> Replacements(s)], list) = Concatenations(Replacing, list)
    BY ReplacingFacts DEF V
  <2>4. \A n \in 1..Rounds : \A g : g[n - 1] \in SUBSET V =>
          Body(n, g) = UNION {Concatenations(Replacing, m) : m \in g[n - 1]}
    BY <2>1, <2>3
  <2>5. \A n \in 0..Rounds : run[n] = G[n][steps] /\ run[n] \in SUBSET V
    BY <2>2
  <2>6. \A g : Body(0, g) = {steps}
    OBVIOUS
  <2>7. interpolateCalls(steps) = after[Rounds]
    BY DEF interpolateCalls, Rounds
  <2> HIDE DEF Body, run
  <2>8. ASSUME NEW n \in 0..Rounds
        PROVE  run[n] = Body(n, run)
    <3>1. CASE n = 0
      BY <1>6, <2>5, <2>6, <3>1, RoundsFacts
    <3>2. CASE n # 0
      <4>1. n \in 1..Rounds /\ n - 1 \in 0..Rounds
        BY <3>2, RoundsFacts
      <4>2. Body(n, run) = UNION {Concatenations(Replacing, m) : m \in run[n - 1]}
        BY <2>4, <2>5, <4>1
      <4>3. run[n - 1] = G[n - 1][steps] /\ run[n] = G[n][steps]
        BY <2>5, <4>1
      <4>4. QED
        BY <1>7, <4>1, <4>2, <4>3
    <3>3. QED
      BY <3>1, <3>2
  <2>9. Equation(run)
    <3>1. DOMAIN run = 0..Rounds /\ run = [n \in DOMAIN run |-> run[n]]
      BY DEF run
    <3>2. QED
      BY <2>8, <3>1
  <2>10. Equation(after)
    BY <2>9
  <2> HIDE DEF after
  <2>11. \A n \in 0..Rounds : after[n] = Body(n, after)
    BY <2>10
  <2> DEFINE S == {n \in 0..Rounds : after[n] = run[n]}
  <2>12. 0 \in S
    BY <2>6, <2>8, <2>11, RoundsFacts
  <2>13. ASSUME NEW n \in 1..Rounds, n - 1 \in S
         PROVE  n \in S
    <3>1. after[n - 1] = run[n - 1] /\ run[n - 1] \in SUBSET V
      BY <2>1, <2>5, <2>13
    <3>2. Body(n, after) = Body(n, run)
      BY <2>4, <3>1
    <3>3. QED
      BY <2>1, <2>8, <2>11, <3>2
  <2> HIDE DEF S
  <2>14. 0..Rounds \subseteq S
    BY <2>12, <2>13, RoundsInduction
  <2>15. after[Rounds] = run[Rounds]
    BY <2>14, RoundsFacts DEF S
  <2>16. QED
    BY <2>5, <2>7, <2>15, RoundsFacts
<1>10. QED
  BY <1>8, <1>9 DEF V

(* The first round can be looked at instead of the last.                   *)
LEMMA FirstRound ==
  ASSUME NEW G, AreRounds(G)
  PROVE  \A n \in 1..Rounds : \A list \in Seq(AnyStep) : \A x \in G[n][list] :
           \E m \in Concatenations(Replacing, list) : m \in Seq(AnyStep) /\ x \in G[n - 1][m]
<1> DEFINE V == Seq(AnyStep)
           Good(n) == \A list \in V : \A x \in G[n][list] :
                        \E m \in Concatenations(Replacing, list) : m \in V /\ x \in G[n - 1][m]
           S == {n \in 0..Rounds : n = 0 \/ Good(n)}
<1>1. \A n \in 0..Rounds : \A list \in V : G[n][list] \in SUBSET V
  BY DEF AreRounds
<1>2. 0 \in S
  BY RoundsFacts
<1>3. ASSUME NEW n \in 1..Rounds, n - 1 \in S
      PROVE  n \in S
  <2>1. n \in 0..Rounds /\ n - 1 \in 0..Rounds
    BY RoundsFacts
  <2>2. ASSUME NEW list \in V, NEW x \in G[n][list]
        PROVE  \E m \in Concatenations(Replacing, list) : m \in V /\ x \in G[n - 1][m]
    <3>1. PICK k \in G[n - 1][list] : x \in Concatenations(Replacing, k)
      BY <2>2 DEF AreRounds
    <3>2. x \in V
      BY <1>1, <2>1
    <3>3. CASE n - 1 = 0
      <4>1. k = list /\ G[n - 1][x] = {x}
        BY <3>1, <3>2, <3>3 DEF AreRounds
      <4>2. QED
        BY <3>1, <3>2, <4>1
    <3>4. CASE n - 1 # 0
      <4>1. n - 1 \in 1..Rounds /\ (n - 1) - 1 \in 0..Rounds
        BY <2>1, <3>4, RoundsFacts
      <4>2. Good(n - 1)
        BY <1>3, <3>4
      <4>3. PICK m \in Concatenations(Replacing, list) : m \in V /\ k \in G[(n - 1) - 1][m]
        BY <3>1, <4>2
      <4>4. x \in G[n - 1][m]
        BY <3>1, <4>1, <4>3 DEF AreRounds
      <4>5. QED
        BY <4>3, <4>4
    <3>5. QED
      BY <3>3, <3>4
  <2>3. QED
    BY <2>1, <2>2
<1> HIDE DEF S
<1>4. 0..Rounds \subseteq S
  BY <1>2, <1>3, RoundsInduction
<1>5. QED
  BY <1>4, RoundsFacts DEF S

-----------------------------------------------------------------------------
(* What steps stand for *)

\* One more level of what a step stands for, in this order of the units.
BodyIn(units, s, inner) ==
  IF Left(units, s) THEN {<<s>>}
  ELSE {FlatMap(Single(s.priority), list) : list \in Concatenations(inner, Called(units, s))}

InlinedBody(s, inner) == UNION {BodyIn(InOrder(o), s, inner) : o \in Orders}

AreInlined(I) ==
  /\ \A n \in 0..Rounds : Offers(I[n], OwnStep, Step)
  /\ \A r \in OwnStep : I[0][r] = {<<r>>}
  /\ \A n \in 1..Rounds : \A r \in OwnStep : I[n][r] = InlinedBody(r, I[n - 1])

\* The same of steps with any priority.
Levels(I) == [n \in 0..Rounds |-> [s \in AnyStep |-> IF n = 0 THEN {<<s>>} ELSE InlinedBody(s, I[n - 1])]]

(* A level is lists of steps, and as it is written in Inlined.             *)
LEMMA InlinedBodyFacts ==
  ASSUME runUnits \in [Unit -> RunUnit], NEW s \in AnyStep, NEW inner, Offers(inner, OwnStep, Step)
  PROVE  /\ InlinedBody(s, inner) \in SUBSET Seq(Step)
         /\ \A o \in Orders :
              BodyIn(InOrder(o), s, inner) =
                IF ~IsCall(s) \/ Unresolvable(InOrder(o), s) THEN {<<s>>}
                ELSE LET called == IF s.call.name = Every THEN AllSteps(InOrder(o), s.call.phase)
                                   ELSE FindStep(InOrder(o), s.call)
                     IN {Outermost(s.priority, list) : list \in Concatenations(inner, called)}
<1>1. s \in Step /\ s.priority \in Priority
  BY ReplacingFacts, StepFacts
<1>2. ASSUME NEW o \in Orders
      PROVE  /\ BodyIn(InOrder(o), s, inner) \in SUBSET Seq(Step)
             /\ BodyIn(InOrder(o), s, inner) =
                  IF ~IsCall(s) \/ Unresolvable(InOrder(o), s) THEN {<<s>>}
                  ELSE LET called == IF s.call.name = Every THEN AllSteps(InOrder(o), s.call.phase)
                                     ELSE FindStep(InOrder(o), s.call)
                       IN {Outermost(s.priority, list) : list \in Concatenations(inner, called)}
  <2> DEFINE units == InOrder(o)
             called == Called(units, s)
             lists == Concatenations(inner, called)
             p == s.priority
  <2>1. units \in Seq(RunUnit) /\ RawSteps(units) = OwnStep
    BY InOrderFacts DEF OwnStep
  <2> HIDE DEF units
  <2>2. CASE Left(units, s)
    <3>1. <<s>> \in Seq(Step)
      BY <1>1
    <3>2. QED
      BY <2>2, <3>1 DEF BodyIn, Left, units
  <2>3. CASE ~Left(units, s)
    <3>1. called \in Seq(OwnStep)
      BY <1>1, <2>1, <2>3, CalledFacts DEF Left
    <3> HIDE DEF called
    <3>2. lists \in SUBSET Seq(Step)
      BY <3>1, ConcatenationsType
    <3> HIDE DEF lists, p
    <3>3. \A list \in lists : FlatMap(Single(p), list) = Outermost(p, list) /\ FlatMap(Single(p), list) \in Seq(Step)
      <4> TAKE list \in lists
      <4>1. list \in Seq(Step) /\ p \in Priority
        BY <1>1, <3>2 DEF p
      <4>2. Outermost(p, list) = FlatMap(Single(p), list) /\ Replaces(Single(p), Step, Step)
        BY <4>1, PriorityIsFlatMap
      <4>3. FlatMap(Single(p), list) \in Seq(Step)
        BY <4>1, <4>2, FlatMapType
      <4>4. QED
        BY <4>2, <4>3
    <3>4. BodyIn(units, s, inner) = {FlatMap(Single(p), list) : list \in lists}
      BY <2>3 DEF BodyIn, called, lists, p
    <3>5. BodyIn(units, s, inner) \in SUBSET Seq(Step)
      BY <3>3, <3>4
    <3>6. BodyIn(units, s, inner) = {Outermost(p, list) : list \in lists}
      BY <3>3, <3>4
    <3>7. QED
      BY <2>3, <3>5, <3>6 DEF Left, Called, called, lists, p, units
  <2>4. QED
    BY <2>2, <2>3
<1>3. QED
  BY <1>2 DEF InlinedBody

(* Inlined is defined, and is what is left after all levels.               *)
LEMMA InlinedFacts ==
  ASSUME runUnits \in [Unit -> RunUnit]
  PROVE  \E I : AreInlined(I) /\ Inlined = I[Rounds]
<1> DEFINE R == OwnStep
           V == [R -> SUBSET Seq(Step)]
           c == [r \in R |-> {<<r>>}]
           Level == [x \in V \X Nat |-> [r \in R |-> InlinedBody(r, x[1])]]
           Body(n, s, I) ==
             IF n = 0 THEN {<<s>>}
             ELSE LET StandsFor(units) ==
                        IF ~IsCall(s) \/ Unresolvable(units, s) THEN {<<s>>}
                        ELSE LET called == IF s.call.name = Every THEN AllSteps(units, s.call.phase)
                                           ELSE FindStep(units, s.call)
                             IN {Outermost(s.priority, list) : list \in Concatenations(I[n - 1], called)}
                  IN UNION {StandsFor(InOrder(o)) : o \in Orders}
           Equation(I) == I = [n \in 0..(MaxRecursions + 1) |-> [s \in R |-> Body(n, s, I)]]
           inlined == CHOOSE I : Equation(I)
<1>1. R \subseteq AnyStep /\ R \subseteq Step
  BY ReplacingFacts
<1>2. ASSUME NEW inner \in V, NEW r \in R
      PROVE  /\ InlinedBody(r, inner) \in SUBSET Seq(Step)
             /\ \A n \in 1..Rounds : \A I : I[n - 1] = inner => Body(n, r, I) = InlinedBody(r, inner)
  <2>1. Offers(inner, OwnStep, Step) /\ r \in AnyStep
    BY <1>1 DEF Offers
  <2>2. \A n \in 1..Rounds : n # 0
    BY RoundsFacts
  <2>3. /\ InlinedBody(r, inner) \in SUBSET Seq(Step)
        /\ \A o \in Orders :
             BodyIn(InOrder(o), r, inner) =
               IF ~IsCall(r) \/ Unresolvable(InOrder(o), r) THEN {<<r>>}
               ELSE LET called == IF r.call.name = Every THEN AllSteps(InOrder(o), r.call.phase)
                                  ELSE FindStep(InOrder(o), r.call)
                    IN {Outermost(r.priority, list) : list \in Concatenations(inner, called)}
    BY <2>1, InlinedBodyFacts
  <2>4. ASSUME NEW n \in 1..Rounds, NEW I, I[n - 1] = inner
        PROVE  Body(n, r, I) = InlinedBody(r, inner)
    <3>1. Body(n, r, I) = UNION {BodyIn(InOrder(o), r, inner) : o \in Orders}
      BY <2>2, <2>3, <2>4
    <3>2. QED
      BY <3>1 DEF InlinedBody
  <2>5. QED
    BY <2>3, <2>4
<1> HIDE DEF R, Body
<1>3. PICK I \in [0..Rounds -> V] : \A n \in 0..Rounds : I[n] = IF n = 0 THEN c ELSE Level[<<I[n - 1], n>>]
  <2> DEFINE zero == 0
  <2>1. Level \in [V \X Nat -> V]
    <3>1. ASSUME NEW x \in V \X Nat
          PROVE  [r \in R |-> InlinedBody(r, x[1])] \in V
      BY <1>2
    <3> HIDE DEF V
    <3>2. QED
      BY <3>1
  <2>2. c \in V /\ Rounds \in Nat /\ zero \in Nat
    <3>1. \A r \in R : {<<r>>} \in SUBSET Seq(Step)
      BY <1>1
    <3>2. QED
      BY <3>1, RoundsFacts
  <2> HIDE DEF Level, V, zero, c
  <2>3. Recursion(V, c, Level, zero, Rounds)
    BY <2>1, <2>2, RecursionExists
  <2>4. QED
    BY <2>3 DEF Recursion, V, zero
<1>4. ASSUME NEW n \in 1..Rounds
      PROVE  I[n] = [r \in R |-> InlinedBody(r, I[n - 1])] /\ I[n - 1] \in V
  <2>1. n \in 0..Rounds /\ n # 0 /\ n - 1 \in 0..Rounds /\ n \in Nat
    BY RoundsFacts
  <2>2. I[n - 1] \in V
    BY <2>1
  <2> DEFINE x == <<I[n - 1], n>>
  <2>3. x \in V \X Nat /\ x[1] = I[n - 1]
    BY <2>1, <2>2
  <2>4. I[n] = Level[x]
    BY <1>3, <2>1
  <2> HIDE DEF x, V, c
  <2>5. Level[x] = [r \in R |-> InlinedBody(r, x[1])]
    BY <2>3
  <2> HIDE DEF Level
  <2>6. QED
    BY <2>2, <2>3, <2>4, <2>5
<1> HIDE DEF Level
<1>5. \A n \in 0..Rounds : I[n] = [s \in R |-> Body(n, s, I)]
  <2> TAKE n \in 0..Rounds
  <2>1. CASE n = 0
    <3>1. \A s \in R : Body(n, s, I) = {<<s>>}
      BY <2>1 DEF Body
    <3>2. I[n] = c
      BY <1>3, <2>1
    <3>3. QED
      BY <3>1, <3>2
  <2>2. CASE n # 0
    <3>1. n \in 1..Rounds
      BY <2>2, RoundsFacts
    <3>2. I[n] = [r \in R |-> InlinedBody(r, I[n - 1])] /\ I[n - 1] \in V
      BY <1>4, <3>1
    <3> DEFINE inner == I[n - 1]
    <3>3. \A s \in R : Body(n, s, I) = InlinedBody(s, inner)
      <4>1. inner \in V /\ I[n - 1] = inner
        BY <3>2
      <4> HIDE DEF inner, V
      <4>2. QED
        BY <1>2, <3>1, <4>1
    <3>4. QED
      BY <3>2, <3>3
  <2>3. QED
    BY <2>1, <2>2
<1>6. Equation(I)
  <2>1. DOMAIN I = 0..Rounds /\ I = [n \in DOMAIN I |-> I[n]]
    OBVIOUS
  <2>2. QED
    BY <1>5, <2>1 DEF Rounds
<1>7. Equation(inlined)
  BY <1>6
<1>8. Inlined = inlined[Rounds]
  BY DEF Inlined, Rounds, R, Body, OwnStep
<1>9. \A n \in 0..Rounds : inlined[n] = [s \in R |-> Body(n, s, inlined)]
  BY <1>7 DEF Rounds
<1> HIDE DEF inlined, Equation
<1>10. 0..Rounds \subseteq {n \in 0..Rounds : inlined[n] = I[n]}
  <2> DEFINE S == {n \in 0..Rounds : inlined[n] = I[n]}
  <2>1. 0 \in S
    <3>1. \A s \in R : Body(0, s, I) = {<<s>>} /\ Body(0, s, inlined) = {<<s>>}
      BY DEF Body
    <3>2. QED
      BY <1>5, <1>9, <3>1, RoundsFacts
  <2>2. ASSUME NEW n \in 1..Rounds, n - 1 \in S
        PROVE  n \in S
    <3>1. inlined[n - 1] = I[n - 1] /\ I[n - 1] \in V
      BY <1>4, <2>2
    <3> HIDE DEF V
    <3>2. \A s \in R : Body(n, s, I) = Body(n, s, inlined)
      BY <1>2, <3>1
    <3>3. QED
      BY <1>5, <1>9, <3>2, RoundsFacts
  <2> HIDE DEF S
  <2>3. 0..Rounds \subseteq S
    BY <2>1, <2>2, RoundsInduction
  <2>4. QED
    BY <2>3 DEF S
<1>11. inlined[Rounds] = I[Rounds]
  BY <1>10, RoundsFacts
<1>12. AreInlined(I)
  <2>1. \A n \in 0..Rounds : Offers(I[n], R, Step)
    BY DEF Offers
  <2>2. \A r \in R : I[0][r] = {<<r>>}
    BY <1>3, RoundsFacts
  <2>3. \A n \in 1..Rounds : \A r \in R : I[n][r] = InlinedBody(r, I[n - 1])
    BY <1>4
  <2>4. QED
    BY <2>1, <2>2, <2>3 DEF AreInlined, R
<1>13. QED
  BY <1>8, <1>11, <1>12

(* The units have the same steps in any order, ...                         *)
LEMMA SameSteps ==
  ASSUME runUnits \in [Unit -> RunUnit], NEW o \in Orders, NEW p \in Phase
  PROVE  ToSet(AllSteps(InOrder(o), p)) = UNION {ToSet(runUnits[u].steps[p]) : u \in Unit}
<1> DEFINE parts == [j \in DOMAIN InOrder(o) |-> InOrder(o)[j].steps[p]]
           flat == FlattenSeq(parts)
<1>1. o \in Seq(Unit) /\ Len(o) \in Nat /\ DOMAIN o = 1..Len(o) /\ ToSet(o) = Unit
      /\ \A j \in 1..Len(o) : o[j] \in Unit
  BY OrderFacts, LenProperties, ElementOfSeq
<1>2. Unit = {o[j] : j \in 1..Len(o)}
  BY <1>1, ToSetFacts
<1>3. parts = [j \in 1..Len(o) |-> runUnits[o[j]].steps[p]]
  BY <1>1 DEF InOrder
<1>4. \A u \in Unit : runUnits[u].steps[p] \in Seq(Step)
  BY DEF RunUnit
<1>5. parts \in [1..Len(o) -> Seq(Step)]
  BY <1>1, <1>3, <1>4
<1>6. \A j \in 1..Len(o) : parts[j] = runUnits[o[j]].steps[p]
  BY <1>3
<1> HIDE DEF parts, flat
<1>7. parts \in Seq(Seq(Step)) /\ Len(parts) = Len(o)
  <2> DEFINE n == Len(o)
  <2>1. n \in Nat /\ parts \in [1..n -> Seq(Step)]
    BY <1>1, <1>5
  <2> HIDE DEF n
  <2>2. parts \in Seq(Seq(Step))
    BY <2>1, SeqDef
  <2>3. DOMAIN parts = 1..n /\ DOMAIN parts = 1..Len(parts) /\ Len(parts) \in Nat
    BY <2>1, <2>2, LenProperties
  <2>4. Len(parts) = n
    BY <2>1, <2>3
  <2>5. QED
    BY <2>2, <2>4 DEF n
<1>8. flat \in Seq(Step) /\ Laid(parts, flat)
  BY <1>7, FlattenLaid DEF flat
<1>9. AllSteps(InOrder(o), p) = flat
  BY DEF AllSteps, flat, parts
<1>10. ToSet(flat) = {flat[x] : x \in 1..Len(flat)}
  BY <1>8, ToSetFacts
<1>11. \A u \in Unit : ToSet(runUnits[u].steps[p]) = {runUnits[u].steps[p][j] : j \in 1..Len(runUnits[u].steps[p])}
  BY <1>4, ToSetFacts
<1>12. ASSUME NEW s \in ToSet(flat)
       PROVE  \E u \in Unit : s \in ToSet(runUnits[u].steps[p])
  <2>1. PICK x \in 1..Len(flat) : s = flat[x]
    BY <1>10
  <2>2. PICK k \in 1..Len(parts) : \E j \in 1..Len(parts[k]) : flat[x] = parts[k][j]
    BY <1>8 DEF Laid
  <2>3. k \in 1..Len(o) /\ o[k] \in Unit /\ parts[k] = runUnits[o[k]].steps[p]
    BY <1>1, <1>6, <1>7, <2>2
  <2>4. QED
    BY <1>11, <2>1, <2>2, <2>3
<1>13. ASSUME NEW u \in Unit, NEW s \in ToSet(runUnits[u].steps[p])
       PROVE  s \in ToSet(flat)
  <2>1. PICK k \in 1..Len(o) : u = o[k]
    BY <1>2
  <2>2. PICK j \in 1..Len(runUnits[u].steps[p]) : s = runUnits[u].steps[p][j]
    BY <1>11, <1>13
  <2>3. k \in 1..Len(parts) /\ j \in 1..Len(parts[k]) /\ s = parts[k][j]
    BY <1>6, <1>7, <2>1, <2>2
  <2>4. \E x \in 1..Len(flat) : flat[x] = parts[k][j]
    BY <1>8, <2>3 DEF Laid
  <2>5. QED
    BY <1>10, <2>3, <2>4
<1>14. QED
  BY <1>9, <1>12, <1>13

(* ... so that a call finds something in all of them or in none.           *)
LEMMA LeftInAnyOrder ==
  ASSUME runUnits \in [Unit -> RunUnit], NEW s \in Step, NEW o \in Orders, NEW q \in Orders,
         Left(InOrder(o), s)
  PROVE  Left(InOrder(q), s)
<1>1. CASE ~IsCall(s)
  BY <1>1 DEF Left
<1>2. CASE IsCall(s) /\ s.command
  BY <1>2 DEF Left, Unresolvable
<1>3. CASE IsCall(s) /\ ~s.command
  <2> DEFINE p == s.call.phase
             Steps1(r) == AllSteps(InOrder(r), p)
             Those(r) == {x \in ToSet(Steps1(r)) : x.name = s.call.name}
             Named(r) == Filtered(Steps1(r), Those(r))
  <2>1. p \in Phase
    BY <1>3, StepFacts
  <2>2. ASSUME NEW r \in Orders
        PROVE  (FindStep(InOrder(r), s.call) = <<>>) <=> Those(r) = {}
    <3> DEFINE list == Steps1(r)
               named == Named(r)
    <3>1. InOrder(r) \in Seq(RunUnit)
      BY InOrderFacts
    <3>2. list \in Seq(RawSteps(InOrder(r)))
      BY <2>1, <3>1, RawStepsFacts
    <3>3. FindStep(InOrder(r), s.call) = IF named = <<>> THEN <<>> ELSE <<named[1]>>
      BY DEF FindStep
    <3>4. <<named[1]>> # <<>>
      <4>1. Len(<<named[1]>>) = 1 /\ Len(<<>>) = 0
        BY EmptySeq
      <4>2. QED
        BY <4>1
    <3>5. Those(r) \subseteq ToSet(list)
      OBVIOUS
    <3> DEFINE those == Those(r)
               R == RawSteps(InOrder(r))
    <3>6. named = Filtered(list, those)
      OBVIOUS
    <3> HIDE DEF list, those, named, R
    <3>7. list \in Seq(R) /\ those \subseteq ToSet(list)
      BY <3>2, <3>5 DEF R, those
    <3>8. named \in Seq(R) /\ ToSet(named) = those
      <4>1. Filtered(list, those) \in Seq(R) /\ ToSet(Filtered(list, those)) = ToSet(list) \cap those
        BY <3>7, FilteredFacts
      <4>2. QED
        BY <3>6, <3>7, <4>1
    <3>9. (named = <<>>) <=> ToSet(named) = {}
      <4>1. named # <<>> => named[1] \in ToSet(named)
        BY <3>8, EmptySeq, LenProperties, ToSetFacts
      <4>2. QED
        BY <4>1, ToSetEmpty
    <3>10. QED
      BY <3>3, <3>4, <3>8, <3>9 DEF those
  <2>3. ToSet(Steps1(o)) = ToSet(Steps1(q))
    BY <2>1, SameSteps
  <2>4. Those(o) = Those(q)
    BY <2>3
  <2> HIDE DEF Those
  <2>5. (FindStep(InOrder(o), s.call) = <<>>) <=> FindStep(InOrder(q), s.call) = <<>>
    BY <2>2, <2>4
  <2>6. QED
    BY <1>3, <2>5 DEF Left, Unresolvable
<1>4. QED
  BY <1>1, <1>2, <1>3

(* With any priority steps stand for lists.                                *)
LEMMA LevelsFacts ==
  ASSUME runUnits \in [Unit -> RunUnit], NEW I, AreInlined(I)
  PROVE  \A n \in 0..Rounds : Offers(Levels(I)[n], AnyStep, Step)
<1> SUFFICES ASSUME NEW n \in 0..Rounds, NEW s \in AnyStep
             PROVE  Levels(I)[n][s] \in SUBSET Seq(Step)
  BY DEF Offers
<1>1. s \in Step
  BY ReplacingFacts
<1>2. CASE n = 0
  <2>1. Levels(I)[n][s] = {<<s>>} /\ <<s>> \in Seq(Step)
    BY <1>1, <1>2 DEF Levels
  <2>2. QED
    BY <2>1
<1>3. CASE n # 0
  <2>1. Offers(I[n - 1], OwnStep, Step)
    BY <1>3, RoundsFacts DEF AreInlined
  <2>2. Levels(I)[n][s] = InlinedBody(s, I[n - 1])
    BY <1>3 DEF Levels
  <2>3. QED
    BY <2>1, <2>2, InlinedBodyFacts
<1>4. QED
  BY <1>2, <1>3

(* With a priority a step stands for the same, with that priority.         *)
LEMMA LevelPriority ==
  ASSUME runUnits \in [Unit -> RunUnit], NEW I, AreInlined(I), NEW n \in 0..Rounds,
         NEW r \in OwnStep, NEW p \in Priority
  PROVE  /\ Prioritised(r, p) \in AnyStep
         /\ Levels(I)[n][Prioritised(r, p)] \subseteq {FlatMap(Single(p), list) : list \in I[n][r]}
<1> DEFINE s == Prioritised(r, p)
           q == s.priority
<1>1. r \in Step /\ r \in AnyStep /\ s \in AnyStep /\ s \in Step
  <2>1. r \in Step /\ r \in AnyStep
    BY ReplacingFacts
  <2>2. s \in AnyStep
    BY DEF AnyStep, Steps, OwnStep
  <2>3. s \in Step
    BY <2>1, PrioritisedFacts
  <2>4. QED
    BY <2>1, <2>2, <2>3
<1>2. s.call = r.call /\ s.command = r.command /\ q = (IF p = NoPriority THEN r.priority ELSE p)
  BY <1>1, PrioritisedFacts
<1>3. r.priority \in Priority /\ q \in Priority
  BY <1>1, StepFacts
<1>4. \A units : (Left(units, s) <=> Left(units, r)) /\ Called(units, s) = Called(units, r)
  BY <1>2 DEF Left, Called, Unresolvable, IsCall
<1>5. FlatMap(Single(p), <<r>>) = <<s>>
  <2> DEFINE f == Single(p)
  <2>1. Replaces(f, Step, Step) /\ f[r] = <<s>>
    BY <1>1, PriorityIsFlatMap, EmptySeq DEF Single
  <2> HIDE DEF f, s
  <2>2. FlatMap(f, <<r>>) = f[r]
    BY <1>1, <2>1, FlatMapOne
  <2>3. QED
    BY <2>1, <2>2 DEF f
<1> HIDE DEF s, q
<1>6. CASE n = 0
  <2>1. Levels(I)[n][s] = {<<s>>}
    BY <1>1, <1>6 DEF Levels
  <2>2. <<r>> \in I[n][r]
    BY <1>6 DEF AreInlined
  <2>3. QED
    BY <1>1, <1>5, <2>1, <2>2 DEF s
<1>7. CASE n # 0
  <2>1. n \in 1..Rounds /\ n - 1 \in 0..Rounds
    BY <1>7, RoundsFacts
  <2> DEFINE inner == I[n - 1]
  <2>2. Levels(I)[n][s] = InlinedBody(s, inner)
    BY <1>1, <1>7 DEF Levels
  <2>3. I[n][r] = InlinedBody(r, inner)
    BY <2>1 DEF AreInlined
  <2>4. Offers(inner, OwnStep, Step)
    BY <2>1 DEF AreInlined
  <2> HIDE DEF inner
  <2>5. ASSUME NEW y \in InlinedBody(s, inner)
        PROVE  \E list \in InlinedBody(r, inner) : y = FlatMap(Single(p), list)
    <3>1. PICK o \in Orders : y \in BodyIn(InOrder(o), s, inner)
      BY DEF InlinedBody
    <3> DEFINE units == InOrder(o)
               called == Called(units, r)
    <3>2. BodyIn(units, r, inner) \subseteq InlinedBody(r, inner)
      BY DEF InlinedBody
    <3>3. CASE Left(units, s)
      <4>1. y = <<s>> /\ <<r>> \in BodyIn(units, r, inner)
        BY <1>4, <3>1, <3>3 DEF BodyIn
      <4>2. QED
        BY <1>5, <3>2, <4>1
    <3>4. CASE ~Left(units, s)
      <4>1. PICK list \in Concatenations(inner, called) : y = FlatMap(Single(q), list)
        BY <1>4, <3>1, <3>4 DEF BodyIn, q
      <4>2. FlatMap(Single(r.priority), list) \in BodyIn(units, r, inner)
        BY <1>4, <3>4, <4>1 DEF BodyIn
      <4>3. called \in Seq(OwnStep)
        <5>1. units \in Seq(RunUnit) /\ RawSteps(units) = OwnStep
          BY InOrderFacts DEF OwnStep
        <5>2. IsCall(r)
          BY <1>4, <3>4 DEF Left
        <5> HIDE DEF units
        <5>3. QED
          BY <1>1, <5>1, <5>2, CalledFacts
      <4> HIDE DEF called, units
      <4>4. list \in Seq(Step)
        BY <2>4, <4>1, <4>3, ConcatenationsType
      <4>5. FlatMap(Single(p), FlatMap(Single(r.priority), list)) = FlatMap(Single(IF p = NoPriority THEN r.priority ELSE p), list)
        BY <1>3, <4>4, SingleTwice
      <4>6. QED
        BY <1>2, <3>2, <4>1, <4>2, <4>5
    <3>5. QED
      BY <3>3, <3>4
  <2>6. QED
    BY <1>1, <2>2, <2>3, <2>5 DEF s
<1>8. QED
  BY <1>6, <1>7

\* With priority p each step of R stands, by g, for what it does by f.
Prioritising(f, g, R, T, p) ==
  \A r \in R : /\ Prioritised(r, p) \in T
              /\ g[Prioritised(r, p)] \subseteq {FlatMap(Single(p), list) : list \in f[r]}

(* So do lists of steps.                                                   *)
LEMMA ConcatenationsPrioritised ==
  ASSUME NEW R \in SUBSET Step, NEW T, NEW p \in Priority, NEW f, Offers(f, R, Step), NEW g, Offers(g, T, Step),
         Prioritising(f, g, R, T, p)
  PROVE  \A s \in Seq(R) :
           /\ FlatMap(Single(p), s) \in Seq(T)
           /\ Concatenations(g, FlatMap(Single(p), s)) \subseteq {FlatMap(Single(p), list) : list \in Concatenations(f, s)}
<1> DEFINE k == Single(p)
           Good(s) == /\ FlatMap(k, s) \in Seq(T)
                      /\ Concatenations(g, FlatMap(k, s)) \subseteq {FlatMap(k, list) : list \in Concatenations(f, s)}
           S == {s \in Seq(R) : Good(s)}
<1>1. Replaces(k, Step, Step) /\ \A r \in Step : k[r] = <<Prioritised(r, p)>>
  BY PriorityIsFlatMap, EmptySeq DEF Single
<1>2. \A r \in R : Prioritised(r, p) \in T /\ g[Prioritised(r, p)] \subseteq {FlatMap(k, list) : list \in f[r]}
  BY DEF Prioritising
<1> HIDE DEF k
<1>3. <<>> \in S
  <2>1. FlatMap(k, <<>>) = <<>> /\ <<>> \in Seq(T) /\ <<>> \in Seq(R)
    BY FlatMapEmpty, EmptySeq
  <2>2. Concatenations(g, <<>>) = {<<>>} /\ Concatenations(f, <<>>) = {<<>>}
    BY ConcatenationsEmpty
  <2>3. QED
    BY <2>1, <2>2
<1>4. ASSUME NEW s \in Seq(R), NEW e \in R, s \in S
      PROVE  Append(s, e) \in S
  <2> DEFINE m == FlatMap(k, s)
             d == Prioritised(e, p)
  <2>1. Append(s, e) \in Seq(R) /\ s \in Seq(Step) /\ e \in Step
    BY AppendProperties, SeqMonotonic
  <2>2. m \in Seq(T) /\ d \in T
    BY <1>2, <1>4
  <2>3. FlatMap(k, Append(s, e)) = m \o k[e]
    BY <1>1, <2>1, FlatMapAppend
  <2>4. k[e] = <<d>>
    BY <1>1, <2>1
  <2>5. Concatenations(g, m) \subseteq {FlatMap(k, list) : list \in Concatenations(f, s)}
    BY <1>4
  <2>6. g[d] \subseteq {FlatMap(k, list) : list \in f[e]}
    BY <1>2
  <2> HIDE DEF m, d
  <2>7. m \o <<d>> = Append(m, d) /\ Append(m, d) \in Seq(T)
    BY <2>2, AppendIsConcat, AppendProperties
  <2>8. Concatenations(g, Append(m, d)) = Joined(Concatenations(g, m), g[d])
    BY <2>2, ConcatenationsAppend
  <2>9. Concatenations(f, Append(s, e)) = Joined(Concatenations(f, s), f[e])
        /\ Concatenations(f, s) \in SUBSET Seq(Step)
    BY ConcatenationsAppend
  <2>10. f[e] \in SUBSET Seq(Step)
    BY DEF Offers
  <2>11. ASSUME NEW x \in Joined(Concatenations(g, m), g[d])
         PROVE  \E y \in Joined(Concatenations(f, s), f[e]) : x = FlatMap(k, y)
    <3>1. PICK a \in Concatenations(g, m), b \in g[d] : x = a \o b
      BY JoinedMembers
    <3>2. PICK al \in Concatenations(f, s) : a = FlatMap(k, al)
      BY <2>5
    <3>3. PICK bl \in f[e] : b = FlatMap(k, bl)
      BY <2>6
    <3>4. FlatMap(k, al \o bl) = FlatMap(k, al) \o FlatMap(k, bl)
      <4>1. al \in Seq(Step) /\ bl \in Seq(Step)
        BY <2>9, <2>10
      <4>2. QED
        BY <1>1, <4>1, FlatMapConcat
    <3>5. al \o bl \in Joined(Concatenations(f, s), f[e])
      BY JoinedMembers
    <3>6. QED
      BY <3>1, <3>2, <3>3, <3>4, <3>5
  <2>12. Concatenations(g, FlatMap(k, Append(s, e))) = Joined(Concatenations(g, m), g[d])
    BY <2>3, <2>4, <2>7, <2>8
  <2>13. FlatMap(k, Append(s, e)) \in Seq(T)
    BY <2>3, <2>4, <2>7
  <2>14. \A x \in Concatenations(g, FlatMap(k, Append(s, e))) :
           \E y \in Concatenations(f, Append(s, e)) : x = FlatMap(k, y)
    BY <2>9, <2>11, <2>12
  <2>15. Good(Append(s, e))
    <3> HIDE DEF k
    <3>1. QED
      BY <2>13, <2>14
  <2>16. QED
    BY <2>1, <2>15
<1> HIDE DEF S
<1>5. Seq(R) \subseteq S
  BY <1>3, <1>4, SequenceInduction
<1>6. QED
  BY <1>5 DEF S, k

(* A step stands for what any replacement of it stands for a level below.  *)
LEMMA LevelOfReplacement ==
  ASSUME runUnits \in [Unit -> RunUnit], NEW I, AreInlined(I), NEW n \in 1..Rounds,
         NEW s \in AnyStep, NEW m \in Replacements(s)
  PROVE  Concatenations(Levels(I)[n - 1], m) \subseteq Levels(I)[n][s]
<1> DEFINE inner == I[n - 1]
           g == Levels(I)[n - 1]
<1>1. n \in 0..Rounds /\ n # 0 /\ n - 1 \in 0..Rounds
  BY RoundsFacts
<1>2. Levels(I)[n][s] = InlinedBody(s, inner)
  BY <1>1 DEF Levels
<1>3. s \in Step /\ s.priority \in Priority
  BY ReplacingFacts, StepFacts
<1>4. PICK o \in Orders : m = Replacement(InOrder(o), s)
  BY DEF Replacements
<1> DEFINE units == InOrder(o)
<1>5. units \in Seq(RunUnit) /\ RawSteps(units) = OwnStep /\ s \in Steps(units)
  BY InOrderFacts DEF OwnStep, AnyStep
<1>6. BodyIn(units, s, inner) \subseteq InlinedBody(s, inner)
  BY DEF InlinedBody
<1>7. Offers(g, AnyStep, Step)
  BY <1>1, LevelsFacts
<1>8. CASE Left(units, s)
  <2>1. m = <<s>>
    BY <1>4, <1>5, <1>8, ReplacementFacts
  <2>2. Concatenations(g, <<s>>) = g[s]
    <3> HIDE DEF g
    <3>1. QED
      BY <1>7, ConcatenationsOne
  <2>3. g[s] \subseteq {<<s>>}
    <3>1. CASE n - 1 = 0
      BY <1>1, <3>1 DEF Levels
    <3>2. CASE n - 1 # 0
      <4>1. g[s] = InlinedBody(s, I[(n - 1) - 1])
        BY <1>1, <3>2 DEF Levels
      <4>2. \A q \in Orders : Left(InOrder(q), s)
        BY <1>3, <1>8, LeftInAnyOrder
      <4>3. QED
        BY <4>1, <4>2 DEF InlinedBody, BodyIn
    <3>3. QED
      BY <3>1, <3>2
  <2>4. <<s>> \in BodyIn(units, s, inner)
    BY <1>8 DEF BodyIn
  <2>5. QED
    BY <1>2, <1>6, <2>1, <2>2, <2>3, <2>4
<1>9. CASE ~Left(units, s)
  <2> DEFINE p == s.priority
             called == Called(units, s)
  <2>1. m = FlatMap(Single(p), called)
    BY <1>4, <1>5, <1>9, ReplacementFacts
  <2>2. called \in Seq(OwnStep)
    <3>1. IsCall(s)
      BY <1>9 DEF Left
    <3> HIDE DEF units
    <3>2. QED
      BY <1>3, <1>5, <3>1, CalledFacts
  <2>3. Prioritising(inner, g, OwnStep, AnyStep, p)
    BY <1>1, <1>3, LevelPriority DEF Prioritising
  <2>4. Offers(inner, OwnStep, Step) /\ OwnStep \in SUBSET Step
    BY <1>1, ReplacingFacts DEF AreInlined
  <2>5. BodyIn(units, s, inner) = {FlatMap(Single(p), list) : list \in Concatenations(inner, called)}
    BY <1>9 DEF BodyIn
  <2>6. p \in Priority
    BY <1>3
  <2> HIDE DEF g, inner, called, p, units
  <2>7. Concatenations(g, FlatMap(Single(p), called)) \subseteq {FlatMap(Single(p), list) : list \in Concatenations(inner, called)}
    BY <1>7, <2>2, <2>3, <2>4, <2>6, ConcatenationsPrioritised
  <2>8. QED
    BY <1>2, <1>6, <2>1, <2>5, <2>7 DEF g
<1>10. QED
  BY <1>8, <1>9

(* Depth first or in rounds: a list becomes what its steps stand for.      *)
LEMMA RoundsAreLevels ==
  ASSUME runUnits \in [Unit -> RunUnit], NEW I, AreInlined(I), NEW G, AreRounds(G)
  PROVE  \A n \in 0..Rounds : \A list \in Seq(AnyStep) : G[n][list] \subseteq Concatenations(Levels(I)[n], list)
<1> DEFINE V == Seq(AnyStep)
           S == {n \in 0..Rounds : \A list \in V : G[n][list] \subseteq Concatenations(Levels(I)[n], list)}
<1>1. 0 \in S
  <2> DEFINE f == Levels(I)[0]
  <2>1. \A s \in AnyStep : f[s] = {<<s>>}
    BY RoundsFacts DEF Levels
  <2> HIDE DEF f
  <2>2. \A list \in V : list \in Concatenations(f, list)
    BY <2>1, ConcatenationsSelf
  <2>3. \A list \in V : G[0][list] = {list}
    BY DEF AreRounds
  <2>4. QED
    BY <2>2, <2>3, RoundsFacts DEF f
<1>2. ASSUME NEW n \in 1..Rounds, n - 1 \in S
      PROVE  n \in S
  <2> DEFINE f == Levels(I)[n]
             g == Levels(I)[n - 1]
             h == Composed(Replacing, g, AnyStep)
  <2>1. n \in 0..Rounds /\ n - 1 \in 0..Rounds
    BY RoundsFacts
  <2>2. Offers(f, AnyStep, Step) /\ Offers(g, AnyStep, Step)
    BY <2>1, LevelsFacts
  <2>3. Offers(Replacing, AnyStep, AnyStep)
    BY ReplacingFacts
  <2>4. \A s \in AnyStep : h[s] \subseteq f[s]
    BY LevelOfReplacement DEF Replacing, Composed
  <2>5. \A m \in V : G[n - 1][m] \subseteq Concatenations(g, m)
    BY <1>2
  <2> HIDE DEF f, g
  <2>6. /\ Offers(h, AnyStep, Step)
        /\ \A list \in V : \A m \in Concatenations(Replacing, list) : Concatenations(g, m) \subseteq Concatenations(h, list)
    BY <2>2, <2>3, ConcatenationsTwice
  <2> HIDE DEF h
  <2>7. \A list \in V : Concatenations(h, list) \subseteq Concatenations(f, list)
    BY <2>2, <2>4, <2>6, ConcatenationsGrow
  <2>8. ASSUME NEW list \in V, NEW x \in G[n][list]
        PROVE  x \in Concatenations(f, list)
    <3>1. PICK m \in Concatenations(Replacing, list) : m \in V /\ x \in G[n - 1][m]
      BY FirstRound
    <3>2. QED
      BY <2>5, <2>6, <2>7, <3>1
  <2>9. QED
    BY <2>1, <2>8 DEF f
<1> HIDE DEF S
<1>3. 0..Rounds \subseteq S
  BY <1>1, <1>2, RoundsInduction
<1>4. QED
  BY <1>3 DEF S

(* Interpolating the calls of a list inlines them.                         *)
LEMMA InterpolatedIsInlined ==
  ASSUME runUnits \in [Unit -> RunUnit], NEW steps \in Seq(OwnStep)
  PROVE  /\ interpolateCalls(steps) \subseteq Concatenations(Inlined, steps)
         /\ interpolateCalls(steps) \in SUBSET Seq(AnyStep)
<1>1. OwnStep \subseteq AnyStep
  BY ReplacingFacts
<1>2. steps \in Seq(AnyStep)
  BY <1>1, SeqMonotonic
<1>3. PICK G : AreRounds(G) /\ \A list \in Seq(AnyStep) : interpolateCalls(list) = G[Rounds][list]
  BY InterpolateFacts
<1>4. PICK I : AreInlined(I) /\ Inlined = I[Rounds]
  BY InlinedFacts
<1>5. Rounds \in 0..Rounds /\ Rounds \in 1..Rounds /\ Rounds # 0
  BY RoundsFacts, MaxRecursionsAssumption DEF Rounds
<1> DEFINE f == Levels(I)[Rounds]
           g == I[Rounds]
<1>6. interpolateCalls(steps) \subseteq Concatenations(f, steps)
  BY <1>2, <1>3, <1>4, <1>5, RoundsAreLevels
<1>7. \A r \in OwnStep : f[r] \subseteq g[r]
  BY <1>1, <1>4, <1>5 DEF Levels, AreInlined
<1>8. Offers(f, OwnStep, Step) /\ Offers(g, OwnStep, Step)
  BY <1>1, <1>4, <1>5, LevelsFacts DEF AreInlined, Offers
<1> HIDE DEF f, g
<1>9. Concatenations(f, steps) \subseteq Concatenations(g, steps)
  BY <1>7, <1>8, ConcatenationsGrow
<1>10. G[Rounds][steps] \in SUBSET Seq(AnyStep)
  BY <1>2, <1>3, <1>5 DEF AreRounds
<1>11. QED
  BY <1>2, <1>3, <1>4, <1>6, <1>9, <1>10 DEF g

-----------------------------------------------------------------------------
(* Sorting by insertion *)
Insert(list, e) ==
  LET later == {s \in ToSet(list) : PriorityOf(s) > PriorityOf(e)}
  IN Append(Filtered(list, ToSet(list) \ later), e) \o Filtered(list, later)

NotLater == {pair \in Step \X Step : PriorityOf(pair[1]) <= PriorityOf(pair[2])}

\* The steps of a priority, and those that are earlier or later.
At(p) == {s \in Step : PriorityOf(s) = p}
Early(p) == {s \in Step : PriorityOf(s) <= p}
Late(p) == {s \in Step : PriorityOf(s) > p}

(* Priorities are numbers.                                                 *)
LEMMA PriorityFacts == \A s \in Step : PriorityOf(s) \in 0..MaxPriority /\ PriorityOf(s) \in Nat
<1>1. \A s \in Step : s.priority \in {NoPriority} \cup 0..MaxPriority
  BY StepFacts DEF Priority
<1>2. QED
  BY <1>1 DEF PriorityOf, MaxPriority, NoPriority

(* Filtering depends on what the list has.                                 *)
LEMMA FilteredAgree ==
  ASSUME NEW T, NEW s \in Seq(T), NEW S, NEW R, ToSet(s) \cap S = ToSet(s) \cap R
  PROVE  Filtered(s, S) = Filtered(s, R)
<1>1. DOMAIN s = 1..Len(s) /\ ToSet(s) = {s[j] : j \in 1..Len(s)}
  BY LenProperties, ToSetFacts
<1>2. \A j \in DOMAIN s : s[j] \in S <=> s[j] \in R
  BY <1>1
<1>3. QED
  BY <1>2 DEF Filtered

(* Nothing is left if nothing is let through.                              *)
LEMMA FilteredNone ==
  ASSUME NEW T, NEW s \in Seq(T), NEW S, ToSet(s) \cap S = {}
  PROVE  Filtered(s, S) = <<>>
<1> DEFINE f == Filtered(s, S)
<1>1. f \in Seq(T) /\ ToSet(f) = {}
  BY FilteredFacts
<1> HIDE DEF f
<1>2. ToSet(f) = {f[j] : j \in 1..Len(f)} /\ Len(f) \in Nat
  BY <1>1, ToSetFacts, LenProperties
<1>3. Len(f) = 0
  <2>1. Len(f) # 0 => 1 \in 1..Len(f)
    BY <1>2
  <2>2. QED
    BY <1>1, <1>2, <2>1
<1>4. QED
  BY <1>1, <1>3, EmptySeq DEF f

(* The steps of a priority are those that a set of steps lets through.     *)
LEMMA OfPriorityFacts ==
  ASSUME NEW list \in Seq(Step), NEW p
  PROVE  OfPriority(list, p) = Filtered(list, At(p))
<1>1. ToSet(list) \subseteq Step
  BY ToSetFacts
<1>2. ToSet(list) \cap {s \in ToSet(list) : PriorityOf(s) = p} = ToSet(list) \cap At(p)
  BY <1>1 DEF At
<1>3. QED
  BY <1>2, FilteredAgree DEF OfPriority

(* Where a step is inserted.                                               *)
LEMMA InsertIs ==
  ASSUME NEW list \in Seq(Step), NEW e \in Step
  PROVE  Insert(list, e) = (Filtered(list, Early(PriorityOf(e))) \o <<e>>) \o Filtered(list, Late(PriorityOf(e)))
<1> DEFINE p == PriorityOf(e)
           later == {s \in ToSet(list) : PriorityOf(s) > p}
           a == Filtered(list, ToSet(list) \ later)
           b == Filtered(list, later)
<1>1. ToSet(list) \subseteq Step /\ p \in Nat /\ \A s \in Step : PriorityOf(s) \in Nat
  BY ToSetFacts, PriorityFacts
<1>2. a = Filtered(list, Early(p))
  <2>1. ToSet(list) \cap (ToSet(list) \ later) = ToSet(list) \cap Early(p)
    BY <1>1 DEF Early
  <2>2. QED
    BY <2>1, FilteredAgree
<1>3. b = Filtered(list, Late(p))
  <2>1. ToSet(list) \cap later = ToSet(list) \cap Late(p)
    BY <1>1 DEF Late
  <2>2. QED
    BY <2>1, FilteredAgree
<1>4. a \in Seq(Step)
  BY FilteredFacts
<1>5. Insert(list, e) = Append(a, e) \o b
  BY DEF Insert
<1> HIDE DEF a, b
<1>6. Append(a, e) = a \o <<e>>
  BY <1>4, AppendIsConcat
<1>7. QED
  BY <1>2, <1>3, <1>5, <1>6

(* Of each priority there is one more, at the end, if the step has it.     *)
LEMMA InsertKeepsOrder ==
  ASSUME NEW list \in Seq(Step), NEW e \in Step, NEW p \in Nat
  PROVE  Filtered(Insert(list, e), At(p)) = Filtered(list, At(p)) \o Filtered(<<e>>, At(p))
<1> DEFINE q == PriorityOf(e)
           a == Filtered(list, Early(q))
           b == Filtered(list, Late(q))
           one == <<e>>
           A == At(p)
           x == Filtered(list, A)
           y == Filtered(one, A)
<1>1. q \in Nat /\ \A s \in Step : PriorityOf(s) \in Nat
  BY PriorityFacts
<1>2. a \in Seq(Step) /\ b \in Seq(Step) /\ one \in Seq(Step)
  BY FilteredFacts
<1>3. Filtered(a, A) = IF p <= q THEN x ELSE <<>>
  <2>1. Filtered(a, A) = Filtered(list, Early(q) \cap A)
    BY FilteredTwice
  <2>2. p <= q => Early(q) \cap A = A
    BY <1>1 DEF Early, At
  <2>3. ~(p <= q) => ToSet(list) \cap (Early(q) \cap A) = {}
    BY <1>1 DEF Early, At
  <2>4. QED
    BY <2>1, <2>2, <2>3, FilteredNone
<1>4. Filtered(b, A) = IF p <= q THEN <<>> ELSE x
  <2>1. Filtered(b, A) = Filtered(list, Late(q) \cap A)
    BY FilteredTwice
  <2>2. ~(p <= q) => Late(q) \cap A = A
    BY <1>1 DEF Late, At
  <2>3. p <= q => ToSet(list) \cap (Late(q) \cap A) = {}
    BY <1>1 DEF Late, At
  <2>4. QED
    BY <2>1, <2>2, <2>3, FilteredNone
<1>5. ~(p <= q) => y = <<>>
  <2>1. ~(p <= q) => e \notin A
    BY <1>1 DEF At
  <2>2. QED
    BY <2>1, FilteredOne
<1>6. x \in Seq(Step) /\ y \in Seq(Step)
  BY <1>2, FilteredFacts
<1>7. Insert(list, e) = (a \o one) \o b
  BY InsertIs
<1> HIDE DEF a, b, one, A, x, y, q
<1>8. a \o one \in Seq(Step)
  BY <1>2, ConcatProperties
<1>9. Filtered((a \o one) \o b, A) = (Filtered(a, A) \o y) \o Filtered(b, A)
  <2> DEFINE c == a \o one
  <2>1. Filtered(c, A) = Filtered(a, A) \o y
    BY <1>2, FilteredConcat DEF y
  <2>2. c \in Seq(Step)
    BY <1>8
  <2> HIDE DEF c
  <2>3. b \in Seq(Step)
    BY <1>2
  <2>4. Filtered(c \o b, A) = Filtered(c, A) \o Filtered(b, A)
    BY <2>2, <2>3, FilteredConcat
  <2>5. QED
    BY <2>1, <2>4 DEF c
<1>10. CASE p <= q
  <2>1. x \o y \in Seq(Step)
    BY <1>6, ConcatProperties
  <2> DEFINE xy == x \o y
  <2>2. Filtered((a \o one) \o b, A) = xy \o <<>>
    BY <1>3, <1>4, <1>9, <1>10
  <2> HIDE DEF xy
  <2>3. xy \o <<>> = xy
    BY <2>1, ConcatEmptySeq DEF xy
  <2>4. QED
    BY <1>7, <2>2, <2>3 DEF xy, A, x, y, one
<1>11. CASE ~(p <= q)
  <2>1. Filtered((a \o one) \o b, A) = (<<>> \o <<>>) \o x
    BY <1>3, <1>4, <1>5, <1>9, <1>11
  <2>2. x \o <<>> = x /\ (<<>> \o <<>>) \o x = x
    BY <1>6, EmptySeq, ConcatEmptySeq
  <2>3. QED
    BY <1>5, <1>7, <1>11, <2>1, <2>2 DEF A, x, y, one
<1>12. QED
  BY <1>10, <1>11

(* A step is inserted where it belongs.                                    *)
LEMMA InsertSorted ==
  ASSUME NEW list \in Seq(Step), NEW e \in Step, Ordered(list, NotLater)
  PROVE  Ordered(Insert(list, e), NotLater)
<1> DEFINE q == PriorityOf(e)
           a == Filtered(list, Early(q))
           b == Filtered(list, Late(q))
           one == <<e>>
<1>1. q \in Nat /\ \A s \in Step : PriorityOf(s) \in Nat
  BY PriorityFacts
<1>2. /\ a \in Seq(Step) /\ b \in Seq(Step) /\ one \in Seq(Step)
      /\ ToSet(a) = ToSet(list) \cap Early(q) /\ ToSet(b) = ToSet(list) \cap Late(q)
  BY FilteredFacts
<1>3. ToSet(one) = {e}
  BY DEF ToSet
<1>4. Ordered(a, NotLater) /\ Ordered(b, NotLater) /\ Ordered(one, NotLater)
  BY OrderedFiltered, OrderedFew
<1>5. \A s \in ToSet(a) : s \in Step /\ PriorityOf(s) <= q
  BY <1>2 DEF Early
<1>6. \A s \in ToSet(b) : s \in Step /\ q <= PriorityOf(s)
  BY <1>1, <1>2 DEF Late
<1>7. Insert(list, e) = (a \o one) \o b
  BY InsertIs
<1>8. \A s \in ToSet(a), t \in ToSet(one) : <<s, t>> \in NotLater
  BY <1>3, <1>5 DEF NotLater
<1> DEFINE c == a \o one
<1>9. \A s \in ToSet(a) \cup {e}, t \in ToSet(b) : <<s, t>> \in NotLater
  BY <1>1, <1>5, <1>6 DEF NotLater
<1>10. c \in Seq(Step) /\ ToSet(c) = ToSet(a) \cup {e}
  <2> HIDE DEF a, one
  <2>1. QED
    BY <1>2, <1>3, ConcatProperties, ToSetConcat
<1> HIDE DEF a, b, one, q
<1>11. Ordered(c, NotLater)
  BY <1>2, <1>4, <1>8, OrderedConcat
<1> HIDE DEF c
<1>12. Ordered(c \o b, NotLater)
  BY <1>2, <1>4, <1>9, <1>10, <1>11, OrderedConcat
<1>13. QED
  BY <1>7, <1>12 DEF c

(* A list with one more step is one of steps.                              *)
LEMMA InsertType ==
  ASSUME NEW T, T \subseteq Step, NEW list \in Seq(T), NEW e \in T
  PROVE  Insert(list, e) \in Seq(T)
<1> DEFINE later == {s \in ToSet(list) : PriorityOf(s) > PriorityOf(e)}
           a == Filtered(list, ToSet(list) \ later)
           b == Filtered(list, later)
<1>1. Insert(list, e) = Append(a, e) \o b
  BY DEF Insert
<1>2. a \in Seq(T) /\ b \in Seq(T)
  BY FilteredFacts
<1> HIDE DEF a, b
<1>3. QED
  BY <1>1, <1>2, AppendProperties, ConcatProperties

(* What SortedByPriority does: step after step is inserted.                *)
LEMMA SortingFacts ==
  ASSUME NEW T, T \subseteq Step, NEW steps \in Seq(T)
  PROVE  \E g : /\ SortedByPriority(steps) = g[Len(steps)]
                /\ g[0] = <<>>
                /\ \A n \in 1..Len(steps) : g[n] = Insert(g[n - 1], steps[n])
<1> DEFINE N == Len(steps)
           V == Seq(T)
           Round == [x \in V \X Nat |-> IF x[2] \in 1..N THEN Insert(x[1], steps[x[2]]) ELSE <<>>]
           Body(n, g) == IF n = 0 THEN <<>> ELSE Insert(g[n - 1], steps[n])
           Equation(g) == g = [n \in 0..N |-> Body(n, g)]
           sorted == CHOOSE g : Equation(g)
<1>1. N \in Nat /\ 0 \in 0..N /\ \A n \in 1..N : steps[n] \in T /\ n \in 0..N /\ n # 0 /\ n - 1 \in 0..N /\ n \in Nat
  BY LenProperties, ElementOfSeq
<1>2. <<>> \in V /\ \A list \in V, n \in 1..N : Insert(list, steps[n]) \in V
  <2>1. ASSUME NEW list \in V, NEW n \in 1..N
        PROVE  Insert(list, steps[n]) \in V
    <3> DEFINE e == steps[n]
    <3>1. e \in T
      BY <1>1
    <3> HIDE DEF e
    <3>2. Insert(list, e) \in Seq(T)
      BY <3>1, InsertType
    <3>3. QED
      BY <3>2 DEF e
  <2>2. QED
    BY <2>1, EmptySeq
<1> HIDE DEF N, V
<1>3. PICK g \in [0..N -> V] : \A n \in 0..N : g[n] = IF n = 0 THEN <<>> ELSE Round[<<g[n - 1], n>>]
  <2> DEFINE zero == 0
             c == <<>>
  <2>1. Round \in [V \X Nat -> V]
    BY <1>2
  <2>2. c \in V /\ N \in Nat /\ zero \in Nat
    BY <1>1, <1>2
  <2> HIDE DEF Round, zero, c
  <2>3. Recursion(V, c, Round, zero, N)
    BY <2>1, <2>2, RecursionExists
  <2>4. QED
    BY <2>3 DEF Recursion, zero, c
<1>4. ASSUME NEW n \in 1..N
      PROVE  g[n] = Insert(g[n - 1], steps[n])
  <2>1. n \in 0..N /\ n # 0 /\ n - 1 \in 0..N /\ n \in Nat
    BY <1>1
  <2>2. g[n - 1] \in V
    BY <2>1
  <2> DEFINE x == <<g[n - 1], n>>
  <2>3. x \in V \X Nat /\ x[1] = g[n - 1] /\ x[2] = n
    BY <2>1, <2>2
  <2>4. g[n] = Round[x]
    BY <1>3, <2>1
  <2> HIDE DEF x
  <2>5. Round[x] = Insert(x[1], steps[x[2]])
    BY <2>3
  <2>6. QED
    BY <2>3, <2>4, <2>5
<1> HIDE DEF Round
<1>5. \A n \in 0..N : g[n] = Body(n, g)
  <2> TAKE n \in 0..N
  <2>1. n # 0 => n \in 1..N
    BY <1>1
  <2>2. QED
    BY <1>3, <1>4, <2>1
<1> HIDE DEF Body
<1>6. Equation(g)
  <2>1. DOMAIN g = 0..N /\ g = [n \in DOMAIN g |-> g[n]]
    OBVIOUS
  <2>2. QED
    BY <1>5, <2>1
<1>7. Equation(sorted)
  BY <1>6
<1>8. SortedByPriority(steps) = sorted[N]
  BY DEF SortedByPriority, Insert, Body, N
<1> HIDE DEF sorted
<1>9. \A n \in 0..N : sorted[n] = Body(n, sorted)
  BY <1>7
<1>10. sorted[0] = <<>> /\ \A n \in 1..N : sorted[n] = Insert(sorted[n - 1], steps[n])
  BY <1>1, <1>9 DEF Body
<1>11. QED
  BY <1>8, <1>10 DEF N

(* The steps of a list are in the order of their priorities, and those of  *)
(* a priority in the order they had.                                       *)
LEMMA SortedFacts ==
  ASSUME NEW T, T \subseteq Step, NEW steps \in Seq(T)
  PROVE  /\ SortedByPriority(steps) \in Seq(T)
         /\ Ordered(SortedByPriority(steps), NotLater)
         /\ \A p \in Nat : Filtered(SortedByPriority(steps), At(p)) = Filtered(steps, At(p))
<1> DEFINE N == Len(steps)
           zero == 0
<1>1. N \in Nat /\ zero \in 0..N /\ N \in 0..N /\ zero \in Nat
  BY LenProperties
<1>2. PICK g : /\ SortedByPriority(steps) = g[N]
               /\ g[zero] = <<>>
               /\ \A n \in 1..N : g[n] = Insert(g[n - 1], steps[n])
  BY SortingFacts
<1> DEFINE Good(list, n) ==
             /\ list \in Seq(T) /\ Ordered(list, NotLater)
             /\ \A p \in Nat : Filtered(list, At(p)) = Filtered(SubSeq(steps, 1, n), At(p))
           S == {n \in 0..N : Good(g[n], n)}
<1>3. zero \in S
  <2>1. SubSeq(steps, 1, 0) = <<>>
    <3>1. SubSeq(steps, 1, 0) \in Seq(T) /\ Len(SubSeq(steps, 1, 0)) = 0
      BY <1>1, PrefixFacts
    <3>2. QED
      BY <3>1, EmptySeq
  <2>2. <<>> \in Seq(T) /\ Ordered(<<>>, NotLater)
    <3>1. Ordered(<<>>, NotLater)
      BY OrderedFew
    <3>2. QED
      BY <3>1, EmptySeq
  <2>3. QED
    BY <1>1, <1>2, <2>1, <2>2
<1>4. ASSUME NEW n \in 1..N, n - 1 \in S
      PROVE  n \in S
  <2> DEFINE k == n - 1
             list == g[k]
             e == steps[n]
             pre == SubSeq(steps, 1, k)
             h == Insert(list, e)
  <2>1. k \in 0..N /\ k < N /\ k + 1 = n /\ n \in 0..N
    BY <1>1
  <2>2. g[n] = h
    BY <1>2
  <2>3. e \in T /\ e \in Step /\ list \in Seq(T) /\ Ordered(list, NotLater)
        /\ \A p \in Nat : Filtered(list, At(p)) = Filtered(pre, At(p))
    BY <1>4, ElementOfSeq
  <2>4. pre \in Seq(T)
    BY <2>1, PrefixFacts
  <2>5. SubSeq(steps, 1, n) = Append(pre, e)
    <3>1. SubSeq(steps, 1, k + 1) = Append(SubSeq(steps, 1, k), steps[k + 1])
      <4> HIDE DEF k
      <4>1. QED
        BY <2>1, LongerPrefix
    <3>2. QED
      BY <2>1, <3>1
  <2> HIDE DEF list, e, pre
  <2>6. list \in Seq(Step)
    BY <2>3, SeqMonotonic
  <2>7. h \in Seq(T)
    BY <2>3, InsertType
  <2>8. Ordered(h, NotLater)
    BY <2>3, <2>6, InsertSorted
  <2>9. ASSUME NEW p \in Nat
        PROVE  Filtered(h, At(p)) = Filtered(Append(pre, e), At(p))
    <3>1. Filtered(h, At(p)) = Filtered(list, At(p)) \o Filtered(<<e>>, At(p))
      BY <2>3, <2>6, InsertKeepsOrder
    <3> DEFINE one == <<e>>
    <3>2. one \in Seq(T) /\ Append(pre, e) = pre \o one
      BY <2>3, <2>4, AppendIsConcat
    <3> HIDE DEF one
    <3>3. Filtered(pre \o one, At(p)) = Filtered(pre, At(p)) \o Filtered(one, At(p))
      BY <2>4, <3>2, FilteredConcat
    <3>4. QED
      BY <2>3, <3>1, <3>2, <3>3 DEF one
  <2> HIDE DEF h
  <2>10. Good(g[n], n)
    BY <2>2, <2>5, <2>7, <2>8, <2>9
  <2>11. QED
    BY <2>1, <2>10
<1> HIDE DEF S
<1>5. zero..N \subseteq S
  <2>1. \A n \in zero..N : n # zero /\ n - 1 \in S => n \in S
    <3>1. \A n \in zero..N : n # zero => n \in 1..N
      BY <1>1
    <3>2. QED
      BY <1>4, <3>1
  <2> HIDE DEF zero, N
  <2>2. QED
    BY <1>1, <1>3, <2>1, IntervalInduction
<1>6. N \in S
  BY <1>1, <1>5
<1>7. Good(g[N], N)
  BY <1>6 DEF S
<1>8. SubSeq(steps, 1, N) = steps
  <2>1. SubSeq(steps, 1, N) \in Seq(T) /\ Len(SubSeq(steps, 1, N)) = N
        /\ \A j \in 1..N : SubSeq(steps, 1, N)[j] = steps[j]
    BY <1>1, PrefixFacts
  <2>2. QED
    BY <2>1, SeqEqual
<1>9. QED
  BY <1>2, <1>7, <1>8

-----------------------------------------------------------------------------
(* What is computed *)

(* The steps of the units whose conditions hold are steps of the units.    *)
LEMMA IncludedFacts ==
  ASSUME NEW units \in Seq(RunUnit), NEW action \in Phase, NEW outputs
  PROVE  Included(units, action, outputs) \in Seq(RawSteps(units))
<1> DEFINE holding == {x \in ToSet(units) : All(x, outputs)}
           included == Filtered(units, holding)
<1>1. included \in Seq(RunUnit) /\ ToSet(included) \subseteq ToSet(units)
  BY FilteredFacts
<1>2. Included(units, action, outputs) = AllSteps(included, action)
  BY DEF Included
<1> HIDE DEF included
<1>3. AllSteps(included, action) \in Seq(RawSteps(included))
  BY <1>1, RawStepsFacts
<1>4. /\ ToSet(included) = {included[j] : j \in DOMAIN included}
      /\ ToSet(units) = {units[j] : j \in DOMAIN units}
  BY DEF ToSet
<1>5. RawSteps(included) \subseteq RawSteps(units)
  <2>1. ASSUME NEW j \in DOMAIN included, NEW p \in Phase
        PROVE  \E k \in DOMAIN units : included[j].steps[p] = units[k].steps[p]
    <3>1. PICK k \in DOMAIN units : included[j] = units[k]
      BY <1>1, <1>4
    <3>2. QED
      BY <3>1
  <2>2. ASSUME NEW s \in RawSteps(included)
        PROVE  s \in RawSteps(units)
    <3>1. PICK j \in DOMAIN included, p \in Phase : s \in ToSet(included[j].steps[p])
      BY DEF RawSteps
    <3>2. PICK k \in DOMAIN units : included[j].steps[p] = units[k].steps[p]
      BY <2>1
    <3>3. QED
      BY <3>1, <3>2 DEF RawSteps
  <2>3. QED
    BY <2>2
<1> DEFINE A == RawSteps(included)
           B == RawSteps(units)
           list == AllSteps(included, action)
<1>6. list \in Seq(A) /\ A \subseteq B
  BY <1>3, <1>5
<1> HIDE DEF A, B, list
<1>7. list \in Seq(B)
  BY <1>6, SeqMonotonic
<1>8. QED
  BY <1>2, <1>7 DEF B, list

\* A result with the steps of a list, by priority; or none if a call is left.
MadeOf(m, units, all) ==
  /\ Ordered(m.steps, NotLater)
  /\ \A p \in Nat : Filtered(m.steps, At(p)) = Filtered(all, At(p))
  /\ m.ok <=> (\A s \in ToSet(all) : ~IsCall(s)) /\ \A x \in ToSet(units) : ~Malformed(x)

(* The list that is computed has what the steps of the units stand for, by *)
(* priority.                                                               *)
LEMMA MergeFacts ==
  ASSUME runUnits \in [Unit -> RunUnit], NEW o \in Orders, NEW action \in Phase, NEW outputs,
         NEW m \in mergeRunUnits(InOrder(o), action, outputs)
  PROVE  /\ m.steps \in Seq(Steps(runUnits))
         /\ \E all \in Concatenations(Inlined, Included(InOrder(o), action, outputs)) :
              all \in Seq(Steps(runUnits)) /\ MadeOf(m, InOrder(o), all)
<1> DEFINE units == InOrder(o)
           first == Included(units, action, outputs)
           T == Steps(runUnits)
<1>1. units \in Seq(RunUnit) /\ RawSteps(units) = OwnStep
  BY InOrderFacts DEF OwnStep
<1>2. first \in Seq(OwnStep)
  BY <1>1, IncludedFacts
<1>3. T \subseteq Step
  BY StepsAre
<1>4. PICK all \in interpolateCalls(first) :
        m = [ok |-> /\ \A s \in ToSet(all) : ~IsCall(s)
                    /\ \A x \in ToSet(units) : ~Malformed(x),
             steps |-> SortedByPriority(all)]
  BY DEF mergeRunUnits
<1> HIDE DEF units, first, T
<1>5. interpolateCalls(first) \subseteq Concatenations(Inlined, first) /\ interpolateCalls(first) \in SUBSET Seq(AnyStep)
  BY <1>2, InterpolatedIsInlined
<1>6. all \in Concatenations(Inlined, first) /\ all \in Seq(T)
  BY <1>4, <1>5 DEF AnyStep, T
<1>7. /\ SortedByPriority(all) \in Seq(T)
      /\ Ordered(SortedByPriority(all), NotLater)
      /\ \A p \in Nat : Filtered(SortedByPriority(all), At(p)) = Filtered(all, At(p))
  BY <1>3, <1>6, SortedFacts
<1>8. m.steps = SortedByPriority(all)
  BY <1>4
<1>9. m.ok <=> (\A s \in ToSet(all) : ~IsCall(s)) /\ \A x \in ToSet(units) : ~Malformed(x)
  BY <1>4
<1>10. MadeOf(m, units, all)
  BY <1>7, <1>8, <1>9 DEF MadeOf
<1>11. QED
  BY <1>6, <1>7, <1>8, <1>10 DEF units, first, T

MergeFailure == [what |-> "merge"]

Typed ==
  /\ runUnits \in Configurations /\ phase \in Phase
  /\ ignoreErrors \in BOOLEAN /\ dryRun \in BOOLEAN /\ loaded \in BOOLEAN
  /\ pc \in {"start", "running", "done", "failed"}
  /\ runSteps \in Seq(Steps(runUnits)) /\ visited \in Seq(Steps(runUnits))
  /\ i \in Nat \ {0} /\ kept \in BOOLEAN
  /\ pc = "running" => i <= Len(runSteps)

Recorded == \A f \in failures : "step" \in DOMAIN f => f.step \in ToSet(visited)

Prefix ==
  /\ pc = "start" => visited = <<>> /\ failures = {}
  /\ kept /\ pc \in {"running", "done"} => i <= Len(runSteps) + 1 /\ visited = SubSeq(runSteps, 1, i - 1)
  /\ pc = "done" => i > Len(runSteps)

Excused(f) ==
  \/ IgnoredCommand(f)
  \/ f.what \in {"stdout", "stderr"} /\ \E g \in failures : IgnoredCommand(g) /\ g.step = f.step
  \/ f.what = "stdout" /\ f.step.stderr
  \/ f.what = "merge" /\ ignoreErrors /\ visited = <<>>

AllExcused == pc # "failed" => \A f \in failures : Excused(f)

\* The list is this computation's.
IsListOf(m) == (m.ok <=> MergeFailure \notin failures) /\ (m.ok => runSteps = m.steps)

LastList ==
  /\ pc = "running" => \A f \in failures : f.what # "merge"
  /\ pc # "start" => \E m \in Merges(loaded) : IsListOf(m)

IInv == Typed /\ Recorded /\ Prefix /\ AllExcused /\ LastList

-----------------------------------------------------------------------------
(* The list of steps, and what is visited of it *)

(* Where the iteration stands.                                             *)
LEMMA CurrentFacts ==
  ASSUME Typed, pc = "running"
  PROVE  /\ Len(runSteps) \in Nat /\ i \in 1..Len(runSteps)
         /\ Current \in Steps(runUnits)
         /\ Append(visited, Current) \in Seq(Steps(runUnits))
         /\ ToSet(Append(visited, Current)) = ToSet(visited) \cup {Current}
         /\ SubSeq(runSteps, 1, i) = Append(SubSeq(runSteps, 1, i - 1), Current)
<1> DEFINE T == Steps(runUnits)
           s == runSteps
           v == visited
           e == Current
<1>1. s \in Seq(T) /\ v \in Seq(T)
  BY DEF Typed
<1>2. Len(s) \in Nat
  BY <1>1, LenProperties
<1>3. i \in 1..Len(s)
  BY <1>2 DEF Typed
<1>4. e = s[i]
  BY DEF Current
<1> HIDE DEF T, s, v, e
<1>5. e \in T
  BY <1>1, <1>3, <1>4, ElementOfSeq
<1>6. Append(v, e) \in Seq(T) /\ ToSet(Append(v, e)) = ToSet(v) \cup {e}
  BY <1>1, <1>5, AppendProperties, ToSetAppend
<1>7. SubSeq(s, 1, i) = Append(SubSeq(s, 1, i - 1), e)
  <2> DEFINE k == i - 1
  <2>1. k \in 0..Len(s) /\ k < Len(s) /\ k + 1 = i
    BY <1>2, <1>3
  <2> HIDE DEF k
  <2>2. SubSeq(s, 1, k + 1) = Append(SubSeq(s, 1, k), s[k + 1])
    BY <1>1, <2>1, LongerPrefix
  <2>3. QED
    BY <1>4, <2>1, <2>2 DEF k
<1>8. QED
  BY <1>2, <1>3, <1>5, <1>6, <1>7 DEF T, s, v, e

(* A computation makes a list of the steps of the kapp's units.            *)
LEMMA MergesFacts ==
  ASSUME Typed, NEW outputs, NEW merge \in Merges(outputs)
  PROVE  merge.steps \in Seq(Steps(runUnits)) /\ Len(merge.steps) \in Nat
<1>1. runUnits \in [Unit -> RunUnit] /\ phase \in Phase
  BY UnitsAssumption DEF Typed
<1>2. PICK o \in Orders : merge \in mergeRunUnits(InOrder(o), phase, outputs)
  BY DEF Merges
<1>3. merge.steps \in Seq(Steps(runUnits))
  BY <1>1, <1>2, MergeFacts
<1>4. QED
  BY <1>3, LenProperties

(* What can be computed depends on the units and the phase, which stay.    *)
LEMMA SameMerges ==
  ASSUME UNCHANGED <<runUnits, phase>>, NEW outputs
  PROVE  Merges(outputs)' = Merges(outputs)
  BY DEF Merges, mergeRunUnits, interpolateCalls, Replacements, InOrder

(* The iteration goes on within the list, or it is over.                   *)
LEMMA GoOnFacts ==
  ASSUME NEW T, NEW steps \in Seq(T), NEW next \in Nat \ {0}, GoOn(steps, next)
  PROVE  /\ runSteps' \in Seq(T) /\ i' \in Nat \ {0} /\ pc' \in {"running", "done"}
         /\ pc' = "running" => i' <= Len(runSteps')
         /\ pc' = "done" => i' > Len(runSteps')
<1>1. Len(steps) \in Nat
  BY LenProperties
<1>2. QED
  BY <1>1 DEF GoOn

-----------------------------------------------------------------------------
(* The invariants *)

(* At first nothing has been computed.                                     *)
LEMMA Initial == Init => IInv
<1> SUFFICES ASSUME Init
             PROVE  IInv
  OBVIOUS
<1>1. <<>> \in Seq(Steps(runUnits))
  BY EmptySeq
<1>2. Typed
  <2>1. /\ runUnits \in Configurations /\ phase \in Phase /\ ignoreErrors \in BOOLEAN
        /\ dryRun \in BOOLEAN /\ pc = "start" /\ runSteps = <<>> /\ visited = <<>>
    BY DEF Init
  <2>2. i \in Nat \ {0}
    BY DEF Init
  <2>3. loaded \in BOOLEAN /\ kept \in BOOLEAN
    BY Zenon DEF Init
  <2>4. QED
    BY <1>1, <2>1, <2>2, <2>3 DEF Typed
<1>3. Recorded /\ Prefix /\ AllExcused /\ LastList
  BY DEF Init, Recorded, Prefix, AllExcused, LastList
<1>4. QED
  BY <1>2, <1>3 DEF IInv

(* Every step keeps the types: a list is one of the units' steps.          *)
LEMMA TypedNext == Typed /\ [Next]_vars => Typed'
<1> SUFFICES ASSUME Typed, [Next]_vars
             PROVE  Typed'
  OBVIOUS
<1> USE DEF Typed, inputVars
<1>1. i + 1 \in Nat \ {0} /\ 1 \in Nat \ {0} /\ <<>> \in Seq(Steps(runUnits)) /\ Len(<<>>) = 0
  BY EmptySeq
<1>2. CASE Begin
  <2>1. PICK merge \in Merges(loaded) :
          \/ merge.ok /\ GoOn(merge.steps, 1) /\ UNCHANGED kept
          \/ ~merge.ok /\ ((GoOn(<<>>, 1) /\ UNCHANGED kept) \/ Fail)
    BY <1>2 DEF Begin
  <2>2. merge.steps \in Seq(Steps(runUnits)) /\ Len(merge.steps) \in Nat
    BY MergesFacts
  <2>3. UNCHANGED <<inputVars, visited>>
    BY <1>2 DEF Begin
  <2>4. loaded' = loaded
    BY <1>2 DEF Begin
  <2>5. ASSUME Fail
        PROVE  Typed'
    BY <2>3, <2>4, <2>5 DEF Fail
  <2>6. ASSUME NEW steps \in Seq(Steps(runUnits)), GoOn(steps, 1), UNCHANGED kept
        PROVE  Typed'
    <3>1. /\ runSteps' \in Seq(Steps(runUnits)) /\ i' \in Nat \ {0} /\ pc' \in {"running", "done"}
          /\ pc' = "running" => i' <= Len(runSteps')
      BY <1>1, <2>6, GoOnFacts
    <3>2. QED
      BY <2>3, <2>4, <2>6, <3>1
  <2>7. QED
    BY <1>1, <2>1, <2>2, <2>5, <2>6
<1>3. CASE SkipStep
  BY <1>1, <1>3, CurrentFacts DEF SkipStep, Visit, GoOn
<1>4. CASE FailParsing
  BY <1>4 DEF FailParsing, Fail
<1>5. CASE StepFails
  BY <1>5, CurrentFacts DEF StepFails, Execute, Visit, Fail
<1>6. CASE StepFailureIgnored
  BY <1>1, <1>6, CurrentFacts DEF StepFailureIgnored, Execute, Visit, GoOn
<1>7. CASE StepSucceeds
  BY <1>1, <1>7, CurrentFacts DEF StepSucceeds, Execute, Visit, GoOn
<1>8. CASE StepLoadsOutputs
  <2>1. PICK outputs \in {loaded, TRUE} : \E merge \in Merges(outputs) : loaded' = outputs
          /\ \/ GoOn(merge.steps, i + 1) /\ kept' = (kept /\ KeepsIterated(merge.steps))
             \/ Fail
    BY <1>8 DEF StepLoadsOutputs
  <2>2. PICK merge \in Merges(outputs) : loaded' = outputs
          /\ \/ GoOn(merge.steps, i + 1) /\ kept' = (kept /\ KeepsIterated(merge.steps))
             \/ Fail
    BY <2>1
  <2>7. merge.steps \in Seq(Steps(runUnits)) /\ Len(merge.steps) \in Nat
    BY MergesFacts
  <2>3. pc = "running" /\ Visit /\ UNCHANGED inputVars
    BY <1>8 DEF StepLoadsOutputs, Execute
  <2>4. visited' \in Seq(Steps(runUnits))
    BY <2>3, CurrentFacts DEF Visit
  <2>5. kept' \in BOOLEAN
    BY <2>2 DEF Fail
  <2>6. loaded' \in BOOLEAN
    BY <2>2
  <2>8. CASE Fail
    BY <2>3, <2>4, <2>5, <2>6, <2>8 DEF Fail
  <2>9. CASE GoOn(merge.steps, i + 1)
    <3>1. /\ runSteps' \in Seq(Steps(runUnits)) /\ i' \in Nat \ {0} /\ pc' \in {"running", "done"}
          /\ pc' = "running" => i' <= Len(runSteps')
      BY <1>1, <2>7, <2>9, GoOnFacts
    <3>2. QED
      BY <2>3, <2>4, <2>5, <2>6, <3>1
  <2>10. QED
    BY <2>2, <2>8, <2>9
<1>9. CASE LoadFails
  BY <1>9, CurrentFacts DEF LoadFails, Execute, Visit, Fail
<1>10. CASE UNCHANGED vars
  BY <1>10 DEF vars
<1>11. QED
  BY <1>2, <1>3, <1>4, <1>5, <1>6, <1>7, <1>8, <1>9, <1>10 DEF Next

(* A step's failures name it; a failed computation names no step.          *)
LEMMA FailureFacts ==
  /\ DOMAIN MergeFailure = {"what"} /\ MergeFailure.what = "merge"
  /\ \A x, s : LET f == [what |-> x, step |-> s] IN
       DOMAIN f = {"what", "step"} /\ f.what = x /\ f.step = s /\ f # MergeFailure
  /\ \A x : LET f == [what |-> x] IN
       "step" \notin DOMAIN f /\ f.what = x /\ (x # "merge" => f # MergeFailure)
<1>1. DOMAIN MergeFailure = {"what"} /\ MergeFailure.what = "merge"
  BY DEF MergeFailure
<1>2. \A x, s : LET f == [what |-> x, step |-> s] IN
        DOMAIN f = {"what", "step"} /\ f.what = x /\ f.step = s
  OBVIOUS
<1>3. \A x : LET f == [what |-> x] IN DOMAIN f = {"what"} /\ f.what = x
  OBVIOUS
<1>4. "step" # "what"
  OBVIOUS
<1>5. QED
  BY <1>1, <1>2, <1>3, <1>4

(* Only steps that were visited have failures: every step keeps it so.     *)
LEMMA RecordedNext == Typed /\ Recorded /\ [Next]_vars => Recorded'
<1> SUFFICES ASSUME Typed, Recorded, [Next]_vars
             PROVE  Recorded'
  OBVIOUS
<1>1. ASSUME pc = "running", Visit,
             \A f \in failures' : \/ f \in failures \/ "step" \notin DOMAIN f
                                  \/ \E x : f = [what |-> x, step |-> Current]
      PROVE  Recorded'
  <2>1. ToSet(visited') = ToSet(visited) \cup {Current}
    BY <1>1, CurrentFacts DEF Visit
  <2>2. ASSUME NEW f \in failures', "step" \in DOMAIN f
        PROVE  f.step \in ToSet(visited')
    <3>1. CASE f \in failures
      BY <2>1, <2>2, <3>1 DEF Recorded
    <3>2. CASE \E x : f = [what |-> x, step |-> Current]
      BY <2>1, <3>2, FailureFacts
    <3>3. QED
      BY <1>1, <2>2, <3>1, <3>2
  <2>3. QED
    BY <2>2 DEF Recorded
<1>2. ASSUME UNCHANGED visited, \A f \in failures' : f \in failures \/ "step" \notin DOMAIN f
      PROVE  Recorded'
  BY <1>2 DEF Recorded
<1>3. CASE Begin
  <2>1. UNCHANGED visited /\ (UNCHANGED failures \/ failures' = {MergeFailure})
    BY <1>3 DEF Begin, MergeFailure
  <2>2. QED
    BY <1>2, <2>1, FailureFacts
<1>4. CASE SkipStep
  BY <1>1, <1>4 DEF SkipStep
<1>5. CASE FailParsing
  BY <1>2, <1>5, FailureFacts DEF FailParsing
<1>6. CASE StepFails
  BY <1>1, <1>6 DEF StepFails, Execute, Record
<1>7. CASE StepFailureIgnored
  BY <1>1, <1>7 DEF StepFailureIgnored, Execute, Record
<1>8. CASE StepSucceeds
  BY <1>1, <1>8 DEF StepSucceeds, Execute, Record
<1>9. CASE StepLoadsOutputs
  <2>1. pc = "running" /\ Visit
    BY <1>9 DEF StepLoadsOutputs, Execute
  <2>2. \/ failures' = failures \cup {MergeFailure}
        \/ \E failing : failures' = failures \cup {[what |-> x, step |-> Current] : x \in failing}
    BY <1>9 DEF StepLoadsOutputs, Record, MergeFailure
  <2>3. QED
    BY <1>1, <2>1, <2>2, FailureFacts
<1>10. CASE LoadFails
  BY <1>1, <1>10 DEF LoadFails, Execute, Record
<1>11. CASE UNCHANGED vars
  BY <1>2, <1>11 DEF vars
<1>12. QED
  BY <1>3, <1>4, <1>5, <1>6, <1>7, <1>8, <1>9, <1>10, <1>11 DEF Next

(* Unless the list was changed behind it, the iteration has come to all    *)
(* steps before the index: every step keeps it so.                         *)
LEMMA PrefixNext == Typed /\ Prefix /\ [Next]_vars => Prefix'
<1> SUFFICES ASSUME Typed, Prefix, [Next]_vars
             PROVE  Prefix'
  OBVIOUS
<1>1. ASSUME pc' = "failed"
      PROVE  Prefix'
  BY <1>1 DEF Prefix
<1>2. ASSUME pc = "running", Visit, NEW steps \in Seq(Steps(runUnits)), GoOn(steps, i + 1),
             kept' => kept /\ KeepsIterated(steps)
      PROVE  Prefix'
  <2>1. /\ Len(runSteps) \in Nat /\ i \in 1..Len(runSteps)
        /\ SubSeq(runSteps, 1, i) = Append(SubSeq(runSteps, 1, i - 1), Current)
    BY <1>2, CurrentFacts
  <2>2. i \in Nat \ {0} /\ i + 1 \in Nat \ {0} /\ (i + 1) - 1 = i
    BY <2>1
  <2>3. i' = i + 1 /\ runSteps' = steps
    BY <1>2 DEF GoOn
  <2>4. pc' \in {"running", "done"} /\ (pc' = "done" => i' > Len(runSteps'))
    BY <1>2, <2>2, GoOnFacts
  <2>5. kept' => i <= Len(steps) /\ visited' = SubSeq(steps, 1, i)
    <3>1. Len(steps) \in Nat
      BY LenProperties
    <3>2. kept => visited' = SubSeq(runSteps, 1, i)
      BY <1>2, <2>1 DEF Prefix, Visit
    <3>3. QED
      BY <1>2, <2>2, <3>1, <3>2 DEF KeepsIterated
  <2>6. Len(steps) \in Nat
    BY LenProperties
  <2>7. kept' => i' <= Len(runSteps') + 1 /\ visited' = SubSeq(runSteps', 1, i' - 1)
    BY <2>2, <2>3, <2>5, <2>6
  <2>8. QED
    BY <2>4, <2>7 DEF Prefix
<1>3. ASSUME pc = "running", Visit, GoOn(runSteps, i + 1), UNCHANGED kept
      PROVE  Prefix'
  <2>1. runSteps \in Seq(Steps(runUnits)) /\ i \in Nat \ {0} /\ i <= Len(runSteps)
    BY <1>3 DEF Typed
  <2>2. KeepsIterated(runSteps)
    <3>1. Len(runSteps) \in Nat
      BY <2>1, LenProperties
    <3>2. QED
      BY <2>1, <3>1 DEF KeepsIterated
  <2>3. QED
    BY <1>2, <1>3, <2>1, <2>2
<1>4. CASE Begin
  <2>1. pc = "start" /\ visited' = visited /\ visited = <<>>
    BY <1>4 DEF Begin, Prefix
  <2>2. ASSUME NEW steps \in Seq(Steps(runUnits)), GoOn(steps, 1)
        PROVE  Prefix'
    <3>1. Len(steps) \in Nat /\ i' = 1 /\ runSteps' = steps
      BY <2>2, LenProperties DEF GoOn
    <3>2. pc' \in {"running", "done"} /\ (pc' = "done" => i' > Len(runSteps'))
      <4>1. 1 \in Nat \ {0}
        OBVIOUS
      <4>2. QED
        BY <2>2, <4>1, GoOnFacts
    <3>3. i' <= Len(runSteps') + 1 /\ i' - 1 = 0
      BY <3>1
    <3>4. SubSeq(steps, 1, 0) = <<>>
      <4>1. 0 \in 0..Len(steps)
        BY <3>1
      <4>2. SubSeq(steps, 1, 0) \in Seq(Steps(runUnits)) /\ Len(SubSeq(steps, 1, 0)) = 0
        BY <4>1, PrefixFacts
      <4>3. QED
        BY <4>2, EmptySeq
    <3>5. visited' = SubSeq(runSteps', 1, i' - 1)
      BY <2>1, <3>1, <3>3, <3>4
    <3>6. QED
      BY <3>2, <3>3, <3>5 DEF Prefix
  <2>3. PICK merge \in Merges(loaded) :
          GoOn(merge.steps, 1) \/ GoOn(<<>>, 1) \/ pc' = "failed"
    BY <1>4 DEF Begin, Fail
  <2>4. merge.steps \in Seq(Steps(runUnits)) /\ <<>> \in Seq(Steps(runUnits))
    BY MergesFacts, EmptySeq
  <2>5. QED
    BY <1>1, <2>2, <2>3, <2>4
<1>5. CASE SkipStep
  BY <1>3, <1>5 DEF SkipStep
<1>6. CASE FailParsing
  BY <1>1, <1>6 DEF FailParsing, Fail
<1>7. CASE StepFails
  BY <1>1, <1>7 DEF StepFails, Fail
<1>8. CASE StepFailureIgnored
  BY <1>3, <1>8 DEF StepFailureIgnored, Execute
<1>9. CASE StepSucceeds
  BY <1>3, <1>9 DEF StepSucceeds, Execute
<1>10. CASE StepLoadsOutputs
  <2>1. PICK outputs \in {loaded, TRUE} : \E merge \in Merges(outputs) :
          \/ GoOn(merge.steps, i + 1) /\ kept' = (kept /\ KeepsIterated(merge.steps))
          \/ pc' = "failed"
    BY <1>10 DEF StepLoadsOutputs, Fail
  <2>2. PICK merge \in Merges(outputs) :
          \/ GoOn(merge.steps, i + 1) /\ kept' = (kept /\ KeepsIterated(merge.steps))
          \/ pc' = "failed"
    BY <2>1
  <2>3. merge.steps \in Seq(Steps(runUnits))
    BY MergesFacts
  <2>4. pc = "running" /\ Visit
    BY <1>10 DEF StepLoadsOutputs, Execute
  <2>5. QED
    BY <1>1, <1>2, <2>2, <2>3, <2>4
<1>11. CASE LoadFails
  BY <1>1, <1>11 DEF LoadFails, Fail
<1>12. CASE UNCHANGED vars
  BY <1>12 DEF vars, Prefix
<1>13. QED
  BY <1>4, <1>5, <1>6, <1>7, <1>8, <1>9, <1>10, <1>11, <1>12 DEF Next

(* A step that is gone on from leaves failures that are excused.           *)
LEMMA GoingOn ==
  ASSUME AllExcused, LastList, pc = "running", UNCHANGED ignoreErrors,
         NEW e, e = Current,
         NEW failing, Record(failing), failing \subseteq {"command", "stdout", "stderr"},
         \/ "command" \in failing /\ Ignoring(e)
         \/ failing \subseteq {"stdout"} /\ e.stderr
         \/ failing = {}
  PROVE  AllExcused' /\ \A f \in failures' : f.what # "merge"
<1> DEFINE New(x) == [what |-> x, step |-> e]
<1>1. failures' = failures \cup {New(x) : x \in failing}
  BY DEF Record
<1>2. \A x : New(x).what = x /\ New(x).step = e
  OBVIOUS
<1> HIDE DEF New
<1>3. \A f \in failures : Excused(f) /\ f.what # "merge"
  BY DEF AllExcused, LastList
<1>4. \A f : IgnoredCommand(f)' <=> IgnoredCommand(f)
  BY DEF IgnoredCommand, Ignoring
<1>5. ASSUME NEW f \in failures
      PROVE  Excused(f)'
  BY <1>1, <1>3, <1>4 DEF Excused
<1>6. ASSUME NEW f, NEW x \in failing, f = New(x)
      PROVE  Excused(f)'
  <2>1. f.what = x /\ f.step = e
    BY <1>2, <1>6
  <2>2. CASE "command" \in failing /\ Ignoring(e)
    <3>1. PICK g : g = New("command")
      OBVIOUS
    <3>2. g \in failures' /\ g.what = "command" /\ g.step = e
      BY <1>1, <1>2, <2>2, <3>1
    <3>3. IgnoredCommand(g)'
      BY <1>4, <2>2, <3>2 DEF IgnoredCommand
    <3>4. CASE x = "command"
      <4>1. IgnoredCommand(f)'
        BY <1>4, <2>1, <2>2, <3>4 DEF IgnoredCommand
      <4>2. QED
        BY <4>1 DEF Excused
    <3>5. CASE x \in {"stdout", "stderr"}
      BY <2>1, <3>2, <3>3, <3>5 DEF Excused
    <3>6. QED
      BY <3>4, <3>5
  <2>3. CASE failing \subseteq {"stdout"} /\ e.stderr
    BY <2>1, <2>3 DEF Excused
  <2>4. QED
    BY <2>2, <2>3
<1>7. \A f \in failures' : Excused(f)' /\ f.what # "merge"
  <2> TAKE f \in failures'
  <2>1. CASE f \in failures
    BY <1>3, <1>5, <2>1
  <2>2. CASE \E x \in failing : f = New(x)
    BY <1>2, <1>6, <2>2
  <2>3. QED
    BY <1>1, <2>1, <2>2
<1>8. QED
  BY <1>7 DEF AllExcused

(* A step whose files are written without an error to report: all that can *)
(* have failed is the first of two.                                        *)
LEMMA WriteFacts ==
  ASSUME NEW failing \in SUBSET {"stdout", "stderr"}, failing \in Failing(Current), ~WriteError(Current, failing)
  PROVE  (failing \subseteq {"stdout"} /\ Current.stderr) \/ failing = {}
<1>1. CASE Current.stderr
  BY <1>1 DEF WriteError
<1>2. CASE ~Current.stderr
  <2>1. "stdout" \notin failing
    BY <1>2 DEF WriteError
  <2>2. "stderr" \notin failing
    BY <1>2 DEF Failing
  <2>3. QED
    BY <2>1, <2>2
<1>3. QED
  BY <1>1, <1>2

(* What failed is excused unless the run failed, and the list stays that   *)
(* of the last computation: every step keeps it so.                        *)
LEMMA OutcomeNext == IInv /\ [Next]_vars => AllExcused' /\ LastList'
<1> SUFFICES ASSUME IInv, [Next]_vars
             PROVE  AllExcused' /\ LastList'
  OBVIOUS
<1> USE DEF inputVars
<1>1. Typed /\ Prefix /\ AllExcused /\ LastList
  BY DEF IInv
<1> DEFINE computedVars == <<runUnits, phase, loaded, runSteps>>
           New(x) == [what |-> x, step |-> Current]
<1>2. ASSUME UNCHANGED computedVars, pc # "start", pc' # "start",
             MergeFailure \in failures' <=> MergeFailure \in failures,
             pc' = "running" => \A f \in failures' : f.what # "merge"
      PROVE  LastList'
  <2>1. PICK m \in Merges(loaded) : IsListOf(m)
    BY <1>1, <1>2 DEF LastList
  <2>2. m \in Merges(loaded)'
    BY <1>2, SameMerges
  <2>3. IsListOf(m)'
    BY <1>2, <2>1 DEF IsListOf, MergeFailure
  <2>4. QED
    BY <1>2, <2>2, <2>3 DEF LastList
<1>3. ASSUME NEW outputs, NEW merge \in Merges(outputs), loaded' = outputs, UNCHANGED <<runUnits, phase>>,
             pc' # "start",
             \/ merge.ok /\ runSteps' = merge.steps /\ (\A f \in failures' : f.what # "merge")
             \/ ~merge.ok /\ MergeFailure \in failures' /\ pc' # "running"
      PROVE  LastList'
  <2>1. merge \in Merges(loaded)'
    BY <1>3, SameMerges
  <2>2. MergeFailure.what = "merge" /\ MergeFailure' = MergeFailure
    BY FailureFacts DEF MergeFailure
  <2>3. IsListOf(merge)'
    BY <1>3, <2>2 DEF IsListOf
  <2>4. QED
    BY <1>3, <2>1, <2>3 DEF LastList
<1>4. ASSUME pc = "running", UNCHANGED computedVars, pc' = "failed",
             \A f \in failures' : f \in failures \/ f # MergeFailure,
             failures \subseteq failures'
      PROVE  AllExcused' /\ LastList'
  BY <1>2, <1>4 DEF AllExcused
<1>5. ASSUME pc = "running", NEW failing \in SUBSET {"command", "stdout", "stderr", "outputs"}, Record(failing)
      PROVE  failures \subseteq failures' /\ \A f \in failures' : f \in failures \/ f # MergeFailure
  <2>1. failures' = failures \cup {New(x) : x \in failing}
    BY <1>5 DEF Record
  <2>2. \A x : New(x) # MergeFailure
    BY FailureFacts
  <2> HIDE DEF New
  <2>3. QED
    BY <2>1, <2>2
<1>6. ASSUME pc = "running", UNCHANGED ignoreErrors, UNCHANGED computedVars, pc' # "start",
             NEW failing \in SUBSET {"command", "stdout", "stderr"}, Record(failing),
             \/ "command" \in failing /\ Ignoring(Current)
             \/ failing \subseteq {"stdout"} /\ Current.stderr
             \/ failing = {}
      PROVE  AllExcused' /\ LastList'
  <2>1. PICK e : e = Current
    OBVIOUS
  <2>2. /\ failing \subseteq {"command", "stdout", "stderr"}
        /\ \/ "command" \in failing /\ Ignoring(e)
           \/ failing \subseteq {"stdout"} /\ e.stderr
           \/ failing = {}
    BY <1>6, <2>1
  <2>3. AllExcused' /\ \A f \in failures' : f.what # "merge"
    BY <1>1, <1>6, <2>1, <2>2, GoingOn
  <2>4. MergeFailure \in failures' <=> MergeFailure \in failures
    BY <1>1, <1>6, <2>3, FailureFacts DEF LastList
  <2>5. QED
    BY <1>2, <1>6, <2>3, <2>4
<1>7. CASE Begin
  <2>1. PICK merge \in Merges(loaded) :
          \/ merge.ok /\ GoOn(merge.steps, 1) /\ UNCHANGED failures
          \/ /\ ~merge.ok /\ failures' = {MergeFailure}
             /\ ((ignoreErrors /\ GoOn(<<>>, 1)) \/ Fail)
    BY <1>7 DEF Begin, MergeFailure
  <2>2. pc = "start" /\ UNCHANGED <<inputVars, loaded, visited>> /\ visited = <<>> /\ failures = {}
    BY <1>1, <1>7 DEF Begin, Prefix
  <2>3. pc' # "start" /\ (merge.ok \/ pc' # "running")
    <3>1. Len(<<>>) = 0
      BY EmptySeq
    <3>2. QED
      BY <2>1, <3>1 DEF GoOn, Fail
  <2>4. LastList'
    BY <1>3, <2>1, <2>2, <2>3 DEF GoOn
  <2>5. AllExcused'
    <3>1. CASE UNCHANGED failures
      BY <2>2, <3>1 DEF AllExcused
    <3>2. CASE failures' = {MergeFailure} /\ ignoreErrors
      BY <2>2, <3>2, FailureFacts DEF AllExcused, Excused
    <3>3. CASE Fail
      BY <3>3 DEF Fail, AllExcused
    <3>4. QED
      BY <2>1, <3>1, <3>2, <3>3
  <2>6. QED
    BY <2>4, <2>5
<1>8. CASE SkipStep
  <2>1. /\ pc = "running" /\ UNCHANGED computedVars /\ UNCHANGED <<ignoreErrors, failures>> /\ pc' # "start"
    BY <1>8 DEF SkipStep, GoOn
  <2>2. Record({})
    BY <2>1 DEF Record
  <2>3. QED
    BY <1>6, <2>1, <2>2
<1>9. CASE FailParsing
  <2>1. /\ pc = "running" /\ UNCHANGED computedVars /\ pc' = "failed"
        /\ \E x \in {"conditions", "arguments"} : failures' = failures \cup {[what |-> x]}
    BY <1>9 DEF FailParsing, Fail
  <2>2. [what |-> "conditions"] # MergeFailure /\ [what |-> "arguments"] # MergeFailure
    BY FailureFacts
  <2>3. QED
    BY <1>4, <2>1, <2>2
<1>10. CASE StepFails
  <2>1. PICK failing \in SUBSET {"command", "stdout", "stderr"} : Record(failing)
    BY <1>10 DEF StepFails
  <2>2. pc = "running" /\ UNCHANGED computedVars /\ pc' = "failed"
    BY <1>10 DEF StepFails, Execute, Fail
  <2>3. failing \in SUBSET {"command", "stdout", "stderr", "outputs"}
    OBVIOUS
  <2>4. QED
    BY <1>4, <1>5, <2>1, <2>2, <2>3
<1>11. CASE StepFailureIgnored
  <2>1. PICK failing \in SUBSET {"command", "stdout", "stderr"} :
          Record(failing) /\ "command" \in failing /\ Ignoring(Current)
    BY <1>11 DEF StepFailureIgnored
  <2>2. pc = "running" /\ UNCHANGED computedVars /\ UNCHANGED ignoreErrors /\ pc' # "start"
    BY <1>11 DEF StepFailureIgnored, Execute, GoOn
  <2>3. QED
    BY <1>6, <2>1, <2>2
<1>12. CASE StepSucceeds
  <2>1. PICK failing \in SUBSET {"stdout", "stderr"} :
          Record(failing) /\ failing \in Failing(Current) /\ ~WriteError(Current, failing)
    BY <1>12 DEF StepSucceeds, Execute
  <2>2. pc = "running" /\ UNCHANGED computedVars /\ UNCHANGED ignoreErrors /\ pc' # "start"
    BY <1>12 DEF StepSucceeds, Execute, GoOn
  <2>3. failing \in SUBSET {"command", "stdout", "stderr"}
    OBVIOUS
  <2>4. QED
    BY <1>6, <2>1, <2>2, <2>3, WriteFacts
<1>13. CASE StepLoadsOutputs
  <2>1. PICK failing \in SUBSET {"stdout", "stderr"} :
          /\ failing \in Failing(Current) /\ ~WriteError(Current, failing)
          /\ \E outputs \in {loaded, TRUE} : \E merge \in Merges(outputs) :
               /\ loaded' = outputs
               /\ \/ merge.ok /\ GoOn(merge.steps, i + 1) /\ Record(failing)
                  \/ ~merge.ok /\ failures' = failures \cup {MergeFailure} /\ Fail
    BY <1>13 DEF StepLoadsOutputs, Execute, MergeFailure
  <2>2. PICK outputs \in {loaded, TRUE} : \E merge \in Merges(outputs) :
               /\ loaded' = outputs
               /\ \/ merge.ok /\ GoOn(merge.steps, i + 1) /\ Record(failing)
                  \/ ~merge.ok /\ failures' = failures \cup {MergeFailure} /\ Fail
    BY <2>1
  <2>3. PICK merge \in Merges(outputs) :
               /\ loaded' = outputs
               /\ \/ merge.ok /\ GoOn(merge.steps, i + 1) /\ Record(failing)
                  \/ ~merge.ok /\ failures' = failures \cup {MergeFailure} /\ Fail
    BY <2>2
  <2>4. pc = "running" /\ UNCHANGED <<runUnits, phase, ignoreErrors>>
    BY <1>13 DEF StepLoadsOutputs, Execute
  <2>5. CASE merge.ok
    <3>1. PICK e : e = Current
      OBVIOUS
    <3>2. /\ failing \subseteq {"command", "stdout", "stderr"}
          /\ ((failing \subseteq {"stdout"} /\ e.stderr) \/ failing = {})
      BY <2>1, <3>1, WriteFacts
    <3>3. Record(failing) /\ GoOn(merge.steps, i + 1)
      BY <2>3, <2>5
    <3>4. AllExcused' /\ \A f \in failures' : f.what # "merge"
      BY <1>1, <2>4, <3>1, <3>2, <3>3, GoingOn
    <3>5. pc' # "start" /\ runSteps' = merge.steps
      BY <3>3 DEF GoOn
    <3>6. QED
      BY <1>3, <2>3, <2>4, <2>5, <3>4, <3>5
  <2>6. CASE ~merge.ok
    <3>1. pc' = "failed" /\ MergeFailure \in failures'
      BY <2>3, <2>6 DEF Fail
    <3>2. LastList'
      BY <1>3, <2>3, <2>4, <2>6, <3>1
    <3>3. QED
      BY <3>1, <3>2 DEF AllExcused
  <2>7. QED
    BY <2>5, <2>6
<1>14. CASE LoadFails
  <2>1. PICK failing \in SUBSET {"stdout", "stderr"} : Record(failing \cup {"outputs"})
    BY <1>14 DEF LoadFails
  <2>2. pc = "running" /\ UNCHANGED computedVars /\ pc' = "failed"
    BY <1>14 DEF LoadFails, Execute, Fail
  <2>3. failing \cup {"outputs"} \in SUBSET {"command", "stdout", "stderr", "outputs"}
    OBVIOUS
  <2>4. QED
    BY <1>4, <1>5, <2>1, <2>2, <2>3
<1>15. CASE UNCHANGED vars
  <2>1. LastList'
    <3>1. CASE pc = "start"
      BY <1>15, <3>1, <1>1 DEF vars, LastList
    <3>2. CASE pc # "start"
      BY <1>1, <1>2, <1>15, <3>2 DEF vars, LastList
    <3>3. QED
      BY <3>1, <3>2
  <2>2. AllExcused'
    BY <1>1, <1>15 DEF vars, AllExcused, Excused, IgnoredCommand, Ignoring
  <2>3. QED
    BY <2>1, <2>2
<1>16. QED
  BY <1>7, <1>8, <1>9, <1>10, <1>11, <1>12, <1>13, <1>14, <1>15 DEF Next

(* The invariant is one of the specification.                              *)
LEMMA Invariant == Spec => []IInv
<1>1. IInv /\ [Next]_vars => IInv'
  <2> SUFFICES ASSUME IInv, [Next]_vars
               PROVE  IInv'
    OBVIOUS
  <2>1. Typed'
    BY TypedNext DEF IInv
  <2>2. Recorded'
    BY RecordedNext DEF IInv
  <2>3. Prefix'
    BY PrefixNext DEF IInv
  <2>4. AllExcused' /\ LastList'
    BY OutcomeNext
  <2>5. QED
    BY <2>1, <2>2, <2>3, <2>4 DEF IInv
<1>2. QED
  BY Initial, <1>1, PTL DEF Spec

(* Every variable has its type, and if no computation changes the part of  *)
(* the list that was iterated (executeRunSteps() looks at the list by its  *)
(* index), nil means that the steps of the final list were come to once    *)
(* each, in order.                                                         *)
THEOREM StepsRunOnce == Spec => []StepsInv
<1>1. IInv => StepsInv
  <2> SUFFICES ASSUME IInv
               PROVE  StepsInv
    OBVIOUS
  <2>1. Typed /\ Recorded /\ Prefix
    BY DEF IInv
  <2>2. runUnits \in [Unit -> RunUnit]
    BY <2>1, UnitsAssumption DEF Typed
  <2>3. \A s \in ToSet(runSteps) \cup ToSet(visited) : IsStep(s)
    <3>1. ToSet(runSteps) \subseteq Steps(runUnits) /\ ToSet(visited) \subseteq Steps(runUnits)
      BY <2>1, ToSetFacts DEF Typed
    <3>2. QED
      BY <2>2, <3>1, StepsAre
  <2>4. TypeOK
    BY <2>1, <2>3 DEF Typed, Recorded, TypeOK
  <2>5. ASSUME pc = "done", kept
        PROVE  visited = runSteps
    <3> DEFINE T == Steps(runUnits)
               s == runSteps
    <3>1. s \in Seq(T) /\ Len(s) \in Nat
      BY <2>1, LenProperties DEF Typed
    <3>2. visited = SubSeq(s, 1, i - 1) /\ i - 1 = Len(s)
      <4>1. i \in Nat \ {0} /\ i <= Len(s) + 1 /\ i > Len(s) /\ visited = SubSeq(s, 1, i - 1)
        BY <2>1, <2>5 DEF Typed, Prefix
      <4>2. i - 1 = Len(s)
        BY <3>1, <4>1
      <4>3. QED
        BY <4>1, <4>2
    <3> HIDE DEF T, s
    <3>3. SubSeq(s, 1, Len(s)) = s
      <4> DEFINE n == Len(s)
      <4>1. n \in 0..Len(s)
        BY <3>1
      <4>2. SubSeq(s, 1, n) \in Seq(T) /\ Len(SubSeq(s, 1, n)) = n
            /\ \A j \in 1..n : SubSeq(s, 1, n)[j] = s[j]
        <5> HIDE DEF n
        <5>1. QED
          BY <3>1, <4>1, PrefixFacts
      <4>3. QED
        BY <3>1, <4>2, SeqEqual
    <3>4. QED
      BY <3>2, <3>3 DEF s
  <2>6. QED
    BY <2>4, <2>5 DEF StepsInv, EachStepOnce
<1>2. QED
  BY Invariant, <1>1, PTL

(* Nil means that nothing failed, but for what a flag ignores, and what is *)
(* forgotten: files that are not written after a command's ignored error,  *)
(* and the first of two that are.                                          *)
THEOREM NoFailureIsLost == Spec => []SuccessMeansNoFailure
<1>1. IInv => SuccessMeansNoFailure
  BY DEF IInv, AllExcused, Excused, SuccessMeansNoFailure
<1>2. QED
  BY Invariant, <1>1, PTL

(* The list that is iterated is that of what the steps of the units whose  *)
(* conditions hold may stand for, by priority and otherwise in their order,*)
(* for the outputs loaded so far, whatever order each look at the units is *)
(* in.  It is computed in rounds, by replacing calls (interpolateCalls()), *)
(* and comes to what replacing them depth first may.                       *)
THEOREM ListIsComputed == Spec => []ListIsMerged
<1>1. IInv => ListIsMerged
  <2> SUFFICES ASSUME IInv, pc # "start"
               PROVE  \E o \in Orders :
                        \E all \in Concatenations(Inlined, Included(InOrder(o), phase, loaded)) : IsMerged(InOrder(o), all)
    BY DEF ListIsMerged
  <2>1. Typed /\ LastList
    BY DEF IInv
  <2>2. runUnits \in [Unit -> RunUnit] /\ phase \in Phase /\ runSteps \in Seq(Steps(runUnits))
    BY <2>1, UnitsAssumption DEF Typed
  <2>3. PICK m \in Merges(loaded) : IsListOf(m)
    BY <2>1 DEF LastList
  <2>4. PICK o \in Orders : m \in mergeRunUnits(InOrder(o), phase, loaded)
    BY DEF Merges
  <2>5. PICK all \in Concatenations(Inlined, Included(InOrder(o), phase, loaded)) :
          all \in Seq(Steps(runUnits)) /\ MadeOf(m, InOrder(o), all)
    BY <2>2, <2>4, MergeFacts
  <2> DEFINE units == InOrder(o)
             possible == (\A s \in ToSet(all) : ~IsCall(s)) /\ \A x \in ToSet(units) : ~Malformed(x)
  <2>6. m.ok <=> possible
    BY <2>5 DEF MadeOf
  <2>7. possible <=> [what |-> "merge"] \notin failures
    BY <2>3, <2>6 DEF IsListOf, MergeFailure
  <2>8. ASSUME possible
        PROVE  /\ \A a, b \in DOMAIN runSteps : a < b => PriorityOf(runSteps[a]) <= PriorityOf(runSteps[b])
               /\ \A p \in {PriorityOf(s) : s \in ToSet(runSteps \o all)} :
                    OfPriority(runSteps, p) = OfPriority(all, p)
    <3>1. /\ runSteps = m.steps /\ Ordered(m.steps, NotLater)
          /\ \A p \in Nat : Filtered(m.steps, At(p)) = Filtered(all, At(p))
      BY <2>3, <2>5, <2>6, <2>8 DEF IsListOf, MadeOf
    <3>2. Steps(runUnits) \subseteq Step
      BY <2>2, StepsAre
    <3> DEFINE list == runSteps
               T == Steps(runUnits)
    <3>3. list \in Seq(T) /\ all \in Seq(T) /\ T \subseteq Step
      BY <2>2, <2>5, <3>2
    <3>4. list \in Seq(Step) /\ all \in Seq(Step)
      <4> HIDE DEF T, list
      <4>1. QED
        BY <3>3, SeqMonotonic
    <3>5. \A a, b \in DOMAIN list : a < b => PriorityOf(list[a]) <= PriorityOf(list[b])
      <4>1. Ordered(list, NotLater)
        BY <3>1
      <4>2. DOMAIN list = 1..Len(list)
        BY <3>4, LenProperties
      <4>3. QED
        BY <4>1, <4>2 DEF Ordered, NotLater
    <3>6. \A p \in Nat : OfPriority(list, p) = OfPriority(all, p)
      <4>1. \A p \in Nat : Filtered(list, At(p)) = Filtered(all, At(p))
        BY <3>1
      <4> HIDE DEF list
      <4>2. QED
        BY <3>4, <4>1, OfPriorityFacts
    <3>7. \A s \in ToSet(list \o all) : PriorityOf(s) \in Nat
      <4> HIDE DEF list
      <4>1. list \o all \in Seq(Step)
        BY <3>4, ConcatProperties
      <4> DEFINE both == list \o all
      <4>2. both \in Seq(Step)
        BY <4>1
      <4> HIDE DEF both
      <4>3. ToSet(both) \subseteq Step
        BY <4>2, ToSetFacts
      <4>4. QED
        BY <4>3, PriorityFacts DEF both
    <3>8. QED
      BY <3>5, <3>6, <3>7
  <2>9. IsMerged(units, all)
    BY <2>7, <2>8 DEF IsMerged
  <2>10. QED
    BY <2>9
<1>2. QED
  BY Invariant, <1>1, PTL

-----------------------------------------------------------------------------
(* Layers *)

LayerSet == SUBSET (Entry \X (Field \cup {"key"}) \X Value)

(* What it means to be a layer, without a choice of values.                *)
LEMMA LayerFacts ==
  ASSUME NEW layer
  PROVE  IsLayer(layer) <=>
           /\ layer \in LayerSet
           /\ \A v \in layer : v[2] \in FieldsOf[v[1]] \cup {"key"} /\ Has(layer, v[1], "key")
           /\ \A v, w \in layer : v[1] = w[1] /\ v[2] = w[2] => v[3] = w[3]
<1>1. ASSUME IsLayer(layer), NEW v \in layer, NEW w \in layer, v[1] = w[1], v[2] = w[2]
      PROVE  v[3] = w[3]
  <2>1. ValueOf(layer, v[1], v[2]) = v[3] /\ ValueOf(layer, w[1], w[2]) = w[3]
    BY <1>1 DEF IsLayer
  <2>2. QED
    BY <1>1, <2>1
<1>2. ASSUME \A v, w \in layer : v[1] = w[1] /\ v[2] = w[2] => v[3] = w[3], NEW v \in layer
      PROVE  ValueOf(layer, v[1], v[2]) = v[3]
  <2> DEFINE w == CHOOSE w \in layer : w[1] = v[1] /\ w[2] = v[2]
  <2>1. Has(layer, v[1], v[2]) /\ \E u \in layer : u[1] = v[1] /\ u[2] = v[2]
    BY DEF Has
  <2>2. w \in layer /\ w[1] = v[1] /\ w[2] = v[2]
    BY <2>1
  <2>3. ValueOf(layer, v[1], v[2]) = w[3]
    BY <2>1 DEF ValueOf
  <2> HIDE DEF w
  <2>4. QED
    BY <1>2, <2>2, <2>3
<1>3. QED
  BY <1>1, <1>2 DEF IsLayer, LayerSet

(* The values of a layer.                                                  *)
LEMMA ValueFacts ==
  ASSUME NEW layer, IsLayer(layer)
  PROVE  /\ \A v \in layer : Has(layer, v[1], v[2]) /\ ValueOf(layer, v[1], v[2]) = v[3] /\ v[3] # Unset
         /\ \A e, f : ~Has(layer, e, f) <=> ValueOf(layer, e, f) = Unset
<1>1. \A v \in layer : Has(layer, v[1], v[2]) /\ ValueOf(layer, v[1], v[2]) = v[3]
  BY DEF IsLayer, Has
<1>2. \A v \in layer : v[3] \in Value
  BY LayerFacts DEF LayerSet
<1>3. ASSUME NEW e, NEW f, Has(layer, e, f)
      PROVE  ValueOf(layer, e, f) # Unset
  <2>1. PICK v \in layer : v[1] = e /\ v[2] = f
    BY <1>3 DEF Has
  <2>2. QED
    BY <1>1, <1>2, <2>1, UnsetAssumption
<1>4. \A e, f : ~Has(layer, e, f) => ValueOf(layer, e, f) = Unset
  BY DEF ValueOf
<1>5. QED
  BY <1>1, <1>2, <1>3, <1>4, UnsetAssumption

(* What an entry has depends on what is of the entry.                      *)
LEMMA SameEntry ==
  ASSUME NEW a, IsLayer(a), NEW b, IsLayer(b), NEW e, OfEntry(a, e) = OfEntry(b, e)
  PROVE  \A f : (Has(a, e, f) <=> Has(b, e, f)) /\ ValueOf(a, e, f) = ValueOf(b, e, f)
<1>1. \A v : v \in a /\ v[1] = e <=> v \in b /\ v[1] = e
  BY DEF OfEntry
<1> TAKE f
<1>2. Has(a, e, f) <=> Has(b, e, f)
  BY <1>1 DEF Has
<1>3. CASE Has(a, e, f)
  <2>1. PICK v \in a : v[1] = e /\ v[2] = f
    BY <1>3 DEF Has
  <2>2. v \in b
    BY <1>1, <2>1
  <2>3. QED
    BY <1>2, <1>3, <2>1, <2>2, ValueFacts
<1>4. CASE ~Has(a, e, f)
  BY <1>2, <1>4, ValueFacts
<1>5. QED
  BY <1>3, <1>4

(* The fields, their entries and what of them is propagated.               *)
LEMMA PropagatedFacts ==
  /\ \A e \in Entry : e # "template" => "key" \in Propagated(e)
  /\ \A e \in Entry : Propagated(e) \subseteq FieldsOf[e] \cup {"key"}
  /\ Propagated("template") = {} /\ "template" \in Entry /\ "output" \in Entry
  /\ \A e \in Entry : "key" \notin FieldsOf[e] /\ FieldsOf[e] \subseteq Field
  BY DEF Propagated, Entry, FieldsOf, Field

(* A layer without anything.                                               *)
LEMMA EmptyLayer == IsLayer({}) /\ \A e, f : ~Has({}, e, f)
  BY LayerFacts DEF LayerSet, Has

-----------------------------------------------------------------------------
(* Filling a layer from the one below *)

(* What a layer has when it was filled.                                    *)
LEMMA FillFacts ==
  ASSUME NEW p, IsLayer(p), NEW c, IsLayer(c)
  PROVE  /\ IsLayer(Fill(p, c))
         /\ OfEntry(Fill(p, c), "template") = OfEntry(c, "template")
         /\ \A e \in Entry : \A f \in Propagated(e) :
              /\ Has(Fill(p, c), e, f) <=> Has(p, e, f) \/ Has(c, e, f)
              /\ ValueOf(Fill(p, c), e, f) = IF Has(c, e, f) THEN ValueOf(c, e, f) ELSE ValueOf(p, e, f)
         /\ \A v \in Carried(p) : Has(Fill(p, c), v[1], v[2])
<1> DEFINE z == Fill(p, c)
<1>1. \A v : v \in z <=> v \in c \/ (v \in p /\ v[2] \in Propagated(v[1]) /\ ~Has(c, v[1], v[2]))
  BY DEF Fill, Carried
<1>2. /\ c \in LayerSet /\ p \in LayerSet
      /\ \A v \in c : v[2] \in FieldsOf[v[1]] \cup {"key"} /\ Has(c, v[1], "key")
      /\ \A v \in p : v[2] \in FieldsOf[v[1]] \cup {"key"} /\ Has(p, v[1], "key")
      /\ \A v, w \in c : v[1] = w[1] /\ v[2] = w[2] => v[3] = w[3]
      /\ \A v, w \in p : v[1] = w[1] /\ v[2] = w[2] => v[3] = w[3]
  BY LayerFacts
<1>3. \A v \in p : v[1] \in Entry
  BY <1>2 DEF LayerSet
<1> HIDE DEF z
<1>4. IsLayer(z)
  <2>1. z \in LayerSet
    BY <1>1, <1>2 DEF LayerSet
  <2>2. ASSUME NEW v \in z
        PROVE  v[2] \in FieldsOf[v[1]] \cup {"key"} /\ Has(z, v[1], "key")
    <3>1. CASE v \in c
      BY <1>1, <1>2, <3>1 DEF Has
    <3>2. CASE v \in p /\ v[2] \in Propagated(v[1])
      <4>1. "key" \in Propagated(v[1])
        BY <1>3, <3>2, PropagatedFacts
      <4>2. PICK w \in p : w[1] = v[1] /\ w[2] = "key"
        BY <1>2, <3>2 DEF Has
      <4>3. CASE Has(c, v[1], "key")
        BY <1>1, <1>2, <3>2, <4>3 DEF Has
      <4>4. CASE ~Has(c, v[1], "key")
        <5>1. w \in z
          BY <1>1, <4>1, <4>2, <4>4
        <5>2. QED
          BY <1>2, <3>2, <4>2, <5>1 DEF Has
      <4>5. QED
        BY <4>3, <4>4
    <3>3. QED
      BY <1>1, <3>1, <3>2
  <2>3. ASSUME NEW v \in z, NEW w \in z, v[1] = w[1], v[2] = w[2]
        PROVE  v[3] = w[3]
    BY <1>1, <1>2, <2>3 DEF Has
  <2>4. QED
    BY <2>1, <2>2, <2>3, LayerFacts
<1>5. OfEntry(z, "template") = OfEntry(c, "template")
  BY <1>1, PropagatedFacts DEF OfEntry
<1>6. ASSUME NEW e \in Entry, NEW f \in Propagated(e)
      PROVE  /\ Has(z, e, f) <=> Has(p, e, f) \/ Has(c, e, f)
             /\ ValueOf(z, e, f) = IF Has(c, e, f) THEN ValueOf(c, e, f) ELSE ValueOf(p, e, f)
  <2>1. Has(z, e, f) <=> Has(p, e, f) \/ Has(c, e, f)
    BY <1>1 DEF Has
  <2>2. CASE Has(c, e, f)
    <3>1. PICK v \in c : v[1] = e /\ v[2] = f
      BY <2>2 DEF Has
    <3>2. ValueOf(c, e, f) = v[3]
      BY <3>1, ValueFacts
    <3>3. ValueOf(z, e, f) = v[3]
      BY <1>1, <1>4, <3>1, ValueFacts
    <3>4. QED
      BY <2>1, <2>2, <3>2, <3>3
  <2>3. CASE ~Has(c, e, f) /\ Has(p, e, f)
    <3>1. PICK v \in p : v[1] = e /\ v[2] = f
      BY <2>3 DEF Has
    <3>2. ValueOf(p, e, f) = v[3]
      BY <3>1, ValueFacts
    <3>3. ValueOf(z, e, f) = v[3]
      BY <1>1, <1>4, <2>3, <3>1, ValueFacts
    <3>4. QED
      BY <2>1, <2>3, <3>2, <3>3
  <2>4. CASE ~Has(c, e, f) /\ ~Has(p, e, f)
    BY <1>4, <2>1, <2>4, ValueFacts
  <2>5. QED
    BY <2>2, <2>3, <2>4
<1>7. ASSUME NEW v \in Carried(p)
      PROVE  Has(z, v[1], v[2])
  <2>1. v \in p /\ v[2] \in Propagated(v[1])
    BY DEF Carried
  <2>2. CASE Has(c, v[1], v[2])
    BY <1>1, <2>2 DEF Has
  <2>3. CASE ~Has(c, v[1], v[2])
    BY <1>1, <2>1, <2>3 DEF Has
  <2>4. QED
    BY <2>2, <2>3
<1>8. QED
  BY <1>4, <1>5, <1>6, <1>7 DEF z

-----------------------------------------------------------------------------
(* A list of layers, each filled from the one below *)

\* No layer lacks what is carried from the one below.
Filled(layers) ==
  \A k \in 1..(Len(layers) - 1) : \A v \in Carried(layers[k]) : Has(layers[k + 1], v[1], v[2])

AreLayers(layers) == layers \in Seq(LayerSet) /\ \A k \in 1..Len(layers) : IsLayer(layers[k])

(* Fields are propagated from layer to layer.                              *)
LEMMA PropagateFacts ==
  ASSUME NEW layers \in Seq(LayerSet)
  PROVE  /\ Propagate(layers) \in Seq(LayerSet) /\ Len(Propagate(layers)) = Len(layers)
         /\ \A k \in 1..Len(layers) :
              Propagate(layers)[k] = IF k = 1 THEN layers[1] ELSE Fill(Propagate(layers)[k - 1], layers[k])
<1> DEFINE n == Len(layers)
           one == 1
           FillNext == [x \in LayerSet \X Nat |->
                          IF x[2] \in 1..n THEN Fill(x[1], layers[x[2]]) ELSE x[1]]
           Equation(g) == g = [at \in 1..n |-> IF at = 1 THEN layers[1] ELSE Fill(g[at - 1], layers[at])]
           filled == CHOOSE g : Equation(g)
<1>1. n \in Nat /\ DOMAIN layers = 1..n /\ \A k \in 1..n : layers[k] \in LayerSet
  BY LenProperties, ElementOfSeq
<1>2. \E g : Equation(g) /\ g \in [1..n -> LayerSet]
  <2>1. CASE n = 0
    <3>1. 1..n = {}
      BY <2>1
    <3> DEFINE h == [at \in 1..n |-> layers[1]]
    <3>2. Equation(h) /\ h \in [1..n -> LayerSet]
      BY <3>1
    <3>3. QED
      BY <3>2
  <2>2. CASE n # 0
    <3> DEFINE c == layers[1]
    <3>1. c \in LayerSet /\ one \in Nat
      BY <1>1, <2>2
    <3>2. FillNext \in [LayerSet \X Nat -> LayerSet]
      BY <1>1 DEF LayerSet, Fill, Carried
    <3> HIDE DEF FillNext, n, c, one
    <3>3. Recursion(LayerSet, c, FillNext, one, n)
      BY <1>1, <3>1, <3>2, RecursionExists
    <3>4. PICK g \in [one..n -> LayerSet] :
            \A at \in one..n : g[at] = IF at = one THEN c ELSE FillNext[<<g[at - 1], at>>]
      BY <3>3 DEF Recursion
    <3>5. ASSUME NEW at \in 1..n
          PROVE  g[at] = IF at = 1 THEN layers[1] ELSE Fill(g[at - 1], layers[at])
      <4>1. CASE at = 1
        BY <3>4, <4>1 DEF one, c
      <4>2. CASE at # 1
        <5>1. at - 1 \in 1..n /\ at \in Nat
          BY <1>1, <4>2
        <5>2. g[at - 1] \in LayerSet
          BY <3>4, <5>1 DEF one
        <5> DEFINE x == <<g[at - 1], at>>
        <5>3. x \in LayerSet \X Nat /\ x[1] = g[at - 1] /\ x[2] = at
          BY <5>1, <5>2
        <5> HIDE DEF x
        <5>4. FillNext[x] = Fill(g[at - 1], layers[at])
          BY <5>3 DEF FillNext
        <5>5. QED
          BY <3>4, <4>2, <5>4 DEF one, x
      <4>3. QED
        BY <4>1, <4>2
    <3>6. g \in [1..n -> LayerSet]
      BY <3>4 DEF one
    <3>7. g = [at \in 1..n |-> g[at]]
      BY <3>6
    <3>8. Equation(g)
      BY <3>5, <3>7
    <3>9. QED
      BY <3>6, <3>8
  <2>3. QED
    BY <2>1, <2>2
<1>3. Equation(filled)
  BY <1>2
<1>4. Propagate(layers) = filled
  BY DEF Propagate
<1> HIDE DEF filled
<1>5. DOMAIN filled = 1..n
  BY <1>3
<1>6. \A k \in 1..n : filled[k] = IF k = 1 THEN layers[1] ELSE Fill(filled[k - 1], layers[k])
  BY <1>3
<1>7. \A k \in 1..n : filled[k] \in LayerSet
  <2> DEFINE S == {k \in Nat : k \in 1..n => filled[k] \in LayerSet}
  <2>1. one \in Nat /\ (one <= n => one \in S)
    BY <1>1, <1>6
  <2>2. ASSUME NEW k \in one..n, k # one, k - 1 \in S
        PROVE  k \in S
    <3>1. k \in 1..n /\ k - 1 \in 1..n /\ k \in Nat
      BY <1>1, <2>2
    <3>2. filled[k - 1] \in LayerSet /\ layers[k] \in LayerSet
      BY <1>1, <2>2, <3>1
    <3>3. filled[k] = Fill(filled[k - 1], layers[k])
      BY <1>6, <2>2, <3>1
    <3>4. QED
      BY <3>1, <3>2, <3>3 DEF LayerSet, Fill, Carried
  <2> HIDE DEF S, one
  <2>3. one..n \subseteq S
    BY <1>1, <2>1, <2>2, IntervalInduction
  <2>4. QED
    BY <1>1, <2>3 DEF S, one
<1>8. filled \in [1..n -> LayerSet]
  BY <1>3, <1>5, <1>7
<1>9. filled \in Seq(LayerSet) /\ Len(filled) = n
  <2>1. filled \in Seq(LayerSet)
    BY <1>1, <1>8, SeqDef
  <2>2. DOMAIN filled = 1..Len(filled) /\ Len(filled) \in Nat
    BY <2>1, LenProperties
  <2>3. QED
    BY <1>1, <1>5, <2>1, <2>2
<1>10. QED
  BY <1>4, <1>6, <1>9


(* A layer on top of others changes none of them.                          *)
LEMMA AppendPropagates ==
  ASSUME NEW layers, AreLayers(layers), Filled(layers), NEW layer, IsLayer(layer)
  PROVE  LET new == Propagate(Append(layers, layer)) IN
           /\ AreLayers(new) /\ Filled(new) /\ Len(new) = Len(layers) + 1
           /\ \A k \in 1..Len(layers) : new[k] = layers[k]
           /\ new[Len(layers) + 1] = IF layers = <<>> THEN layer ELSE Fill(layers[Len(layers)], layer)
<1> DEFINE n == Len(layers)
           more == Append(layers, layer)
           new == Propagate(more)
           one == 1
<1>1. /\ n \in Nat /\ layers \in Seq(LayerSet) /\ DOMAIN layers = 1..n /\ layer \in LayerSet
      /\ \A k \in 1..n : IsLayer(layers[k])
  BY LenProperties, LayerFacts DEF AreLayers
<1>2. /\ more \in Seq(LayerSet) /\ Len(more) = n + 1 /\ more[n + 1] = layer
      /\ \A k \in 1..n : more[k] = layers[k]
  BY <1>1, AppendProperties
<1> HIDE DEF more
<1>3. /\ new \in Seq(LayerSet) /\ Len(new) = n + 1
      /\ \A k \in 1..(n + 1) : new[k] = IF k = 1 THEN more[1] ELSE Fill(new[k - 1], more[k])
  BY <1>2, PropagateFacts
<1> HIDE DEF new
<1>4. ASSUME NEW k \in 1..n, k # 1
      PROVE  Fill(layers[k - 1], layers[k]) = layers[k]
  <2>1. k - 1 \in 1..(n - 1) /\ (k - 1) + 1 = k
    BY <1>1, <1>4
  <2>2. \A v \in Carried(layers[k - 1]) : Has(layers[k], v[1], v[2])
    BY <2>1 DEF Filled
  <2>3. QED
    BY <2>2 DEF Fill
<1>5. \A k \in 1..n : new[k] = layers[k]
  <2> DEFINE S == {k \in Nat : k \in 1..n => new[k] = layers[k]}
  <2>1. one \in Nat /\ (one <= n => one \in S)
    BY <1>1, <1>2, <1>3
  <2>2. ASSUME NEW k \in one..n, k # one, k - 1 \in S
        PROVE  k \in S
    <3>1. k \in 1..n /\ k \in 1..(n + 1) /\ k - 1 \in 1..n /\ k \in Nat /\ k # 1
      BY <1>1, <2>2
    <3>2. new[k - 1] = layers[k - 1]
      BY <2>2, <3>1
    <3>3. new[k] = layers[k]
      BY <1>2, <1>3, <1>4, <3>1, <3>2
    <3>4. QED
      BY <3>1, <3>3
  <2> HIDE DEF S, one
  <2>3. one..n \subseteq S
    BY <1>1, <2>1, <2>2, IntervalInduction
  <2>4. QED
    BY <1>1, <2>3 DEF S, one
<1>6. layers = <<>> <=> n = 0
  BY <1>1, EmptySeq
<1>7. new[n + 1] = IF layers = <<>> THEN layer ELSE Fill(layers[n], layer)
  <2>1. CASE n = 0
    BY <1>2, <1>3, <1>6, <2>1
  <2>2. CASE n # 0
    <3>1. n \in 1..n /\ n + 1 \in 1..(n + 1) /\ n + 1 # 1 /\ (n + 1) - 1 = n
      BY <1>1, <2>2
    <3>2. QED
      BY <1>2, <1>3, <1>5, <1>6, <2>2, <3>1
  <2>3. QED
    BY <2>1, <2>2
<1>8. IsLayer(new[n + 1]) /\ (n # 0 => \A v \in Carried(layers[n]) : Has(new[n + 1], v[1], v[2]))
  <2>1. CASE n = 0
    BY <1>6, <1>7, <2>1
  <2>2. CASE n # 0
    <3>1. IsLayer(layers[n])
      BY <1>1, <2>2
    <3>2. QED
      BY <1>6, <1>7, <2>2, <3>1, FillFacts
  <2>3. QED
    BY <2>1, <2>2
<1>9. AreLayers(new)
  <2>1. \A k \in 1..(n + 1) : k \in 1..n \/ k = n + 1
    BY <1>1
  <2>2. QED
    BY <1>1, <1>3, <1>5, <1>8, <2>1 DEF AreLayers
<1>10. Filled(new)
  <2>1. ASSUME NEW k \in 1..n, NEW v \in Carried(new[k])
        PROVE  Has(new[k + 1], v[1], v[2])
    <3>1. CASE k = n
      <4>1. new[k] = layers[k] /\ n # 0
        BY <1>1, <1>5, <3>1
      <4>2. QED
        BY <1>8, <2>1, <3>1, <4>1
    <3>2. CASE k # n
      <4> HIDE DEF n
      <4>1. k \in 1..(n - 1) /\ k + 1 \in 1..n
        BY <1>1, <3>2
      <4>2. v \in Carried(layers[k])
        BY <1>5, <2>1
      <4>3. Has(layers[k + 1], v[1], v[2])
        BY <4>1, <4>2 DEF Filled, n
      <4>4. QED
        BY <1>5, <4>1, <4>3
    <3>3. QED
      BY <3>1, <3>2
  <2>2. (n + 1) - 1 = n
    BY <1>1
  <2>3. QED
    BY <1>3, <2>1, <2>2 DEF Filled
<1>11. QED
  BY <1>3, <1>5, <1>7, <1>9, <1>10 DEF new, more

(* A layer below others fills each of them.                                *)
LEMMA PrependPropagates ==
  ASSUME NEW layers, AreLayers(layers), Filled(layers), NEW layer, IsLayer(layer)
  PROVE  LET new == Propagate(<<layer>> \o layers) IN
           /\ AreLayers(new) /\ Filled(new) /\ Len(new) = Len(layers) + 1
           /\ new[1] = layer
           /\ \A k \in 1..Len(layers) : new[k + 1] = Fill(layer, layers[k])
<1> DEFINE n == Len(layers)
           more == <<layer>> \o layers
           new == Propagate(more)
           one == 1
<1>1. /\ n \in Nat /\ layers \in Seq(LayerSet) /\ DOMAIN layers = 1..n /\ layer \in LayerSet
      /\ \A k \in 1..n : IsLayer(layers[k])
  BY LenProperties, LayerFacts DEF AreLayers
<1>2. /\ more \in Seq(LayerSet) /\ Len(more) = n + 1 /\ more[1] = layer
      /\ \A k \in 1..n : more[k + 1] = layers[k]
  <2>1. <<layer>> \in Seq(LayerSet) /\ Len(<<layer>>) = 1 /\ <<layer>>[1] = layer
    BY <1>1
  <2> DEFINE single == <<layer>>
  <2> HIDE DEF single
  <2>2. /\ single \o layers \in Seq(LayerSet)
        /\ Len(single \o layers) = Len(single) + Len(layers)
        /\ \A k \in 1..(Len(single) + Len(layers)) :
             (single \o layers)[k] = IF k <= Len(single) THEN single[k] ELSE layers[k - Len(single)]
    BY <1>1, <2>1, ConcatProperties DEF single
  <2>3. Len(single) = 1 /\ single[1] = layer
    BY <2>1 DEF single
  <2>4. QED
    BY <1>1, <2>2, <2>3 DEF single
<1> HIDE DEF more
<1>3. /\ new \in Seq(LayerSet) /\ Len(new) = n + 1
      /\ \A k \in 1..(n + 1) : new[k] = IF k = 1 THEN more[1] ELSE Fill(new[k - 1], more[k])
  BY <1>2, PropagateFacts
<1> HIDE DEF new
<1>4. new[1] = layer
  BY <1>1, <1>2, <1>3
<1>5. \A k \in 1..n : new[k + 1] = Fill(new[k], layers[k])
  <2> TAKE k \in 1..n
  <2>1. k + 1 \in 1..(n + 1) /\ k + 1 # 1 /\ (k + 1) - 1 = k
    BY <1>1
  <2>2. QED
    BY <1>2, <1>3, <2>1
<1>6. ASSUME NEW k \in 1..n, k # 1
      PROVE  Fill(Fill(layer, layers[k - 1]), layers[k]) = Fill(layer, layers[k])
  <2>1. k - 1 \in 1..(n - 1) /\ (k - 1) + 1 = k
    BY <1>1, <1>6
  <2>2. \A v \in Carried(layers[k - 1]) : Has(layers[k], v[1], v[2])
    BY <2>1 DEF Filled
  <2>3. \A v \in Carried(layer) : Has(layers[k - 1], v[1], v[2]) => Has(layers[k], v[1], v[2])
    <3> TAKE v \in Carried(layer)
    <3> HAVE Has(layers[k - 1], v[1], v[2])
    <3>1. PICK w \in layers[k - 1] : w[1] = v[1] /\ w[2] = v[2]
      BY DEF Has
    <3>2. w \in Carried(layers[k - 1])
      BY <3>1 DEF Carried
    <3>3. QED
      BY <2>2, <3>1, <3>2
  <2>4. QED
    BY <2>2, <2>3 DEF Fill, Carried
<1>7. \A k \in 1..n : new[k + 1] = Fill(layer, layers[k])
  <2> DEFINE S == {k \in Nat : k \in 1..n => new[k + 1] = Fill(layer, layers[k])}
  <2>1. one \in Nat /\ (one <= n => one \in S)
    BY <1>1, <1>4, <1>5
  <2>2. ASSUME NEW k \in one..n, k # one, k - 1 \in S
        PROVE  k \in S
    <3>1. k \in 1..n /\ k - 1 \in 1..n /\ k \in Nat /\ k # 1 /\ (k - 1) + 1 = k
      BY <1>1, <2>2
    <3>2. new[k] = Fill(layer, layers[k - 1])
      BY <2>2, <3>1
    <3>3. new[k + 1] = Fill(layer, layers[k])
      BY <1>5, <1>6, <3>1, <3>2
    <3>4. QED
      BY <3>1, <3>3
  <2> HIDE DEF S, one
  <2>3. one..n \subseteq S
    BY <1>1, <2>1, <2>2, IntervalInduction
  <2>4. QED
    BY <1>1, <2>3 DEF S, one
<1>8. \A k \in 1..n : /\ IsLayer(new[k + 1])
                      /\ \A v \in Carried(layer) : Has(new[k + 1], v[1], v[2])
                      /\ \A v \in layers[k] : v \in new[k + 1]
  <2> TAKE k \in 1..n
  <2>1. IsLayer(layers[k]) /\ new[k + 1] = Fill(layer, layers[k])
    BY <1>1, <1>7
  <2>2. \A v \in layers[k] : v \in Fill(layer, layers[k])
    BY DEF Fill
  <2>3. QED
    BY <2>1, <2>2, FillFacts
<1>9. AreLayers(new)
  <2>1. ASSUME NEW k \in 1..(n + 1)
        PROVE  IsLayer(new[k])
    <3>1. CASE k = 1
      BY <1>4, <3>1
    <3>2. CASE k # 1
      <4>1. k - 1 \in 1..n /\ (k - 1) + 1 = k
        BY <1>1, <3>2
      <4>2. QED
        BY <1>8, <4>1
    <3>3. QED
      BY <3>1, <3>2
  <2>2. QED
    BY <1>3, <2>1 DEF AreLayers
<1>10. Filled(new)
  <2>1. ASSUME NEW k \in 1..n, NEW v \in Carried(new[k])
        PROVE  Has(new[k + 1], v[1], v[2])
    <3>1. CASE k = 1
      BY <1>4, <1>8, <2>1, <3>1
    <3>2. CASE k # 1
      <4>1. k - 1 \in 1..(n - 1) /\ k - 1 \in 1..n /\ (k - 1) + 1 = k
        BY <1>1, <3>2
      <4>2. new[k] = Fill(layer, layers[k - 1])
        BY <1>7, <4>1
      <4>3. (v \in layers[k - 1] /\ v[2] \in Propagated(v[1])) \/ v \in Carried(layer)
        BY <2>1, <4>2 DEF Fill, Carried
      <4>4. CASE v \in Carried(layer)
        BY <1>8, <4>4
      <4>5. CASE v \in layers[k - 1] /\ v[2] \in Propagated(v[1])
        <5>1. v \in Carried(layers[k - 1])
          BY <4>5 DEF Carried
        <5>2. Has(layers[k], v[1], v[2])
          BY <4>1, <5>1 DEF Filled
        <5>3. QED
          BY <1>8, <5>2 DEF Has
      <4>6. QED
        BY <4>3, <4>4, <4>5
    <3>3. QED
      BY <3>1, <3>2
  <2>2. (n + 1) - 1 = n
    BY <1>1
  <2>3. QED
    BY <1>3, <2>1, <2>2 DEF Filled
<1>11. QED
  BY <1>3, <1>4, <1>7, <1>9, <1>10 DEF new, more


(* Numbers that are not arbitrarily large have a greatest one.             *)
LEMMA GreatestNumber ==
  ASSUME NEW n \in Nat, NEW S \in SUBSET (0..n), S # {}
  PROVE  \E x \in S : \A y \in S : y <= x
<1> DEFINE T == {n - x : x \in S}
<1>1. T \in SUBSET Nat /\ T # {}
  <2>1. PICK x \in S : TRUE
    OBVIOUS
  <2>2. n - x \in T
    BY <2>1
  <2>3. \A y \in S : n - y \in Nat
    OBVIOUS
  <2>4. QED
    BY <2>2, <2>3
<1>2. \A x \in S : n - x \in T /\ x \in 0..n
  OBVIOUS
<1>3. \A t \in T : \E x \in S : t = n - x
  OBVIOUS
<1> HIDE DEF T
<1>4. PICK t \in T : \A u \in T : t <= u
  BY <1>1, LeastNumber
<1>5. PICK x \in S : t = n - x
  BY <1>3
<1>6. \A y \in S : n - x <= n - y
  BY <1>2, <1>4, <1>5
<1>7. QED
  BY <1>2, <1>6

-----------------------------------------------------------------------------
(* Merging the layers *)

(* What merging them gives.                                                *)
LEMMA MergedLayers ==
  ASSUME NEW layers, AreLayers(layers)
  PROVE  /\ IsLayer(mergeDescriptorLayers(layers))
         /\ \A e : OfEntry(mergeDescriptorLayers(layers), e) = {}
                     <=> \A k \in 1..Len(layers) : OfEntry(layers[k], e) = {}
         /\ \A v : v \in mergeDescriptorLayers(layers)
                     <=> \E k \in 1..Len(layers) :
                           /\ v \in layers[k]
                           /\ \A l \in 1..Len(layers) : l > k => OfEntry(layers[l], v[1]) = {}
<1> DEFINE n == Len(layers)
           merged == mergeDescriptorLayers(layers)
           Lasts(v, k) == v \in layers[k] /\ \A l \in 1..n : l > k => OfEntry(layers[l], v[1]) = {}
<1>1. n \in Nat /\ DOMAIN layers = 1..n /\ \A k \in 1..n : IsLayer(layers[k])
  BY LenProperties DEF AreLayers
<1>2. \A v : v \in merged <=> \E k \in 1..n : Lasts(v, k)
  BY <1>1 DEF mergeDescriptorLayers
<1>3. ASSUME NEW e, NEW m \in 1..n, OfEntry(layers[m], e) # {}
      PROVE  \E k \in 1..n : \E v \in layers[k] : v[1] = e /\ Lasts(v, k)
  <2> DEFINE S == {k \in 1..n : OfEntry(layers[k], e) # {}}
  <2>1. S \in SUBSET (0..n) /\ S # {}
    <3>1. m \in S
      BY <1>3
    <3>2. \A k \in 1..n : k \in 0..n
      BY <1>1
    <3>3. QED
      BY <3>1, <3>2
  <2>2. PICK k \in S : \A l \in S : l <= k
    <3> HIDE DEF S
    <3>1. QED
      BY <1>1, <2>1, GreatestNumber
  <2>3. \A l \in 1..n : l > k => OfEntry(layers[l], e) = {}
    BY <1>1, <2>2
  <2>4. PICK v \in layers[k] : v[1] = e
    <3>1. k \in 1..n /\ OfEntry(layers[k], e) # {}
      BY <2>2
    <3>2. QED
      BY <3>1 DEF OfEntry
  <2>5. QED
    BY <2>3, <2>4
<1>4. \A e : OfEntry(merged, e) = {} <=> \A k \in 1..n : OfEntry(layers[k], e) = {}
  <2> HIDE DEF merged
  <2> TAKE e
  <2>1. ASSUME OfEntry(merged, e) = {}, NEW k \in 1..n
        PROVE  OfEntry(layers[k], e) = {}
    <3>1. SUFFICES ASSUME OfEntry(layers[k], e) # {} PROVE FALSE
      OBVIOUS
    <3>2. PICK m \in 1..n : \E v \in layers[m] : v[1] = e /\ Lasts(v, m)
      BY <1>3, <3>1
    <3>3. QED
      BY <1>2, <2>1, <3>2 DEF OfEntry
  <2>2. ASSUME \A k \in 1..n : OfEntry(layers[k], e) = {}
        PROVE  OfEntry(merged, e) = {}
    BY <1>2, <2>2 DEF OfEntry
  <2>3. QED
    BY <2>1, <2>2
<1>5. IsLayer(merged)
  <2> HIDE DEF merged
  <2>1. \A k \in 1..n :
          /\ layers[k] \in LayerSet
          /\ \A v \in layers[k] : v[2] \in FieldsOf[v[1]] \cup {"key"} /\ Has(layers[k], v[1], "key")
          /\ \A v, w \in layers[k] : v[1] = w[1] /\ v[2] = w[2] => v[3] = w[3]
    BY <1>1, LayerFacts
  <2>2. merged \in LayerSet
    BY <1>2, <2>1 DEF LayerSet
  <2>3. ASSUME NEW v \in merged
        PROVE  v[2] \in FieldsOf[v[1]] \cup {"key"} /\ Has(merged, v[1], "key")
    <3>1. PICK k \in 1..n : Lasts(v, k)
      BY <1>2
    <3>2. PICK w \in layers[k] : w[1] = v[1] /\ w[2] = "key"
      BY <2>1, <3>1 DEF Has
    <3>3. Lasts(w, k)
      BY <3>1, <3>2
    <3>4. w \in merged
      BY <1>2, <3>3
    <3>5. Has(merged, v[1], "key")
      BY <3>2, <3>4 DEF Has
    <3>6. QED
      BY <2>1, <3>1, <3>5
  <2>4. ASSUME NEW v \in merged, NEW w \in merged, v[1] = w[1], v[2] = w[2]
        PROVE  v[3] = w[3]
    <3>1. PICK k \in 1..n : Lasts(v, k)
      BY <1>2
    <3>2. PICK m \in 1..n : Lasts(w, m)
      BY <1>2
    <3>3. OfEntry(layers[k], v[1]) # {} /\ OfEntry(layers[m], v[1]) # {}
      BY <2>4, <3>1, <3>2 DEF OfEntry
    <3>4. ~(k > m) /\ ~(m > k)
      BY <2>4, <3>1, <3>2, <3>3
    <3>5. k = m
      BY <3>4
    <3>6. QED
      BY <2>1, <2>4, <3>1, <3>2, <3>5
  <2>5. QED
    BY <2>2, <2>3, <2>4, LayerFacts
<1>6. QED
  BY <1>2, <1>4, <1>5

(* What was propagated has arrived at the top.                             *)
LEMMA TopIsMerged ==
  ASSUME NEW layers, AreLayers(layers), Filled(layers), layers # <<>>,
         NEW e \in Entry, e # "template"
  PROVE  OfEntry(mergeDescriptorLayers(layers), e) = OfEntry(layers[Len(layers)], e)
<1> DEFINE n == Len(layers)
           merged == mergeDescriptorLayers(layers)
<1>1. n \in Nat /\ n \in 1..n /\ \A k \in 1..n : IsLayer(layers[k])
  BY LenProperties, EmptySeq DEF AreLayers
<1>2. \A v : v \in merged <=> \E k \in 1..n :
                /\ v \in layers[k]
                /\ \A l \in 1..n : l > k => OfEntry(layers[l], v[1]) = {}
  BY MergedLayers
<1> HIDE DEF n, merged
<1>3. ASSUME NEW k \in 1..n, k # n, OfEntry(layers[k], e) # {}
      PROVE  OfEntry(layers[k + 1], e) # {}
  <2>1. PICK v \in layers[k] : v[1] = e
    BY <1>3 DEF OfEntry
  <2>2. PICK w \in layers[k] : w[1] = e /\ w[2] = "key"
    BY <1>1, <2>1, LayerFacts DEF Has
  <2>3. w \in Carried(layers[k])
    BY <2>2, PropagatedFacts DEF Carried
  <2>4. k \in 1..(n - 1)
    BY <1>1, <1>3
  <2>5. Has(layers[k + 1], w[1], w[2])
    BY <2>3, <2>4 DEF Filled, n
  <2>6. QED
    BY <2>2, <2>5 DEF Has, OfEntry
<1>4. ASSUME NEW k \in 1..n, OfEntry(layers[k], e) # {}
      PROVE  OfEntry(layers[n], e) # {}
  <2> DEFINE S == {l \in Nat : l \in 1..n => OfEntry(layers[l], e) # {}}
  <2>1. k \in Nat /\ k <= n /\ k \in S
    BY <1>1, <1>4
  <2>2. ASSUME NEW l \in k..n, l # k, l - 1 \in S
        PROVE  l \in S
    <3>1. l \in Nat /\ l - 1 \in 1..n /\ l - 1 # n /\ (l - 1) + 1 = l
      BY <1>1, <2>1, <2>2
    <3>2. OfEntry(layers[l - 1], e) # {}
      BY <2>2, <3>1
    <3>3. OfEntry(layers[l], e) # {}
      BY <1>3, <3>1, <3>2
    <3>4. QED
      BY <3>1, <3>3
  <2> HIDE DEF S
  <2>3. k..n \subseteq S
    BY <1>1, <2>1, <2>2, IntervalInduction
  <2>4. n \in k..n
    BY <1>1, <2>1
  <2>5. QED
    BY <1>1, <2>3, <2>4 DEF S
<1>5. ASSUME NEW v, v[1] = e
      PROVE  v \in merged <=> v \in layers[n]
  <2>1. ASSUME v \in layers[n]
        PROVE  v \in merged
    <3>1. \A l \in 1..n : ~(l > n)
      BY <1>1
    <3>2. QED
      BY <1>1, <1>2, <2>1, <3>1
  <2>2. ASSUME v \in merged
        PROVE  v \in layers[n]
    <3>1. PICK k \in 1..n : v \in layers[k] /\ \A l \in 1..n : l > k => OfEntry(layers[l], v[1]) = {}
      BY <1>2, <2>2
    <3>2. OfEntry(layers[k], e) # {}
      BY <1>5, <3>1 DEF OfEntry
    <3>3. OfEntry(layers[n], e) # {}
      BY <1>4, <3>2
    <3>4. ~(n > k)
      BY <1>1, <1>5, <3>1, <3>3
    <3>5. k = n
      BY <1>1, <3>4
    <3>6. QED
      BY <3>1, <3>5
  <2>3. QED
    BY <2>1, <2>2
<1>6. QED
  BY <1>5 DEF OfEntry, n, merged


(* A layer added on top: what it has counts, and otherwise what there was. *)
LEMMA AppendMerges ==
  ASSUME NEW layers, AreLayers(layers), Filled(layers), NEW layer, IsLayer(layer)
  PROVE  LET merged == mergeDescriptorLayers(layers)
             new == mergeDescriptorLayers(Propagate(Append(layers, layer)))
         IN /\ IsLayer(merged) /\ IsLayer(new)
            /\ \A e \in Entry : \A f \in Propagated(e) :
                 ValueOf(new, e, f) = IF Has(layer, e, f) THEN ValueOf(layer, e, f) ELSE ValueOf(merged, e, f)
            /\ OfEntry(new, "template")
                 = IF OfEntry(layer, "template") # {} THEN OfEntry(layer, "template")
                   ELSE OfEntry(merged, "template")
<1> DEFINE n == Len(layers)
           all == Propagate(Append(layers, layer))
           merged == mergeDescriptorLayers(layers)
           new == mergeDescriptorLayers(all)
           t == "template"
<1>1. /\ AreLayers(all) /\ Filled(all) /\ Len(all) = n + 1
      /\ \A k \in 1..n : all[k] = layers[k]
      /\ all[n + 1] = IF layers = <<>> THEN layer ELSE Fill(layers[n], layer)
  BY AppendPropagates
<1>2. n \in Nat /\ (layers = <<>> <=> n = 0) /\ \A k \in 1..n : IsLayer(layers[k])
  BY LenProperties, EmptySeq DEF AreLayers
<1> HIDE DEF all
<1>3. IsLayer(merged) /\ IsLayer(new) /\ IsLayer(all[n + 1])
  BY <1>1, <1>2, MergedLayers DEF AreLayers
<1>4. ASSUME NEW e \in Entry, NEW f \in Propagated(e)
      PROVE  ValueOf(new, e, f) = IF Has(layer, e, f) THEN ValueOf(layer, e, f) ELSE ValueOf(merged, e, f)
  <2> DEFINE top == all[n + 1]
  <2>1. e # t
    BY PropagatedFacts
  <2>2. all # <<>>
    BY <1>1, <1>2, EmptySeq
  <2>3. OfEntry(new, e) = OfEntry(top, e)
    BY <1>1, <2>1, <2>2, TopIsMerged
  <2>4. IsLayer(new) /\ IsLayer(top)
    BY <1>3
  <2> HIDE DEF top, new
  <2>5. ValueOf(new, e, f) = ValueOf(top, e, f)
    BY <2>3, <2>4, SameEntry
  <2>6. CASE layers = <<>>
    <3>1. \A k \in 1..n : FALSE
      BY <1>2, <2>6
    <3>2. \A g : OfEntry(merged, g) = {}
      BY <3>1, MergedLayers
    <3>3. ~Has(merged, e, f)
      BY <3>2 DEF Has, OfEntry
    <3>4. ValueOf(merged, e, f) = Unset
      BY <1>3, <3>3, ValueFacts
    <3>5. top = layer
      BY <1>1, <2>6 DEF top
    <3>6. ~Has(layer, e, f) => ValueOf(layer, e, f) = Unset
      BY ValueFacts
    <3>7. QED
      BY <2>5, <3>4, <3>5, <3>6
  <2>7. CASE layers # <<>>
    <3> DEFINE last == layers[n]
    <3>1. IsLayer(last)
      BY <1>2, <2>7
    <3>2. OfEntry(merged, e) = OfEntry(last, e)
      BY <2>1, <2>7, TopIsMerged
    <3>3. top = Fill(last, layer)
      BY <1>1, <2>7 DEF top
    <3> HIDE DEF last, merged
    <3>4. ValueOf(merged, e, f) = ValueOf(last, e, f)
      BY <1>3, <3>1, <3>2, SameEntry
    <3>5. ValueOf(Fill(last, layer), e, f)
            = IF Has(layer, e, f) THEN ValueOf(layer, e, f) ELSE ValueOf(last, e, f)
      BY <3>1, FillFacts
    <3>6. QED
      BY <2>5, <3>3, <3>4, <3>5
  <2>8. QED
    BY <2>6, <2>7 DEF new
<1>5. OfEntry(all[n + 1], t) = OfEntry(layer, t)
  <2>1. CASE layers = <<>>
    BY <1>1, <2>1
  <2>2. CASE layers # <<>>
    <3>1. IsLayer(layers[n])
      BY <1>2, <2>2
    <3>2. QED
      BY <1>1, <2>2, <3>1, FillFacts
  <2>3. QED
    BY <2>1, <2>2
<1>6. /\ \A v : v \in merged <=> \E k \in 1..n :
                  v \in layers[k] /\ \A l \in 1..n : l > k => OfEntry(layers[l], v[1]) = {}
      /\ \A v : v \in new <=> \E k \in 1..(n + 1) :
                  v \in all[k] /\ \A l \in 1..(n + 1) : l > k => OfEntry(all[l], v[1]) = {}
  BY <1>1, MergedLayers
<1> HIDE DEF n, merged, new
<1>7. ASSUME NEW v, v[1] = t
      PROVE  v \in new <=> IF OfEntry(layer, t) # {} THEN v \in layer ELSE v \in merged
  <2>1. v \in all[n + 1] <=> v \in layer
    BY <1>5, <1>7 DEF OfEntry
  <2>2. \A k \in 1..(n + 1) : k \in 1..n \/ k = n + 1
    BY <1>2
  <2>3. \A k \in 1..n : k \in 1..(n + 1) /\ n + 1 > k /\ n + 1 \in 1..(n + 1)
    BY <1>2
  <2>4. n + 1 \in 1..(n + 1) /\ \A l \in 1..(n + 1) : ~(l > n + 1)
    BY <1>2
  <2>5. CASE OfEntry(layer, t) # {}
    <3>1. ASSUME v \in layer
          PROVE  v \in new
      BY <1>6, <2>1, <2>4, <3>1
    <3>2. ASSUME v \in new
          PROVE  v \in layer
      <4>1. PICK k \in 1..(n + 1) :
              v \in all[k] /\ \A l \in 1..(n + 1) : l > k => OfEntry(all[l], v[1]) = {}
        BY <1>6, <3>2
      <4>2. k = n + 1
        BY <1>5, <1>7, <2>2, <2>3, <2>5, <4>1
      <4>3. QED
        BY <2>1, <4>1, <4>2
    <3>3. QED
      BY <2>5, <3>1, <3>2
  <2>6. CASE OfEntry(layer, t) = {}
    <3>1. v \notin all[n + 1]
      BY <1>7, <2>1, <2>6 DEF OfEntry
    <3>2. ASSUME v \in new
          PROVE  v \in merged
      <4>1. PICK k \in 1..(n + 1) :
              v \in all[k] /\ \A l \in 1..(n + 1) : l > k => OfEntry(all[l], v[1]) = {}
        BY <1>6, <3>2
      <4>2. k \in 1..n
        BY <2>2, <3>1, <4>1
      <4>3. v \in layers[k] /\ \A l \in 1..n : l > k => OfEntry(layers[l], v[1]) = {}
        BY <1>1, <2>3, <4>1, <4>2
      <4>4. QED
        BY <1>6, <4>2, <4>3
    <3>3. ASSUME v \in merged
          PROVE  v \in new
      <4>1. PICK k \in 1..n : v \in layers[k] /\ \A l \in 1..n : l > k => OfEntry(layers[l], v[1]) = {}
        BY <1>6, <3>3
      <4>2. \A l \in 1..(n + 1) : l > k => OfEntry(all[l], v[1]) = {}
        BY <1>1, <1>5, <1>7, <2>2, <2>6, <4>1
      <4>3. k \in 1..(n + 1) /\ v \in all[k]
        BY <1>1, <2>3, <4>1
      <4>4. QED
        BY <1>6, <4>2, <4>3
    <3>4. QED
      BY <2>6, <3>2, <3>3
  <2>7. QED
    BY <2>5, <2>6
<1>8. OfEntry(new, t) = IF OfEntry(layer, t) # {} THEN OfEntry(layer, t) ELSE OfEntry(merged, t)
  BY <1>7 DEF OfEntry
<1>9. QED
  BY <1>3, <1>4, <1>8 DEF all, merged, new

(* A layer added below: what there was counts, and otherwise what it has.  *)
LEMMA PrependMerges ==
  ASSUME NEW layers, AreLayers(layers), Filled(layers), NEW layer, IsLayer(layer)
  PROVE  LET merged == mergeDescriptorLayers(layers)
             new == mergeDescriptorLayers(Propagate(<<layer>> \o layers))
         IN /\ IsLayer(merged) /\ IsLayer(new)
            /\ \A e \in Entry : \A f \in Propagated(e) :
                 ValueOf(new, e, f) = IF Has(merged, e, f) THEN ValueOf(merged, e, f) ELSE ValueOf(layer, e, f)
            /\ OfEntry(new, "template")
                 = IF OfEntry(merged, "template") # {} THEN OfEntry(merged, "template")
                   ELSE OfEntry(layer, "template")
<1> DEFINE n == Len(layers)
           all == Propagate(<<layer>> \o layers)
           merged == mergeDescriptorLayers(layers)
           new == mergeDescriptorLayers(all)
           t == "template"
<1>1. /\ AreLayers(all) /\ Filled(all) /\ Len(all) = n + 1
      /\ all[1] = layer
      /\ \A k \in 1..n : all[k + 1] = Fill(layer, layers[k])
  BY PrependPropagates
<1>2. n \in Nat /\ (layers = <<>> <=> n = 0) /\ \A k \in 1..n : IsLayer(layers[k])
  BY LenProperties, EmptySeq DEF AreLayers
<1> HIDE DEF all
<1>3. IsLayer(merged) /\ IsLayer(new) /\ IsLayer(all[n + 1])
  BY <1>1, <1>2, MergedLayers DEF AreLayers
<1>4. ASSUME NEW e \in Entry, NEW f \in Propagated(e)
      PROVE  ValueOf(new, e, f) = IF Has(merged, e, f) THEN ValueOf(merged, e, f) ELSE ValueOf(layer, e, f)
  <2> DEFINE top == all[n + 1]
  <2>1. e # t
    BY PropagatedFacts
  <2>2. all # <<>>
    BY <1>1, <1>2, EmptySeq
  <2>3. OfEntry(new, e) = OfEntry(top, e)
    BY <1>1, <2>1, <2>2, TopIsMerged
  <2>4. IsLayer(new) /\ IsLayer(top)
    BY <1>3
  <2> HIDE DEF top, new
  <2>5. ValueOf(new, e, f) = ValueOf(top, e, f)
    BY <2>3, <2>4, SameEntry
  <2>6. CASE layers = <<>>
    <3>1. \A k \in 1..n : FALSE
      BY <1>2, <2>6
    <3>2. \A g : OfEntry(merged, g) = {}
      BY <3>1, MergedLayers
    <3>3. ~Has(merged, e, f)
      BY <3>2 DEF Has, OfEntry
    <3>4. top = layer
      BY <1>1, <1>2, <2>6 DEF top
    <3>5. QED
      BY <2>5, <3>3, <3>4
  <2>7. CASE layers # <<>>
    <3> DEFINE last == layers[n]
    <3>1. IsLayer(last)
      BY <1>2, <2>7
    <3>2. OfEntry(merged, e) = OfEntry(last, e)
      BY <2>1, <2>7, TopIsMerged
    <3>3. top = Fill(layer, last)
      BY <1>1, <1>2, <2>7 DEF top
    <3> HIDE DEF last, merged
    <3>4. ValueOf(merged, e, f) = ValueOf(last, e, f) /\ (Has(merged, e, f) <=> Has(last, e, f))
      BY <1>3, <3>1, <3>2, SameEntry
    <3>5. ValueOf(Fill(layer, last), e, f)
            = IF Has(last, e, f) THEN ValueOf(last, e, f) ELSE ValueOf(layer, e, f)
      BY <3>1, FillFacts
    <3>6. QED
      BY <2>5, <3>3, <3>4, <3>5
  <2>8. QED
    BY <2>6, <2>7 DEF new
<1>5. \A k \in 1..n : OfEntry(all[k + 1], t) = OfEntry(layers[k], t)
  BY <1>1, <1>2, FillFacts
<1>6. /\ \A v : v \in merged <=> \E k \in 1..n :
                  v \in layers[k] /\ \A l \in 1..n : l > k => OfEntry(layers[l], v[1]) = {}
      /\ \A v : v \in new <=> \E k \in 1..(n + 1) :
                  v \in all[k] /\ \A l \in 1..(n + 1) : l > k => OfEntry(all[l], v[1]) = {}
      /\ OfEntry(merged, t) = {} <=> \A k \in 1..n : OfEntry(layers[k], t) = {}
  BY <1>1, MergedLayers
<1> HIDE DEF n, merged, new
<1>7. ASSUME NEW v, v[1] = t
      PROVE  v \in new <=> v \in merged \/ (OfEntry(merged, t) = {} /\ v \in layer)
  <2>1. \A k \in 1..n : v \in all[k + 1] <=> v \in layers[k]
    BY <1>5, <1>7 DEF OfEntry
  <2>2. \A k \in 1..n : k + 1 \in 1..(n + 1) /\ k + 1 > 1 /\ k + 1 # 1
    BY <1>2
  <2>3. 1 \in 1..(n + 1) /\ \A k \in 1..(n + 1) : k = 1 \/ (k - 1 \in 1..n /\ (k - 1) + 1 = k)
    BY <1>2
  <2>4. ASSUME v \in new
        PROVE  v \in merged \/ (OfEntry(merged, t) = {} /\ v \in layer)
    <3>1. PICK k \in 1..(n + 1) :
            v \in all[k] /\ \A l \in 1..(n + 1) : l > k => OfEntry(all[l], v[1]) = {}
      BY <1>6, <2>4
    <3>2. CASE k = 1
      <4>1. \A l \in 1..n : OfEntry(layers[l], t) = {}
        BY <1>5, <1>7, <2>2, <3>1, <3>2
      <4>2. QED
        BY <1>1, <1>6, <3>1, <3>2, <4>1
    <3>3. CASE k # 1
      <4>1. k - 1 \in 1..n /\ (k - 1) + 1 = k
        BY <2>3, <3>3
      <4>2. v \in layers[k - 1]
        BY <2>1, <3>1, <4>1
      <4>3. \A l \in 1..n : l > k - 1 => OfEntry(layers[l], v[1]) = {}
        <5> TAKE l \in 1..n
        <5> HAVE l > k - 1
        <5>1. l + 1 > k
          BY <1>2
        <5>2. QED
          BY <1>5, <1>7, <2>2, <3>1, <5>1
      <4>4. QED
        BY <1>6, <4>1, <4>2, <4>3
    <3>4. QED
      BY <3>2, <3>3
  <2>5. ASSUME v \in merged
        PROVE  v \in new
    <3>1. PICK k \in 1..n : v \in layers[k] /\ \A l \in 1..n : l > k => OfEntry(layers[l], v[1]) = {}
      BY <1>6, <2>5
    <3>2. k + 1 \in 1..(n + 1) /\ v \in all[k + 1]
      BY <2>1, <2>2, <3>1
    <3>3. \A l \in 1..(n + 1) : l > k + 1 => OfEntry(all[l], v[1]) = {}
      <4> TAKE l \in 1..(n + 1)
      <4> HAVE l > k + 1
      <4>1. l - 1 \in 1..n /\ l - 1 > k /\ (l - 1) + 1 = l
        BY <1>2
      <4>2. OfEntry(layers[l - 1], t) = {}
        BY <1>7, <3>1, <4>1
      <4>3. QED
        BY <1>5, <1>7, <4>1, <4>2
    <3>4. QED
      BY <1>6, <3>2, <3>3
  <2>6. ASSUME OfEntry(merged, t) = {}, v \in layer
        PROVE  v \in new
    <3>1. \A l \in 1..(n + 1) : l > 1 => OfEntry(all[l], v[1]) = {}
      <4> TAKE l \in 1..(n + 1)
      <4> HAVE l > 1
      <4>1. l - 1 \in 1..n /\ (l - 1) + 1 = l
        BY <1>2
      <4>2. OfEntry(layers[l - 1], t) = {}
        BY <1>6, <2>6, <4>1
      <4>3. QED
        BY <1>5, <1>7, <4>1, <4>2
    <3>2. v \in all[1]
      BY <1>1, <2>6
    <3>3. QED
      BY <1>6, <2>3, <3>1, <3>2
  <2>7. QED
    BY <2>4, <2>5, <2>6
<1>8. OfEntry(new, t) = IF OfEntry(merged, t) # {} THEN OfEntry(merged, t) ELSE OfEntry(layer, t)
  <2>1. CASE OfEntry(merged, t) # {}
    BY <1>7, <2>1 DEF OfEntry
  <2>2. CASE OfEntry(merged, t) = {}
    BY <1>7, <2>2 DEF OfEntry
  <2>3. QED
    BY <2>1, <2>2
<1>9. QED
  BY <1>3, <1>4, <1>8 DEF all, merged, new


-----------------------------------------------------------------------------
(* The layers of files, and their ranks *)

(* What the layer of a file has is what the file gives.                    *)
LEMMA LayerOfFacts ==
  ASSUME config \in Configuration, NEW file \in File
  PROVE  /\ IsLayer(LayerOf(file))
         /\ \A e \in Entry : \A f \in FieldsOf[e] :
              /\ Has(LayerOf(file), e, f) <=> f \in config.given[file][e]
              /\ ValueOf(LayerOf(file), e, f) = IF f \in config.given[file][e] THEN file ELSE Unset
         /\ \A e \in Entry : OfEntry(LayerOf(file), e) = {} <=> config.given[file][e] = {}
<1> DEFINE layer == LayerOf(file)
           g == config.given[file]
<1>1. \A e \in Entry : g[e] \subseteq FieldsOf[e]
  BY DEF Configuration
<1>2. \A v : v \in layer <=> \E e \in Entry : /\ g[e] # {}
                                              /\ v = Key(e) \/ \E f \in g[e] : v = <<e, f, file>>
  BY DEF LayerOf
<1>3. file \in Value /\ "key" \in Value
  BY DEF Value
<1> HIDE DEF layer, g
<1>4. \A v \in layer : \E e \in Entry :
        /\ g[e] # {} /\ v[1] = e /\ Key(e) \in layer
        /\ \/ v = Key(e)
           \/ v[2] \in g[e] /\ v = <<e, v[2], file>>
  BY <1>2 DEF Key
<1>5. \A e \in Entry : Key(e)[1] = e /\ Key(e)[2] = "key" /\ Key(e)[3] = "key"
  BY DEF Key
<1>6. IsLayer(layer)
  <2>1. ASSUME NEW v \in layer
        PROVE  /\ v \in Entry \X (Field \cup {"key"}) \X Value
               /\ v[2] \in FieldsOf[v[1]] \cup {"key"} /\ Has(layer, v[1], "key")
               /\ v[2] = "key" => v[3] = "key"
               /\ v[2] # "key" => v[3] = file
    <3>1. PICK e \in Entry : /\ g[e] # {} /\ v[1] = e /\ Key(e) \in layer
                             /\ \/ v = Key(e)
                                \/ v[2] \in g[e] /\ v = <<e, v[2], file>>
      BY <1>4
    <3>2. Has(layer, v[1], "key")
      BY <1>5, <3>1 DEF Has
    <3>3. CASE v = Key(e)
      BY <1>3, <3>1, <3>2, <3>3 DEF Key
    <3>4. CASE v[2] \in g[e] /\ v = <<e, v[2], file>>
      <4>1. v[2] \in FieldsOf[e] /\ v[2] \in Field /\ v[2] # "key"
        BY <1>1, <3>4, PropagatedFacts
      <4> DEFINE f == v[2]
      <4>2. v = <<e, f, file>> /\ f \in Field
        BY <3>4, <4>1
      <4> HIDE DEF f
      <4>3. v \in Entry \X (Field \cup {"key"}) \X Value
        BY <1>3, <4>2
      <4>4. v[3] = file
        BY <4>2
      <4>5. QED
        BY <3>1, <3>2, <4>1, <4>3, <4>4
    <3>5. QED
      BY <3>1, <3>3, <3>4
  <2>2. layer \in LayerSet
    BY <2>1 DEF LayerSet
  <2>3. QED
    BY <2>1, <2>2, LayerFacts
<1>7. ASSUME NEW e \in Entry, NEW f \in FieldsOf[e]
      PROVE  /\ Has(layer, e, f) <=> f \in g[e]
             /\ ValueOf(layer, e, f) = IF f \in g[e] THEN file ELSE Unset
  <2>1. f # "key"
    BY PropagatedFacts
  <2>2. CASE f \in g[e]
    <3> DEFINE v == <<e, f, file>>
    <3>1. v \in layer
      BY <1>2, <2>2
    <3>2. v[1] = e /\ v[2] = f /\ v[3] = file
      OBVIOUS
    <3> HIDE DEF v
    <3>3. QED
      BY <1>6, <2>2, <3>1, <3>2, ValueFacts
  <2>3. CASE f \notin g[e]
    <3>1. ~Has(layer, e, f)
      <4>1. SUFFICES ASSUME NEW v \in layer, v[1] = e, v[2] = f PROVE FALSE
        BY DEF Has
      <4>2. QED
        BY <1>4, <1>5, <2>1, <2>3, <4>1
    <3>2. QED
      BY <1>6, <2>3, <3>1, ValueFacts
  <2>4. QED
    BY <2>2, <2>3
<1>8. ASSUME NEW e \in Entry
      PROVE  OfEntry(layer, e) = {} <=> g[e] = {}
  <2>1. ASSUME g[e] # {} PROVE OfEntry(layer, e) # {}
    <3>1. Key(e) \in layer
      BY <1>2, <2>1
    <3>2. QED
      BY <1>5, <3>1 DEF OfEntry
  <2>2. ASSUME OfEntry(layer, e) # {} PROVE g[e] # {}
    BY <1>4, <2>2 DEF OfEntry
  <2>3. QED
    BY <2>1, <2>2
<1>9. QED
  BY <1>6, <1>7, <1>8 DEF layer, g

\* The place below what the manifests say.
Base == Len(Precedence) - 5

(* The order of precedence, place by place.                                *)
LEMMA PrecedenceFacts ==
  ASSUME config \in Configuration
  PROVE  /\ Base \in Nat /\ Base >= 1 /\ Len(Precedence) = Base + 5
         /\ DOMAIN Precedence = 1..(Base + 5)
         /\ Precedence[Base] = "sugarkube.yaml"
         /\ \A k \in 1..5 : Precedence[Base + k] = Manifests[k]
         /\ config.ignoreGlobalDefaults => Base = 1
         /\ ~config.ignoreGlobalDefaults =>
              /\ Base = Len(config.requires) + 2 /\ Len(config.requires) \in Nat
              /\ Precedence[Base - 1] = "global"
              /\ \A k \in 1..Len(config.requires) : Precedence[k] = config.requires[k]
<1> DEFINE T == Program \cup {"unknown"} \cup File
           requires == config.requires
           global == <<"global">>
           own == <<"sugarkube.yaml">>
           defaults == IF config.ignoreGlobalDefaults THEN <<>> ELSE requires \o global
<1>1. requires \in Seq(T) /\ config.ignoreGlobalDefaults \in BOOLEAN
  <2>1. requires \in Seq(Program \cup {"unknown"}) /\ config.ignoreGlobalDefaults \in BOOLEAN
    BY DEF Configuration
  <2>2. Program \cup {"unknown"} \subseteq T
    OBVIOUS
  <2> HIDE DEF T, requires
  <2>3. QED
    BY <2>1, <2>2, SeqMonotonic
<1>2. /\ global \in Seq(T) /\ Len(global) = 1 /\ global[1] = "global"
      /\ own \in Seq(T) /\ Len(own) = 1 /\ own[1] = "sugarkube.yaml"
  BY DEF File
<1>3. Manifests \in Seq(T) /\ Len(Manifests) = 5
  <2>1. DOMAIN Manifests = 1..5
    BY DEF Manifests
  <2>2. \A k \in 1..5 : Manifests[k] \in File
    BY <2>1 DEF File
  <2>3. Manifests \in [1..5 -> File]
    <3>1. Manifests = [k \in 1..5 |-> Manifests[k]]
      BY DEF Manifests
    <3>2. QED
      BY <2>2, <3>1
  <2>4. Manifests \in Seq(File) /\ Len(Manifests) = 5
    <3> DEFINE given == Manifests
    <3>1. given \in [1..5 -> File] /\ 5 \in Nat
      BY <2>3
    <3> HIDE DEF given
    <3>2. given \in Seq(File)
      BY <3>1, SeqDef
    <3>3. DOMAIN given = 1..5 /\ DOMAIN given = 1..Len(given) /\ Len(given) \in Nat
      BY <3>1, <3>2, LenProperties
    <3>4. QED
      BY <3>2, <3>3 DEF given
  <2>5. File \subseteq T
    OBVIOUS
  <2> HIDE DEF T
  <2>6. QED
    BY <2>4, <2>5, SeqMonotonic
<1> HIDE DEF T, requires, global, own
<1>4. /\ defaults \in Seq(T)
      /\ config.ignoreGlobalDefaults => Len(defaults) = 0
      /\ ~config.ignoreGlobalDefaults =>
           /\ Len(defaults) = Len(requires) + 1 /\ defaults[Len(requires) + 1] = "global"
           /\ \A k \in 1..Len(requires) : defaults[k] = requires[k]
  <2>1. <<>> \in Seq(T) /\ Len(<<>>) = 0
    BY EmptySeq
  <2>2. Len(requires) \in Nat
    BY <1>1, LenProperties
  <2>3. /\ requires \o global \in Seq(T) /\ Len(requires \o global) = Len(requires) + Len(global)
        /\ \A k \in 1..(Len(requires) + Len(global)) :
             (requires \o global)[k] = IF k <= Len(requires) THEN requires[k] ELSE global[k - Len(requires)]
    BY <1>1, <1>2, ConcatProperties
  <2>4. QED
    BY <1>1, <1>2, <2>1, <2>2, <2>3
<1> DEFINE low == defaults \o own
<1>5. Precedence = low \o Manifests
  BY DEF Precedence, requires, global, own
<1> HIDE DEF defaults
<1>6. Len(defaults) \in Nat /\ Len(requires) \in Nat
  BY <1>1, <1>4, LenProperties
<1>7. /\ low \in Seq(T) /\ Len(low) = Len(defaults) + 1
      /\ \A k \in 1..(Len(defaults) + 1) :
           low[k] = IF k <= Len(defaults) THEN defaults[k] ELSE own[k - Len(defaults)]
  <2>1. /\ low \in Seq(T) /\ Len(low) = Len(defaults) + Len(own)
        /\ \A k \in 1..(Len(defaults) + Len(own)) :
             low[k] = IF k <= Len(defaults) THEN defaults[k] ELSE own[k - Len(defaults)]
    BY <1>2, <1>4, ConcatProperties
  <2>2. QED
    BY <1>2, <2>1
<1> HIDE DEF low
<1>8. /\ Precedence \in Seq(T) /\ Len(Precedence) = Len(low) + 5
      /\ \A k \in 1..(Len(low) + 5) :
           Precedence[k] = IF k <= Len(low) THEN low[k] ELSE Manifests[k - Len(low)]
  <2> DEFINE given == Manifests
  <2>1. given \in Seq(T) /\ Len(given) = 5 /\ low \in Seq(T)
    BY <1>3, <1>7
  <2>2. Precedence = low \o given
    BY <1>5
  <2> HIDE DEF given
  <2>3. /\ low \o given \in Seq(T) /\ Len(low \o given) = Len(low) + Len(given)
        /\ \A k \in 1..(Len(low) + Len(given)) :
             (low \o given)[k] = IF k <= Len(low) THEN low[k] ELSE given[k - Len(low)]
    BY <2>1, ConcatProperties
  <2>4. QED
    BY <2>1, <2>2, <2>3 DEF given
<1>9. Base = Len(low) /\ Base = Len(defaults) + 1
  BY <1>6, <1>7, <1>8 DEF Base
<1>10. DOMAIN Precedence = 1..(Base + 5)
  BY <1>8, <1>9, LenProperties
<1>11. \A k \in 1..Base : Precedence[k] = low[k]
  BY <1>6, <1>8, <1>9
<1>12. \A k \in 1..5 : Precedence[Base + k] = Manifests[k]
  BY <1>6, <1>8, <1>9
<1>13. Precedence[Base] = "sugarkube.yaml"
  BY <1>2, <1>6, <1>7, <1>9, <1>11
<1>14. \A k \in 1..Len(defaults) : Precedence[k] = defaults[k]
  BY <1>6, <1>7, <1>9, <1>11
<1>15. config.ignoreGlobalDefaults => Base = 1
  BY <1>4, <1>9
<1>16. ASSUME ~config.ignoreGlobalDefaults
       PROVE  /\ Base = Len(requires) + 2 /\ Precedence[Base - 1] = "global"
              /\ \A k \in 1..Len(requires) : Precedence[k] = requires[k]
  BY <1>4, <1>6, <1>9, <1>14, <1>16
<1>17. QED
  BY <1>6, <1>8, <1>9, <1>10, <1>12, <1>13, <1>15, <1>16 DEF requires

\* The highest of these places that has one of the files.
HighestOf(order, low, high, files) ==
  LET places == {k \in low..high : order[k] \in files}
  IN  IF places = {} THEN Unset ELSE order[CHOOSE k \in places : \A l \in places : l <= k]

HighestIn(low, high, files) == HighestOf(Precedence, low, high, files)

Without(low, high, files) == \A k \in low..high : Precedence[k] \notin files

(* Which it is, and how it changes with one place more.                    *)
LEMMA HighestFacts ==
  ASSUME NEW low \in Nat, NEW high \in Nat, NEW files \in SUBSET File
  PROVE  /\ Without(low, high, files) => HighestIn(low, high, files) = Unset
         /\ ~Without(low, high, files) => HighestIn(low, high, files) \in files
         /\ \A k \in low..high :
              Precedence[k] \in files /\ Without(k + 1, high, files)
                => HighestIn(low, high, files) = Precedence[k]
         /\ ~Without(low, high, files) =>
              \E k \in low..high : Precedence[k] \in files /\ Without(k + 1, high, files)
<1> DEFINE places == {k \in low..high : Precedence[k] \in files}
           Highest1(k) == k \in places /\ \A l \in places : l <= k
           top == CHOOSE k : Highest1(k)
           top2 == CHOOSE k \in places : \A l \in places : l <= k
<1>1. Without(low, high, files) <=> places = {}
  BY DEF Without
<1>2. HighestIn(low, high, files) = IF places = {} THEN Unset ELSE Precedence[top2]
  BY DEF HighestIn, HighestOf
<1>3. \A k \in low..high : Precedence[k] \in files /\ Without(k + 1, high, files) <=> Highest1(k)
  BY DEF Without
<1>4. ASSUME places # {}
      PROVE  \E k \in low..high : Highest1(k)
  <2>1. places \in SUBSET (0..high)
    OBVIOUS
  <2>2. \A k \in places : k \in low..high
    OBVIOUS
  <2> HIDE DEF places
  <2>3. PICK k \in places : \A l \in places : l <= k
    BY <1>4, <2>1, GreatestNumber
  <2>4. QED
    BY <2>2, <2>3
<1>5. \A k \in places : k \in Nat /\ k \in low..high /\ Precedence[k] \in files
  OBVIOUS
<1> HIDE DEF places
<1>6. ASSUME NEW k \in places, Highest1(k)
      PROVE  top2 = k
  <2>1. top2 \in places /\ \A l \in places : l <= top2
    BY <1>6
  <2> HIDE DEF top2
  <2>2. QED
    BY <1>5, <1>6, <2>1
<1> HIDE DEF top2
<1>7. ASSUME ~Without(low, high, files)
      PROVE  /\ HighestIn(low, high, files) \in files
             /\ \E k \in low..high : Precedence[k] \in files /\ Without(k + 1, high, files)
  <2>1. PICK k \in low..high : Highest1(k)
    BY <1>1, <1>4, <1>7
  <2>2. HighestIn(low, high, files) = Precedence[k]
    BY <1>1, <1>2, <1>6, <1>7, <2>1
  <2>3. QED
    BY <1>3, <1>5, <2>1, <2>2
<1>8. ASSUME NEW k \in low..high, Precedence[k] \in files, Without(k + 1, high, files)
      PROVE  HighestIn(low, high, files) = Precedence[k]
  <2>1. Highest1(k)
    BY <1>3, <1>8
  <2>2. QED
    BY <1>2, <1>6, <2>1
<1>9. QED
  BY <1>1, <1>2, <1>7, <1>8


(* How the highest place changes with one place more, above or below.      *)
LEMMA OnePlaceMore ==
  ASSUME NEW low \in Nat, NEW high \in Nat, NEW files \in SUBSET File
  PROVE  /\ low <= high + 1 =>
              HighestIn(low, high + 1, files)
                = IF Precedence[high + 1] \in files THEN Precedence[high + 1]
                  ELSE HighestIn(low, high, files)
         /\ low >= 1 /\ low <= high + 1 =>
              HighestIn(low - 1, high, files)
                = IF HighestIn(low, high, files) # Unset THEN HighestIn(low, high, files)
                  ELSE IF Precedence[low - 1] \in files THEN Precedence[low - 1] ELSE Unset
<1>1. Unset \notin files
  BY UnsetAssumption DEF Value
<1>2. ASSUME low <= high + 1
      PROVE  HighestIn(low, high + 1, files)
               = IF Precedence[high + 1] \in files THEN Precedence[high + 1]
                 ELSE HighestIn(low, high, files)
  <2> DEFINE above == high + 1
  <2>1. above \in Nat /\ above \in low..above /\ above > high
    BY <1>2
  <2>2. \A k \in low..above : k \in low..high \/ k = above
    BY <2>1
  <2>3. \A k \in low..high : k \in low..above
    BY <2>1
  <2>4. CASE Precedence[above] \in files
    <3>1. Without(above + 1, above, files)
      BY <2>1 DEF Without
    <3>2. QED
      BY <2>1, <2>4, <3>1, HighestFacts
  <2>5. CASE Precedence[above] \notin files
    <3>1. CASE Without(low, high, files)
      <4>1. Without(low, above, files)
        BY <2>2, <2>5, <3>1 DEF Without
      <4>2. QED
        BY <2>1, <2>5, <3>1, <4>1, HighestFacts
    <3>2. CASE ~Without(low, high, files)
      <4>1. PICK k \in low..high : Precedence[k] \in files /\ Without(k + 1, high, files)
        BY <3>2, HighestFacts
      <4>2. Without(k + 1, above, files)
        <5>1. \A l \in (k + 1)..above : l \in (k + 1)..high \/ l = above
          BY <2>1
        <5>2. QED
          BY <2>5, <4>1, <5>1 DEF Without
      <4> HIDE DEF above
      <4>3. HighestIn(low, above, files) = Precedence[k]
        BY <2>1, <2>3, <4>1, <4>2, HighestFacts
      <4>4. HighestIn(low, high, files) = Precedence[k]
        BY <4>1, HighestFacts
      <4>5. QED
        BY <2>5, <4>3, <4>4 DEF above
    <3>3. QED
      BY <3>1, <3>2
  <2>6. QED
    BY <2>4, <2>5
<1>3. ASSUME low >= 1, low <= high + 1
      PROVE  HighestIn(low - 1, high, files)
                = IF HighestIn(low, high, files) # Unset THEN HighestIn(low, high, files)
                  ELSE IF Precedence[low - 1] \in files THEN Precedence[low - 1] ELSE Unset
  <2> DEFINE below == low - 1
  <2>1. below \in Nat /\ below \in below..high /\ below + 1 = low
    BY <1>3
  <2>2. \A k \in below..high : k \in low..high \/ k = below
    BY <2>1
  <2>3. \A k \in low..high : k \in below..high
    BY <2>1
  <2> HIDE DEF below
  <2>4. CASE Without(low, high, files)
    <3>1. HighestIn(low, high, files) = Unset
      BY <2>4, HighestFacts
    <3>2. CASE Precedence[below] \in files
      <4>1. HighestIn(below, high, files) = Precedence[below]
        BY <2>1, <2>4, <3>2, HighestFacts
      <4>2. QED
        BY <3>1, <3>2, <4>1 DEF below
    <3>3. CASE Precedence[below] \notin files
      <4>1. Without(below, high, files)
        BY <2>2, <2>4, <3>3 DEF Without
      <4>2. HighestIn(below, high, files) = Unset
        BY <2>1, <4>1, HighestFacts
      <4>3. QED
        BY <3>1, <3>3, <4>2 DEF below
    <3>4. QED
      BY <3>2, <3>3
  <2>5. CASE ~Without(low, high, files)
    <3>1. PICK k \in low..high : Precedence[k] \in files /\ Without(k + 1, high, files)
      BY <2>5, HighestFacts
    <3>2. HighestIn(low, high, files) = Precedence[k]
      BY <3>1, HighestFacts
    <3>3. HighestIn(below, high, files) = Precedence[k]
      BY <2>1, <2>3, <3>1, HighestFacts
    <3>4. QED
      BY <1>1, <3>1, <3>2, <3>3 DEF below
  <2>6. QED
    BY <2>4, <2>5
<1>4. QED
  BY <1>2, <1>3

-----------------------------------------------------------------------------
(* Adding a layer *)

GiversOf(e, f) == {file \in File : f \in config.given[file][e]}
DefinersOf(e) == {file \in File : config.given[file][e] # {}}

\* The merged descriptor has its values from the highest of these places ...
RankedIn(merged, low, high) ==
  \A e \in Entry : \A f \in Propagated(e) \ {"key"} :
    ValueOf(merged, e, f) = HighestIn(low, high, GiversOf(e, f))

\* ... and its template from the highest that has one.
WholeIn(merged, low, high) ==
  LET file == HighestIn(low, high, DefinersOf("template"))
  IN  OfEntry(merged, "template") = IF file = Unset THEN {} ELSE OfEntry(LayerOf(file), "template")

OnTop(merged, layer, new) ==
  /\ \A e \in Entry : \A f \in Propagated(e) :
       ValueOf(new, e, f) = IF Has(layer, e, f) THEN ValueOf(layer, e, f) ELSE ValueOf(merged, e, f)
  /\ OfEntry(new, "template")
       = IF OfEntry(layer, "template") # {} THEN OfEntry(layer, "template") ELSE OfEntry(merged, "template")

Below(merged, layer, new) ==
  /\ \A e \in Entry : \A f \in Propagated(e) :
       ValueOf(new, e, f) = IF Has(merged, e, f) THEN ValueOf(merged, e, f) ELSE ValueOf(layer, e, f)
  /\ OfEntry(new, "template")
       = IF OfEntry(merged, "template") # {} THEN OfEntry(merged, "template") ELSE OfEntry(layer, "template")

\* The layers are filled and merged.
Layered ==
  /\ AreLayers(descriptorLayers) /\ Filled(descriptorLayers)
  /\ mergedDescriptor = mergeDescriptorLayers(descriptorLayers)

(* What AddDescriptor() does to the merged descriptor.                     *)
LEMMA AddDescriptorFacts ==
  ASSUME Layered, NEW layer, IsLayer(layer), NEW prepend \in BOOLEAN, AddDescriptor(layer, prepend)
  PROVE  /\ Layered' /\ IsLayer(mergedDescriptor) /\ IsLayer(mergedDescriptor)'
         /\ IF prepend THEN Below(mergedDescriptor, layer, mergedDescriptor')
            ELSE OnTop(mergedDescriptor, layer, mergedDescriptor')
<1> DEFINE layers == descriptorLayers
           merged == mergeDescriptorLayers(layers)
<1>1. AreLayers(layers) /\ Filled(layers) /\ mergedDescriptor = merged
  BY DEF Layered
<1> HIDE DEF layers
<1>2. CASE prepend
  <2> DEFINE all == Propagate(<<layer>> \o layers)
             new == mergeDescriptorLayers(all)
  <2>1. descriptorLayers' = all /\ mergedDescriptor' = new
    BY <1>2 DEF AddDescriptor, layers
  <2>2. AreLayers(all) /\ Filled(all)
    BY <1>1, PrependPropagates
  <2>3. IsLayer(merged) /\ IsLayer(new) /\ Below(merged, layer, new)
    BY <1>1, PrependMerges DEF Below
  <2> HIDE DEF all, merged
  <2>4. Layered'
    BY <2>1, <2>2 DEF Layered
  <2>5. QED
    BY <1>1, <1>2, <2>1, <2>3, <2>4
<1>3. CASE ~prepend
  <2> DEFINE all == Propagate(Append(layers, layer))
             new == mergeDescriptorLayers(all)
  <2>1. descriptorLayers' = all /\ mergedDescriptor' = new
    BY <1>3 DEF AddDescriptor, layers
  <2>2. AreLayers(all) /\ Filled(all)
    BY <1>1, AppendPropagates
  <2>3. IsLayer(merged) /\ IsLayer(new) /\ OnTop(merged, layer, new)
    BY <1>1, AppendMerges DEF OnTop
  <2> HIDE DEF all, merged
  <2>4. Layered'
    BY <2>1, <2>2 DEF Layered
  <2>5. QED
    BY <1>1, <1>3, <2>1, <2>3, <2>4
<1>4. QED
  BY <1>2, <1>3

(* The file in the next place above.                                       *)
LEMMA RankedAbove ==
  ASSUME config \in Configuration, NEW low \in Nat, NEW high \in Nat, low <= high + 1,
         NEW file \in File, Precedence[high + 1] = file,
         NEW merged, NEW new, OnTop(merged, LayerOf(file), new)
  PROVE  /\ RankedIn(merged, low, high) => RankedIn(new, low, high + 1)
         /\ WholeIn(merged, low, high) => WholeIn(new, low, high + 1)
<1> DEFINE layer == LayerOf(file)
<1>1. file # Unset
  BY UnsetAssumption DEF Value
<1>2. /\ \A e \in Entry : \A f \in FieldsOf[e] :
           /\ Has(layer, e, f) <=> file \in GiversOf(e, f)
           /\ f \in config.given[file][e] => ValueOf(layer, e, f) = file
      /\ OfEntry(layer, "template") = {} <=> file \notin DefinersOf("template")
  BY LayerOfFacts, PropagatedFacts DEF GiversOf, DefinersOf
<1>3. ASSUME RankedIn(merged, low, high)
      PROVE  RankedIn(new, low, high + 1)
  <2>1. SUFFICES ASSUME NEW e \in Entry, NEW f \in Propagated(e) \ {"key"}
                 PROVE  ValueOf(new, e, f) = HighestIn(low, high + 1, GiversOf(e, f))
    BY DEF RankedIn
  <2>2. f \in FieldsOf[e]
    BY PropagatedFacts
  <2> DEFINE givers == GiversOf(e, f)
  <2>3. givers \in SUBSET File
    BY DEF GiversOf
  <2>4. ValueOf(merged, e, f) = HighestIn(low, high, givers)
    BY <1>3 DEF RankedIn
  <2>5. ValueOf(new, e, f) = IF Has(layer, e, f) THEN ValueOf(layer, e, f) ELSE ValueOf(merged, e, f)
    BY DEF OnTop
  <2>6. file \in givers => ValueOf(layer, e, f) = file
    BY <1>2, <2>2 DEF GiversOf
  <2>7. Has(layer, e, f) <=> file \in givers
    BY <1>2, <2>2
  <2> HIDE DEF givers, layer
  <2>8. HighestIn(low, high + 1, givers) = IF file \in givers THEN file ELSE HighestIn(low, high, givers)
    BY <2>3, OnePlaceMore
  <2>9. QED
    BY <2>4, <2>5, <2>6, <2>7, <2>8 DEF givers
<1>4. ASSUME WholeIn(merged, low, high)
      PROVE  WholeIn(new, low, high + 1)
  <2> DEFINE givers == DefinersOf("template")
             before == HighestIn(low, high, givers)
             after == HighestIn(low, high + 1, givers)
             template == "template"
  <2>1. givers \in SUBSET File
    BY DEF DefinersOf
  <2>2. OfEntry(merged, template) = IF before = Unset THEN {} ELSE OfEntry(LayerOf(before), template)
    BY <1>4 DEF WholeIn
  <2>3. OfEntry(new, template)
          = IF OfEntry(layer, template) # {} THEN OfEntry(layer, template) ELSE OfEntry(merged, template)
    BY DEF OnTop
  <2>4. OfEntry(layer, template) = {} <=> file \notin givers
    BY <1>2
  <2> HIDE DEF givers
  <2>5. after = IF file \in givers THEN file ELSE before
    BY <2>1, OnePlaceMore
  <2> HIDE DEF before, after
  <2>6. OfEntry(new, template) = IF after = Unset THEN {} ELSE OfEntry(LayerOf(after), template)
    BY <1>1, <2>2, <2>3, <2>4, <2>5
  <2>7. QED
    BY <2>6 DEF WholeIn, after, givers
<1>5. QED
  BY <1>3, <1>4

(* The file in the next place below.                                       *)
LEMMA RankedBelow ==
  ASSUME config \in Configuration, NEW low \in Nat, NEW high \in Nat, low >= 1, low <= high + 1,
         NEW file \in File, Precedence[low - 1] = file,
         NEW merged, IsLayer(merged), NEW new, Below(merged, LayerOf(file), new)
  PROVE  /\ RankedIn(merged, low, high) => RankedIn(new, low - 1, high)
         /\ WholeIn(merged, low, high) => WholeIn(new, low - 1, high)
<1> DEFINE layer == LayerOf(file)
<1>1. file # Unset /\ Unset \notin File
  BY UnsetAssumption DEF Value
<1>2. /\ \A e \in Entry : \A f \in FieldsOf[e] :
           ValueOf(layer, e, f) = IF file \in GiversOf(e, f) THEN file ELSE Unset
      /\ OfEntry(layer, "template") = {} <=> file \notin DefinersOf("template")
  BY LayerOfFacts, PropagatedFacts DEF GiversOf, DefinersOf
<1>3. ASSUME RankedIn(merged, low, high)
      PROVE  RankedIn(new, low - 1, high)
  <2>1. SUFFICES ASSUME NEW e \in Entry, NEW f \in Propagated(e) \ {"key"}
                 PROVE  ValueOf(new, e, f) = HighestIn(low - 1, high, GiversOf(e, f))
    BY DEF RankedIn
  <2>2. f \in FieldsOf[e]
    BY PropagatedFacts
  <2> DEFINE givers == GiversOf(e, f)
  <2>3. givers \in SUBSET File
    BY DEF GiversOf
  <2>4. ValueOf(merged, e, f) = HighestIn(low, high, givers)
    BY <1>3 DEF RankedIn
  <2>5. ValueOf(new, e, f) = IF Has(merged, e, f) THEN ValueOf(merged, e, f) ELSE ValueOf(layer, e, f)
    BY DEF Below
  <2>6. Has(merged, e, f) <=> ValueOf(merged, e, f) # Unset
    BY ValueFacts
  <2>7. ValueOf(layer, e, f) = IF file \in givers THEN file ELSE Unset
    BY <1>2, <2>2
  <2> HIDE DEF givers, layer
  <2>8. HighestIn(low - 1, high, givers)
          = IF HighestIn(low, high, givers) # Unset THEN HighestIn(low, high, givers)
            ELSE IF file \in givers THEN file ELSE Unset
    BY <2>3, OnePlaceMore
  <2>9. QED
    BY <2>4, <2>5, <2>6, <2>7, <2>8 DEF givers
<1>4. ASSUME WholeIn(merged, low, high)
      PROVE  WholeIn(new, low - 1, high)
  <2> DEFINE givers == DefinersOf("template")
             before == HighestIn(low, high, givers)
             after == HighestIn(low - 1, high, givers)
             template == "template"
  <2>1. givers \in SUBSET File
    BY DEF DefinersOf
  <2>2. OfEntry(merged, template) = IF before = Unset THEN {} ELSE OfEntry(LayerOf(before), template)
    BY <1>4 DEF WholeIn
  <2>3. OfEntry(new, template)
          = IF OfEntry(merged, template) # {} THEN OfEntry(merged, template) ELSE OfEntry(layer, template)
    BY DEF Below
  <2>4. OfEntry(layer, template) = {} <=> file \notin givers
    BY <1>2
  <2>5. before # Unset => OfEntry(LayerOf(before), template) # {}
    <3>1. before = Unset \/ before \in givers
      BY <2>1, HighestFacts
    <3> HIDE DEF before
    <3>2. QED
      BY <3>1, LayerOfFacts, PropagatedFacts DEF DefinersOf
  <2> HIDE DEF givers
  <2>6. after = IF before # Unset THEN before ELSE IF file \in givers THEN file ELSE Unset
    BY <2>1, OnePlaceMore
  <2> HIDE DEF before, after
  <2>7. OfEntry(new, template) = IF after = Unset THEN {} ELSE OfEntry(LayerOf(after), template)
    BY <1>1, <2>2, <2>3, <2>4, <2>5, <2>6
  <2>8. QED
    BY <2>7 DEF WholeIn, after, givers
<1>5. QED
  BY <1>3, <1>4

(* A place whose file gives nothing, or that has none, changes nothing.    *)
LEMMA EmptyPlaces ==
  ASSUME NEW low \in Nat, NEW high \in Nat, low <= high + 1, NEW merged
  PROVE  /\ Precedence[high + 1] \in File /\ ~Gives(Precedence[high + 1]) =>
              /\ RankedIn(merged, low, high) => RankedIn(merged, low, high + 1)
              /\ WholeIn(merged, low, high) => WholeIn(merged, low, high + 1)
         /\ low >= 1 /\ Precedence[low - 1] \notin File =>
              /\ RankedIn(merged, low, high) => RankedIn(merged, low - 1, high)
              /\ WholeIn(merged, low, high) => WholeIn(merged, low - 1, high)
<1>1. /\ \A e, f : GiversOf(e, f) \in SUBSET File
      /\ DefinersOf("template") \in SUBSET File
      /\ "template" \in Entry
  BY PropagatedFacts DEF GiversOf, DefinersOf
<1>2. ASSUME Precedence[high + 1] \in File, ~Gives(Precedence[high + 1])
      PROVE  /\ RankedIn(merged, low, high) => RankedIn(merged, low, high + 1)
             /\ WholeIn(merged, low, high) => WholeIn(merged, low, high + 1)
  <2>1. /\ \A e \in Entry : \A f : Precedence[high + 1] \notin GiversOf(e, f)
        /\ Precedence[high + 1] \notin DefinersOf("template")
    BY <1>1, <1>2 DEF Gives, GiversOf, DefinersOf
  <2>2. /\ \A e \in Entry : \A f : HighestIn(low, high + 1, GiversOf(e, f)) = HighestIn(low, high, GiversOf(e, f))
        /\ HighestIn(low, high + 1, DefinersOf("template")) = HighestIn(low, high, DefinersOf("template"))
    BY <1>1, <2>1, OnePlaceMore
  <2>3. QED
    BY <2>2 DEF RankedIn, WholeIn
<1>3. ASSUME low >= 1, Precedence[low - 1] \notin File
      PROVE  /\ RankedIn(merged, low, high) => RankedIn(merged, low - 1, high)
             /\ WholeIn(merged, low, high) => WholeIn(merged, low - 1, high)
  <2>1. ASSUME NEW files \in SUBSET File
        PROVE  HighestIn(low - 1, high, files) = HighestIn(low, high, files)
    <3>1. Precedence[low - 1] \notin files
      BY <1>3
    <3>2. HighestIn(low - 1, high, files)
            = IF HighestIn(low, high, files) # Unset THEN HighestIn(low, high, files)
              ELSE IF Precedence[low - 1] \in files THEN Precedence[low - 1] ELSE Unset
      BY <1>3, OnePlaceMore
    <3>3. QED
      BY <3>1, <3>2
  <2>2. QED
    BY <1>1, <2>1 DEF RankedIn, WholeIn
<1>4. QED
  BY <1>2, <1>3


-----------------------------------------------------------------------------
(* The inductive invariant *)

\* The places of the files that were loaded so far, which are next to one another.
Lowest == CASE stage = "manifests" -> Base + 1
            [] stage = "globals" -> Base
            [] stage = "programs" -> Len(todo) + 1
            [] OTHER -> 1
Topmost == IF stage = "manifests" THEN Base + 5 - Len(todo) ELSE Base + 5

\* What is still to be loaded is next to them.
Awaited ==
  /\ todo \in Seq(Program \cup {"unknown"} \cup File)
  /\ stage = "manifests" =>
       Len(todo) <= 5 /\ \A k \in 1..Len(todo) : todo[k] = Manifests[5 - Len(todo) + k]
  /\ stage = "globals" => ~config.ignoreGlobalDefaults
  /\ stage = "programs" =>
       /\ ~config.ignoreGlobalDefaults
       /\ Len(todo) <= Len(config.requires)
       /\ \A k \in 1..Len(todo) : todo[k] = config.requires[Len(todo) + 1 - k]
  /\ stage = "dependencies" => config.ignoreGlobalDefaults

Ranked == RankedIn(mergedDescriptor, Lowest, Topmost)
Whole == written = {} => WholeIn(mergedDescriptor, Lowest, Topmost)

Unrendered == stage \notin {"ready", "failed"} => renders = 0

DescriptorIInv ==
  /\ config \in Inputs /\ DescriptorTypeOK /\ RenderedPathKnown
  /\ Layered /\ Awaited /\ Ranked /\ Whole /\ Unrendered

(* The places do not change with the configuration unchanged.              *)
LEMMA SamePlaces ==
  ASSUME config' = config
  PROVE  /\ Precedence' = Precedence /\ Base' = Base
         /\ \A new, low, high :
              /\ new = mergedDescriptor' /\ low = Lowest' /\ high = Topmost' =>
                   /\ RankedIn(new, low, high) => Ranked'
                   /\ WholeIn(new, low, high) => Whole'
<1>1. Precedence' = Precedence
  BY DEF Precedence
<1>2. Base' = Base
  BY <1>1 DEF Base
<1>3. ASSUME NEW new, NEW low, NEW high,
             new = mergedDescriptor', low = Lowest', high = Topmost', RankedIn(new, low, high)
      PROVE  Ranked'
  BY <1>1, <1>3 DEF Ranked, RankedIn, HighestIn, GiversOf
<1>4. ASSUME NEW new, NEW low, NEW high,
             new = mergedDescriptor', low = Lowest', high = Topmost', WholeIn(new, low, high)
      PROVE  Whole'
  BY <1>1, <1>4 DEF Whole, WholeIn, HighestIn, DefinersOf, LayerOf
<1>5. QED
  BY <1>1, <1>2, <1>3, <1>4

(* Where the loaded files are.                                             *)
LEMMA PlacesFacts ==
  ASSUME DescriptorIInv
  PROVE  /\ config \in Configuration
         /\ Lowest \in Nat /\ Topmost \in Nat /\ Lowest >= 1 /\ Lowest <= Topmost + 1
         /\ Len(todo) \in Nat
         /\ stage = "manifests" => Lowest = Base + 1 /\ Topmost = Base + 5 - Len(todo)
         /\ stage # "manifests" => Topmost = Base + 5
<1>1. config \in Configuration /\ Awaited
  BY InputsAssumption DEF DescriptorIInv
<1>2. Len(todo) \in Nat
  BY <1>1, LenProperties DEF Awaited
<1>3. Base \in Nat /\ Base >= 1
  BY <1>1, PrecedenceFacts
<1>4. CASE stage = "manifests"
  <2>1. Len(todo) <= 5
    BY <1>1, <1>4 DEF Awaited
  <2>2. Lowest = Base + 1 /\ Topmost = Base + 5 - Len(todo)
    BY <1>4 DEF Lowest, Topmost
  <2>3. QED
    BY <1>1, <1>2, <1>3, <1>4, <2>1, <2>2
<1>5. CASE stage = "programs"
  <2>1. Len(todo) <= Len(config.requires) /\ ~config.ignoreGlobalDefaults
    BY <1>1, <1>5 DEF Awaited
  <2>2. Base = Len(config.requires) + 2 /\ Len(config.requires) \in Nat
    BY <1>1, <2>1, PrecedenceFacts
  <2>3. Lowest = Len(todo) + 1 /\ Topmost = Base + 5
    BY <1>5 DEF Lowest, Topmost
  <2>4. QED
    BY <1>1, <1>2, <1>3, <1>5, <2>1, <2>2, <2>3
<1>6. CASE stage \notin {"manifests", "programs"}
  <2>1. (Lowest = Base \/ Lowest = 1) /\ Topmost = Base + 5
    BY <1>6 DEF Lowest, Topmost
  <2>2. QED
    BY <1>1, <1>2, <1>3, <1>6, <2>1
<1>7. QED
  BY <1>4, <1>5, <1>6

(* Before anything is rendered only these have to be shown.                *)
LEMMA LoadingKeeps ==
  ASSUME DescriptorIInv, stage \notin {"ready", "failed"}, UNCHANGED <<config, renders, written>>,
         evaluated' \subseteq File, UNCHANGED <<true, outputFile, lastLoad>>,
         stage' \in {"manifests", "globals", "programs", "dependencies", "ready"},
         Layered', Awaited', Ranked', Whole', IsLayer(mergedDescriptor)'
  PROVE  DescriptorIInv'
<1>1. DescriptorTypeOK /\ config \in Inputs /\ renders = 0
  BY DEF DescriptorIInv, Unrendered
<1>2. written = {}
  BY <1>1 DEF DescriptorTypeOK
<1>3. \A k \in DOMAIN descriptorLayers' : IsLayer(descriptorLayers'[k])
  <2>1. AreLayers(descriptorLayers')
    BY DEF Layered
  <2>2. QED
    BY <2>1, LenProperties DEF AreLayers
<1>4. DescriptorTypeOK'
  BY <1>1, <1>2, <1>3 DEF DescriptorTypeOK
<1>5. RenderedPathKnown'
  BY <1>2 DEF RenderedPathKnown
<1>6. QED
  BY <1>1, <1>4, <1>5 DEF DescriptorIInv, Unrendered

LEMMA AddManifestLayerKeeps == DescriptorIInv /\ AddManifestLayer => DescriptorIInv'
<1> SUFFICES ASSUME DescriptorIInv, AddManifestLayer
             PROVE  DescriptorIInv'
  OBVIOUS
<1> DEFINE n == Len(todo)
           file == Head(todo)
<1>1. /\ stage = "manifests" /\ todo # <<>> /\ todo' = Tail(todo) /\ stage' = stage
      /\ UNCHANGED <<config, true, evaluated, renders, written, outputFile, lastLoad>>
  BY DEF AddManifestLayer, loadVars
<1>2. /\ config \in Configuration /\ Layered /\ Awaited /\ Ranked /\ Whole /\ Unrendered
      /\ DescriptorTypeOK /\ IsLayer(mergedDescriptor)
  BY PlacesFacts DEF DescriptorIInv, DescriptorTypeOK
<1>3. /\ Lowest \in Nat /\ Topmost \in Nat /\ Lowest <= Topmost + 1 /\ n \in Nat
      /\ Lowest = Base + 1 /\ Topmost = Base + 5 - n
  BY <1>1, PlacesFacts
<1>4. n <= 5 /\ \A k \in 1..n : todo[k] = Manifests[5 - n + k]
  BY <1>1, <1>2 DEF Awaited
<1>5. n # 0 /\ file = todo[1] /\ Len(Tail(todo)) = n - 1
      /\ Tail(todo) \in Seq(Program \cup {"unknown"} \cup File)
      /\ \A k \in 1..(n - 1) : Tail(todo)[k] = todo[k + 1]
  <2> DEFINE T == Program \cup {"unknown"} \cup File
  <2>1. todo \in Seq(T) /\ todo # <<>>
    BY <1>1, <1>2 DEF Awaited
  <2> HIDE DEF T
  <2>2. n # 0
    BY <2>1, EmptySeq
  <2>3. QED
    BY <2>1, <2>2, HeadTailProperties DEF T
<1>6. file = Manifests[6 - n] /\ 6 - n \in 1..5
  <2> HIDE DEF n, file
  <2>1. n \in Nat /\ n # 0 /\ n <= 5
    BY <1>3, <1>4, <1>5
  <2>2. 1 \in 1..n /\ 5 - n + 1 = 6 - n /\ 6 - n \in 1..5
    BY <2>1
  <2>3. todo[1] = Manifests[5 - n + 1]
    BY <1>4, <2>2
  <2>4. QED
    BY <1>5, <2>2, <2>3
<1>7. Precedence[Topmost + 1] = file /\ file \in File
  <2>1. Base \in Nat /\ Precedence[Base + (6 - n)] = Manifests[6 - n]
    BY <1>2, <1>6, PrecedenceFacts
  <2>2. Base + (6 - n) = Topmost + 1
    BY <1>3, <2>1
  <2>3. Manifests[6 - n] \in File
    <3> HIDE DEF n
    <3>1. DOMAIN Manifests = 1..5
      BY DEF Manifests
    <3>2. QED
      BY <1>6, <3>1 DEF File
  <2>4. QED
    BY <1>6, <2>1, <2>2, <2>3
<1>8. Lowest' = Lowest /\ Topmost' = Topmost + 1
  <2>1. Base' = Base /\ Base \in Nat
    BY <1>1, <1>2, SamePlaces, PrecedenceFacts
  <2>2. Lowest' = Base' + 1 /\ Topmost' = Base' + 5 - Len(todo')
    BY <1>1 DEF Lowest, Topmost
  <2>3. QED
    BY <1>1, <1>3, <1>5, <2>1, <2>2
<1> HIDE DEF n, file
<1>9. Awaited'
  <2> DEFINE rest == Tail(todo)
  <2>1. todo' = rest /\ Len(rest) = n - 1 /\ \A k \in 1..(n - 1) : rest[k] = todo[k + 1]
    BY <1>1, <1>5
  <2>2. rest \in Seq(Program \cup {"unknown"} \cup File)
    BY <1>5
  <2> HIDE DEF rest
  <2>3. ASSUME NEW k \in 1..(n - 1)
        PROVE  rest[k] = Manifests[5 - (n - 1) + k]
    <3>1. k + 1 \in 1..n /\ 5 - n + (k + 1) = 5 - (n - 1) + k
      BY <1>3
    <3>2. todo[k + 1] = Manifests[5 - n + (k + 1)]
      BY <1>4, <3>1
    <3>3. QED
      BY <2>1, <3>1, <3>2
  <2>4. n - 1 <= 5
    BY <1>3, <1>4
  <2>5. QED
    BY <1>1, <2>1, <2>2, <2>3, <2>4 DEF Awaited
<1>10. RankedIn(mergedDescriptor, Lowest, Topmost) /\ WholeIn(mergedDescriptor, Lowest, Topmost)
  <2>1. written = {}
    BY <1>1, <1>2 DEF Unrendered, DescriptorTypeOK
  <2>2. QED
    BY <1>2, <2>1 DEF Ranked, Whole
<1>11. /\ Layered' /\ IsLayer(mergedDescriptor)'
       /\ RankedIn(mergedDescriptor', Lowest, Topmost + 1)
       /\ WholeIn(mergedDescriptor', Lowest, Topmost + 1)
  <2>1. CASE file \in {"versions", "overrides"} /\ ~Gives(file)
    <3>1. UNCHANGED <<descriptorLayers, mergedDescriptor>>
      BY <2>1 DEF AddManifestLayer, file
    <3>2. Layered' /\ IsLayer(mergedDescriptor)'
      BY <1>2, <3>1 DEF Layered
    <3>3. QED
      BY <1>3, <1>7, <1>10, <2>1, <3>1, <3>2, EmptyPlaces
  <2>2. CASE ~(file \in {"versions", "overrides"} /\ ~Gives(file))
    <3> DEFINE layer == LayerOf(file)
    <3>1. AddDescriptor(layer, FALSE)
      BY <2>2 DEF AddManifestLayer, file
    <3>2. IsLayer(layer)
      BY <1>2, <1>7, LayerOfFacts
    <3> HIDE DEF layer
    <3>3. /\ Layered' /\ IsLayer(mergedDescriptor)'
          /\ OnTop(mergedDescriptor, layer, mergedDescriptor')
      BY <1>2, <3>1, <3>2, AddDescriptorFacts
    <3> DEFINE merged == mergedDescriptor
               new == mergedDescriptor'
    <3>4. OnTop(merged, LayerOf(file), new) /\ RankedIn(merged, Lowest, Topmost) /\ WholeIn(merged, Lowest, Topmost)
      BY <1>10, <3>3 DEF layer
    <3> HIDE DEF merged, new
    <3>5. RankedIn(new, Lowest, Topmost + 1) /\ WholeIn(new, Lowest, Topmost + 1)
      BY <1>2, <1>3, <1>7, <3>4, RankedAbove
    <3>6. QED
      BY <3>3, <3>5 DEF new
  <2>3. QED
    BY <2>1, <2>2
<1>12. Ranked' /\ Whole'
  BY <1>1, <1>8, <1>11, SamePlaces
<1>13. QED
  BY <1>1, <1>2, <1>9, <1>11, <1>12, LoadingKeeps DEF DescriptorTypeOK


(* The file in the next place below is added below.                        *)
LEMMA FileBelow ==
  ASSUME DescriptorIInv, stage \notin {"ready", "failed"}, Lowest >= 2,
         NEW file \in File, Precedence[Lowest - 1] = file, AddDescriptor(LayerOf(file), TRUE)
  PROVE  /\ Layered' /\ IsLayer(mergedDescriptor)'
         /\ RankedIn(mergedDescriptor', Lowest - 1, Topmost)
         /\ WholeIn(mergedDescriptor', Lowest - 1, Topmost)
<1>1. /\ config \in Configuration /\ Layered /\ Ranked /\ Whole /\ written = {}
  <2>1. renders = 0 /\ DescriptorTypeOK
    BY DEF DescriptorIInv, Unrendered
  <2>2. QED
    BY <2>1, PlacesFacts DEF DescriptorIInv, DescriptorTypeOK
<1>2. /\ Lowest \in Nat /\ Topmost \in Nat /\ Lowest >= 1 /\ Lowest <= Topmost + 1
  BY PlacesFacts
<1> DEFINE layer == LayerOf(file)
           merged == mergedDescriptor
           new == mergedDescriptor'
<1>3. IsLayer(layer)
  BY <1>1, LayerOfFacts
<1>4. Layered' /\ IsLayer(merged) /\ IsLayer(new) /\ Below(merged, layer, new)
  <2> HIDE DEF layer
  <2>1. AddDescriptor(layer, TRUE)
    BY DEF layer
  <2>2. QED
    BY <1>1, <1>3, <2>1, AddDescriptorFacts
<1>5. RankedIn(merged, Lowest, Topmost) /\ WholeIn(merged, Lowest, Topmost)
  BY <1>1 DEF Ranked, Whole
<1>6. RankedIn(new, Lowest - 1, Topmost) /\ WholeIn(new, Lowest - 1, Topmost)
  <2> HIDE DEF merged, new
  <2>1. QED
    BY <1>1, <1>2, <1>4, <1>5, RankedBelow
<1>7. QED
  BY <1>4, <1>6

LEMMA LoadConfigFileKeeps == DescriptorIInv /\ LoadConfigFile => DescriptorIInv'
<1> SUFFICES ASSUME DescriptorIInv, LoadConfigFile
             PROVE  DescriptorIInv'
  OBVIOUS
<1>1. /\ stage = "manifests" /\ todo = <<>> /\ todo' = todo
      /\ stage' = IF config.ignoreGlobalDefaults THEN "dependencies" ELSE "globals"
      /\ AddDescriptor(LayerOf("sugarkube.yaml"), TRUE)
      /\ UNCHANGED <<config, true, evaluated, renders, written, outputFile, lastLoad>>
  BY DEF LoadConfigFile, loadVars
<1>2. /\ config \in Configuration /\ Awaited /\ DescriptorTypeOK
  BY PlacesFacts DEF DescriptorIInv
<1>3. Len(todo) = 0
  BY <1>1
<1>4. Lowest = Base + 1 /\ Topmost = Base + 5
  <2>1. Base \in Nat
    BY <1>2, PrecedenceFacts
  <2>2. Lowest = Base + 1 /\ Topmost = Base + 5 - Len(todo)
    BY <1>1, PlacesFacts
  <2>3. QED
    BY <1>3, <2>1, <2>2
<1>5. Base \in Nat /\ Base >= 1 /\ Precedence[Base] = "sugarkube.yaml"
      /\ (config.ignoreGlobalDefaults => Base = 1)
  BY <1>2, PrecedenceFacts
<1>6. "sugarkube.yaml" \in File
  BY DEF File
<1>7. Precedence[Lowest - 1] = "sugarkube.yaml" /\ Lowest >= 2
  <2>1. Lowest - 1 = Base /\ Lowest >= 2
    BY <1>4, <1>5
  <2>2. QED
    BY <1>5, <2>1
<1>8. /\ Layered' /\ IsLayer(mergedDescriptor)'
      /\ RankedIn(mergedDescriptor', Lowest - 1, Topmost)
      /\ WholeIn(mergedDescriptor', Lowest - 1, Topmost)
  BY <1>1, <1>6, <1>7, FileBelow
<1>9. Base' = Base
  BY <1>1, SamePlaces
<1>10. config.ignoreGlobalDefaults' = config.ignoreGlobalDefaults
  BY <1>1
<1>11. Lowest' = Lowest - 1 /\ Topmost' = Topmost
  <2>1. CASE config.ignoreGlobalDefaults
    <3>1. stage' = "dependencies"
      BY <1>1, <2>1
    <3>2. Lowest' = 1 /\ Topmost' = Base' + 5
      BY <3>1 DEF Lowest, Topmost
    <3>3. QED
      BY <1>4, <1>5, <1>9, <2>1, <3>2
  <2>2. CASE ~config.ignoreGlobalDefaults
    <3>1. stage' = "globals"
      BY <1>1, <2>2
    <3>2. Lowest' = Base' /\ Topmost' = Base' + 5
      BY <3>1 DEF Lowest, Topmost
    <3>3. QED
      BY <1>4, <1>5, <1>9, <3>2
  <2>3. QED
    BY <2>1, <2>2
<1>12. Awaited'
  <2>1. todo' \in Seq(Program \cup {"unknown"} \cup File)
    BY <1>1, <1>2 DEF Awaited
  <2>2. CASE config.ignoreGlobalDefaults
    <3>1. stage' = "dependencies"
      BY <1>1, <2>2
    <3>2. QED
      BY <1>10, <2>1, <2>2, <3>1 DEF Awaited
  <2>3. CASE ~config.ignoreGlobalDefaults
    <3>1. stage' = "globals"
      BY <1>1, <2>3
    <3>2. QED
      BY <1>10, <2>1, <2>3, <3>1 DEF Awaited
  <2>4. QED
    BY <2>2, <2>3
<1>13. Ranked' /\ Whole'
  BY <1>1, <1>8, <1>11, SamePlaces
<1>14. QED
  BY <1>1, <1>2, <1>8, <1>12, <1>13, LoadingKeeps DEF DescriptorTypeOK

LEMMA AddGlobalRunUnitsKeeps == DescriptorIInv /\ AddGlobalRunUnits => DescriptorIInv'
<1> SUFFICES ASSUME DescriptorIInv, AddGlobalRunUnits
             PROVE  DescriptorIInv'
  OBVIOUS
<1>1. /\ stage = "globals" /\ stage' = "programs" /\ todo' = Reverse(config.requires)
      /\ AddDescriptor(LayerOf("global"), TRUE)
      /\ UNCHANGED <<config, true, evaluated, renders, written, outputFile, lastLoad>>
  BY DEF AddGlobalRunUnits, loadVars
<1>2. /\ config \in Configuration /\ Awaited /\ DescriptorTypeOK
  BY PlacesFacts DEF DescriptorIInv
<1> DEFINE requires == config.requires
           n == Len(requires)
<1>3. ~config.ignoreGlobalDefaults
  BY <1>1, <1>2 DEF Awaited
<1>4. Lowest = Base /\ Topmost = Base + 5
  BY <1>1 DEF Lowest, Topmost
<1>5. Base \in Nat /\ Base = n + 2 /\ n \in Nat /\ Precedence[Base - 1] = "global"
  BY <1>2, <1>3, PrecedenceFacts
<1>6. "global" \in File
  BY DEF File
<1>7. /\ Layered' /\ IsLayer(mergedDescriptor)'
      /\ RankedIn(mergedDescriptor', Lowest - 1, Topmost)
      /\ WholeIn(mergedDescriptor', Lowest - 1, Topmost)
  <2>1. Precedence[Lowest - 1] = "global" /\ Lowest >= 2
    BY <1>4, <1>5
  <2>2. QED
    BY <1>1, <1>6, <2>1, FileBelow
<1>8. requires \in Seq(Program \cup {"unknown"})
  BY <1>2 DEF Configuration
<1>9. /\ todo' \in Seq(Program \cup {"unknown"} \cup File) /\ Len(todo') = n
      /\ \A k \in 1..n : todo'[k] = requires[n + 1 - k]
  <2> DEFINE T == Program \cup {"unknown"} \cup File
  <2>1. todo' = [k \in 1..n |-> requires[(n - k) + 1]]
    BY <1>1 DEF Reverse
  <2>2. requires \in Seq(Program \cup {"unknown"}) /\ Program \cup {"unknown"} \subseteq T
    BY <1>8
  <2> HIDE DEF requires, T
  <2>3. \A k \in 1..n : requires[k] \in T
    BY <2>2, ElementOfSeq
  <2> HIDE DEF n
  <2>4. ASSUME NEW k \in 1..n
        PROVE  requires[(n - k) + 1] \in T /\ (n - k) + 1 = n + 1 - k
    <3>1. (n - k) + 1 \in 1..n /\ (n - k) + 1 = n + 1 - k
      BY <1>5
    <3>2. QED
      BY <2>3, <3>1
  <2>5. todo' \in [1..n -> T]
    BY <2>1, <2>4
  <2>6. todo' \in Seq(T)
    BY <1>5, <2>5, SeqDef
  <2>7. Len(todo') = n
    BY <1>5, <2>1, <2>6, LenProperties
  <2>8. QED
    BY <2>1, <2>4, <2>6, <2>7 DEF T
<1>10. Base' = Base /\ config.ignoreGlobalDefaults' = config.ignoreGlobalDefaults
       /\ config.requires' = requires
  BY <1>1, SamePlaces
<1>11. Lowest' = Lowest - 1 /\ Topmost' = Topmost
  <2>1. Lowest' = Len(todo') + 1 /\ Topmost' = Base' + 5
    BY <1>1 DEF Lowest, Topmost
  <2>2. QED
    BY <1>4, <1>5, <1>9, <1>10, <2>1
<1>12. Awaited'
  <2>1. n <= n
    BY <1>5
  <2>2. QED
    BY <1>1, <1>3, <1>9, <1>10, <2>1 DEF Awaited
<1>13. Ranked' /\ Whole'
  BY <1>1, <1>7, <1>11, SamePlaces
<1>14. QED
  BY <1>1, <1>2, <1>7, <1>12, <1>13, LoadingKeeps DEF DescriptorTypeOK

LEMMA AddProgramKeeps == DescriptorIInv /\ AddProgram => DescriptorIInv'
<1> SUFFICES ASSUME DescriptorIInv, AddProgram
             PROVE  DescriptorIInv'
  OBVIOUS
<1> DEFINE n == Len(todo)
           file == Head(todo)
           requires == config.requires
<1>1. /\ stage = "programs" /\ todo # <<>> /\ todo' = Tail(todo) /\ stage' = stage
      /\ UNCHANGED <<config, true, evaluated, renders, written, outputFile, lastLoad>>
  BY DEF AddProgram, loadVars
<1>2. /\ config \in Configuration /\ Layered /\ Awaited /\ Ranked /\ Whole /\ Unrendered
      /\ DescriptorTypeOK /\ IsLayer(mergedDescriptor)
  BY PlacesFacts DEF DescriptorIInv, DescriptorTypeOK
<1>3. /\ Lowest = n + 1 /\ Topmost \in Nat /\ Lowest <= Topmost + 1 /\ n \in Nat
      /\ Topmost = Base + 5
  BY <1>1, PlacesFacts DEF Lowest
<1>4. /\ ~config.ignoreGlobalDefaults /\ n <= Len(requires)
      /\ \A k \in 1..n : todo[k] = requires[n + 1 - k]
  BY <1>1, <1>2 DEF Awaited
<1>5. /\ Base \in Nat /\ Len(requires) \in Nat /\ Base = Len(requires) + 2
      /\ \A k \in 1..Len(requires) : Precedence[k] = requires[k]
  BY <1>2, <1>4, PrecedenceFacts
<1>6. n # 0 /\ file = todo[1] /\ Len(Tail(todo)) = n - 1
      /\ Tail(todo) \in Seq(Program \cup {"unknown"} \cup File)
      /\ \A k \in 1..(n - 1) : Tail(todo)[k] = todo[k + 1]
  <2> DEFINE T == Program \cup {"unknown"} \cup File
  <2>1. todo \in Seq(T) /\ todo # <<>>
    BY <1>1, <1>2 DEF Awaited
  <2> HIDE DEF T
  <2>2. n # 0
    BY <2>1, EmptySeq
  <2>3. QED
    BY <2>1, <2>2, HeadTailProperties DEF T
<1> HIDE DEF n, file, requires
<1>7. /\ file \in Program \cup {"unknown"}
      /\ file = Precedence[Lowest - 1] /\ Lowest >= 2
  <2>1. 1 \in 1..n /\ n \in 1..Len(requires) /\ n + 1 - 1 = n
    BY <1>3, <1>4, <1>5, <1>6
  <2>2. file = requires[n] /\ Precedence[n] = requires[n]
    BY <1>4, <1>5, <1>6, <2>1
  <2>3. requires \in Seq(Program \cup {"unknown"})
    BY <1>2 DEF Configuration, requires
  <2>4. requires[n] \in Program \cup {"unknown"}
    BY <2>1, <2>3, ElementOfSeq
  <2>5. Lowest - 1 = n /\ Lowest >= 2
    BY <1>3, <1>6
  <2>6. QED
    BY <2>2, <2>4, <2>5
<1>8. /\ Layered' /\ IsLayer(mergedDescriptor)'
      /\ RankedIn(mergedDescriptor', Lowest - 1, Topmost)
      /\ WholeIn(mergedDescriptor', Lowest - 1, Topmost)
  <2>1. CASE file \in Program
    <3>1. AddDescriptor(LayerOf(file), TRUE)
      BY <2>1 DEF AddProgram, file
    <3>2. file \in File
      BY <2>1 DEF File
    <3>3. QED
      BY <1>1, <1>7, <3>1, <3>2, FileBelow
  <2>2. CASE file \notin Program
    <3>1. UNCHANGED <<descriptorLayers, mergedDescriptor>>
      BY <2>2 DEF AddProgram, file
    <3>2. Layered' /\ IsLayer(mergedDescriptor)'
      BY <1>2, <3>1 DEF Layered
    <3>3. Precedence[Lowest - 1] \notin File
      <4>1. file = "unknown" /\ file \notin Program
        BY <1>7, <2>2
      <4>2. DOMAIN Manifests = 1..5
        BY DEF Manifests
      <4>3. ASSUME NEW k \in DOMAIN Manifests
            PROVE  Manifests[k] # "unknown"
        <5>1. k = 1 \/ k = 2 \/ k = 3 \/ k = 4 \/ k = 5
          BY <4>2
        <5>2. /\ Manifests[1] # "unknown" /\ Manifests[2] # "unknown" /\ Manifests[3] # "unknown"
              /\ Manifests[4] # "unknown" /\ Manifests[5] # "unknown"
          BY DEF Manifests
        <5>3. QED
          BY <5>1, <5>2
      <4>4. file \notin File
        BY <4>1, <4>3 DEF File
      <4>5. QED
        BY <1>7, <4>4
    <3>4. written = {}
      BY <1>1, <1>2 DEF Unrendered, DescriptorTypeOK
    <3> DEFINE merged == mergedDescriptor
    <3>5. RankedIn(merged, Lowest, Topmost) /\ WholeIn(merged, Lowest, Topmost)
      BY <1>2, <3>4 DEF Ranked, Whole
    <3>6. Lowest \in Nat /\ Lowest >= 1
      BY <1>3
    <3> HIDE DEF merged
    <3>7. RankedIn(merged, Lowest - 1, Topmost) /\ WholeIn(merged, Lowest - 1, Topmost)
      BY <1>3, <3>3, <3>5, <3>6, EmptyPlaces
    <3>8. mergedDescriptor' = merged
      BY <3>1 DEF merged
    <3>9. QED
      BY <3>2, <3>7, <3>8
  <2>3. QED
    BY <2>1, <2>2
<1>9. Base' = Base /\ config' = config
  BY <1>1, SamePlaces
<1>10. Len(todo') = n - 1
  BY <1>1, <1>6
<1>11. Lowest' = Lowest - 1 /\ Topmost' = Topmost
  <2>1. stage' = "programs"
    BY <1>1
  <2>2. Lowest' = Len(todo') + 1 /\ Topmost' = Base' + 5
    BY <2>1 DEF Lowest, Topmost
  <2>3. QED
    BY <1>3, <1>9, <1>10, <2>2
<1>12. Awaited'
  <2> DEFINE rest == Tail(todo)
  <2>1. todo' = rest /\ Len(rest) = n - 1 /\ \A k \in 1..(n - 1) : rest[k] = todo[k + 1]
    BY <1>1, <1>6
  <2>2. rest \in Seq(Program \cup {"unknown"} \cup File)
    BY <1>6
  <2> HIDE DEF rest
  <2>3. ASSUME NEW k \in 1..(n - 1)
        PROVE  rest[k] = requires[(n - 1) + 1 - k]
    <3>1. k + 1 \in 1..n /\ n + 1 - (k + 1) = (n - 1) + 1 - k
      BY <1>3
    <3>2. todo[k + 1] = requires[n + 1 - (k + 1)]
      BY <1>4, <3>1
    <3>3. QED
      BY <2>1, <3>1, <3>2
  <2>4. n - 1 <= Len(requires)
    BY <1>3, <1>4, <1>5
  <2>5. requires = config.requires' /\ ~config.ignoreGlobalDefaults'
    BY <1>4, <1>9 DEF requires
  <2>6. Len(todo') <= Len(config.requires')
        /\ \A k \in 1..Len(todo') : todo'[k] = config.requires'[Len(todo') + 1 - k]
    BY <2>1, <2>3, <2>4, <2>5
  <2>7. stage' = "programs" /\ todo' \in Seq(Program \cup {"unknown"} \cup File)
    BY <1>1, <2>1, <2>2
  <2>8. QED
    BY <2>5, <2>6, <2>7 DEF Awaited
<1>13. Ranked' /\ Whole'
  BY <1>1, <1>8, <1>11, SamePlaces
<1>14. QED
  BY <1>1, <1>2, <1>8, <1>12, <1>13, LoadingKeeps DEF DescriptorTypeOK


(* An empty layer on top changes nothing.                                  *)
LEMMA NothingOnTop ==
  ASSUME NEW low \in Nat, NEW high \in Nat, NEW merged, NEW new, OnTop(merged, {}, new)
  PROVE  /\ RankedIn(merged, low, high) => RankedIn(new, low, high)
         /\ WholeIn(merged, low, high) => WholeIn(new, low, high)
         /\ OfEntry(new, "template") = OfEntry(merged, "template")
<1>1. \A e, f : ~Has({}, e, f)
  BY EmptyLayer
<1>2. OfEntry({}, "template") = {}
  BY DEF OfEntry
<1>3. OfEntry(new, "template") = OfEntry(merged, "template")
  BY <1>2 DEF OnTop
<1>4. \A e \in Entry : \A f \in Propagated(e) : ValueOf(new, e, f) = ValueOf(merged, e, f)
  BY <1>1 DEF OnTop
<1>5. RankedIn(merged, low, high) => RankedIn(new, low, high)
  BY <1>4 DEF RankedIn
<1>6. WholeIn(merged, low, high) => WholeIn(new, low, high)
  BY <1>3 DEF WholeIn
<1>7. QED
  BY <1>3, <1>5, <1>6

LEMMA AddDependenciesKeeps == DescriptorIInv /\ AddDependencies => DescriptorIInv'
<1> SUFFICES ASSUME DescriptorIInv, AddDependencies
             PROVE  DescriptorIInv'
  OBVIOUS
<1> DEFINE merged == mergedDescriptor
           new == mergedDescriptor'
<1>1. /\ stage = "dependencies" \/ (stage = "programs" /\ todo = <<>>)
      /\ AddDescriptor({}, FALSE) /\ evaluated' = true /\ stage' = "ready" /\ todo' = todo
      /\ UNCHANGED <<config, renders, written>> /\ UNCHANGED <<true, outputFile, lastLoad>>
  BY DEF AddDependencies
<1>2. /\ config \in Configuration /\ Layered /\ Awaited /\ Ranked /\ Whole /\ Unrendered
      /\ DescriptorTypeOK
  BY PlacesFacts DEF DescriptorIInv
<1>3. Topmost \in Nat /\ Topmost = Base + 5
  BY <1>1, PlacesFacts
<1>4. Lowest = 1
  <2>1. CASE stage = "dependencies"
    BY <2>1 DEF Lowest
  <2>2. CASE stage = "programs" /\ todo = <<>>
    <3>1. Lowest = Len(todo) + 1
      BY <2>2 DEF Lowest
    <3>2. Len(todo) = 0
      BY <2>2
    <3>3. QED
      BY <3>1, <3>2
  <2>3. QED
    BY <1>1, <2>1, <2>2
<1>5. written = {} /\ evaluated' \subseteq File
  BY <1>1, <1>2 DEF Unrendered, DescriptorTypeOK
<1>6. RankedIn(merged, Lowest, Topmost) /\ WholeIn(merged, Lowest, Topmost)
  BY <1>2, <1>5 DEF Ranked, Whole
<1>7. Layered' /\ IsLayer(new) /\ OnTop(merged, {}, new)
  BY <1>1, <1>2, EmptyLayer, AddDescriptorFacts
<1>8. RankedIn(new, Lowest, Topmost) /\ WholeIn(new, Lowest, Topmost)
  <2> HIDE DEF merged, new
  <2>1. QED
    BY <1>3, <1>4, <1>6, <1>7, NothingOnTop
<1>9. Base' = Base
  BY <1>1, SamePlaces
<1>10. Lowest' = Lowest /\ Topmost' = Topmost
  BY <1>1, <1>3, <1>4, <1>9 DEF Lowest, Topmost
<1>11. Awaited'
  BY <1>1, <1>2 DEF Awaited
<1>12. Ranked' /\ Whole'
  BY <1>1, <1>8, <1>10, SamePlaces
<1>13. QED
  BY <1>1, <1>5, <1>7, <1>11, <1>12, LoadingKeeps

-----------------------------------------------------------------------------
(* Once it is loaded *)

(* The files' places do not change any more.                               *)
LEMMA ReadyKeeps ==
  ASSUME DescriptorIInv, stage = "ready", stage' \in {"ready", "failed"},
         UNCHANGED <<config, todo>>, DescriptorTypeOK', RenderedPathKnown', Layered',
         RankedIn(mergedDescriptor', Lowest, Topmost),
         written' = {} => WholeIn(mergedDescriptor', Lowest, Topmost)
  PROVE  DescriptorIInv'
<1>1. Awaited /\ config \in Inputs
  BY DEF DescriptorIInv
<1>2. Base' = Base /\ config' = config /\ todo' = todo
  BY SamePlaces
<1>3. Lowest' = Lowest /\ Topmost' = Topmost
  BY <1>2 DEF Lowest, Topmost
<1>4. Awaited'
  BY <1>1, <1>2 DEF Awaited
<1>5. Ranked'
  BY <1>2, <1>3, SamePlaces
<1>6. Whole'
  <2>1. CASE written' = {}
    BY <1>2, <1>3, <2>1, SamePlaces
  <2>2. CASE written' # {}
    BY <2>2 DEF Whole
  <2>3. QED
    BY <2>1, <2>2
<1>7. Unrendered'
  BY DEF Unrendered
<1>8. QED
  BY <1>1, <1>2, <1>4, <1>5, <1>6, <1>7 DEF DescriptorIInv

(* Nor does anything, if no layer is added.                                *)
LEMMA SameLayersKeep ==
  ASSUME DescriptorIInv, stage = "ready", stage' \in {"ready", "failed"},
         UNCHANGED <<config, todo, descriptorLayers, mergedDescriptor, renders, written>>,
         true' \subseteq File, evaluated' \subseteq File, outputFile' \in BOOLEAN,
         lastLoad' \in {"none", "skipped", "missing", "kept", "removed"}
  PROVE  DescriptorIInv'
<1>1. DescriptorTypeOK /\ RenderedPathKnown /\ Layered /\ Ranked /\ Whole
  BY DEF DescriptorIInv
<1>2. DescriptorTypeOK'
  BY <1>1 DEF DescriptorTypeOK
<1>3. RenderedPathKnown' /\ Layered'
  BY <1>1 DEF RenderedPathKnown, Layered, Template
<1>4. /\ RankedIn(mergedDescriptor', Lowest, Topmost)
      /\ written' = {} => WholeIn(mergedDescriptor', Lowest, Topmost)
  BY <1>1 DEF Ranked, Whole
<1>5. QED
  BY <1>2, <1>3, <1>4, ReadyKeeps

LEMMA UsingKeeps ==
  DescriptorIInv /\ (TemplateDescriptor \/ ConditionsChange \/ WriteOutput \/ GetOutputs)
    => DescriptorIInv'
<1> SUFFICES ASSUME DescriptorIInv, TemplateDescriptor \/ ConditionsChange \/ WriteOutput \/ GetOutputs
             PROVE  DescriptorIInv'
  OBVIOUS
<1>1. DescriptorTypeOK
  BY DEF DescriptorIInv
<1>2. true \subseteq File /\ evaluated \subseteq File /\ outputFile \in BOOLEAN
      /\ lastLoad \in {"none", "skipped", "missing", "kept", "removed"}
  BY <1>1 DEF DescriptorTypeOK
<1>3. /\ stage = "ready" /\ stage' = "ready"
      /\ UNCHANGED <<config, todo, descriptorLayers, mergedDescriptor, renders, written>>
  BY DEF TemplateDescriptor, ConditionsChange, WriteOutput, GetOutputs
<1>4. true' \subseteq File
  <2>1. CASE ConditionsChange
    <3>1. PICK file \in File : true' = IF file \in true THEN true \ {file} ELSE true \cup {file}
      BY <2>1 DEF ConditionsChange
    <3>2. QED
      BY <1>2, <3>1
  <2>2. CASE TemplateDescriptor \/ WriteOutput \/ GetOutputs
    BY <1>2, <2>2 DEF TemplateDescriptor, WriteOutput, GetOutputs
  <2>3. QED
    BY <2>1, <2>2
<1>5. evaluated' \subseteq File
  BY <1>2 DEF TemplateDescriptor, ConditionsChange, WriteOutput, GetOutputs
<1>6. outputFile' \in BOOLEAN
  BY <1>2 DEF TemplateDescriptor, ConditionsChange, WriteOutput, GetOutputs
<1>7. lastLoad' \in {"none", "skipped", "missing", "kept", "removed"}
  BY <1>2 DEF TemplateDescriptor, ConditionsChange, WriteOutput, GetOutputs
<1>8. QED
  BY <1>3, <1>4, <1>5, <1>6, <1>7, SameLayersKeep


(* The layer with what was rendered.                                       *)
LEMMA RenderedLayerFacts ==
  ASSUME IsLayer(mergedDescriptor), Template("source") # Unset, NEW n \in 1..2
  PROVE  /\ IsLayer(RenderedLayer(n))
         /\ OfEntry(RenderedLayer(n), "template") = RenderedLayer(n)
         /\ \A e, f : Has(RenderedLayer(n), e, f) => e = "template"
         /\ ValueOf(RenderedLayer(n), "template", "rendered_path") = RenderedPath[n]
<1> DEFINE source == Template("source")
           path == RenderedPath[n]
           layer == RenderedLayer(n)
<1>1. source \in Value
  <2>1. Has(mergedDescriptor, "template", "source")
    BY ValueFacts DEF Template
  <2>2. PICK v \in mergedDescriptor : v[1] = "template" /\ v[2] = "source"
    BY <2>1 DEF Has
  <2>3. source = v[3]
    BY <2>2, ValueFacts DEF Template
  <2>4. v \in Entry \X (Field \cup {"key"}) \X Value
    BY <2>2 DEF IsLayer
  <2>5. QED
    BY <2>3, <2>4
<1>2. path \in Value
  <2>1. DOMAIN RenderedPath = 1..2
    BY DEF RenderedPath
  <2>2. QED
    BY <2>1 DEF Value, Rendering
<1>3. layer = {<<"template", "key", "key">>, <<"template", "source", source>>,
               <<"template", "rendered_path", path>>}
  BY DEF RenderedLayer, Key
<1>4. {"source", "rendered_path"} \subseteq FieldsOf["template"] /\ "template" \in Entry
      /\ FieldsOf["template"] \subseteq Field /\ "key" \in Value
  BY PropagatedFacts DEF FieldsOf, Value
<1> HIDE DEF source, path, layer
<1>5. layer \in LayerSet
  BY <1>1, <1>2, <1>3, <1>4 DEF LayerSet
<1>6. \A v \in layer : v[1] = "template" /\ v[2] \in FieldsOf["template"] \cup {"key"}
  BY <1>3, <1>4
<1>7. Has(layer, "template", "key")
  BY <1>3 DEF Has
<1>8. \A v, w \in layer : v[2] = w[2] => v[3] = w[3]
  BY <1>3
<1>9. IsLayer(layer)
  <2>1. \A v \in layer : v[2] \in FieldsOf[v[1]] \cup {"key"} /\ Has(layer, v[1], "key")
    BY <1>6, <1>7
  <2>2. QED
    BY <1>5, <1>8, <2>1, LayerFacts
<1>10. OfEntry(layer, "template") = layer
  BY <1>6 DEF OfEntry
<1>11. \A e, f : Has(layer, e, f) => e = "template"
  BY <1>6 DEF Has
<1>12. ValueOf(layer, "template", "rendered_path") = path
  <2> DEFINE v == <<"template", "rendered_path", path>>
  <2>1. v \in layer /\ v[1] = "template" /\ v[2] = "rendered_path" /\ v[3] = path
    BY <1>3
  <2>2. ValueOf(layer, v[1], v[2]) = v[3]
    BY <1>9, <2>1, ValueFacts
  <2>3. QED
    BY <2>1, <2>2
<1>13. QED
  BY <1>9, <1>10, <1>11, <1>12 DEF layer, path

LEMMA RenderTemplatesKeeps == DescriptorIInv /\ RenderTemplates => DescriptorIInv'
<1> SUFFICES ASSUME DescriptorIInv, RenderTemplates
             PROVE  DescriptorIInv'
  OBVIOUS
<1>1. /\ stage = "ready" /\ renders < MaxRenders /\ evaluated' = true
      /\ UNCHANGED <<config, todo>> /\ UNCHANGED <<true, outputFile, lastLoad>>
  BY DEF RenderTemplates
<1>2. DescriptorTypeOK /\ RenderedPathKnown /\ Layered /\ Ranked /\ Whole
      /\ IsLayer(mergedDescriptor) /\ config \in Configuration
  BY PlacesFacts DEF DescriptorIInv, DescriptorTypeOK
<1>3. true \subseteq File /\ outputFile \in BOOLEAN
      /\ lastLoad \in {"none", "skipped", "missing", "kept", "removed"}
      /\ renders \in 0..MaxRenders /\ written \subseteq 1..renders
  BY <1>2 DEF DescriptorTypeOK
<1>4. CASE UNCHANGED <<renders, written, descriptorLayers, mergedDescriptor>> /\ stage' \in {"ready", "failed"}
  BY <1>1, <1>3, <1>4, SameLayersKeep
<1>5. CASE /\ renders' = renders + 1 /\ ~(ToRender /\ Template("source") = Unset)
           /\ written' = IF ToRender THEN written \cup {renders'} ELSE written
           /\ AddRendered(IF ToRender THEN RenderedLayer(renders') ELSE {})
           /\ stage' = stage
  <2> DEFINE layer == IF ToRender THEN RenderedLayer(renders') ELSE {}
             merged == mergedDescriptor
             new == mergedDescriptor'
  <2>1. renders' \in 1..2 /\ renders' \in 0..MaxRenders /\ written' \subseteq 1..renders'
    BY <1>1, <1>3, <1>5, BoundAssumption
  <2>2. ToRender => Template("source") # Unset
    BY <1>5
  <2>3. ToRender => layer = RenderedLayer(renders')
    OBVIOUS
  <2>4. ~ToRender => layer = {}
    OBVIOUS
  <2>5. AddDescriptor(layer, FALSE)
    BY <1>5 DEF AddRendered
  <2> HIDE DEF layer
  <2>6. IsLayer(layer)
    BY <1>2, <2>1, <2>2, <2>3, <2>4, RenderedLayerFacts, EmptyLayer
  <2>7. Layered' /\ IsLayer(new) /\ OnTop(merged, layer, new)
    BY <1>2, <2>5, <2>6, AddDescriptorFacts
  <2>8. DescriptorTypeOK'
    <3>1. \A k \in DOMAIN descriptorLayers' : IsLayer(descriptorLayers'[k])
      <4>1. AreLayers(descriptorLayers')
        BY <2>7 DEF Layered
      <4>2. QED
        BY <4>1, LenProperties DEF AreLayers
    <3>2. QED
      BY <1>1, <1>2, <1>3, <1>5, <2>1, <2>7, <3>1 DEF DescriptorTypeOK
  <2>9. Lowest \in Nat /\ Topmost \in Nat
    BY PlacesFacts
  <2>10. RankedIn(merged, Lowest, Topmost) /\ (written = {} => WholeIn(merged, Lowest, Topmost))
    BY <1>2 DEF Ranked, Whole
  <2>11. CASE ToRender
    <3>1. /\ OfEntry(layer, "template") = layer
          /\ \A e, f : Has(layer, e, f) => e = "template"
          /\ ValueOf(layer, "template", "rendered_path") = RenderedPath[renders']
          /\ layer # {}
      BY <1>2, <2>1, <2>2, <2>3, <2>11, RenderedLayerFacts DEF RenderedLayer
    <3> HIDE DEF merged, new
    <3>2. RankedIn(new, Lowest, Topmost)
      <4>1. ASSUME NEW e \in Entry, NEW f \in Propagated(e) \ {"key"}
            PROVE  ValueOf(new, e, f) = ValueOf(merged, e, f)
        <5>1. e # "template"
          BY <4>1, PropagatedFacts
        <5>2. ~Has(layer, e, f)
          BY <3>1, <5>1
        <5>3. QED
          BY <2>7, <5>2 DEF OnTop
      <4>2. QED
        BY <2>10, <4>1 DEF RankedIn
    <3>3. ValueOf(new, "template", "rendered_path") = RenderedPath[renders']
      <4>1. OfEntry(new, "template") = OfEntry(layer, "template")
        BY <2>7, <3>1 DEF OnTop
      <4>2. QED
        BY <2>6, <2>7, <3>1, <4>1, SameEntry
    <3>4. written' = written \cup {renders'} /\ renders' \in Nat
      BY <1>5, <2>1, <2>11
    <3>5. (CHOOSE n \in written' : \A k \in written' : k <= n) = renders'
      <4> DEFINE Top(n) == \A k \in written' : k <= n
      <4>1. \A k \in written' : k \in 1..renders'
        BY <2>1
      <4>2. renders' \in written' /\ Top(renders')
        BY <2>1, <3>4, <4>1
      <4>3. \A n \in written' : Top(n) => n = renders'
        BY <2>1, <4>1, <4>2
      <4> HIDE DEF Top
      <4>4. (CHOOSE n \in written' : Top(n)) = renders'
        BY <4>2, <4>3
      <4>5. QED
        BY <4>4 DEF Top
    <3>6. RenderedPathKnown'
      BY <3>3, <3>5 DEF RenderedPathKnown, Template, new
    <3>7. written' # {}
      BY <3>4
    <3>8. QED
      BY <1>1, <1>5, <2>7, <2>8, <3>2, <3>6, <3>7, ReadyKeeps DEF new
  <2>12. CASE ~ToRender
    <3>1. layer = {} /\ written' = written
      BY <1>5, <2>4, <2>12
    <3> HIDE DEF merged, new
    <3>2. /\ RankedIn(new, Lowest, Topmost) /\ (written' = {} => WholeIn(new, Lowest, Topmost))
          /\ OfEntry(new, "template") = OfEntry(merged, "template")
      BY <2>7, <2>9, <2>10, <3>1, NothingOnTop
    <3>3. ValueOf(new, "template", "rendered_path") = ValueOf(merged, "template", "rendered_path")
      BY <1>2, <2>7, <3>2, SameEntry DEF merged
    <3>4. RenderedPathKnown'
      BY <1>2, <3>1, <3>3 DEF RenderedPathKnown, Template, new, merged
    <3>5. QED
      BY <1>1, <1>5, <2>7, <2>8, <3>2, <3>4, ReadyKeeps DEF new
  <2>13. QED
    BY <2>11, <2>12
<1>6. QED
  BY <1>1, <1>4, <1>5 DEF RenderTemplates

-----------------------------------------------------------------------------
(* The invariant, and what follows from it *)

LEMMA DescriptorInitially == DescriptorInit => DescriptorIInv
<1> SUFFICES ASSUME DescriptorInit
             PROVE  DescriptorIInv
  OBVIOUS
<1>1. /\ config \in Inputs /\ config \in Configuration
      /\ stage = "manifests" /\ todo = Manifests /\ descriptorLayers = <<>> /\ mergedDescriptor = {}
      /\ true \subseteq File /\ evaluated = {} /\ renders = 0 /\ written = {}
      /\ outputFile = FALSE /\ lastLoad = "none"
  BY InputsAssumption DEF DescriptorInit
<1>2. Manifests \in Seq(File) /\ Len(Manifests) = 5
  <2>1. DOMAIN Manifests = 1..5 /\ Len(Manifests) = 5
    BY DEF Manifests
  <2>2. \A k \in 1..5 : Manifests[k] \in File
    BY <2>1 DEF File
  <2>3. Manifests = [k \in 1..5 |-> Manifests[k]]
    BY <2>1 DEF Manifests
  <2>4. Manifests \in [1..5 -> File]
    BY <2>2, <2>3
  <2>5. QED
    BY <2>1, <2>4, SeqDef
<1>3. Layered
  <2>1. Len(descriptorLayers) = 0 /\ descriptorLayers \in Seq(LayerSet)
    <3>1. Len(<<>>) = 0 /\ <<>> \in Seq(LayerSet)
      OBVIOUS
    <3>2. QED
      BY <1>1, <3>1
  <2>2. AreLayers(descriptorLayers) /\ Filled(descriptorLayers)
    <3>1. 1..Len(descriptorLayers) = {} /\ 1..(Len(descriptorLayers) - 1) = {}
      BY <2>1
    <3>2. QED
      BY <2>1, <3>1 DEF AreLayers, Filled
  <2>3. mergeDescriptorLayers(descriptorLayers) = {}
    BY <2>1, <2>2, MergedLayers
  <2>4. QED
    BY <1>1, <2>2, <2>3 DEF Layered
<1>4. DescriptorTypeOK
  <2>1. \A k \in DOMAIN descriptorLayers : IsLayer(descriptorLayers[k])
    BY <1>1
  <2>2. renders \in 0..MaxRenders /\ written \subseteq 1..renders
    BY <1>1, BoundAssumption
  <2>3. IsLayer(mergedDescriptor) /\ evaluated \subseteq File /\ outputFile \in BOOLEAN
    BY <1>1, EmptyLayer
  <2>4. QED
    BY <1>1, <2>1, <2>2, <2>3 DEF DescriptorTypeOK
<1>5. RenderedPathKnown /\ Unrendered
  BY <1>1 DEF RenderedPathKnown, Unrendered
<1>6. Awaited
  BY <1>1, <1>2 DEF Awaited
<1>7. Base \in Nat /\ Lowest = Base + 1 /\ Topmost = Base
  <2>1. Base \in Nat
    BY <1>1, PrecedenceFacts
  <2>2. Lowest = Base + 1 /\ Topmost = Base + 5 - Len(todo)
    BY <1>1 DEF Lowest, Topmost
  <2>3. Len(todo) = 5
    BY <1>1, <1>2
  <2>4. QED
    BY <2>1, <2>2, <2>3
<1>8. ASSUME NEW files \in SUBSET File
      PROVE  HighestIn(Lowest, Topmost, files) = Unset
  <2>1. Without(Lowest, Topmost, files)
    BY <1>7 DEF Without
  <2>2. QED
    BY <1>7, <2>1, HighestFacts
<1>9. Ranked
  <2>1. ASSUME NEW e, NEW f
        PROVE  ValueOf({}, e, f) = Unset /\ GiversOf(e, f) \in SUBSET File
    BY EmptyLayer DEF ValueOf, GiversOf
  <2>2. QED
    BY <1>1, <1>8, <2>1 DEF Ranked, RankedIn
<1>10. Whole
  <2>1. OfEntry({}, "template") = {} /\ DefinersOf("template") \in SUBSET File
    BY DEF OfEntry, DefinersOf
  <2>2. QED
    BY <1>1, <1>8, <2>1 DEF Whole, WholeIn
<1>11. QED
  BY <1>1, <1>3, <1>4, <1>5, <1>6, <1>9, <1>10 DEF DescriptorIInv

LEMMA DescriptorStep == DescriptorIInv /\ [DescriptorNext]_descriptorVars => DescriptorIInv'
<1> SUFFICES ASSUME DescriptorIInv, [DescriptorNext]_descriptorVars
             PROVE  DescriptorIInv'
  OBVIOUS
<1>1. CASE UNCHANGED descriptorVars
  <2>1. /\ config' = config /\ Precedence' = Precedence /\ Base' = Base
    BY <1>1, SamePlaces DEF descriptorVars
  <2>2. Lowest' = Lowest /\ Topmost' = Topmost
    BY <1>1, <2>1 DEF descriptorVars, Lowest, Topmost
  <2>3. DescriptorTypeOK' /\ RenderedPathKnown' /\ Layered' /\ Awaited' /\ Unrendered'
    BY <1>1 DEF DescriptorIInv, descriptorVars, DescriptorTypeOK, RenderedPathKnown, Template, Layered,
                Awaited, Unrendered
  <2>4. Ranked' /\ Whole'
    <3>1. RankedIn(mergedDescriptor, Lowest, Topmost)
          /\ (written = {} => WholeIn(mergedDescriptor, Lowest, Topmost))
      BY DEF DescriptorIInv, Ranked, Whole
    <3>2. mergedDescriptor' = mergedDescriptor /\ written' = written
      BY <1>1 DEF descriptorVars
    <3>3. Ranked'
      BY <2>1, <2>2, <3>1, <3>2, SamePlaces
    <3>4. Whole'
      <4>1. CASE written = {}
        BY <2>1, <2>2, <3>1, <3>2, <4>1, SamePlaces
      <4>2. CASE written # {}
        BY <3>2, <4>2 DEF Whole
      <4>3. QED
        BY <4>1, <4>2
    <3>5. QED
      BY <3>3, <3>4
  <2>5. QED
    BY <2>1, <2>3, <2>4 DEF DescriptorIInv
<1>2. CASE DescriptorNext
  BY <1>2, AddManifestLayerKeeps, LoadConfigFileKeeps, AddGlobalRunUnitsKeeps, AddProgramKeeps,
     AddDependenciesKeeps, RenderTemplatesKeeps, UsingKeeps DEF DescriptorNext
<1>3. QED
  BY <1>1, <1>2

\* Between any two steps the loaded files are next to one another in the order
\* of precedence, the merged descriptor has each value from the highest of
\* them, and what was propagated has arrived in the last layer.
\* (kapp.go:402-487, 850-888)
THEOREM DescriptorInvariant == DescriptorSpec => []DescriptorIInv
<1>1. DescriptorInit => DescriptorIInv
  BY DescriptorInitially
<1>2. DescriptorIInv /\ [DescriptorNext]_descriptorVars => DescriptorIInv'
  BY DescriptorStep
<1>3. QED
  BY <1>1, <1>2, PTL DEF DescriptorSpec

\* In whatever order the layers were added, each field that is propagated has
\* the value of the file with the highest precedence that gives it, for all
\* programs and all configurations.  (stack/manifest.go:78-88, kapp.go:402-487)
THEOREM FilePrecedence == DescriptorSpec => []PrecedenceKept
<1>1. DescriptorIInv => PrecedenceKept
  <2> SUFFICES ASSUME DescriptorIInv, stage = "ready"
               PROVE  /\ \A e \in Entry : \A f \in Propagated(e) \ {"key"} :
                           ValueOf(mergedDescriptor, e, f) = Giver(e, f)
                      /\ written = {} =>
                           OfEntry(mergedDescriptor, "template")
                             = IF Definer("template") = Unset THEN {}
                               ELSE OfEntry(LayerOf(Definer("template")), "template")
    BY DEF PrecedenceKept
  <2>1. DOMAIN Precedence = 1..(Base + 5)
    BY PlacesFacts, PrecedenceFacts
  <2>2. Lowest = 1 /\ Topmost = Base + 5
    BY DEF Lowest, Topmost
  <2>3. ASSUME NEW files
        PROVE  Highest(files) = HighestIn(Lowest, Topmost, files)
    BY <2>1, <2>2 DEF Highest, HighestIn, HighestOf
  <2>4. \A e, f : Giver(e, f) = HighestIn(Lowest, Topmost, GiversOf(e, f))
    BY <2>3 DEF Giver, GiversOf
  <2>5. Definer("template") = HighestIn(Lowest, Topmost, DefinersOf("template"))
    BY <2>3 DEF Definer, DefinersOf
  <2>6. Ranked /\ Whole
    BY DEF DescriptorIInv
  <2>7. QED
    BY <2>4, <2>5, <2>6 DEF Ranked, RankedIn, Whole, WholeIn
<1>2. QED
  BY <1>1, DescriptorInvariant, PTL

\* The path a template was rendered to last stays known, however often the
\* descriptor is merged and rendering is skipped.  (kapp.go:866-888)
THEOREM RenderedPathsAreKept == DescriptorSpec => []DescriptorInv
<1>1. DescriptorIInv => DescriptorInv
  BY DEF DescriptorIInv, DescriptorInv
<1>2. QED
  BY <1>1, DescriptorInvariant, PTL
================================================================================
