------------------------------- MODULE RunSteps -------------------------------
(***************************************************************************)
(* How the run steps of a kapp are put together and executed               *)
(* (installer/rununit.go and executeRunSteps in plan/executor.go).  A      *)
(* run unit has a list of steps for each phase; those of all units for the *)
(* phase at hand are merged, calls are replaced with the steps they name,  *)
(* and the result is sorted by priority.  The units are in a Go map, so    *)
(* that each pass over them, and each call has one, is in an order of its  *)
(* own: a computation has a set of possible results.  A step that loads    *)
(* the kapp's outputs has the whole list computed again while it is        *)
(* iterated.                                                               *)
(***************************************************************************)
EXTENDS Integers, FiniteSets, Filtering

CONSTANTS
  Unit,            \* names of run units
  Phase,           \* "apply_install", "output", ...
  Name,            \* names of steps
  Configurations,  \* run units a kapp may have
  NoCall,          \* a step that runs a command
  Every,           \* the name in a call to all steps of a phase
  MaxRecursions    \* maxInterpolationRecursions

\* The priority of steps that are given none is the largest.
NoPriority == -1
MaxPriority == 255
Priority == {NoPriority} \cup 0..MaxPriority

\* Conditions are templates that may refer to the kapp's outputs.
Condition == {"true", "false", "loaded", "not loaded", "malformed"}

Step ==
  [name : Name,
   call : {NoCall} \cup [phase : Phase, name : Name \cup {Every}],
   command : BOOLEAN, priority : Priority, conditions : Condition,
   load_outputs : BOOLEAN, ignore_errors : BOOLEAN, stdout : BOOLEAN, stderr : BOOLEAN]

RunUnit == [conditions : Condition, steps : [Phase -> Seq(Step)]]

ASSUME UnitsAssumption == IsFiniteSet(Unit) /\ Configurations \subseteq [Unit -> RunUnit]

ASSUME MaxRecursionsAssumption == MaxRecursions \in Nat

VARIABLES
  runUnits,        \* [Unit -> [conditions, steps]] of the kapp
  phase,           \* the phase that is executed
  ignoreErrors,    \* --ignore-errors
  dryRun,
  loaded,          \* the kapp's outputs are in its registry
  pc,              \* "start", "running", "done" (nil) or "failed"
  runSteps,        \* the list that is iterated
  i,               \* the index of the next step, from 1
  visited,         \* the steps the iteration came to
  kept,            \* no computation changed the part that was iterated
  failures         \* what went wrong so far

inputVars == <<runUnits, phase, ignoreErrors, dryRun>>
vars == <<inputVars, loaded, pc, runSteps, i, visited, kept, failures>>

Orders == SetToSeqs(Unit)

-----------------------------------------------------------------------------
(* Merging run units *)

Malformed(x) == x.conditions = "malformed"

\* utils.All() of conditions that are templated with or without outputs.
All(x, outputs) ==
  \/ x.conditions = "true"
  \/ x.conditions = "loaded" /\ outputs
  \/ x.conditions = "not loaded" /\ ~outputs

IsCall(step) == step.call # NoCall

\* The run units in the order of an iteration over their map.
InOrder(order) == [j \in DOMAIN order |-> runUnits[order[j]]]

\* getStepsInRunUnit(): the steps for a phase, of all units.
AllSteps(units, p) == FlattenSeq([j \in DOMAIN units |-> units[j].steps[p]])

\* findStepInRunUnits(): the first step of that name, in the first such unit.
FindStep(units, call) ==
  LET steps == AllSteps(units, call.phase)
      named == Filtered(steps, {s \in ToSet(steps) : s.name = call.name})
  IN IF named = <<>> THEN <<>> ELSE <<named[1]>>

\* A call to a step that is not there, or one that has a command as well.
Unresolvable(units, step) ==
  /\ IsCall(step)
  /\ step.command \/ (step.call.name # Every /\ FindStep(units, step.call) = <<>>)

\* Mistaken: the step's own priority is preferred to the call's.
WithOwnPriority(steps, priority) ==
  [j \in DOMAIN steps |->
     IF steps[j].priority = NoPriority THEN [steps[j] EXCEPT !.priority = priority] ELSE steps[j]]

WithPriority(steps, priority) ==
  IF priority = NoPriority THEN steps
  ELSE [j \in DOMAIN steps |-> [steps[j] EXCEPT !.priority = priority]]

\* A call that cannot be resolved stays one, which is an error in the end.
Replacement(units, step) ==
  IF ~IsCall(step) \/ Unresolvable(units, step) THEN <<step>>
  ELSE WithPriority(
    IF step.call.name = Every THEN AllSteps(units, step.call.phase) ELSE FindStep(units, step.call),
    step.priority)

\* Each call's look at the map has an order of its own.
Replacements(step) == {Replacement(InOrder(o), step) : o \in Orders}

\* The lists that consist of one of those that each step may stand for.
Concatenations(standsFor, steps) ==
  LET joined[n \in 0..Len(steps)] ==
        IF n = 0 THEN {<<>>}
        ELSE {list \o next : list \in joined[n - 1], next \in standsFor[steps[n]]}
  IN joined[Len(steps)]

\* interpolateCalls(): all calls are replaced with what they name, in one
\* round more than there may be recursions.
interpolateCalls(steps) ==
  LET after[n \in 0..MaxRecursions + 1] ==
        IF n = 0 THEN {steps}
        ELSE UNION {Concatenations([s \in ToSet(list) |-> Replacements(s)], list) : list \in after[n - 1]}
  IN after[MaxRecursions + 1]

PriorityOf(step) == IF step.priority = NoPriority THEN MaxPriority ELSE step.priority

\* sort.Slice() sorts short lists (of at most six steps, with newer versions of
\* Go twelve) by insertion; of longer ones the order of ties may be another.
SortedByPriority(steps) ==
  LET sorted[n \in 0..Len(steps)] ==
        IF n = 0 THEN <<>>
        ELSE LET list == sorted[n - 1]
                 later == {s \in ToSet(list) : PriorityOf(s) > PriorityOf(steps[n])}
             IN Append(Filtered(list, ToSet(list) \ later), steps[n]) \o Filtered(list, later)
  IN sorted[Len(steps)]

\* The steps of the units whose conditions hold.
Included(units, action, outputs) ==
  AllSteps(Filtered(units, {x \in ToSet(units) : All(x, outputs)}), action)

\* mergeRunUnits() with this order of its own loop.
mergeRunUnits(units, action, outputs) ==
  {[ok |-> /\ \A s \in ToSet(interpolated) : ~IsCall(s)
           /\ \A x \in ToSet(units) : ~Malformed(x),
    steps |-> SortedByPriority(interpolated)] :
     interpolated \in interpolateCalls(Included(units, action, outputs))}

-----------------------------------------------------------------------------
Init ==
  /\ runUnits \in Configurations
  /\ phase \in Phase
  /\ ignoreErrors \in BOOLEAN
  /\ dryRun \in BOOLEAN
  /\ loaded = FALSE
  /\ pc = "start"
  /\ runSteps = <<>>
  /\ i = 1
  /\ visited = <<>>
  /\ kept = TRUE
  /\ failures = {}

\* Mistaken variant: a list that was computed again is iterated again.
GoOnAfresh(steps, next) ==
  /\ runSteps' = steps
  /\ i' = IF steps = runSteps \/ pc = "start" THEN next ELSE 1
  /\ pc' = IF i' > Len(steps) THEN "done" ELSE "running"

\* The iteration goes on with these steps at this index.
GoOn(steps, next) ==
  /\ runSteps' = steps
  /\ i' = next
  /\ pc' = IF next > Len(steps) THEN "done" ELSE "running"

Fail == pc' = "failed" /\ UNCHANGED <<runSteps, i, kept>>

\* What may be computed with the outputs, in whatever orders.
Merges(outputs) == UNION {mergeRunUnits(InOrder(o), phase, outputs) : o \in Orders}

\* The first computation.  While installing or deleting, its error can be
\* ignored, which leaves no steps to run.
Begin ==
  /\ pc = "start"
  /\ \E merge \in Merges(loaded) :
       \/ /\ merge.ok
          /\ GoOn(merge.steps, 1)
          /\ UNCHANGED <<kept, failures>>
       \/ /\ ~merge.ok
          /\ failures' = {[what |-> "merge"]}
          /\ IF ignoreErrors /\ phase # "output" THEN GoOn(<<>>, 1) /\ UNCHANGED kept ELSE Fail
  /\ UNCHANGED <<inputVars, loaded, visited>>

Current == runSteps[i]
Visit == visited' = Append(visited, Current)

\* A step whose conditions are false.
SkipStep ==
  /\ pc = "running"
  /\ ~Malformed(Current) /\ ~All(Current, loaded)
  /\ Visit
  /\ GoOn(runSteps, i + 1)
  /\ UNCHANGED <<inputVars, loaded, kept, failures>>

\* utils.All() cannot parse the conditions, or shellwords.Parse() the
\* arguments; no flag ignores that.
FailParsing ==
  /\ pc = "running"
  /\ \/ Malformed(Current) /\ failures' = failures \cup {[what |-> "conditions"]}
     \/ All(Current, loaded) /\ failures' = failures \cup {[what |-> "arguments"]}
  /\ Fail
  /\ UNCHANGED <<inputVars, loaded, visited>>

-----------------------------------------------------------------------------
(* Executing a step: what fails is a subset of its command and the files    *)
(* its output goes to.                                                      *)

\* ExecCommand() runs nothing in a dry run; otherwise the command may exit
\* with a code that is not the expected one, time out or not be started.
CommandMayFail == ~dryRun

Failing(step) ==
  SUBSET ({x \in {"command"} : CommandMayFail} \cup {x \in {"stdout"} : step.stdout}
            \cup {x \in {"stderr"} : step.stderr})

\* Mistaken: only the first of the errors is looked at.
StdoutError(step, failing) == "stdout" \in failing

\* The error of the file that is written last is the one that is kept.
WriteError(step, failing) == IF step.stderr THEN "stderr" \in failing ELSE "stdout" \in failing

Ignoring(step) == ignoreErrors \/ step.ignore_errors

Record(failing) == failures' = failures \cup {[what |-> x, step |-> Current] : x \in failing}

\* The outcomes of the command and the writes of the current step.
Execute(failing) ==
  /\ pc = "running"
  /\ All(Current, loaded)
  /\ failing \in Failing(Current)
  /\ Visit
  /\ UNCHANGED <<inputVars>>

StepFails ==
  \E failing \in SUBSET {"command", "stdout", "stderr"} :
    /\ Execute(failing)
    /\ IF "command" \in failing THEN ~Ignoring(Current) ELSE WriteError(Current, failing)
    /\ Record(failing)
    /\ Fail
    /\ UNCHANGED <<loaded>>

\* Outputs are not loaded after a step that failed.
StepFailureIgnored ==
  \E failing \in SUBSET {"command", "stdout", "stderr"} :
    /\ Execute(failing)
    /\ "command" \in failing /\ Ignoring(Current)
    /\ Record(failing)
    /\ GoOn(runSteps, i + 1)
    /\ UNCHANGED <<loaded, kept>>

StepSucceeds ==
  \E failing \in SUBSET {"stdout", "stderr"} :
    /\ Execute(failing)
    /\ ~WriteError(Current, failing)
    /\ ~Current.load_outputs
    /\ Record(failing)
    /\ GoOn(runSteps, i + 1)
    /\ UNCHANGED <<loaded, kept>>

KeepsIterated(steps) == Len(steps) >= i /\ SubSeq(steps, 1, i) = SubSeq(runSteps, 1, i)

\* Load what outputs there are and compute the list again; the index stays.
StepLoadsOutputs ==
  \E failing \in SUBSET {"stdout", "stderr"} :
    /\ Execute(failing)
    /\ ~WriteError(Current, failing)
    /\ Current.load_outputs
    /\ \E outputs \in {loaded, TRUE} : \E merge \in Merges(outputs) :
         /\ loaded' = outputs
         /\ \/ /\ merge.ok
               /\ kept' = (kept /\ KeepsIterated(merge.steps))
               /\ GoOn(merge.steps, i + 1)
               /\ Record(failing)
            \/ /\ ~merge.ok
               /\ failures' = failures \cup {[what |-> "merge"]}
               /\ Fail

\* The outputs cannot be parsed, or the templates not rendered with them.
LoadFails ==
  \E failing \in SUBSET {"stdout", "stderr"} :
    /\ Execute(failing)
    /\ ~WriteError(Current, failing)
    /\ Current.load_outputs
    /\ Record(failing \cup {"outputs"})
    /\ Fail
    /\ UNCHANGED <<loaded>>

Next ==
  \/ Begin \/ SkipStep \/ FailParsing
  \/ StepFails \/ StepFailureIgnored \/ StepSucceeds
  \/ StepLoadsOutputs \/ LoadFails

Spec == Init /\ [][Next]_vars

-----------------------------------------------------------------------------
RawSteps(units) == UNION {ToSet(units[u].steps[p]) : u \in DOMAIN units, p \in Phase}
IsStep(s) == \E r \in RawSteps(runUnits) : s = [r EXCEPT !.priority = s.priority]

TypeOK ==
  /\ runUnits \in Configurations /\ phase \in Phase
  /\ ignoreErrors \in BOOLEAN /\ dryRun \in BOOLEAN /\ loaded \in BOOLEAN
  /\ pc \in {"start", "running", "done", "failed"}
  /\ \A s \in ToSet(runSteps) \cup ToSet(visited) : IsStep(s)
  /\ i \in Nat
  /\ pc = "running" => i <= Len(runSteps)
  /\ kept \in BOOLEAN
  /\ \A f \in failures : "step" \in DOMAIN f => f.step \in ToSet(visited)

Outermost(priority, steps) ==
  [j \in DOMAIN steps |->
     [steps[j] EXCEPT !.priority = IF priority = NoPriority THEN @ ELSE priority]]

\* What a step may stand for, call after call and depth first: what is left
\* of it after this many calls, with the outermost priority that is given.
Inlined ==
  LET inlined[n \in 0..MaxRecursions + 1] ==
    [s \in RawSteps(runUnits) |->
       IF n = 0 THEN {<<s>>}
       ELSE LET StandsFor(units) ==
                  IF ~IsCall(s) \/ Unresolvable(units, s) THEN {<<s>>}
                  ELSE LET called == IF s.call.name = Every THEN AllSteps(units, s.call.phase)
                                     ELSE FindStep(units, s.call)
                       IN {Outermost(s.priority, list) : list \in Concatenations(inlined[n - 1], called)}
            IN UNION {StandsFor(InOrder(o)) : o \in Orders}]
  IN inlined[MaxRecursions + 1]

OfPriority(steps, p) == Filtered(steps, {s \in ToSet(steps) : PriorityOf(s) = p})

(* The list that is iterated is always one for the outputs loaded so far:  *)
(* what the steps of the units whose conditions hold stand for, calls       *)
(* inlined up to six deep and no deeper, by priority and otherwise in the   *)
(* order of the units, whatever order each look at them is in; and there is *)
(* none if what they stand for in these orders has a call that is left.     *)
IsMerged(units, all) ==
  LET possible == (\A s \in ToSet(all) : ~IsCall(s)) /\ \A x \in ToSet(units) : ~Malformed(x)
  IN /\ possible <=> [what |-> "merge"] \notin failures
     /\ possible =>
          /\ \A a, b \in DOMAIN runSteps : a < b => PriorityOf(runSteps[a]) <= PriorityOf(runSteps[b])
          /\ \A p \in {PriorityOf(s) : s \in ToSet(runSteps \o all)} :
               OfPriority(runSteps, p) = OfPriority(all, p)

ListIsMerged ==
  pc # "start" =>
    \E o \in Orders :
      \E all \in Concatenations(Inlined, Included(InOrder(o), phase, loaded)) : IsMerged(InOrder(o), all)

(* If no computation changes the part of the list that was iterated, nil    *)
(* means that the steps of the final list were come to once each, in order. *)
EachStepOnce == pc = "done" /\ kept => visited = runSteps

(* Every variable has its type (the index points into the list), and steps  *)
(* run once.                                                                *)
StepsInv == TypeOK /\ EachStepOnce

(* Nil means that nothing failed, unless a flag says to ignore it: but if a *)
(* command's failure is ignored so is what was to be written after it, and  *)
(* if both files are to be written the second one's success is all it takes.*)
IgnoredCommand(f) == f.what = "command" /\ Ignoring(f.step)
SuccessMeansNoFailure ==
  pc = "done" => \A f \in failures :
    \/ IgnoredCommand(f)
    \/ f.what \in {"stdout", "stderr"} /\ \E g \in failures : IgnoredCommand(g) /\ g.step = f.step
    \/ f.what = "stdout" /\ f.step.stderr
    \/ f.what = "merge" /\ ignoreErrors /\ visited = <<>>
=============================================================================
