------------------------------ MODULE MCRunSteps ------------------------------
(* Run units for TLC: what two units may have for two phases. *)
EXTENDS RunSteps

Names == {"a", "b", "c", "d", "o", "p", "r1", "r2", "r3", "r4", "r5", "r6", "call"}

Command(name) ==
  [name |-> name, call |-> NoCall, command |-> TRUE, priority |-> NoPriority, conditions |-> "true",
   load_outputs |-> FALSE, ignore_errors |-> FALSE, stdout |-> FALSE, stderr |-> FALSE]
Call(p, name) == [Command("call") EXCEPT !.command = FALSE, !.call = [phase |-> p, name |-> name]]
Prior(step, p) == [step EXCEPT !.priority = p]
Loading(step) == [step EXCEPT !.load_outputs = TRUE]

\* Steps of the first unit that install the kapp.
Helm == {
  <<Command("a"), Prior(Call("output", "o"), 7)>>,
  <<Prior(Command("a"), 255), [Loading(Command("b")) EXCEPT !.stdout = TRUE, !.stderr = TRUE]>>,
  <<Prior(Loading(Command("a")), 9), Call("output", Every)>>}

\* And of the second one.
Terraform == {
  <<>>,
  <<[Command("c") EXCEPT !.ignore_errors = TRUE, !.stdout = TRUE], Prior(Command("d"), 8)>>,
  <<[Command("c") EXCEPT !.conditions = "loaded"], [Command("d") EXCEPT !.conditions = "malformed"]>>,
  <<[Call("output", Every) EXCEPT !.command = TRUE]>>}

\* Steps that load the outputs, a call into the other unit, and calls in a
\* chain and a cycle.
Output == {
  <<Command("o"), Loading(Command("p"))>>,
  <<[Call("output", "p") EXCEPT !.name = "o", !.priority = 3]>>,
  <<[Call("output", "r1") EXCEPT !.name = "o"]>>,
  <<Call("output", Every)>>}

\* A chain of this many calls, to a command.
R == <<"r1", "r2", "r3", "r4", "r5", "r6">>
Chain(n) ==
  [k \in 1..n + 1 |-> IF k = n + 1 THEN Command(R[k]) ELSE [Call("output", R[k + 1]) EXCEPT !.name = R[k]]]

OtherOutput == {<<>>, <<Command("o"), Prior(Command("p"), 5)>>, Chain(4), Chain(5)}

Units(helm, o, terraform, q, c) ==
  [u \in Unit |->
     IF u = "helm" THEN [conditions |-> "true", steps |-> [p \in Phase |-> IF p = "output" THEN o ELSE helm]]
     ELSE [conditions |-> c, steps |-> [p \in Phase |-> IF p = "output" THEN q ELSE terraform]]]

\* Calls in one list that may each find another step, or another order.
Repeated ==
  Units(<<Prior(Call("output", "o"), 7), Call("output", "o"), Call("output", Every)>>,
        <<Command("o"), Loading(Command("p"))>>, <<>>, <<Prior(Command("o"), 5), Command("c")>>, "true")

\* Kapps whose steps are called in various ways, and kapps whose steps fail
\* or are affected by the outputs.
Kapps ==
  {Units(<<Command("a"), Prior(Call("output", "o"), 7)>>, o, <<Prior(Command("d"), 8)>>, q, c) :
     o \in Output, q \in OtherOutput, c \in {"true", "false"}}
  \cup {Units(h, <<Command("o")>>, t, <<>>, c) : h \in Helm, t \in Terraform, c \in {"true", "loaded", "not loaded"}}
  \cup {Repeated}
=============================================================================
