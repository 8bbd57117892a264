----------------------------- MODULE KappsCommand -----------------------------
(***************************************************************************)
(* The commands `kapps install` and `kapps delete` (cmd/cli/kapps), from   *)
(* their flags to their exit: building the stack and the DAG, catching     *)
(* mistakes, connecting, executing the DAG, closing the connection, and    *)
(* the handler of signals, which ends the process at any time.             *)
(*                                                                         *)
(* Execute is modelled by what DagExecute shows of it: kapps are processed *)
(* after those before them, the first error makes it return, and the other *)
(* workers go on until the process exits.                                  *)
(***************************************************************************)
EXTENDS Naturals

CONSTANTS
  Kapp,            \* the kapps of the DAG
  Dependency,      \* pairs <<kapp, kapp it depends on>>
  Descriptors,     \* the descriptors that the kapps may have
  Binary,          \* programs that are or are not installed
  ProvisionerBinary

\* A kapp's actions: pre, post or the other command's; the programs its run
\* units need; and whether the names of the steps in each of them are unique.
Descriptor ==
  [actions: SUBSET {"pre", "post", "other"}, needs: SUBSET Binary, unique: BOOLEAN]

ASSUME KappsAssumption ==
  /\ Dependency \subseteq Kapp \X Kapp
  /\ Descriptors \subseteq [Kapp -> Descriptor]
  /\ ProvisionerBinary \in Binary

Flag == {"dry-run", "yes", "one-shot", "run-actions", "no-actions", "run-pre-actions",
         "run-post-actions", "no-validate", "ignore-errors", "connect"}

VARIABLES
  command, flags,  \* input: the command line
  marked,          \* input: the kapps to process, others are only looked at
  descriptor,      \* input: the kapps' descriptors
  missing,         \* input: programs that are not installed
  phase,           \* where the command is
  error,           \* it is to return an error
  said,            \* why it refused
  status,          \* where each kapp is in the execution
  at,              \* the stage each kapp is in, or 0
  changed,         \* the stages in which something was really done for it
  exit

input == <<command, flags, marked, descriptor, missing>>
vars == <<input, phase, error, said, status, at, changed, exit>>

Stages == <<"plan", "pre", "apply", "post">>

TypeOK ==
  /\ command \in {"install", "delete"} /\ flags \subseteq Flag
  /\ marked \subseteq Kapp /\ descriptor \in Descriptors /\ missing \subseteq Binary
  /\ phase \in {"start", "built", "planned", "checked", "executing", "closing", "exited"}
  /\ error \in BOOLEAN
  /\ said \in {"nothing", "choose", "invalid"}
  /\ status \in [Kapp -> {"absent", "waiting", "working", "gaveUp", "stuck", "reported"}]
  /\ at \in [Kapp -> 0..4]
  /\ changed \in [Kapp -> SUBSET {"plan", "pre", "apply", "post"}]
  /\ exit \in {"running", "ok", "error"} /\ (exit = "running" <=> phase # "exited")

-----------------------------------------------------------------------------
Given(f) == f \in flags
DryRun == Given("dry-run")
Approved == Given("one-shot") \/ Given("yes")
ShouldPlan == Given("one-shot") \/ ~Given("yes")
IgnoreErrors == Given("ignore-errors")

\* `kapps install` takes either kind of actions for both.
RunActions ==
  \/ Given("run-actions")
  \/ command = "install" /\ (Given("run-pre-actions") \/ Given("run-post-actions"))

SkipPreActions == ~(Given("run-pre-actions") \/ RunActions)
SkipPostActions == ~(Given("run-post-actions") \/ RunActions)

Actions(k) == descriptor[k].actions
HasActions(k) == Actions(k) # {}

\* A mistaken variant of MustChoose, to show what the properties notice.
ChooseForPre == ~RunActions /\ ~Given("no-actions") /\ \E k \in marked : "pre" \in Actions(k)

\* The user must say whether to run actions, if there are any of any command.
MustChoose == ~RunActions /\ ~Given("no-actions") /\ \E k \in marked : HasActions(k)

BinariesExist(k) == descriptor[k].needs \cap missing = {}
UniqueRunStepNames(k) == descriptor[k].unique
ProvisionerBinaryExists == ProvisionerBinary \notin missing

\* A mistaken variant of Valid, to show what the properties notice.
ValidSteps == ProvisionerBinaryExists /\ \A k \in marked : UniqueRunStepNames(k)

\* Validate(): only marked kapps are looked at.
Valid ==
  ProvisionerBinaryExists /\ \A k \in marked : BinariesExist(k) /\ UniqueRunStepNames(k)

Before(k) ==
  IF command = "install" THEN {d \in Kapp : <<k, d>> \in Dependency}
                         ELSE {d \in Kapp : <<d, k>> \in Dependency}

\* installOrDelete(): the stages a kapp is to go through.
InStage(k, stage) ==
  /\ k \in marked
  /\ stage = "plan" => ShouldPlan
  /\ stage # "plan" => Approved
  /\ stage = "pre" => "pre" \in Actions(k) /\ ~SkipPreActions
  /\ stage = "post" => "post" \in Actions(k) /\ ~SkipPostActions

\* Those it has yet to go through.
Ahead(k) == {i \in 1..4 : i > at[k] /\ InStage(k, Stages[i])}

-----------------------------------------------------------------------------
Init ==
  /\ command \in {"install", "delete"}
  /\ flags \in SUBSET (IF command = "delete" THEN Flag ELSE Flag \ {"ignore-errors"})
  /\ marked \in (SUBSET Kapp) \ {{}}
  /\ descriptor \in Descriptors
  /\ missing \in SUBSET Binary
  /\ phase = "start" /\ error = FALSE /\ said = "nothing" /\ exit = "running"
  /\ status = [k \in Kapp |-> "absent"]
  /\ at = [k \in Kapp |-> 0]
  /\ changed = [k \in Kapp |-> {}]

GoTo(next) == phase' = next /\ UNCHANGED error
ReturnError == phase' = "closing" /\ error' = TRUE

\* Without a stack there is no connection to close.
BuildStack ==
  /\ phase = "start"
  /\ \/ GoTo("built") /\ UNCHANGED exit
     \/ phase' = "exited" /\ error' = TRUE /\ exit' = "error"
  /\ UNCHANGED <<input, said, status, at, changed>>

BuildDagForSelected ==
  /\ phase = "built"
  /\ GoTo("planned") \/ ReturnError
  /\ UNCHANGED <<input, said, status, at, changed, exit>>

\* Validate() may also fail to put the run units together, or to print.
CatchMistakes ==
  /\ phase = "planned"
  /\ \/ MustChoose /\ said' = "choose" /\ ReturnError
     \/ ~MustChoose /\ ~Given("no-validate") /\ ~Valid /\ said' = "invalid" /\ ReturnError
     \/ ~MustChoose /\ (Given("no-validate") \/ Valid) /\ GoTo("checked") /\ UNCHANGED said
     \/ ~MustChoose /\ ~Given("no-validate") /\ ReturnError /\ UNCHANGED said
  /\ UNCHANGED <<input, status, at, changed, exit>>

\* A cluster that is off line is no error.
EstablishConnection ==
  /\ phase = "checked"
  /\ \/ GoTo("executing") /\ status' = [k \in Kapp |-> "waiting"]
     \/ Given("connect") /\ ~DryRun /\ ReturnError /\ UNCHANGED status
  /\ UNCHANGED <<input, said, at, changed, exit>>

-----------------------------------------------------------------------------
\* Workers go on after Execute returned, as long as the process lives.
Receive(k) ==
  /\ phase # "exited" /\ status[k] = "waiting"
  /\ \A d \in Before(k) : status[d] = "reported"
  /\ status' = [status EXCEPT ![k] = "working"]
  /\ UNCHANGED <<input, phase, error, said, at, changed, exit>>

\* The next stage of a kapp, begun or done.
Do(k) ==
  /\ phase # "exited" /\ status[k] = "working"
  /\ \E i \in Ahead(k) :
       /\ \A j \in Ahead(k) : i <= j
       /\ at' = [at EXCEPT ![k] = i]
       /\ changed' = IF DryRun THEN changed ELSE [changed EXCEPT ![k] = @ \cup {Stages[i]}]

\* It succeeds, or its error is ignored.
Pass(k) == Do(k) /\ UNCHANGED <<input, phase, error, said, status, exit>>

\* The caller receives the first error only; others block their workers.
SendError(k, next) ==
  \/ /\ phase = "executing" /\ ReturnError
     /\ status' = [status EXCEPT ![k] = next]
  \/ /\ phase = "closing" /\ UNCHANGED <<phase, error>>
     /\ status' = [status EXCEPT ![k] = "stuck"]

\* A failed action does not keep its kapp from being applied, any other error does.
Fail(k) ==
  /\ ~IgnoreErrors
  /\ Do(k)
  /\ SendError(k, IF Stages[at'[k]] \in {"pre", "post"} THEN "working" ELSE "gaveUp")
  /\ UNCHANGED <<input, said, exit>>

\* Errors in rendering templates or loading outputs are never ignored.
GiveUp(k) ==
  /\ phase # "exited" /\ status[k] = "working"
  /\ SendError(k, "gaveUp")
  /\ UNCHANGED <<input, said, at, changed, exit>>

Report(k) ==
  /\ phase # "exited"
  /\ status[k] = "gaveUp" \/ (status[k] = "working" /\ Ahead(k) = {})
  /\ status' = [status EXCEPT ![k] = "reported"]
  /\ UNCHANGED <<input, phase, error, said, at, changed, exit>>

\* Execute returns nil.
Executed ==
  /\ phase = "executing"
  /\ \A k \in Kapp : status[k] = "reported"
  /\ GoTo("closing")
  /\ UNCHANGED <<input, said, status, at, changed, exit>>

\* A mistaken variant of Close, to show what the properties notice.
CloseOnly ==
  /\ phase = "closing" /\ phase' = "exited" /\ exit' \in {"ok", "error"}
  /\ UNCHANGED <<input, error, said, status, at, changed>>

\* The command's error, or that of closing the connection.
Close ==
  /\ phase = "closing" /\ phase' = "exited"
  /\ exit' = "error" \/ (~error /\ exit' = "ok")
  /\ UNCHANGED <<input, error, said, status, at, changed>>

\* The handler of signals closes the connection and exits.
Interrupt ==
  /\ phase # "exited" /\ phase' = "exited" /\ exit' = "error"
  /\ UNCHANGED <<input, error, said, status, at, changed>>

Worker(k) == Receive(k) \/ Pass(k) \/ Fail(k) \/ GiveUp(k) \/ Report(k)

Next ==
  \/ BuildStack \/ BuildDagForSelected \/ CatchMistakes \/ EstablishConnection
  \/ \E k \in Kapp : Worker(k)
  \/ Executed \/ Close \/ Interrupt

Spec == Init /\ [][Next]_vars

-----------------------------------------------------------------------------
(* Whatever fails, and however long workers go on: only marked kapps are   *)
(* changed, only when the user approved and it is not a dry run, and only  *)
(* if all marked kapps were found valid, unless the user did not want to   *)
(* know.  Planning alone needs no approval.  (install.go:72-85)            *)
NothingUnapproved ==
  \A k \in Kapp :
    /\ changed[k] # {} => k \in marked /\ ~Given("dry-run")
    /\ changed[k] \subseteq {"plan"} \/ Given("yes") \/ Given("one-shot")
    /\ changed[k] # {} /\ ~Given("no-validate") =>
         \A m \in marked : descriptor[m].unique /\ descriptor[m].needs \cap missing = {}

(* No action is left out silently: if a command that was approved succeeds *)
(* and a kapp's actions were not run, the user said so, or chose the other *)
(* kind.  (install.go:301-302: "the user must explicitly choose whether to *)
(* run or skip them")                                                      *)
NoSilentSkip ==
  exit = "ok" /\ Approved /\ ~DryRun =>
    \A k \in marked :
      /\ "pre" \in Actions(k) \ changed[k] => Given("no-actions") \/ Given("run-post-actions")
      /\ "post" \in Actions(k) \ changed[k] => Given("no-actions") \/ Given("run-pre-actions")

(* A command that exits successfully went through every kapp, and did all  *)
(* that was asked: it planned, applied, or both, and ran the actions asked *)
(* for.  (install.go:247-270, :103-118)                                    *)
SuccessMeansDone ==
  exit = "ok" =>
    \A k \in Kapp :
      /\ status[k] = "reported"
      /\ k \in marked /\ ~DryRun =>
           /\ Given("one-shot") \/ ~Given("yes") => "plan" \in changed[k]
           /\ Given("one-shot") \/ Given("yes") => "apply" \in changed[k]
           /\ Approved /\ (Given("run-actions") \/ Given("run-pre-actions")) =>
                Actions(k) \cap {"pre"} \subseteq changed[k]
           /\ Approved /\ (Given("run-actions") \/ Given("run-post-actions")) =>
                Actions(k) \cap {"post"} \subseteq changed[k]

(* Every variable has its type, and no action is left out silently.        *)
CommandInv == TypeOK /\ NoSilentSkip
=============================================================================
