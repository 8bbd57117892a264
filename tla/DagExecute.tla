----------------------------- MODULE DagExecute ------------------------------
(***************************************************************************)
(* Executing an action on the DAG (plan/executor.go): the pool of workers, *)
(* the stages each of them takes a kapp through, the unbuffered errCh, and *)
(* the caller, which returns the first error it receives or nil once       *)
(* finishedCh is closed.                                                   *)
(*                                                                         *)
(* A stage is a group of calls that fail alike; what it does to the kapp   *)
(* is abstracted to whether it succeeds.  Any stage may fail, if only in   *)
(* printing.  After a return with an error the other goroutines go on      *)
(* until the process ends.                                                 *)
(***************************************************************************)
EXTENDS DagWalk

CONSTANT Commands  \* the commands that may be executed

\* A DAG action ("init" is initLocalRegistries), the nodes marked for
\* processing, those whose conditions all hold, and the options.
Command == [action : {"install", "delete", "clean", "output", "template", "init", "vars"},
            marked : SUBSET Node, valid : SUBSET Node,
            plan : BOOLEAN, approved : BOOLEAN, runPre : BOOLEAN, runPost : BOOLEAN,
            ignoreErrors : BOOLEAN]

ASSUME CommandsAssumption == Commands \subseteq Command
ASSUME ActionDirection == \A c \in Commands : Down <=> c.action # "delete"

VARIABLES
  command,         \* the one that is executed
  mainPc,          \* the caller of Execute
  pos,             \* stages each worker has taken its node through
  erring,          \* what a worker does after the error it is sending
  leaving,         \* workers that return after their report
  applied,         \* nodes the action was applied to without an error
  excused,         \* nodes with a failure that --ignore-errors let pass
  failed           \* nodes with a failure that was not ignored

executorVars == <<command, mainPc, pos, erring, leaving, applied, excused, failed>>
executeVars == <<vars, executorVars>>

ExecuteTypeOK ==
  /\ command \in Commands
  /\ mainPc \in {"waiting", "succeeded", "failed"}
  /\ pos \in [Worker -> Nat]
  /\ erring \in [Worker -> {"none", "resume", "return", "stop"}]
  /\ leaving \subseteq Worker
  /\ applied \subseteq Node
  /\ excused \subseteq Node
  /\ failed \subseteq Node

-----------------------------------------------------------------------------
(* The stages of a node *)

When(condition, stage) == IF condition THEN <<stage>> ELSE <<>>

\* installOrDelete().  Actions that are not to be run are announced instead.
InstallOrDelete(marked) ==
  <<"render">>
    \o When(marked /\ command.plan, "plan")
    \o When(marked /\ command.approved, "pre")
    \o When(marked /\ command.approved, "apply")
    \o <<"finish">>
    \o When(marked /\ command.approved, "post")

\* The cases of worker() for the actions that are not installing or deleting.
CleanOrOutput(marked) == IF marked THEN <<"describe", "apply">> ELSE <<>>
Template(marked) ==
  When(marked, "template") \o <<"describe", "outputs", "register">> \o When(marked, "apply")

\* registryWorker() and varsWorker()
InitRegistry == <<"describe", "outputs", "register">>
PrintVars == <<"describe">>

Script(n) ==
  LET marked == n \in command.marked IN
  When(command.action # "vars", "parents") \o <<"prepare">> \o
  CASE command.action \in {"install", "delete"} -> InstallOrDelete(marked)
    [] command.action \in {"clean", "output"} -> CleanOrOutput(marked)
    [] command.action = "template" -> Template(marked)
    [] command.action = "init" -> InitRegistry
    [] command.action = "vars" -> PrintVars

\* All workers but the one that prints variables look at the conditions.
Skipped(n) == n \notin command.valid /\ command.action # "vars"

\* Nodes the action is to be applied to.
Selected == {n \in Node : ~Skipped(n) /\ "apply" \in ToSet(Script(n))}

\* Stages in which pre or post actions are run.
RunsActions(stage) == (stage = "pre" /\ command.runPre) \/ (stage = "post" /\ command.runPost)

\* After sending an error a worker goes on with the next stage, returns
\* from installOrDelete and reports the node, or returns altogether.
AfterError(stage) ==
  IF stage = "parents" \/ RunsActions(stage) THEN "resume"
  ELSE IF command.action \in {"install", "delete"} /\ stage # "prepare" THEN "return"
  ELSE "stop"

\* Failures that --ignore-errors lets pass, of run steps, actions or their
\* preparation; the worker goes on ...
Ignored(stage) ==
  /\ command.ignoreErrors
  /\ command.action \in {"install", "delete", "clean", "output"}
  /\ stage \in {"plan", "apply"} \/ RunsActions(stage)

\* ... or, while templating, reports the node and returns.
IgnoredLast(stage) ==
  /\ command.ignoreErrors
  /\ command.action = "template"
  /\ stage \in {"template", "outputs", "apply"}

-----------------------------------------------------------------------------
ExecuteInit ==
  /\ Init
  /\ command \in Commands
  /\ mainPc = "waiting"
  /\ pos = [w \in Worker |-> 0]
  /\ erring = [w \in Worker |-> "none"]
  /\ leaving = {}
  /\ applied = {}
  /\ excused = {}
  /\ failed = {}

\* Receive a node from processCh.
Receive(w) ==
  /\ Take(w)
  /\ pos' = [pos EXCEPT ![w] = 0]
  /\ UNCHANGED <<command, mainPc, erring, leaving, applied, excused, failed>>

\* A mistaken variant of SkipInvalid, to show what the properties notice.
SkipUnreported(w) ==
  /\ Skipped(held[w])
  /\ Abandon(w)
  /\ UNCHANGED <<command, mainPc, pos, erring, leaving, applied, excused, failed>>

\* The node's conditions failed: report it, and return.
SkipInvalid(w) ==
  /\ Skipped(held[w])
  /\ Work(w)
  /\ leaving' = leaving \cup {w}
  /\ UNCHANGED <<command, mainPc, pos, erring, applied, excused, failed>>

\* Worker w is about to take its node through `stage`.
At(w, stage) ==
  /\ workerPc[w] = "busy"
  /\ ~Skipped(held[w])
  /\ erring[w] = "none"
  /\ pos[w] < Len(Script(held[w]))
  /\ stage = Script(held[w])[pos[w] + 1]

Advance(w, stage) ==
  /\ pos' = [pos EXCEPT ![w] = @ + 1]
  /\ applied' = IF stage = "apply" THEN applied \cup {held[w]} ELSE applied

\* The stage succeeds.
PassStage(w, stage) ==
  /\ At(w, stage)
  /\ Advance(w, stage)
  /\ UNCHANGED <<vars, command, mainPc, erring, leaving, excused, failed>>

\* The stage fails with --ignore-errors, and the worker goes on.
IgnoreFailure(w, stage) ==
  /\ At(w, stage)
  /\ Ignored(stage)
  /\ pos' = [pos EXCEPT ![w] = @ + 1]
  /\ excused' = excused \cup {held[w]}
  /\ UNCHANGED <<vars, command, mainPc, erring, leaving, applied, failed>>

\* Templating fails with --ignore-errors: report the node, and return.
GiveUp(w, stage) ==
  /\ At(w, stage)
  /\ IgnoredLast(stage)
  /\ Work(w)
  /\ leaving' = leaving \cup {w}
  /\ excused' = excused \cup {held[w]}
  /\ UNCHANGED <<command, mainPc, pos, erring, applied, failed>>

\* A mistaken variant of FailStage, to show what the properties notice.
FailUnsent(w, stage) ==
  /\ At(w, stage)
  /\ ~IgnoredLast(stage)
  /\ failed' = failed \cup {held[w]}
  /\ Advance(w, stage)
  /\ UNCHANGED <<vars, command, mainPc, erring, leaving, excused>>

\* The stage fails: the worker starts to send the error on errCh.  Where
\* failures are ignored, one of printing still is an error.
FailStage(w, stage) ==
  /\ At(w, stage)
  /\ ~IgnoredLast(stage)
  /\ erring' = [erring EXCEPT ![w] = AfterError(stage)]
  /\ failed' = failed \cup {held[w]}
  /\ UNCHANGED <<vars, command, mainPc, pos, leaving, applied, excused>>

\* A mistaken variant of SendError, to show what the properties notice.
SendBuffered(w) ==
  /\ erring' = [erring EXCEPT ![w] = "none"]
  /\ \/ /\ erring[w] = "resume"
        /\ pos' = [pos EXCEPT ![w] = @ + 1]
        /\ UNCHANGED vars
     \/ erring[w] = "return" /\ Work(w) /\ UNCHANGED pos
     \/ erring[w] = "stop" /\ Abandon(w) /\ UNCHANGED pos
  /\ UNCHANGED <<command, mainPc, leaving, applied, excused, failed>>

\* The caller receives the error and returns it; nobody receives another.
SendError(w) ==
  /\ mainPc = "waiting"
  /\ mainPc' = "failed"
  /\ erring' = [erring EXCEPT ![w] = "none"]
  /\ \/ /\ erring[w] = "resume"
        /\ pos' = [pos EXCEPT ![w] = @ + 1]
        /\ UNCHANGED vars
     \/ erring[w] = "return" /\ Work(w) /\ UNCHANGED pos
     \/ erring[w] = "stop" /\ Abandon(w) /\ UNCHANGED pos
  /\ UNCHANGED <<command, leaving, applied, excused, failed>>

\* A mistaken variant of Finish, to show what the properties notice.
FinishUnreported(w) ==
  /\ erring[w] = "none"
  /\ workerPc[w] = "busy" /\ ~Skipped(held[w])
  /\ pos[w] = Len(Script(held[w]))
  /\ workerPc' = [workerPc EXCEPT ![w] = "idle"]
  /\ held' = [held EXCEPT ![w] = NoNode]
  /\ UNCHANGED <<walkerVars, channelVars, executorVars>>

\* The node is through all stages; the worker is about to report it.
Finish(w) ==
  /\ erring[w] = "none"
  /\ held[w] \in Node /\ ~Skipped(held[w])
  /\ pos[w] = Len(Script(held[w]))
  /\ Work(w)
  /\ UNCHANGED executorVars

\* `doneCh <- node`, with or without a return after it.
ReportNode(w) ==
  /\ Report(w, IF w \in leaving THEN "stopped" ELSE "idle")
  /\ UNCHANGED executorVars

EndOfRange(w) == Leave(w) /\ UNCHANGED executorVars

Stage == {"parents", "prepare", "render", "plan", "pre", "apply", "finish", "post",
          "describe", "template", "outputs", "register"}

WorkOn(w) ==
  \/ SkipInvalid(w)
  \/ Finish(w)
  \/ \E stage \in Stage :
       PassStage(w, stage) \/ IgnoreFailure(w, stage) \/ GiveUp(w, stage) \/ FailStage(w, stage)

\* `<-finishedCh` in the caller's select.
ReturnNil ==
  /\ mainPc = "waiting"
  /\ "finishedCh" \in closed
  /\ mainPc' = "succeeded"
  /\ UNCHANGED <<vars, command, pos, erring, leaving, applied, excused, failed>>

WalkerStep == Walker /\ UNCHANGED executorVars

ExecutorStep(w) == Receive(w) \/ WorkOn(w) \/ SendError(w) \/ ReportNode(w) \/ EndOfRange(w)

ExecuteNext ==
  /\ ~fatal
  /\ \/ WalkerStep
     \/ \E w \in Worker : ExecutorStep(w)
     \/ ReturnNil

ExecuteSpec == ExecuteInit /\ [][ExecuteNext]_executeVars

(***************************************************************************)
(* Every goroutine that can go on does, every stage ends, and a select     *)
(* does not ignore a ready case for ever, as in DagPrint.                  *)
(***************************************************************************)
Going(A) == ~fatal /\ A

Fairness ==
  /\ \A s \in Scanner : WF_executeVars(Going(Scan(s) /\ UNCHANGED executorVars))
  /\ WF_executeVars(Going((RecordFinished \/ SelectAgain) /\ UNCHANGED executorVars))
  /\ SF_executeVars(Going(Initialise /\ UNCHANGED executorVars))
  /\ \A w \in Worker :
       /\ WF_executeVars(Going(Receive(w) \/ WorkOn(w) \/ EndOfRange(w)))
       /\ WF_executeVars(Going(SendError(w)))
       /\ SF_executeVars(Going(ReportNode(w)))
  /\ WF_executeVars(Going(ReturnNil))

FairExecuteSpec == ExecuteSpec /\ Fairness

-----------------------------------------------------------------------------
(* A nil error means what it says: no failure was dropped, and the action  *)
(* was applied to every selected kapp, but for those with a failure that   *)
(* --ignore-errors let pass; although an error travels over another        *)
(* channel than the reports that end the walk, and the caller's select may *)
(* choose either.                                                          *)
SuccessMeansApplied ==
  mainPc = "succeeded" =>
    /\ failed = {}
    /\ \A n \in Selected : n \in applied \/ (command.ignoreErrors /\ n \in excused)

(* Until the caller has an error, nothing is done to a kapp, be it in vain, *)
(* before the selected kapps it depends on were applied without a failure,  *)
(* or with one that --ignore-errors let pass: a worker reports a failed     *)
(* kapp as done, which makes its dependents eligible, but only after the    *)
(* caller has received the error.                                           *)
AppliedInOrder ==
  mainPc # "failed" =>
    \A n \in applied \cup excused \cup failed : \A d \in Dependencies(n) \cap Selected :
      d \notin failed /\ (d \in applied \/ (command.ignoreErrors /\ d \in excused))

(* Execute returns.  It does not always: each kapp whose conditions failed *)
(* takes a worker away, and with none left the rest of the DAG waits for   *)
(* ever (run execute_starved, after CHANGELOG.md:3).                       *)
ExecuteReturns == <>(fatal \/ mainPc # "waiting")

(* That is the only way to wait for ever: Execute returns unless all its   *)
(* workers have, after kapps whose conditions failed or whose templating   *)
(* did.  No channel, no error sent to nobody and no early end of the range *)
(* loops stops it otherwise.                                               *)
ReturnsWhileServed ==
  <>(\/ fatal \/ mainPc # "waiting"
     \/ \A w \in Worker : workerPc[w] = "stopped")

(* The workers use the channels as the walk assumes, so that what is       *)
(* proved of the walk holds of it with these workers.                      *)
WalkWithWorkers == Spec
=============================================================================
