------------------------- MODULE KappsCommandProofs -------------------------
(***************************************************************************)
(* Proofs about KappsCommand for every DAG, all descriptors, flags,        *)
(* programs and selections.                                                *)
(***************************************************************************)
EXTENDS KappsCommand, TLAPS

USE DEF input, vars

\* What has been done to a kapp is what its stages up to the present one are.
Through(k) == {Stages[i] : i \in {j \in 1..4 : j <= at[k] /\ InStage(k, Stages[j])}}
Recorded == \A k \in Kapp : changed[k] = IF DryRun THEN {} ELSE Through(k)

\* Workers are at work only when the mistakes were caught.
Caught ==
  phase \in {"checked", "executing"} \/ (\E k \in Kapp : status[k] # "absent") =>
    ~MustChoose /\ (Given("no-validate") \/ Valid)

Early == {"start", "built", "planned", "checked"}
Started ==
  /\ \A k \in Kapp : phase \in Early => status[k] = "absent"
  /\ \A k \in Kapp : status[k] \in {"absent", "waiting"} => at[k] = 0

\* Without an error every kapp that was reported went through all its stages,
\* and the command does not close the connection before all were.
Complete ==
  /\ ~error => \A k \in Kapp :
       /\ status[k] \notin {"gaveUp", "stuck"}
       /\ status[k] = "reported" => Ahead(k) = {}
  /\ phase = "closing" /\ ~error => \A k \in Kapp : status[k] = "reported"
  /\ exit = "ok" => ~error /\ \A k \in Kapp : status[k] = "reported"

CommandIInv == TypeOK /\ Recorded /\ Caught /\ Started /\ Complete

-----------------------------------------------------------------------------
LEMMA InitCommand == Init => CommandIInv
<1> SUFFICES ASSUME Init PROVE CommandIInv
  OBVIOUS
<1>1. TypeOK
  <2>1. flags \in SUBSET Flag
    <3>1. (IF command = "delete" THEN Flag ELSE Flag \ {"ignore-errors"}) \subseteq Flag
      OBVIOUS
    <3>2. QED
      BY <3>1, Zenon DEF Init
  <2>2. /\ at \in [Kapp -> 0..4] /\ changed \in [Kapp -> SUBSET {"plan", "pre", "apply", "post"}]
        /\ status \in [Kapp -> {"absent", "waiting", "working", "gaveUp", "stuck", "reported"}]
    BY DEF Init
  <2>3. /\ command \in {"install", "delete"} /\ marked \subseteq Kapp
        /\ descriptor \in Descriptors /\ missing \subseteq Binary
    BY Zenon DEF Init
  <2>4. /\ phase = "start" /\ error = FALSE /\ said = "nothing" /\ exit = "running"
    BY Zenon DEF Init
  <2>5. QED
    BY <2>1, <2>2, <2>3, <2>4 DEF TypeOK
<1>2. Recorded
  <2>1. \A k \in Kapp : at[k] = 0 /\ changed[k] = {}
    BY DEF Init
  <2>2. ASSUME NEW k \in Kapp PROVE Through(k) = {}
    <3>1. \A j \in 1..4 : ~(j <= at[k])
      BY <2>1
    <3>2. QED
      BY <3>1 DEF Through
  <2>3. QED
    BY <2>1, <2>2, Zenon DEF Recorded
<1>3. Caught /\ Started /\ Complete
  <2>1. /\ \A k \in Kapp : at[k] = 0 /\ status[k] = "absent"
        /\ phase = "start" /\ exit = "running"
    BY DEF Init
  <2>2. QED
    BY <2>1 DEF Caught, Started, Complete, Early
<1>4. QED
  BY <1>1, <1>2, <1>3 DEF CommandIInv

\* What stages a kapp has depends on the command line and the descriptors only.
LEMMA SameInput ==
  ASSUME UNCHANGED input
  PROVE  /\ MustChoose' = MustChoose /\ Valid' = Valid
         /\ DryRun' = DryRun /\ \A f : Given(f)' = Given(f)
         /\ \A k, s : InStage(k, s)' = InStage(k, s)
  BY DEF MustChoose, Valid, DryRun, Given, InStage, RunActions, HasActions, Actions,
         ProvisionerBinaryExists, BinariesExist, UniqueRunStepNames, ShouldPlan, Approved,
         SkipPreActions, SkipPostActions

LEMMA SamePlace ==
  ASSUME UNCHANGED <<input, at>>
  PROVE  \A k : Ahead(k)' = Ahead(k) /\ Through(k)' = Through(k)
  BY SameInput DEF Ahead, Through

\* A kapp is taken through the first of the stages that are ahead.
LEMMA DoRecords ==
  ASSUME CommandIInv, NEW k \in Kapp, Do(k), UNCHANGED input
  PROVE  /\ at' \in [Kapp -> 0..4] /\ changed' \in [Kapp -> SUBSET {"plan", "pre", "apply", "post"}]
         /\ Recorded'
         /\ \A m \in Kapp \ {k} : at'[m] = at[m] /\ Ahead(m)' = Ahead(m)
<1>1. PICK i \in Ahead(k) :
        /\ \A j \in Ahead(k) : i <= j
        /\ at' = [at EXCEPT ![k] = i]
        /\ changed' = IF DryRun THEN changed ELSE [changed EXCEPT ![k] = @ \cup {Stages[i]}]
  BY DEF Do
<1>2. /\ i \in 1..4 /\ i > at[k] /\ InStage(k, Stages[i])
      /\ \A j \in 1..4 : j > at[k] /\ InStage(k, Stages[j]) => i <= j
      /\ at \in [Kapp -> 0..4]
      /\ changed \in [Kapp -> SUBSET {"plan", "pre", "apply", "post"}]
  BY <1>1 DEF Ahead, CommandIInv, TypeOK
<1>3. \A j \in 1..4 : Stages[j] \in {"plan", "pre", "apply", "post"}
  BY DEF Stages
<1>4. at' \in [Kapp -> 0..4] /\ changed' \in [Kapp -> SUBSET {"plan", "pre", "apply", "post"}]
  BY <1>1, <1>2, <1>3
<1>5. \A m \in Kapp \ {k} : at'[m] = at[m] /\ changed'[m] = changed[m]
  BY <1>1, <1>2
<1>6. \A m \in Kapp \ {k} : Ahead(m)' = Ahead(m) /\ Through(m)' = Through(m)
  BY <1>5, SameInput DEF Ahead, Through
<1>7. Through(k)' = Through(k) \cup {Stages[i]}
  <2>1. at'[k] = i
    BY <1>1, <1>2
  <2>2. \A j \in 1..4 : (j <= i /\ InStage(k, Stages[j])) <=> (j = i \/ (j <= at[k] /\ InStage(k, Stages[j])))
    BY <1>2
  <2>3. QED
    BY <2>1, <2>2, <1>2, SameInput DEF Through
<1>8. Recorded'
  <2> SUFFICES ASSUME NEW m \in Kapp
               PROVE  changed'[m] = IF DryRun' THEN {} ELSE Through(m)'
    BY DEF Recorded
  <2>1. changed[m] = IF DryRun THEN {} ELSE Through(m)
    BY DEF CommandIInv, Recorded
  <2>2. CASE m # k
    BY <2>1, <2>2, <1>5, <1>6, SameInput
  <2>3. CASE m = k
    BY <2>1, <2>3, <1>1, <1>2, <1>7, SameInput
  <2>4. QED
    BY <2>2, <2>3
<1>9. QED
  BY <1>4, <1>5, <1>6, <1>8

\* Facts that hold as long as no kapp goes on to another stage.
LEMMA KeepsRecord ==
  ASSUME CommandIInv, UNCHANGED <<input, at, changed>>
  PROVE  Recorded' /\ \A k : Ahead(k)' = Ahead(k)
<1>1. \A k : Ahead(k)' = Ahead(k) /\ Through(k)' = Through(k)
  BY SamePlace
<1>2. DryRun' = DryRun /\ Recorded
  BY SameInput DEF CommandIInv
<1>3. QED
  BY <1>1, <1>2, Zenon DEF Recorded

\* Before the execution: no kapp is touched.
LEMMA PrepareStep ==
  ASSUME CommandIInv,
         BuildStack \/ BuildDagForSelected \/ CatchMistakes \/ EstablishConnection
  PROVE  CommandIInv'
<1>1. UNCHANGED <<input, at, changed>>
  BY DEF BuildStack, BuildDagForSelected, CatchMistakes, EstablishConnection
<1>2. Recorded' /\ \A k : Ahead(k)' = Ahead(k)
  BY <1>1, KeepsRecord
<1>3. /\ MustChoose' = MustChoose /\ Valid' = Valid
      /\ \A f : Given(f)' = Given(f)
  BY <1>1, SameInput
<1> USE DEF CommandIInv, TypeOK, Early, GoTo, ReturnError
<1>4. CASE BuildStack
  <2>1. TypeOK'
    BY <1>1, <1>4 DEF BuildStack
  <2>2. Caught' /\ Started'
    BY <1>1, <1>4 DEF BuildStack, Caught, Started
  <2>3. Complete'
    BY <1>1, <1>2, <1>4 DEF BuildStack, Complete, Started
  <2>4. QED
    BY <1>2, <2>1, <2>2, <2>3
<1>5. CASE BuildDagForSelected
  <2>1. TypeOK'
    BY <1>1, <1>5 DEF BuildDagForSelected
  <2>2. Caught' /\ Started'
    BY <1>1, <1>5 DEF BuildDagForSelected, Caught, Started
  <2>3. Complete'
    BY <1>1, <1>2, <1>5 DEF BuildDagForSelected, Complete, Started
  <2>4. QED
    BY <1>2, <2>1, <2>2, <2>3
<1>6. CASE CatchMistakes
  <2>1. TypeOK'
    BY <1>1, <1>6 DEF CatchMistakes
  <2>2. Caught'
    <3>1. \A k \in Kapp : status'[k] = "absent"
      BY <1>6 DEF CatchMistakes, Started
    <3>2. phase' = "checked" => ~MustChoose /\ (Given("no-validate") \/ Valid)
      BY <1>6 DEF CatchMistakes
    <3>3. phase' \in {"checked", "closing"}
      BY <1>6 DEF CatchMistakes
    <3>4. QED
      BY <3>1, <3>2, <3>3, <1>3 DEF Caught
  <2>3. Started'
    BY <1>1, <1>6 DEF CatchMistakes, Started
  <2>4. Complete'
    BY <1>1, <1>2, <1>6 DEF CatchMistakes, Complete, Started
  <2>5. QED
    BY <1>2, <2>1, <2>2, <2>3, <2>4
<1>7. CASE EstablishConnection
  <2>1. TypeOK'
    BY <1>1, <1>7 DEF EstablishConnection
  <2>2. Caught'
    BY <1>3, <1>7 DEF EstablishConnection, Caught
  <2>3. Started'
    BY <1>1, <1>7 DEF EstablishConnection, Started
  <2>4. Complete'
    BY <1>1, <1>2, <1>7 DEF EstablishConnection, Complete, Started
  <2>5. QED
    BY <1>2, <2>1, <2>2, <2>3, <2>4
<1>8. QED
  BY <1>4, <1>5, <1>6, <1>7

\* A worker at work means that the command is executing, or has an error.
LEMMA WorkingPhase ==
  ASSUME CommandIInv, NEW k \in Kapp, status[k] \in {"waiting", "working", "gaveUp"}, phase # "exited"
  PROVE  phase = "executing" \/ (phase = "closing" /\ error)
  BY DEF CommandIInv, TypeOK, Started, Early, Complete

LEMMA WorkerStep ==
  ASSUME CommandIInv, NEW k \in Kapp, Worker(k)
  PROVE  CommandIInv'
<1> USE DEF CommandIInv, TypeOK
<1>1. UNCHANGED <<input, said, exit>> /\ phase # "exited"
      /\ status[k] \in {"waiting", "working", "gaveUp"}
  BY DEF Worker, Receive, Pass, Do, Fail, GiveUp, Report
<1>2. phase = "executing" \/ (phase = "closing" /\ error)
  BY <1>1, WorkingPhase
<1>3. Caught'
  BY <1>1, SameInput DEF Caught, Worker, Receive, Pass, Do, Fail, GiveUp, Report, SendError, ReturnError
<1>4. exit = "running"
  BY <1>1
<1>5. CASE Receive(k)
  <2>1. Recorded' /\ \A m : Ahead(m)' = Ahead(m)
    BY <1>5, KeepsRecord DEF Receive
  <2>2. TypeOK' /\ Started'
    BY <1>5, <1>2 DEF Receive, Started, Early
  <2>3. Complete'
    BY <1>5, <1>2, <1>4, <2>1 DEF Receive, Complete
  <2>4. QED
    BY <1>3, <2>1, <2>2, <2>3
<1>6. CASE Pass(k)
  <2>1. /\ at' \in [Kapp -> 0..4] /\ changed' \in [Kapp -> SUBSET {"plan", "pre", "apply", "post"}]
        /\ Recorded'
        /\ \A m \in Kapp \ {k} : at'[m] = at[m] /\ Ahead(m)' = Ahead(m)
    BY <1>6, <1>1, DoRecords DEF Pass
  <2>2. UNCHANGED <<phase, error, status>> /\ status[k] = "working"
    BY <1>6 DEF Pass, Do
  <2>3. TypeOK' /\ Started'
    BY <1>1, <1>2, <2>1, <2>2 DEF Started, Early
  <2>4. Complete'
    BY <1>1, <1>2, <1>4, <2>1, <2>2 DEF Complete
  <2>5. QED
    BY <1>3, <2>1, <2>3, <2>4
<1>7. CASE Fail(k)
  <2>1. /\ at' \in [Kapp -> 0..4] /\ changed' \in [Kapp -> SUBSET {"plan", "pre", "apply", "post"}]
        /\ Recorded'
        /\ \A m \in Kapp \ {k} : at'[m] = at[m] /\ Ahead(m)' = Ahead(m)
    BY <1>7, <1>1, DoRecords DEF Fail
  <2>2. PICK next \in {"working", "gaveUp"} : SendError(k, next)
    BY <1>7 DEF Fail
  <2>3. error' = TRUE /\ phase' = "closing"
    BY <2>2, <1>2 DEF SendError, ReturnError
  <2>4. PICK s \in {"working", "gaveUp", "stuck"} : status' = [status EXCEPT ![k] = s]
    BY <2>2 DEF SendError
  <2>5. TypeOK' /\ Started'
    BY <1>1, <1>4, <2>1, <2>3, <2>4 DEF Started, Early
  <2>6. Complete'
    BY <1>1, <1>4, <2>3 DEF Complete
  <2>7. QED
    BY <1>3, <2>1, <2>5, <2>6
<1>8. CASE GiveUp(k)
  <2>1. Recorded'
    BY <1>8, KeepsRecord DEF GiveUp
  <2>2. error' = TRUE /\ phase' = "closing"
    BY <1>8, <1>2 DEF GiveUp, SendError, ReturnError
  <2>3. PICK s \in {"gaveUp", "stuck"} : status' = [status EXCEPT ![k] = s]
    BY <1>8 DEF GiveUp, SendError
  <2>4. TypeOK' /\ Started'
    BY <1>1, <1>4, <1>8, <2>2, <2>3 DEF GiveUp, Started, Early
  <2>5. Complete'
    BY <1>1, <1>4, <2>2 DEF Complete
  <2>6. QED
    BY <1>3, <2>1, <2>4, <2>5
<1>9. CASE Report(k)
  <2>1. Recorded' /\ \A m : Ahead(m)' = Ahead(m)
    BY <1>9, KeepsRecord DEF Report
  <2>2. TypeOK' /\ Started'
    BY <1>9, <1>2 DEF Report, Started, Early
  <2>3. Complete'
    BY <1>9, <1>2, <1>4, <2>1 DEF Report, Complete
  <2>4. QED
    BY <1>3, <2>1, <2>2, <2>3
<1>10. QED
  BY <1>5, <1>6, <1>7, <1>8, <1>9 DEF Worker

\* The end: Execute returns, the connection is closed, or a signal arrives.
LEMMA EndStep ==
  ASSUME CommandIInv, Executed \/ Close \/ Interrupt
  PROVE  CommandIInv'
<1>1. UNCHANGED <<input, said, status, at, changed>>
  BY DEF Executed, Close, Interrupt
<1>2. Recorded' /\ \A k : Ahead(k)' = Ahead(k)
  BY <1>1, KeepsRecord
<1> USE DEF CommandIInv, TypeOK
<1>3. TypeOK'
  BY <1>1 DEF Executed, Close, Interrupt, GoTo
<1>4. Caught'
  BY <1>1, SameInput DEF Caught, Executed, Close, Interrupt, GoTo
<1>5. Started'
  BY <1>1 DEF Started, Early, Executed, Close, Interrupt, GoTo
<1>6. Complete'
  BY <1>1, <1>2 DEF Complete, Executed, Close, Interrupt, GoTo
<1>7. QED
  BY <1>2, <1>3, <1>4, <1>5, <1>6

LEMMA StutterStep ==
  ASSUME CommandIInv, UNCHANGED vars
  PROVE  CommandIInv'
<1>1. Recorded' /\ \A k : Ahead(k)' = Ahead(k)
  BY KeepsRecord
<1>2. TypeOK' /\ Caught' /\ Started' /\ Complete'
  BY <1>1, SameInput DEF CommandIInv, TypeOK, Caught, Started, Early, Complete
<1>3. QED
  BY <1>1, <1>2 DEF CommandIInv

(* The inductive invariant: what was done to a kapp is what its stages up  *)
(* to the present one are, nobody works before the mistakes were caught,   *)
(* and without an error nothing that was reported is incomplete.           *)
THEOREM CommandInvariant == Spec => []CommandIInv
<1>1. ASSUME CommandIInv, [Next]_vars PROVE CommandIInv'
  BY <1>1, PrepareStep, WorkerStep, EndStep, StutterStep DEF Next
<1>2. QED
  BY <1>1, InitCommand, PTL DEF Spec

-----------------------------------------------------------------------------
\* What is in the record of a kapp was one of its stages.
LEMMA ChangedInStage ==
  ASSUME CommandIInv, NEW k \in Kapp, NEW s \in changed[k]
  PROVE  ~DryRun /\ InStage(k, s) /\ status[k] # "absent"
<1>1. ~DryRun /\ s \in Through(k)
  BY DEF CommandIInv, Recorded
<1>2. PICK j \in 1..4 : s = Stages[j] /\ j <= at[k] /\ InStage(k, Stages[j])
  BY <1>1 DEF Through
<1>3. at[k] # 0
  BY <1>2 DEF CommandIInv, TypeOK
<1>4. QED
  BY <1>1, <1>2, <1>3 DEF CommandIInv, Started

(* Only what the user approved is done, and only to marked kapps, however  *)
(* long workers go on after an error.  (install.go:72-85)                  *)
THEOREM OnlyApproved == Spec => []NothingUnapproved
<1>1. CommandIInv => NothingUnapproved
  <2> SUFFICES ASSUME CommandIInv, NEW k \in Kapp
               PROVE  /\ changed[k] # {} => k \in marked /\ ~Given("dry-run")
                      /\ changed[k] \subseteq {"plan"} \/ Given("yes") \/ Given("one-shot")
                      /\ changed[k] # {} /\ ~Given("no-validate") =>
                           \A m \in marked : descriptor[m].unique /\ descriptor[m].needs \cap missing = {}
    BY DEF NothingUnapproved
  <2>1. \A s \in changed[k] : ~DryRun /\ InStage(k, s) /\ status[k] # "absent"
    BY ChangedInStage
  <2>2. changed[k] # {} => k \in marked /\ ~Given("dry-run")
    BY <2>1 DEF InStage, DryRun
  <2>3. changed[k] \subseteq {"plan"} \/ Given("yes") \/ Given("one-shot")
    BY <2>1 DEF InStage, Approved
  <2>4. changed[k] # {} => Given("no-validate") \/ Valid
    BY <2>1 DEF CommandIInv, Caught
  <2>5. QED
    BY <2>2, <2>3, <2>4 DEF Valid, BinariesExist, UniqueRunStepNames
<1>2. QED
  BY <1>1, CommandInvariant, PTL

\* After a success every stage of a kapp is in its record, if there is one.
LEMMA SuccessRecords ==
  ASSUME CommandIInv, exit = "ok", NEW k \in Kapp
  PROVE  /\ status[k] = "reported"
         /\ ~MustChoose
         /\ ~DryRun => \A s \in {"plan", "pre", "apply", "post"} : InStage(k, s) => s \in changed[k]
<1>1. status[k] = "reported" /\ ~error /\ Ahead(k) = {}
  BY DEF CommandIInv, Complete
<1>2. ~MustChoose
  BY <1>1 DEF CommandIInv, Caught
<1>3. ASSUME ~DryRun, NEW s \in {"plan", "pre", "apply", "post"}, InStage(k, s)
      PROVE  s \in changed[k]
  <2>1. PICK j \in 1..4 : s = Stages[j]
    BY <1>3 DEF Stages
  <2>2. j <= at[k]
    BY <1>1, <1>3, <2>1 DEF Ahead, CommandIInv, TypeOK
  <2>3. s \in Through(k)
    BY <1>3, <2>1, <2>2 DEF Through
  <2>4. QED
    BY <1>3, <2>3 DEF CommandIInv, Recorded
<1>4. QED
  BY <1>1, <1>2, <1>3

(* Every variable has its type, and a command that succeeds leaves no      *)
(* action out that the user did not decline.  (install.go:301-302)         *)
THEOREM NothingSkipped == Spec => []CommandInv
<1>1. CommandIInv => NoSilentSkip
  <2> SUFFICES ASSUME CommandIInv, exit = "ok", Approved, ~DryRun, NEW k \in marked
               PROVE  /\ "pre" \in Actions(k) \ changed[k] => Given("no-actions") \/ Given("run-post-actions")
                      /\ "post" \in Actions(k) \ changed[k] => Given("no-actions") \/ Given("run-pre-actions")
    BY DEF NoSilentSkip
  <2>1. k \in Kapp
    BY DEF CommandIInv, TypeOK
  <2>2. /\ ~MustChoose
        /\ \A s \in {"plan", "pre", "apply", "post"} : InStage(k, s) => s \in changed[k]
    BY <2>1, SuccessRecords
  <2>3. ASSUME "pre" \in Actions(k) \ changed[k] PROVE Given("no-actions") \/ Given("run-post-actions")
    BY <2>2, <2>3 DEF InStage, SkipPreActions, MustChoose, HasActions
  <2>4. ASSUME "post" \in Actions(k) \ changed[k] PROVE Given("no-actions") \/ Given("run-pre-actions")
    BY <2>2, <2>4 DEF InStage, SkipPostActions, MustChoose, HasActions
  <2>5. QED
    BY <2>3, <2>4
<1>2. CommandIInv => CommandInv
  BY <1>1 DEF CommandInv, CommandIInv
<1>3. QED
  BY <1>2, CommandInvariant, PTL

(* Success means that every kapp was planned, applied or both, and the     *)
(* actions asked for were run.  (install.go:247-270, :103-118)             *)
THEOREM SuccessIsDone == Spec => []SuccessMeansDone
<1>1. CommandIInv => SuccessMeansDone
  <2> SUFFICES ASSUME CommandIInv, exit = "ok", NEW k \in Kapp
               PROVE  /\ status[k] = "reported"
                      /\ k \in marked /\ ~DryRun =>
                           /\ Given("one-shot") \/ ~Given("yes") => "plan" \in changed[k]
                           /\ Given("one-shot") \/ Given("yes") => "apply" \in changed[k]
                           /\ Approved /\ (Given("run-actions") \/ Given("run-pre-actions")) =>
                                Actions(k) \cap {"pre"} \subseteq changed[k]
                           /\ Approved /\ (Given("run-actions") \/ Given("run-post-actions")) =>
                                Actions(k) \cap {"post"} \subseteq changed[k]
    BY DEF SuccessMeansDone
  <2>1. status[k] = "reported"
    BY SuccessRecords
  <2>2. SUFFICES ASSUME k \in marked, ~DryRun
                 PROVE  /\ Given("one-shot") \/ ~Given("yes") => "plan" \in changed[k]
                        /\ Given("one-shot") \/ Given("yes") => "apply" \in changed[k]
                        /\ Approved /\ (Given("run-actions") \/ Given("run-pre-actions")) =>
                             Actions(k) \cap {"pre"} \subseteq changed[k]
                        /\ Approved /\ (Given("run-actions") \/ Given("run-post-actions")) =>
                             Actions(k) \cap {"post"} \subseteq changed[k]
    BY <2>1
  <2>3. \A s \in {"plan", "pre", "apply", "post"} : InStage(k, s) => s \in changed[k]
    BY <2>2, SuccessRecords
  <2>4. /\ ShouldPlan => InStage(k, "plan")
        /\ Approved => InStage(k, "apply")
    BY <2>2 DEF InStage
  <2>5. /\ Approved /\ "pre" \in Actions(k) /\ (Given("run-actions") \/ Given("run-pre-actions")) => InStage(k, "pre")
        /\ Approved /\ "post" \in Actions(k) /\ (Given("run-actions") \/ Given("run-post-actions")) => InStage(k, "post")
    BY <2>2 DEF InStage, SkipPreActions, SkipPostActions, RunActions
  <2>6. QED
    BY <2>3, <2>4, <2>5 DEF ShouldPlan, Approved
<1>2. QED
  BY <1>1, CommandInvariant, PTL
=============================================================================
