# A verification of sugarkube's core

Sugarkube installs *kapps* (Helm charts, Terraform code, ...) into Kubernetes
clusters. It reads a stack with manifests of kapps, caches their sources in a
workspace, launches the cluster, builds a DAG from the kapps' dependencies, and
walks it with a pool of goroutines that install, delete, template or clean each
kapp. This directory holds TLA+ models of that core, TLC configurations that
check them on small instances, and proofs, checked by TLAPS, that hold for all
of them. Paths below are relative to `src/internal/pkg/`.

## 1. Inventory

| Part | State it keeps | Operations | Interacts through |
|---|---|---|---|
| DAG construction (`plan/manifests.go`, `plan/dag.go:79-385`, `:730-764`) | graph, table of `NamedNode` copies | `findDependencies`, `build`, `addNode`, `subGraph`, `addAncestors` | reads stack and descriptors; its graph is what is walked |
| DAG walk (`plan/dag.go:388-726`) | status map, mutex, `channelsClosed`, three channels | loop goroutine, `processEligibleNodes`, closing, `Print`, `Visualise` | `processCh`/`doneCh` with workers, `finishedCh` with the caller |
| DAG execution (`plan/executor.go`) | pool of workers, `errCh` | `Execute`, `ExecuteGetVars`, `initLocalRegistries`, the three workers, `installOrDelete` | the walk's channels; registries; run steps; provisioner |
| Registries (`registry/`, `plan/executor.go:955-1198`) | nested maps: one per kapp, one per stack | `Set`, `Get`, `Delete`, `addParentRegistries`, `addOutputsToRegistry` | shared between workers |
| Run steps (`installer/`, `plan/executor.go:747-952`) | list of steps, an index into it | merging run units, resolving calls, sorting, executing, reloading outputs | external commands, the kapp's outputs |
| Descriptors (`installable/kapp.go`, `stack/manifest.go:40-140`) | layers, merged descriptor | `AddDescriptor`, `LoadConfigFile`, `TemplateDescriptor`, `RenderTemplates`, `GetOutputs` | decides what run steps, registries and the workspace do |
| Workspace (`cacher/`, `acquirer/`) | directories, checkouts and links on disk | `CacheManifest`, `acquireSources`, git `clone`/`update` | goroutine per source, `doneCh`/`errCh` |
| Cluster (`provisioner/`, `clustersot/`, `stack/clusterstatus.go`, `cmd/cli/cluster/`) | cached status, SSH tunnel | create, update, delete, wait until online and ready, connect, close | external commands, timeouts; actions of concurrent workers |
| Providers and variables (`provider/`, `vars/`, `utils/precedence_walk.go`) | the provider's list of files, the stack's variables | search, merge, `AddVarsPath`, `RefreshProviderVars` | written by workers, read by every template |
| Commands (`cmd/cli/kapps`, `cmd/cli/cluster`, `cmd/cli/workspace`) | flags | planning, approval, validation, choice of actions, exit, signals | call all of the above in order |
| Selection, parsing, templating (`stack/`, `templater/`) | none, or what the file says | selectors, reading stacks, rendering text | inputs of the above |
| Rest (`log`, `printer`, `convert`, `utils`, `kappsot`, ...) | none | I/O | |

**What is hard.** (1) The walk: goroutines decide from copies of a map that is
stale the moment it is copied, over channels whose capacity may be smaller than
the DAG, and one of many goroutines must close the channels exactly once.
(2) Errors: they travel over another channel than completion, are received at
most once, and a failed kapp is still reported as processed. (3) Workers that
return early. (4) Graph nodes are structs copied by value. (5) The workspace
outlives failed and killed runs. (6) Registries, variables, the provisioner and
the picture that `Visualise` draws are shared between workers, mostly without a
lock. (7) Clusters come online late, are half configured, or sit behind a
tunnel. (8) A list of steps is computed again while it is iterated.
(9) Layers of descriptors are added above and below each other at different
times, and a library merges them otherwise than the code would like.
`PROJECT.json` lists each hazard with its line.

**What makes each part correct.** Construction: exactly the selected kapps
and their ancestors with all dependencies among them; marked means asked for
and valid; cycles refused. Walk: each node once, after its dependencies, the
end announced once, no panic, no lost wakeup, it ends. Execution: success
means that everything selected was applied, but for failures that the user asked
to ignore; nothing is applied before what it depends on; it returns. Registries: a kapp sees the outputs of its ancestors, and
short names only within its manifest. Run steps: the steps that the units
define, each once, by priority; success means no failure. Descriptors: each
field from the file of highest precedence. Workspace: success means
everything is there; the user's work survives. Cluster: no success before the
cluster is ready, no launch without its configuration, no call without its tunnel,
nothing changed by a dry run. Variables: every file once, overridden in order,
and there for those that come later. Commands: nothing done that was not
approved, nothing left out in silence.

## 2. Modules

| Module | Models | Composed with |
|---|---|---|
| `DagSchedule` | what the walk promises its users | abstract: no goroutine, lock or channel |
| `DagWalk`, `DagWalkInv` | `walk`, `processEligibleNodes`, `allDone`, `dependenciesSatisfied`, and any workers; the inductive invariant | implements `DagSchedule` |
| `DagPrint` | `Dag.Print` | extends `DagWalk` |
| `DagVisualise` | `Dag.Visualise` | extends `DagWalk` |
| `DagExecute` | `Execute`, `ExecuteGetVars`, `initLocalRegistries`, the three workers, `installOrDelete` | extends `DagWalk` |
| `DagBuild` | `findDependencies` to `addAncestors` | its result is the `Edge`, `Marked` and `Valid` of the others |
| `AcquireSources` | `CacheManifest`, `acquireSources`, git and file acquirers | several runs over one disk |
| `KappRegistry` | registries, and the part of the executor that fills them | workers of `DagSchedule`, down and up |
| `RunSteps` | `rununit.go`, `executeRunSteps` | one kapp's `steps` stage of the others |
| `ClusterLifecycle` | create, update, delete, four provisioners, waits, tunnel | the CLI's goroutine, or several workers |
| `KappDescriptor` | layers and templates of a kapp | one kapp |
| `VarsFiles` | search for files of variables | pure functions and the walk over them |
| `ProviderVars` | creating a stack's variables, and adding to them | extends `VarsFiles`; workers of `DagSchedule` |
| `KappsCommand` | `kapps install` and `kapps delete` | `Execute` by its contract, as `DagExecute` shows it |
| `Filtering` | filtering a sequence by a set, in a form the prover can expand | used by `RunSteps`, `VarsFiles` |
| `SequenceFacts` | lemmas: induction, recursion, sequences laid end to end, filtered and sorted | used by the proofs of `ProviderVars`, `RunSteps`, `KappDescriptor` |
| `DagWalkProofs` | proofs about `DagWalk`, `DagVisualise`, `DagExecute` | section 5 |
| `DagBuildProofs`, `ClusterLifecycleProofs`, `KappsCommandProofs` | proofs about the model of that name | section 5 |
| `KappProofs` | proofs about `AcquireSources` and `KappRegistry` | section 5 |
| `ProviderVarsProofs` | proofs about `VarsFiles` and `ProviderVars` | section 5 |
| `InstallProofs` | proofs about `RunSteps` and `KappDescriptor` | section 5 |
| `MC...` | instances for TLC | |

An operator whose comment calls it a mistaken variant stands for a bug that
somebody might make there; it belongs to no specification, and the properties
notice each of them. Where two models have proofs in one module, the names of
one are prefixed (`AcquireSpec`, `DescriptorSpec`, `ProviderSpec`).

### DagWalk
A goroutine that scans the nodes is spawned for the initial pass (`Boot`) and
for every finished node, so it is named after that node. `scanPc`, `todo` and
`target` are its local state: of its copy of the status map it only uses which
nodes are unprocessed with finished dependencies, so `todo` holds these
(`CopyStatuses`), and the map's order is a free choice (`LockNext`). A critical
section of the mutex is one step. Only the one that claims a node
(`dag.go:533-549`) is two, lock and then write and unlock, because the loop
reads the map without the lock (`:445`, `:476`): `MapRace` is the overlap of
such a read with the write, and `MapFault` lets Go's runtime abort the program
there, as it may. Closing the three channels is three steps and the flag
`channelsClosed` is read and written without synchronisation, as in the code.
Receiving from a closed channel is `ReceiveClosed`. A channel of capacity 0 is
a rendezvous (`ReportDirectly`), otherwise a buffer. Workers are left general:
they may report or not, and return after a report or not, so that what holds of
the walk holds with any of the code's workers.

### DagPrint, DagVisualise, DagExecute
`DagPrint` adds the caller of `Print` and workers that always report.
`DagVisualise` adds workers that append to one list: an append is a read and a
write, which overlap unless the mutex is held, as it is for arrows and boxes
(`dag.go:654-663`) but not for colours (`:645-648`). `callerPc` is where the
caller of `Visualise` is.
`DagExecute` takes a node through a *script* of stages that depends on the
action, the options and whether the node is marked. A stage is a group of calls
with the same error handling: after sending an error the worker goes on
(`resume`), leaves `installOrDelete` and reports the node (`return`), or
returns from the goroutine (`stop`). With `--ignore-errors` a failure is let
pass, and the worker goes on (`IgnoreFailure`) or, while templating, reports the
kapp and returns (`GiveUp`); such a kapp is `excused`, and `applied` only has those
that a stage was passed for without an error. Printing may fail in any case, which
is an error even then. What a stage does to a kapp is reduced to succeeding or
failing, and any stage may fail; its substance is in `KappRegistry`, `RunSteps`,
`ProviderVars` and `ClusterLifecycle`. A node whose conditions failed is
reported, after which the worker returns, as the code does. The two walks of a
delete are two instances, of `"init"` and of `"delete"`.

### DagBuild
`table` is `ogNodesByName`, `graph` the copies stored in the output graph, and
a frame of `stack` a call of `addAncestors` with the copy in its local
variable. The selection is added in manifest order (`IsFirst`). Assumption about
a library: gonum (the version in `go.mod`) replaces both endpoints stored in a
graph by those of an edge passed to `SetEdge`. The code depends on this
(`dag.go:332-336` would be dead otherwise). The inputs (dependencies,
sequential manifests, selection, conditions, option) are all enumerated.
Evaluation of conditions is not repeated in `subGraph`, as it succeeded in
`build`.

### AcquireSources
A checkout is `absent`, `begun` (the directory exists, but no branch),
`checkedOut` or on the user's `otherBranch`; the git commands of `clone` after
the directory was made are one step that succeeds or leaves it `begun`. They
have timeouts, so each ends. `content` says whether the path that the source
names exists in the checkout, which a clone or pull may change. A file source
is only looked for (`AcquireFile`), which may fail; that it is missing is noticed
by the link. Kapps are handled one after the other (`IsCurrent`). A process may
be killed at any step.

### KappRegistry
`local` is each kapp's registry, `draft` the one being merged from its parents,
`stackRef` and `stackMaps` the shared one, whose inner map may be created twice.
An output has parts: the keys of a map, or the whole of anything else, and each
part tells whose it is and which load it is of. `Put` is what `nestedMap` does
with one: a map is merged key by key into the one that is there, anything else
replaces what is there, and where a map meets something else the code's assertion
panics (`Clashes`, `registry.go:133`). That may happen in a local
registry (`Panics`), among parents with one ID (`Unmergeable`), and in the stack's
registry (`PanicInStack`). `MergeParent` is one round of the loop of
`addParentRegistries`, in any order of parents, including the stripping of
short keys (`Merged`); `Register` sets the three keys of an output as
`addOutputsToRegistry` does. A kapp has one output, which run steps may load
early. Writing the stack's registry is a look-up of the inner map and a store
in it, so that two workers may both find it missing, or write one at once, when
either may be lost; `StackRace` is their overlap, `raced` has the kapps
that stored their output while another worker was storing one, and
`StackFault` is the runtime noticing concurrent writes.

### RunSteps
`mergeRunUnits` puts together the steps of all units whose conditions hold,
replaces calls round by round up to `MaxRecursions` (5, as in the code), then
sorts by priority. The units are in a Go map, and every loop over it has an
order of its own: that of `mergeRunUnits`, and one for every single call that is
looked up (`rununit.go:55`, `:92`). So a step may stand for any of several lists
(`Replacements`), a list for what these can be joined to (`Concatenations`), and
a computation has a set of results, of which the code gets one (`Merges`). A call
that cannot be resolved stays one, and a call in the final list is the code's
error. The rounds and the sort are recursive functions, which both TLC and the
prover can read. The sort is stable, as Go's `sort.Slice` is for lists that it
sorts by insertion (up to 6 steps, with later versions of Go 12); for longer
ones ties may come in another order. `visited` records the steps that the
iteration came to. Conditions or arguments that cannot be parsed end it
(`FailParsing`). A step runs its command, writes stdout and stderr to files, and may
have the list computed again while the index stays (`StepLoadsOutputs`);
`kept` says whether each new list agreed with the old one so far.

### ClusterLifecycle
An actor runs one command; `task` and `at` are where it is, one external command
per step. `cluster` is the real cluster, `patched` which parts of the kops
configuration have been replaced, `isOnline`/`isReady` the cached answers,
`tunneller` the goroutine that starts ssh (`kops.go:779`), which outlives its
caller. Any command may fail, the cluster comes up whenever it likes, ssh may
die, and both timeouts may come at any time while their loop is waiting.
`Close` is only modelled after the actors have ended.

### KappDescriptor
A layer is a relation of entries, fields and the files that give them, so that
"which file wins" is directly visible. `Fill` is the propagation by hand of
`AddDescriptor`, from layer to layer in `Propagate`; `mergeDescriptorLayers` is
mergo, for which of each entry only the last layer counts that has it. The
documented order of precedence (`Precedence`) is stated independently of the
steps that add the layers, and what the kapp requires may be a program nobody
has defaults for. The steps follow
`instantiateInstallables`, `LoadConfigFile` and `findDependencies`, then the
rendering of templates, which may fail, and loading of outputs in any order the
executor has.
Conditions change with the data (`ConditionsChange`).

### VarsFiles, ProviderVars
A path is a sequence of names with kinds, and a tree a set of paths with all
that is above them (`TreesAssumption`). `applyPrecedence` is the passes over a
directory's entries, `pending` the frames of `walk`. `ProviderVars` continues
with the files found: `LoadStack` is the end of `newStack`, after which workers
may add. Appending to the provider's list and loading it are two steps each,
since nothing makes them atomic; `raced` says that two have overlapped.

### KappsCommand
`phase` is the place in the command's `run`, `status` and `at` where the workers
are with each kapp, `changed` what has been done to it. `InStage` derives the
stages of a kapp (plan, pre actions, apply, post actions) from the flags the way
`install.go:193-270`, `delete.go` and `installOrDelete` do. Workers go on after
the caller was given an error, until the process has exited.

## 3. Runs

| Run | Instance | Shows |
|---|---|---|
| `visualise` | a diamond, two workers, capacities 2, all or all but one node marked | invariant of section 5; one place per running node; no panic on a channel; no lost wakeup; refinement of `DagSchedule`; no arrow lost when all are marked |
| `print_live` | four nodes, one worker, both capacities 1 | `Print` returns and its goroutines end, though the DAG is larger than the channels |
| `execute` | two roots and a common child, two workers, `doneCh` unbuffered; install with a root whose conditions failed, or template or clean with `--ignore-errors` | success and order of application, under errors in any stage; the workers keep to what the walk assumes; `Execute` returns while a worker is left |
| `execute_starved` | one worker, one kapp whose conditions failed | section 4 |
| `build` | three kapps in two manifests, every input | ancestry, marking, copies, acyclicity, termination |
| `acquire` | two kapps, two git sources and a file, two runs | success means linked; work is not lost; the command ends |
| `registry` | four kapps (one is needed by two, which share a short ID, and another needs both) in two manifests, one with a map of up to two keys as output, every action | ancestors' outputs are seen; short names stay home; only races lose outputs |
| `run_steps` | two units, two phases, chains of calls of length 4 and 5, cycles, one step called twice | the list is one the units define; steps run once unless the list changed under them; nil means no failure |
| `cluster` | kops with and without bastion, EKS, Minikube, none; every command from every state of the cluster; pairs of workers | success means ready; launched means patched; tunnel first; dry runs change nothing; every command ends |
| `descriptor` | up to four files that give a field, two programs | precedence; the path of a rendered template stays known |
| `provider_vars` | trees of up to 15 paths in two directories, a name repeated; four kapps that add four files; at most one file or directory unreadable | exactly the files meant, in the order meant; later kapps see them |
| `kapps_command` | two kapps, every set of flags, two programs | approval, choice of actions, success |

**Bounds.** A diamond has a node with two parents and one with two children,
which takes both kinds of race: two goroutines that see one node eligible, and
one node whose last dependency finishes behind a scan. Four nodes exceed the
channels in `print_live`, so that every send can block. Two workers suffice for
every interaction between workers, as they only meet at the channels and in
shared variables of which each access has two steps at most; one worker is the
smallest pool. Three kapps give `DagBuild` cycles of length one to three,
several paths to one ancestor (c-b-a with c-a) and a selected ancestor. Two
runs of `acquire` are what it takes to find the remains of another one
(`MaxRuns`). In `registry`, one short ID used in two manifests is what short
names can be confused by. `MaxRecursions` is the code's own constant, met
from both sides. `SshMaxTries` is 2 where the code has 5, so that trying
again and giving up both happen. `MaxRenders` is 2, since a third
rendering adds a layer like the second. Two directories deep is where the order
of files and directories first matters.
`CHECK_DEADLOCK FALSE` is set where the system stops by design: when the program
ends or was aborted, and when an error left the workers waiting behind a caller
that has returned.

**Fairness.** Goroutines run under weak fairness: the Go scheduler is
preemptive enough that a runnable goroutine runs. The walk's `select` picks at
random among ready cases, so a case that is ready again and again is picked
(strong fairness of `Initialise`, `ReceiveDone` and sends to the loop) even
while the ticker and the closed channel compete. The ticker has no fairness,
and errors are never forced. Stages end because the commands they run do; a
command without a timeout that hangs is not modelled. In `AcquireSources` the
caller and each goroutine are weakly fair, as git commands have timeouts.
In `ClusterLifecycle` each actor's own steps are weakly fair and a deadline
strongly (a timer that is set goes off, however often the loop polls before);
nothing forces the cluster to come up, a command to succeed or ssh to connect.
The runtime's abort (`fatal`) is never forced either; liveness properties allow
for it.

## 4. Where code and text disagree

**A starved pool** (`execute_starved`): a worker returns after a node whose
conditions failed (`executor.go:271-275`). With as many such nodes as workers
the action never ends. `execute` shows that it does with one more.

Also met while modelling. The models contain each of these behaviours; no run is
spent on them, as they follow from a line or two of the code:

* `dag.go:450` and `:501` copy the status map under the mutex "so we don't hit
  concurrent map misuse issues", but the loop reads it at `:445` and iterates at
  `:476` without (`MapRace`). The loop has no exit (`:433-434`), and after the
  walk the closed `doneCh` is always ready.
* A selected kapp first met as another's ancestor is marked in the table only
  (`dag.go:214-217`), contrary to the comment at `dag.go:264-266`; a root is then
  never marked (`Added` and `table` in `DagBuild`).
* `Visualise` loses colours to appends made meanwhile (`dag.go:645-648`).
* `AddDescriptor` does not propagate an output's `sensitive`
  (`kapp.go:225-247`), and `findDependencies` always adds a layer, so the files
  that `structs/kapp.go:38` says "will be deleted" are kept. A template's
  conditions are lost with its first rendering (`kapp.go:866-871`).
* Two kapps that add files of variables at once lose one, or load an older list
  over a newer (`executor.go:1101`, against the comment at `:1104`).
* `--run-pre-actions` alone runs post actions as well in `kapps install`
  (`install.go:194-198`, `:247-249`, against `:134-137`), and `kapps delete`
  refuses it with a message that asks for it (`delete.go:165`,
  `install.go:307-310`).
* The search for variables is depth first (`precedence_walk.go:46-83`, as its
  test expects), though a comment (`:169-170`) and `CHANGELOG.md:100` say breadth;
  `OverridesByName` states what the code does.
* An interrupted clone is passed to `update` for ever (`git.go:165`, `:233`);
  after an error `close(doneCh)` makes goroutines that finish later panic; a
  source that does not exist leaves a dangling link that fails later runs.
* `Close` leaves a running tunnel, since ssh's `ProcessState` is only set once it
  has ended (`kops.go:971`), and its own error hides the command's
  (`install.go:106-110`).
* Waiting until ready uses the online timeout (`provisioner.go:169`), so that
  `--ready-timeout` has no effect. An API server with no pods counts as ready.
  A ready answer is cached and survives `cluster_delete`. A cluster that kops
  configured but did not launch is not launched by a second create.
* A run step's failure to write stdout is overwritten by the success of stderr's
  (`SuccessMeansNoFailure` states precisely what nil means), and steps are
  skipped or repeated when reloading outputs changes the list before the index
  (`executor.go:943`).
* Outputs that are maps are merged into those of an earlier load, so keys that
  are gone stay (`registry.go:99-109`, against "Finally setting value"), and a map
  after a nil, as run steps, two walks of a delete or parents with one ID may have
  it, makes the program panic (`registry.go:133`).
* Stripping the short keys of a parent in another manifest also strips those of
  parents merged before it (`executor.go:1016-1018`, against `:982-985`).
* A failed pre action does not keep its kapp from being applied
  (`executor.go:620`); the command still fails.

## 5. What is proved

For every value of the constants, from the assumptions stated with them
(the `ASSUME`s: edges join nodes, `processCh` has capacity,
special values are distinct, functions have the right domains, the number of
tries is positive, trees of files are closed under directories, steps and
units have the fields the code reads). Names are those of `PROJECT.json`. Every
invariant that a run checks is stated by one of these theorems.

* **Walk**: `Invariant` (`Spec => []IInv`), and from it `TypeCorrect`,
  `WakeupsKept`, `ChannelsSafe`, `RunningOnce`; `ImplementsSchedule`: the walk
  implements `DagSchedule`.
* **Visualise**: its workers are workers of the walk, and `NoArrowLost`.
* **Execution**: `ExecuteIsWalk`, `ExecuteKeepsSchedule`; `NilMeansApplied` and
  `OrderKept` from `ExecuteInvariant`, for every action and option.
* **Construction**: `OnlyAncestors`, `MarksAsked`, `CopiesRight`, `DagsOnly`.
* **Workspace**: `SuccessLinked`, `BranchesLeftAlone`.
* **Registries**: `ParentsOutputsArrive`, `ShortNamesStay`, `OnlyRacesLoseOutputs`.
* **Cluster**: `SuccessIsReady`, `LaunchesPatched`, `TunnelComesFirst`,
  `DryRunsAreHarmless`.
* **Commands**: `OnlyApproved`, `NothingSkipped`, `SuccessIsDone`.
* **Variables**: `MergedAreTheWanted`, `OverridingComesLater`, for every list of
  names and every tree; `ProviderImplementsFiles`: creating a stack implements
  the search of `VarsFiles`, whatever its kapps add later, so
  `ProviderFilesCorrect`; `FilesAreSeen`, `SharedListCorrect`.
* **Run steps**: `ListIsComputed`, `StepsRunOnce`, `NoFailureIsLost`, for all
  units and any limit of recursions.
* **Descriptors**: `FilePrecedence`, `RenderedPathsAreKept`, from
  `DescriptorInvariant`, for all programs and configurations.

Type correctness is proved of each of these modules (of `DagVisualise`, for the walk's variables).

**The walk.** None of its properties is inductive. `Ordered` says that a
scanning goroutine exists exactly for finished nodes and that everything on
its list, and every node past `unprocessed`, has finished dependencies: since
finished is final, a stale copy can only err by listing a node that was claimed
meanwhile, which the recheck under the mutex catches. `Located` ties `running`
to the five places a node passes through, `Separate` and `Exclusive` say it is
in one of them only; so the report of a node happens once, and a goroutine per
finished node is spawned once. `Closing` then follows: a goroutine
whose copy was all finished was spawned by the *last* node, hence is the only one,
hence the unsynchronised flag does no harm; and when it closes the channels no
node is running, so nobody is about to send. `NoLostWakeup` is inductive
given `Ordered`: the node whose end makes another eligible spawns the goroutine
that will see it. The refinement maps taking a node to `Start`, sending it on
`doneCh` to `Report`, closing `finishedCh` to `Announce`, all else to stuttering.

**Drawing.** While all nodes are marked no colour is appended, so every append
holds the mutex; the list only grows, and a node a worker is through with has
all its arrows. `Return` needs the walk's end, hence every node.

**Execution.** Whatever failed is in the hands of a worker that is still
sending an error, as long as the caller has none; what a worker is through with
was applied, or excused by an option that lets failures pass; so when the end is
announced and nobody has received an error, every processed node was applied or
excused.

**Construction.** The graph lies within every set that contains the selection
and is closed under dependencies, and with the pending parents of the frames on
the stack it is closed itself; when the stack is empty it is the least such set.

**Workspace.** The caller has received as many reports as goroutines of the
current kapp have ended with one, so counting messages is counting goroutines;
what a goroutine reports is checked out and linked.

**Registries.** What a draft holds is a function of the parents merged so far,
and what a local registry holds is complete when its kapp is scheduled
(`Complete`): under the qualified names of its ancestors just what these have
themselves, which is what was last loaded (`LastLoad`), since putting an output
into itself changes nothing (`PutEntry`) and a kapp that is loading its own is
an ancestor of none that has a registry (`StartedProvideNot`). Only a kapp with
an earlier load has more. A worker that stores an output alone does so
in the stack's map or in its first one, and nobody holds another map from then
on (`Stacked`), so later races cannot take it away.

**Cluster.** The place an actor has reached says what it has seen or done
(`Placed`, `Told`), which tunnel was started (`Tunnelled`) and which parts are
patched (`Patching`). The first two hold while nobody deletes the cluster, which
is part of the properties.

**Commands.** What was done to a kapp is what its stages up to the present one
are (`Recorded`); no kapp has a status before mistakes were caught (`Caught`);
while there is no error, nothing that was reported has a stage ahead, and the
connection is closed only after everything was reported (`Complete`).

**Variables.** The search's invariant (`FilesInv`) says that every file that is
meant was found, or is below something that is still to be searched
(`Covered`), and that what was found, followed by what is to be searched, is in
order (`Listed`), which is why a directory can be replaced by its contents in
place. Only paths that part at the top need the stack to name each of its
directories once (`IsInjective(Root)`). The kapps' invariant (`KappInv`) says
of every list anywhere, in the provider or in a worker's hands, that it is in
order (`Made`): even a list that overwrites another one was read after the
worker's kapp was started, hence after all kapps that come before it were
through. A file that two kapps add has no place of its own, so the order is
about `OwnFiles`. `Alone` is what the missing mutex would give:
while no two workers have overlapped, the one at work has read the list as it
is, so nothing is lost (`Added`, `Loaded`).

**Run steps.** `ListIsMerged` compares two ways to replace calls: all calls of a
list at once in rounds, as the code does, and each call depth first.
Both give sets of lists, as each call may see the units in another order.
`FirstRound` takes the rounds apart at the first one, where the code takes the
last; `LevelOfReplacement` shows that what is left of a step after some rounds it
may stand for that many calls deep, since the priority of an outer call overrides
those inside; `RoundsAreLevels` and `InterpolatedIsInlined` follow by induction
over the rounds. What is shown is that the code's results are among those of the
depth-first reading, not that each of these comes about. `SortedFacts` shows
that sorting by insertion gives an ordered list with the same steps of each
priority in the same order. The invariant (`IInv` of `InstallProofs`) is
`LastList`, that some computation for the outputs loaded so far gives the list;
`Prefix`, that what was visited is the list before the index while no
computation changed it; and `AllExcused`, that each failure so far is one of
those that are ignored.

**Descriptors.** Layers come from above (manifests, dependencies, renderings)
and from below (the kapp's file, global defaults), so none of the properties is
inductive. `Layered` says that what is carried from one layer is in
the next one, so that, of all entries but templates, the last layer *is* the merged
descriptor (`TopIsMerged`); adding a layer above or below then has the effect one
would want (`AppendMerges`, `PrependMerges`). The files loaded so far are
neighbours in the order of precedence, from `Lowest` to `Topmost`, the
next file is always next to them (`Awaited`), and the merged descriptor has the
values of the highest of these (`Ranked`, and `Whole` for the template until the
first is rendered).

**Induction.** The library states induction for an operator, which the prover
cannot instantiate. `SequenceFacts` derives it for sets from
well-foundedness of the natural numbers (`NaturalInduction`, `IntervalInduction`,
`SequenceInduction`), and with it that recursive functions exist
(`RecursionExists`); what the folds of `FlattenSeq`, the rounds of
`interpolateCalls`, `SortedByPriority` and `Propagate` compute for all inputs is
proved by these. Definitions that the prover cannot expand (`SelectSeq`, `SortSeq`,
`FoldLeft` with a local operator) are avoided in the models that are proved.

**Layout.** One proof module per model, or for two that belong together; one
lemma per conjunct of an invariant or per group of actions, one step per
action; general facts about sequences and sets first, consequences of the
invariant last.

## 6. Checked but not proved, and not modelled

Liveness (`PrintReturns`, `GoroutinesEnd`, `ReturnsWhileServed`, `CreateEnds`,
`AcquireReturns`, `EveryJobEnds`) is beyond the prover and stays with TLC, as
does the finding of `execute_starved`. Everything else that a run checks is
proved as well.

Not modelled: the text that templates produce (`templater/`; that
conditions change with it is an input), selectors (`stack/manifest.go:205-330`;
`DagBuild` takes any selection in manifest order), the parsing of stack files
and of sources' URIs, `kappsot/` (nothing calls it), other commands beyond the
one modelled operation that each calls, logging, printing and plain data types.
The merging of two YAML values is mergo's; the behaviour of git, kops, eksctl,
minikube, kubectl and ssh is reduced to outcomes.

## 7. Plan

Done, most important first: the walk and its users, construction, execution,
the workspace, registries, run steps, the cluster, descriptors, variables,
commands, and a proof of every safety property that is checked. What is left,
in order: the refinement of `Execute`'s contract in `KappsCommand` by
`DagExecute`; the arguments behind the liveness properties as far as they are
safety (what a waiting process waits for exists, as `NoLostWakeup` says of the
walk); the selectors as pure functions; the iterative
templating of a stack's variables, as far as its rounds and its end go.
