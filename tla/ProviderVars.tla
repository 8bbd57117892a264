----------------------------- MODULE ProviderVars -----------------------------
(***************************************************************************)
(* The stack's provider variables.  A stack is created with the files that *)
(* VarsFiles finds (stack/stack.go); then kapps add to them.  The action   *)
(* add_provider_vars_files (executeAction in plan/executor.go) appends the *)
(* kapp's files to the provider's list of paths (provider/aws.go,          *)
(* provider/local.go) and loads all of the list again (stack/stack.go,     *)
(* provider/provider.go).  Neither has a lock, and every worker of a walk  *)
(* may be doing this.  Files later in the list override earlier ones.      *)
(*                                                                         *)
(* A kapp is rendered with the variables of the moment, its pre actions    *)
(* are run, it is applied with the variables of that moment, and its post  *)
(* actions are run.  The order of the kapps is DagSchedule's.              *)
(***************************************************************************)
EXTENDS VarsFiles

CONSTANTS
  Node,            \* the kapps of the DAG, all marked
  Dependency,      \* pairs <<kapp, kapp to be processed before>>
  File,            \* files that kapps add
  FilesOf,         \* the sequence of files a kapp adds
  PreAction        \* kapps that add them before they are applied, not after

ASSUME GraphAssumption == Dependency \subseteq Node \X Node
ASSUME FilesAssumption ==
  /\ FilesOf \in [Node -> Seq(File)]
  /\ \A t \in Trees : t \cap File = {}
  /\ PreAction \subseteq Node

VARIABLES
  missing,         \* input: files that cannot be read
  phase, announced,\* the walk's schedule
  stage,           \* where the worker that has the kapp is
  added,           \* how many of the kapp's files it has added
  read,            \* the list a worker has read of the provider
  seen,            \* the list whose files the kapp was last rendered with
  varsPaths,       \* the provider's list
  providerVars,    \* the list from which the stack's variables were loaded
  raced,           \* two workers were at work on the list at the same time
  failed           \* some action failed

scheduleVars == <<phase, announced>>
sharedVars == <<varsPaths, providerVars>>
kappVars == <<missing, scheduleVars, stage, added, read, seen, raced, failed>>
providerAllVars == <<vars, sharedVars, kappVars>>

Paths == Seq(File \cup tree)

ProviderTypeOK ==
  /\ missing \subseteq File
  /\ stage \in [Node -> {"idle", "render", "apply", "adding", "appending", "loading", "reporting"}]
  /\ \A n \in Node : added[n] \in 0..Len(FilesOf[n])
  /\ read \in [Node -> Paths] /\ seen \in [Node -> Paths]
  /\ varsPaths \in Paths /\ providerVars \in Paths
  /\ raced \in BOOLEAN /\ failed \in BOOLEAN

Walk == INSTANCE DagSchedule

-----------------------------------------------------------------------------
ProviderInit ==
  /\ Init
  /\ Walk!Init
  /\ missing \in {{}} \cup {{file} : file \in File} /\ (missing = {} \/ unreadable = {})
  /\ stage = [n \in Node |-> "idle"]
  /\ added = [n \in Node |-> 0]
  /\ read = [n \in Node |-> <<>>]
  /\ seen = [n \in Node |-> <<>>]
  /\ varsPaths = <<>>
  /\ providerVars = <<>>
  /\ raced = FALSE
  /\ failed = FALSE

\* newStack(): search, and load what was found.
Search == (StartWalk \/ WalkToFile \/ WalkToDir) /\ UNCHANGED <<sharedVars, kappVars>>

LoadStack ==
  /\ MergePaths
  /\ varsPaths' = paths
  /\ providerVars' = merged'
  /\ UNCHANGED kappVars

Adds(n) == FilesOf[n] # <<>>

Receive(n) ==
  /\ Walk!Start(n)
  /\ stage' = [stage EXCEPT ![n] = "render"]
  /\ UNCHANGED <<missing, added, read, seen, sharedVars, raced, failed>>

\* Templates are rendered before the pre actions ...
Render(n) ==
  /\ stage[n] = "render"
  /\ seen' = [seen EXCEPT ![n] = providerVars]
  /\ stage' = [stage EXCEPT ![n] = IF n \in PreAction /\ Adds(n) THEN "adding" ELSE "apply"]
  /\ UNCHANGED <<missing, scheduleVars, added, read, sharedVars, raced, failed>>

\* ... and run steps after them, followed by the post actions.
Apply(n) ==
  /\ stage[n] = "apply"
  /\ seen' = [seen EXCEPT ![n] = providerVars]
  /\ stage' = [stage EXCEPT ![n] =
       IF n \notin PreAction /\ Adds(n) THEN "adding" ELSE "reporting"]
  /\ UNCHANGED <<missing, scheduleVars, added, read, sharedVars, raced, failed>>

\* Worker n reads the list, to append to it or to load what is in it.
ReadPaths(n, next) ==
  /\ stage[n] = "adding"
  /\ read' = [read EXCEPT ![n] = varsPaths]
  /\ raced' = (raced \/ \E m \in Node : stage[m] \in {"appending", "loading"})
  /\ stage' = [stage EXCEPT ![n] = next]
  /\ UNCHANGED <<missing, scheduleVars, added, seen, sharedVars, failed>>

StartAppend(n) == added[n] < Len(FilesOf[n]) /\ ReadPaths(n, "appending")

\* A mistaken variant of EndAppend, to show what the properties notice.
EndPrepend(n) ==
  /\ stage[n] = "appending"
  /\ varsPaths' = <<FilesOf[n][added[n] + 1]>> \o read[n]
  /\ added' = [added EXCEPT ![n] = @ + 1]
  /\ stage' = [stage EXCEPT ![n] = "adding"]
  /\ UNCHANGED <<missing, scheduleVars, read, seen, providerVars, raced, failed>>

\* AddVarsPath(): what others appended to the list since it was read is lost.
EndAppend(n) ==
  /\ stage[n] = "appending"
  /\ varsPaths' = Append(read[n], FilesOf[n][added[n] + 1])
  /\ added' = [added EXCEPT ![n] = @ + 1]
  /\ stage' = [stage EXCEPT ![n] = "adding"]
  /\ UNCHANGED <<missing, scheduleVars, read, seen, providerVars, raced, failed>>

\* RefreshProviderVars(): load every file in the list ...
StartRefresh(n) == added[n] = Len(FilesOf[n]) /\ ReadPaths(n, "loading")

\* A mistaken variant of EndRefresh, to show what the properties notice.
EndRefreshUnset(n) ==
  /\ stage[n] = "loading"
  /\ failed' = (failed \/ ToSet(read[n]) \cap missing # {})
  /\ stage' = [stage EXCEPT ![n] = IF n \in PreAction THEN "apply" ELSE "reporting"]
  /\ UNCHANGED <<missing, scheduleVars, added, read, seen, sharedVars, raced>>

\* ... and replace the variables, unless one cannot be read; the paths stay.
\* After an error the worker goes on with the kapp; the caller may return.
EndRefresh(n) ==
  /\ stage[n] = "loading"
  /\ \/ ToSet(read[n]) \cap missing = {} /\ providerVars' = read[n] /\ UNCHANGED failed
     \/ ToSet(read[n]) \cap missing # {} /\ failed' = TRUE /\ UNCHANGED providerVars
  /\ stage' = [stage EXCEPT ![n] = IF n \in PreAction THEN "apply" ELSE "reporting"]
  /\ UNCHANGED <<missing, scheduleVars, added, read, seen, varsPaths, raced>>

Report(n) ==
  /\ stage[n] = "reporting"
  /\ Walk!Report(n)
  /\ stage' = [stage EXCEPT ![n] = "idle"]
  /\ UNCHANGED <<missing, added, read, seen, sharedVars, raced, failed>>

EndOfWalk ==
  /\ Walk!Announce
  /\ UNCHANGED <<missing, stage, added, read, seen, sharedVars, raced, failed>>

Worker(n) ==
  \/ Receive(n) \/ Render(n) \/ Apply(n)
  \/ StartAppend(n) \/ EndAppend(n) \/ StartRefresh(n) \/ EndRefresh(n)
  \/ Report(n)

ProviderNext ==
  \/ Search
  \/ LoadStack
  \/ outcome = "vars" /\ UNCHANGED vars /\ ((\E n \in Node : Worker(n)) \/ EndOfWalk)

ProviderSpec == ProviderInit /\ [][ProviderNext]_providerAllVars

-----------------------------------------------------------------------------
\* All that is processed before a kapp.
Earlier ==
  [n \in Node |-> {a \in Node : \A S \in SUBSET Node :
     (\A m \in S \cup {n} : Walk!Dependencies(m) \subseteq S) => a \in S}]

(* A kapp is rendered and applied with the files of every kapp that was to *)
(* be processed before it, and applied with those of its own pre action,   *)
(* unless two workers were at work on the list at the same time, or an     *)
(* action failed; the stack's own files are never lost.                    *)
(* (executor.go:1092-1105)                                                 *)
SeesFiles ==
  \A n \in Node : seen[n] # <<>> =>
    /\ ToSet(merged) \subseteq ToSet(seen[n])
    /\ ~raced /\ ~failed =>
         /\ \A a \in Earlier[n] : ToSet(FilesOf[a]) \subseteq ToSet(seen[n])
         /\ n \in PreAction /\ stage[n] = "reporting" => ToSet(FilesOf[n]) \subseteq ToSet(seen[n])

\* The files that a kapp adds and no other one does.
OwnFiles ==
  [n \in Node |-> ToSet(FilesOf[n]) \ UNION {ToSet(FilesOf[m]) : m \in Node \ {n}}]

(* Whatever gets lost, a kapp's own file overrides those of the kapps that *)
(* are processed before it and of the stack, and never the other way round.*)
OrderKept ==
  \A i, j \in DOMAIN providerVars : i < j =>
    /\ providerVars[j] \in tree => providerVars[i] \in tree
    /\ \A m, n \in Node :
         providerVars[i] \in OwnFiles[n] /\ providerVars[j] \in OwnFiles[m] => m \notin Earlier[n]

(* The variables have their types, and their files their order.            *)
ProviderInv == TypeOK /\ ProviderTypeOK /\ OrderKept
=============================================================================
