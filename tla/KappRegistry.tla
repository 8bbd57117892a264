----------------------------- MODULE KappRegistry -----------------------------
(***************************************************************************)
(* The registries through which kapps see each other's outputs             *)
(* (registry/registry.go and the part of plan/executor.go that fills       *)
(* them).  Every kapp has a local registry, built from those of its        *)
(* parents and then given the kapp's own outputs; the stack has one that   *)
(* all workers write.  The order of the work is DagSchedule's: down the    *)
(* DAG, and for a deletion down to load outputs and then up.               *)
(*                                                                         *)
(* A kapp has one output, which has the same name in all kapps: outputs of *)
(* other names do not meet.  A registry maps keys to what it has of that   *)
(* output: short keys (outputs.<id>, and outputs.this) and fully-qualified *)
(* ones.  Where the output is a map, one that is set again is merged into  *)
(* what is there.  Maps inside maps, and maps without any key, are left    *)
(* out, and so are files that cannot be parsed.                            *)
(***************************************************************************)
CONSTANTS
  Node,            \* kapps, by fully qualified ID
  Edge,            \* pairs <<parent, child>>
  Manifest, Id,    \* manifests and short IDs
  ManifestOf, IdOf,
  WithOutputs,     \* kapps that declare their output
  LoadsEarly,      \* kapps with run steps that load it
  Sensitive,       \* kapps whose merged descriptor says the output is sensitive:
                   \* none, as it is merged (AddDescriptor in KappDescriptor)
  MapOutput,       \* kapps whose output is a map when it is not missing
  Field,           \* keys of such maps
  Whole,           \* stands for the only part of an output that is not a map
  NoRegistry       \* a local registry that was never set (nil)

ASSUME GraphAssumption == Edge \subseteq Node \X Node
ASSUME NamingAssumption ==
  ManifestOf \in [Node -> Manifest] /\ IdOf \in [Node -> Id] /\ "this" \notin Id
ASSUME OutputsAssumption == WithOutputs \cup LoadsEarly \cup Sensitive \cup MapOutput \subseteq Node
ASSUME FieldAssumption == Whole \notin Field

VARIABLES
  action,          \* "install", "plan", "template" or "delete"
  walk,            \* direction of the current walk
  valid,           \* kapps whose conditions all hold
  phase, announced,\* the walk's schedule
  stage,           \* where the worker that has the kapp is
  toMerge,         \* parents whose registries it has yet to merge
  draft,           \* the registry it is building
  local,           \* the kapps' local registries
  file,            \* the file with each kapp's output
  loaded,          \* what was last loaded from it
  stackRef,        \* which map the stack's registry holds as its outputs
  stackMaps,       \* maps created for it, each by one kapp's worker
  target,          \* the map a worker is storing its kapp's output in
  raced,           \* kapps whose output was last stored while another one was
  failed,          \* kapps whose outputs could not be loaded
  fatal            \* the program panicked or was aborted

scheduleVars == <<phase, announced>>
inputVars == <<action, valid>>
localVars == <<toMerge, draft, local>>
outputVars == <<file, loaded>>
stackVars == <<stackRef, stackMaps, target, raced>>
vars == <<inputVars, walk, scheduleVars, stage, localVars, outputVars, stackVars, failed, fatal>>

Key == ({"short"} \X (Id \cup {"this"})) \cup ({"full"} \X Node)
This == <<"short", "this">>
Short(n) == <<"short", IdOf[n]>>
Full(n) == <<"full", n>>
FullKey == {"full"} \X Node

\* A part of an output: whose it is, and what it was when it was loaded.
Output == [of : Node, is : {"nil", "early", "final"}]

\* What a registry has under a key: nothing, a value, or a map of fields.
Shape == (SUBSET Field) \cup {{Whole}}
Entry == UNION {[parts -> Output] : parts \in Shape}
Absent == [f \in {} |-> f]
Registry == [Key -> Entry]
Empty == [k \in Key |-> Absent]

\* A file with an output, and the parts it has; one that is not there, or
\* empty, is read as nil if at all.
Contents == [is : {"missing", "empty", "early", "final"}, parts : Shape \ {{}}]
Missing == [is |-> "missing", parts |-> {Whole}]

ASSUME NilAssumption == NoRegistry \notin Registry

AtMostOne == {{}} \cup {{n} : n \in Node}

Stage == {"idle", "merging", "steps", "storing early", "outputs", "storing", "reporting"}

TypeOK ==
  /\ action \in {"install", "plan", "template", "delete"}
  /\ walk \in {"down", "up"}
  /\ valid \subseteq Node
  /\ phase \in [Node -> {"waiting", "started", "reported"}]
  /\ announced \in BOOLEAN
  /\ stage \in [Node -> Stage]
  /\ toMerge \in [Node -> SUBSET Node]
  /\ draft \in [Node -> Registry]
  /\ local \in [Node -> Registry \cup {NoRegistry}]
  /\ file \in [Node -> Contents]
  /\ loaded \in [Node -> Entry]
  /\ stackRef \in AtMostOne
  /\ stackMaps \in [Node -> [Node -> Entry]]
  /\ target \in [Node -> AtMostOne]
  /\ raced \subseteq Node
  /\ failed \subseteq Node
  /\ fatal \in BOOLEAN

-----------------------------------------------------------------------------
(* The schedule *)

Parents(n) == {p \in Node : <<p, n>> \in Edge}

DownWalk == INSTANCE DagSchedule WITH Dependency <- {<<e[2], e[1]>> : e \in Edge}
UpWalk == INSTANCE DagSchedule WITH Dependency <- Edge

Start(n) == IF walk = "down" THEN DownWalk!Start(n) ELSE UpWalk!Start(n)

-----------------------------------------------------------------------------
(* Registries *)

\* nestedMap(): a map is merged into the one that is there, field by field,
\* anything else replaces what is there.
Put(old, new) ==
  IF Whole \in DOMAIN new THEN new
  ELSE [f \in DOMAIN old \cup DOMAIN new |-> IF f \in DOMAIN new THEN new[f] ELSE old[f]]

\* It asserts that what a map is merged into is one: if not, it panics.
Clashes(old, new) == Whole \in DOMAIN old /\ DOMAIN new \cap Field # {}

\* Set() for every key of `other`.
Merge(registry, other) == [k \in Key |-> Put(registry[k], other[k])]

deleteNonFullyQualifiedOutputs(registry) ==
  [k \in Key |-> IF k \in FullKey THEN registry[k] ELSE Absent]

deleteSpecialThisOutput(registry) == [registry EXCEPT ![This] = Absent]

\* Mistaken variants: only what has been merged before is stripped, and each
\* parent replaces those before it.
StrippingFirst(n, p) ==
  IF local[p] = NoRegistry THEN draft[n]
  ELSE deleteSpecialThisOutput(Merge(
    IF ManifestOf[p] # ManifestOf[n] THEN deleteNonFullyQualifiedOutputs(draft[n]) ELSE draft[n],
    local[p]))

MergedLast(n, p) ==
  IF local[p] = NoRegistry THEN draft[n]
  ELSE deleteSpecialThisOutput(
    IF ManifestOf[p] # ManifestOf[n] THEN deleteNonFullyQualifiedOutputs(local[p]) ELSE local[p])

\* The registry of n after parent p: the short keys that are stripped for a
\* parent in another manifest are those of all the parents merged so far.
Merged(n, p) ==
  IF local[p] = NoRegistry THEN draft[n]
  ELSE LET merged == Merge(draft[n], local[p]) IN
    deleteSpecialThisOutput(
      IF ManifestOf[p] # ManifestOf[n] THEN deleteNonFullyQualifiedOutputs(merged) ELSE merged)

\* Parent p has an output of another kind than the parents before it.
Unmergeable(n, p) ==
  local[p] # NoRegistry /\ \E k \in Key : Clashes(draft[n][k], local[p][k])

\* addOutputsToRegistry() with the local keys, and whether it panics.
OwnKeys(n) == {This, Short(n), Full(n)}
WithOwn(n, value) ==
  [k \in Key |-> IF k \in OwnKeys(n) THEN Put(local[n][k], value) ELSE local[n][k]]
Panics(n, value) == \E k \in OwnKeys(n) : Clashes(local[n][k], value)

\* GetOutputs(): what a kapp's file is read as.  A file that is not there is
\* an error unless ignored.  So is an empty one, but the error that is
\* reported then is os.Stat's, which is nil.
Readable(contents) == contents.is \in {"early", "final"}
GetOutputs(n, contents) ==
  [f \in contents.parts |->
     [of |-> n, is |-> IF Readable(contents) THEN contents.is ELSE "nil"]]

\* Files that a kapp's commands may write.
Written(n, is) ==
  [is : {is}, parts : IF n \in MapOutput THEN (SUBSET Field) \ {{}} ELSE {{Whole}}]
EmptyFile == [Missing EXCEPT !.is = "empty"]

-----------------------------------------------------------------------------
Init ==
  /\ action \in {"install", "plan", "template", "delete"}
  /\ valid \in SUBSET Node
  /\ walk = "down"
  /\ DownWalk!Init
  /\ stage = [n \in Node |-> "idle"]
  /\ toMerge = [n \in Node |-> {}]
  /\ draft = [n \in Node |-> Empty]
  /\ local = [n \in Node |-> NoRegistry]
  /\ file = [n \in Node |-> Missing]
  /\ loaded = [n \in Node |-> Absent]
  /\ stackRef = {}
  /\ stackMaps = [n \in Node |-> [m \in Node |-> Absent]]
  /\ target = [n \in Node |-> {}]
  /\ raced = {}
  /\ failed = {}
  /\ fatal = FALSE

\* A worker receives the kapp; with failed conditions it only reports it.
Receive(n) ==
  /\ Start(n)
  /\ stage' = [stage EXCEPT ![n] = IF n \in valid THEN "merging" ELSE "reporting"]
  /\ toMerge' = [toMerge EXCEPT ![n] = Parents(n)]
  /\ draft' = [draft EXCEPT ![n] = Empty]
  /\ UNCHANGED <<inputVars, walk, local, outputVars, stackVars, failed, fatal>>

\* addParentRegistries(): the graph delivers the parents in any order.
MergeParent(n) ==
  /\ stage[n] = "merging"
  /\ \E p \in toMerge[n] :
       \/ /\ Unmergeable(n, p)
          /\ fatal' = TRUE
          /\ UNCHANGED <<draft, toMerge>>
       \/ /\ ~Unmergeable(n, p)
          /\ draft' = [draft EXCEPT ![n] = Merged(n, p)]
          /\ toMerge' = [toMerge EXCEPT ![n] = @ \ {p}]
          /\ UNCHANGED fatal
  /\ UNCHANGED <<inputVars, walk, scheduleVars, stage, local, outputVars, stackVars, failed>>

\* Only while installing or deleting are there run steps before the outputs.
SetLocalRegistry(n) ==
  /\ stage[n] = "merging"
  /\ toMerge[n] = {}
  /\ local' = [local EXCEPT ![n] = draft[n]]
  /\ stage' = [stage EXCEPT ![n] =
       IF action \in {"install", "plan"} \/ walk = "up" THEN "steps"
       ELSE IF n \in WithOutputs THEN "outputs" ELSE "reporting"]
  /\ UNCHANGED <<inputVars, walk, scheduleVars, toMerge, draft, outputVars, stackVars, failed, fatal>>

\* A run step writes the file with the output.
WriteOutput(n) ==
  /\ stage[n] = "steps"
  /\ n \in LoadsEarly
  /\ file[n].is # "early"
  /\ \E contents \in Written(n, "early") \cup {EmptyFile} : file' = [file EXCEPT ![n] = contents]
  /\ UNCHANGED <<inputVars, walk, scheduleVars, stage, localVars, loaded, stackVars, failed, fatal>>

\* addOutputsToRegistry() for the local registry, after which the worker
\* stores the output in the stack's; a sensitive file that was read is gone.
Register(n, contents, next) ==
  LET value == GetOutputs(n, contents) IN
  /\ file' = [file EXCEPT ![n] = IF n \in Sensitive /\ Readable(contents) THEN Missing ELSE contents]
  /\ \/ /\ Panics(n, value)
        /\ fatal' = TRUE
        /\ UNCHANGED <<loaded, local, stage>>
     \/ /\ ~Panics(n, value)
        /\ loaded' = [loaded EXCEPT ![n] = value]
        /\ local' = [local EXCEPT ![n] = WithOwn(n, value)]
        /\ stage' = [stage EXCEPT ![n] = next]
        /\ UNCHANGED fatal
  /\ UNCHANGED <<inputVars, walk, scheduleVars, toMerge, draft, stackVars, failed>>

\* A run step with load_outputs: what is missing is loaded as nil.
LoadInSteps(n) ==
  /\ stage[n] = "steps"
  /\ n \in LoadsEarly \cap WithOutputs
  /\ Register(n, file[n], "storing early")

\* The steps are through; a deletion loads no outputs after them.
EndSteps(n) ==
  /\ stage[n] = "steps"
  /\ stage' = [stage EXCEPT ![n] =
       IF action # "delete" /\ n \in WithOutputs THEN "outputs" ELSE "reporting"]
  /\ UNCHANGED <<inputVars, walk, scheduleVars, localVars, outputVars, stackVars, failed, fatal>>

\* getOutputs() runs the output steps, which may write the file, and loads it.
\* Only an approved installation insists on the outputs.
LoadOutputs(n) ==
  /\ stage[n] = "outputs"
  /\ \E contents \in Written(n, "final") \cup {EmptyFile, file[n]} :
       \/ /\ Readable(contents) \/ action # "install"
          /\ Register(n, contents, "storing")
       \/ /\ ~Readable(contents) /\ action = "install"
          /\ file' = [file EXCEPT ![n] = contents]
          /\ failed' = IF contents.is = "missing" THEN failed \cup {n} ELSE failed
          /\ stage' = [stage EXCEPT ![n] = "reporting"]
          /\ UNCHANGED <<inputVars, walk, scheduleVars, localVars, loaded, stackVars, fatal>>

-----------------------------------------------------------------------------
(* The stack's registry, a map of maps without a lock *)

Storing(n) == stage[n] \in {"storing early", "storing"}

\* Workers that are storing an output now.
Storers == {m \in Node : target[m] # {}}

\* Mistaken variant: a new map although there is one.
LookUpNew(n) ==
  /\ Storing(n)
  /\ target[n] = {}
  /\ target' = [target EXCEPT ![n] = {n}]
  /\ raced' = IF Storers = {} THEN raced \ {n} ELSE raced \cup Storers \cup {n}
  /\ UNCHANGED <<inputVars, walk, scheduleVars, stage, localVars, outputVars, stackRef, stackMaps, failed, fatal>>

\* getMapOrNew(): the map that holds the outputs, or a new one.
LookUpStack(n) ==
  /\ Storing(n)
  /\ target[n] = {}
  /\ target' = [target EXCEPT ![n] = IF stackRef = {} THEN {n} ELSE stackRef]
  /\ raced' = IF Storers = {} THEN raced \ {n} ELSE raced \cup Storers \cup {n}
  /\ UNCHANGED <<inputVars, walk, scheduleVars, stage, localVars, outputVars, stackRef, stackMaps, failed, fatal>>

\* The maps once n's output is in the one that its worker has.
Stored(n) ==
  [m \in Node |->
     IF m \in target[n] THEN [stackMaps[m] EXCEPT ![n] = Put(@, loaded[n])] ELSE stackMaps[m]]

\* Store the output in that map, and the map in the registry.  If another
\* worker writes that map as well, the output may get lost in it.
StoreInStack(n) ==
  /\ Storing(n)
  /\ target[n] # {}
  /\ \A m \in target[n] : ~Clashes(stackMaps[m][n], loaded[n])
  /\ stackRef' = target[n]
  /\ \/ stackMaps' = Stored(n)
     \/ stackMaps' = stackMaps /\ \E m \in Node \ {n} : target[m] = target[n]
  /\ target' = [target EXCEPT ![n] = {}]
  /\ stage' = [stage EXCEPT ![n] = IF @ = "storing early" THEN "steps" ELSE "reporting"]
  /\ UNCHANGED <<inputVars, walk, scheduleVars, localVars, outputVars, raced, failed, fatal>>

\* A map for what was stored as something else: nestedMap() panics.  It is
\* what an earlier walk left, or run steps, as local registries start anew.
PanicInStack(n) ==
  /\ Storing(n)
  /\ \E m \in target[n] : Clashes(stackMaps[m][n], loaded[n])
  /\ fatal' = TRUE
  /\ UNCHANGED <<inputVars, walk, scheduleVars, stage, localVars, outputVars, stackVars, failed>>

\* Two workers in the map at once, or one that copies it for templating
\* (GetTemplatedVars) while another stores.
StackRace ==
  \E m, n \in Node : m # n /\ target[n] # {} /\ (target[m] # {} \/ stage[m] \in {"steps", "outputs"})

\* The runtime may notice and abort the program.
StackFault ==
  /\ StackRace
  /\ fatal' = TRUE
  /\ UNCHANGED <<inputVars, walk, scheduleVars, stage, localVars, outputVars, stackVars, failed>>

-----------------------------------------------------------------------------
Report(n) ==
  /\ stage[n] = "reporting"
  /\ DownWalk!Report(n)
  /\ stage' = [stage EXCEPT ![n] = "idle"]
  /\ UNCHANGED <<inputVars, walk, localVars, outputVars, stackVars, failed, fatal>>

EndOfWalk ==
  /\ DownWalk!Announce
  /\ UNCHANGED <<inputVars, walk, stage, localVars, outputVars, stackVars, failed, fatal>>

\* Execute() walks up after initLocalRegistries() has returned no error.
WalkUp ==
  /\ action = "delete" /\ walk = "down"
  /\ announced
  /\ walk' = "up"
  /\ phase' = [n \in Node |-> "waiting"]
  /\ announced' = FALSE
  /\ UNCHANGED <<inputVars, stage, localVars, outputVars, stackVars, failed, fatal>>

Worker(n) ==
  \/ Receive(n) \/ MergeParent(n) \/ SetLocalRegistry(n)
  \/ WriteOutput(n) \/ LoadInSteps(n) \/ EndSteps(n) \/ LoadOutputs(n)
  \/ LookUpStack(n) \/ StoreInStack(n) \/ PanicInStack(n) \/ Report(n)

Next ==
  /\ ~fatal
  /\ \/ \E n \in Node : Worker(n)
     \/ StackFault
     \/ EndOfWalk
     \/ WalkUp

Spec == Init /\ [][Next]_vars

-----------------------------------------------------------------------------
\* Kapps whose registries reach n: its ancestors over paths of kapps whose
\* conditions hold.  A kapp that is skipped has no local registry.
Providers(n) ==
  {a \in Node : \A S \in SUBSET Node :
     (\A m \in S \cup {n} : Parents(m) \cap valid \subseteq S) => a \in S}

\* The worker has set the registry of n and not yet reported n.
Working(n) == stage[n] \notin {"idle", "merging"} /\ n \in valid

Registered(n) == loaded[n] # Absent

\* An entry has what was last loaded of a's output, and nothing of others';
\* fields that an earlier load had, and the last one has not, are kept.
Shows(entry, a) ==
  /\ entry = Put(entry, loaded[a])
  /\ \A f \in DOMAIN entry : entry[f].of = a

(* While a kapp is processed, in whichever order its parents were merged    *)
(* and the other kapps are processed, its templates see the outputs of      *)
(* exactly its ancestors under qualified names, each just as the ancestor   *)
(* itself sees it, and as it was last loaded; more than that only if run    *)
(* steps had loaded it before.  Of any other kapp they see nothing but what *)
(* is in the stack's registry.                                              *)
SeesAncestors ==
  \A n \in Node : Working(n) =>
    \A a \in Node \ {n} :
      LET seen == local[n][Full(a)] IN
      IF a \in Providers(n)
      THEN /\ seen = local[a][Full(a)]
           /\ Shows(seen, a)
           /\ seen = loaded[a] \/ (Registered(a) /\ a \in LoadsEarly)
      ELSE seen = Absent

(* A short name never reaches a kapp of another manifest: what a kapp finds *)
(* under a short name is, in all its parts, the output of kapps of its own  *)
(* manifest with that ID, and `this` is nobody but itself; although the     *)
(* outputs of parents with one ID are merged before they are told apart.    *)
ShortNamesStayHome ==
  \A n \in Node : local[n] # NoRegistry =>
    /\ \A i \in Id : \A f \in DOMAIN local[n][<<"short", i>>] :
         LET o == local[n][<<"short", i>>][f].of IN IdOf[o] = i /\ ManifestOf[o] = ManifestOf[n]
    /\ \A f \in DOMAIN local[n][This] : local[n][This][f].of = n

(* Once a kapp is reported the stack's registry has its output, as it was   *)
(* last loaded, unless its own worker was storing it while another worker   *)
(* was at it: others that do so meanwhile, and may each create the map of   *)
(* outputs, lose none but their own.                                        *)
StackKeepsOutputs ==
  \A n \in Node \ raced : phase[n] = "reported" /\ Registered(n) =>
    \E m \in stackRef : Shows(stackMaps[m][n], n)
=============================================================================
