---------------------------- MODULE KappDescriptor ----------------------------
(***************************************************************************)
(* How a kapp's descriptor comes about (installable/kapp.go): layers from  *)
(* the configuration files are added above and below each other, fields    *)
(* are propagated upwards by hand because the library that merges the      *)
(* layers (mergo) replaces structs in maps as a whole, and what comes out  *)
(* decides which templates are rendered, which outputs are loaded, and     *)
(* which files of outputs are deleted.                                     *)
(*                                                                         *)
(* A layer is a relation: <<entry, field, value>> is in it if the layer    *)
(* has the entry and sets the field.  A value is the name of the file that *)
(* gives it.                                                               *)
(***************************************************************************)
EXTENDS Naturals, Sequences, SequencesExt

CONSTANTS
  Program,         \* programs that sugarkube-conf.yaml has defaults for
  Inputs,          \* the configurations to start from
  MaxRenders,      \* a bound on the renderings of the kapp's templates
  Unset            \* the value of a field that nobody gives

\* An output, a source, a run unit and a template, with the fields of each.
FieldsOf == [output |-> {"path", "conditions", "sensitive"},
             source |-> {"uri", "branch"},
             unit |-> {"steps", "working_dir"},
             template |-> {"source", "conditions", "rendered_path"}]
Entry == DOMAIN FieldsOf
Field == UNION {FieldsOf[e] : e \in Entry}

\* The files that may give values, in the order the documentation gives them
\* (stack/manifest.go:78-88), from the lowest to the highest precedence.
Manifests == <<"manifest defaults", "descriptor", "versions", "stack defaults", "overrides">>
File == Program \cup {"global", "sugarkube.yaml"} \cup {Manifests[i] : i \in DOMAIN Manifests}
RenderedPath == <<"first", "second">>
Rendering == {RenderedPath[n] : n \in DOMAIN RenderedPath}
Value == File \cup Rendering \cup {"key"}

ASSUME BoundAssumption == MaxRenders \in 1 .. 2

\* What the files give: for each, the fields it has of each entry; which
\* programs the kapp requires; and whether it wants no global defaults.
Configuration ==
  {c \in [given : [File -> [Entry -> SUBSET Field]],
          requires : Seq(Program \cup {"unknown"}),
          ignoreGlobalDefaults : BOOLEAN] :
     \A file \in File : \A e \in Entry : c.given[file][e] \subseteq FieldsOf[e]}

ASSUME InputsAssumption == Inputs \subseteq Configuration

ASSUME UnsetAssumption == Unset \notin Value

VARIABLES
  config,
  stage, todo,     \* what is being added, and files still to be added
  descriptorLayers, mergedDescriptor,
  true,            \* files whose conditions hold now
  evaluated,       \* those whose conditions held when they were last templated
  renders, written,\* renderings so far, and those that wrote the template's file
  outputFile,      \* the output's file is there
  lastLoad         \* what became of the file when it was last loaded

descriptorVars == <<config, stage, todo, descriptorLayers, mergedDescriptor, true, evaluated,
                    renders, written, outputFile, lastLoad>>

OfEntry(layer, e) == {v \in layer : v[1] = e}

Has(layer, e, f) == \E v \in layer : v[1] = e /\ v[2] = f

ValueOf(layer, e, f) ==
  IF Has(layer, e, f) THEN (CHOOSE v \in layer : v[1] = e /\ v[2] = f)[3] ELSE Unset

\* A layer sets each field once, and an entry that is there has its key.
IsLayer(layer) ==
  /\ layer \subseteq Entry \X (Field \cup {"key"}) \X Value
  /\ \A v \in layer : /\ v[2] \in FieldsOf[v[1]] \cup {"key"}
                      /\ ValueOf(layer, v[1], v[2]) = v[3] /\ Has(layer, v[1], "key")

DescriptorTypeOK ==
  /\ stage \in {"manifests", "kapp", "globals", "programs", "dependencies", "ready", "failed"}
  /\ \A i \in DOMAIN descriptorLayers : IsLayer(descriptorLayers[i])
  /\ IsLayer(mergedDescriptor)
  /\ true \subseteq File /\ evaluated \subseteq File
  /\ renders \in 0 .. MaxRenders /\ written \subseteq 1 .. renders
  /\ outputFile \in BOOLEAN
  /\ lastLoad \in {"none", "skipped", "missing", "kept", "removed"}

-----------------------------------------------------------------------------
(* Layers *)

Key(e) == <<e, "key", "key">>

\* The layer of a file: an entry is there if the file gives a field of it.
LayerOf(file) ==
  UNION {{<<e, f, file>> : f \in config.given[file][e]} \cup {Key(e)} :
           e \in {d \in Entry : config.given[file][d] # {}}}
\* Templates are not propagated at all, and of an output everything but
\* whether it is sensitive.
Propagated(e) ==
  CASE e = "template" -> {}
    [] e = "output" -> {"key"} \cup (FieldsOf[e] \ {"sensitive"})
    [] OTHER -> {"key"} \cup FieldsOf[e]

Carried(layer) == {v \in layer : v[2] \in Propagated(v[1])}

\* Mistaken variant: the value of the lower layer wins.
FillOver(previous, current) ==
  Carried(previous) \cup {v \in current : ~Has(Carried(previous), v[1], v[2])}

\* Fields that `current` lacks are taken from `previous`, and with them the
\* entries.
Fill(previous, current) ==
  current \cup {v \in Carried(previous) : ~Has(current, v[1], v[2])}

\* From the first layer to the last.
Propagate(layers) ==
  LET filled[i \in 1..Len(layers)] ==
        IF i = 1 THEN layers[1] ELSE Fill(filled[i - 1], layers[i])
  IN filled

\* mergo: the last layer that has an entry replaces it as a whole.
mergeDescriptorLayers(layers) ==
  UNION {{v \in layers[i] : \A j \in DOMAIN layers : j > i => OfEntry(layers[j], v[1]) = {}} :
           i \in DOMAIN layers}

AddDescriptor(layer, prepend) ==
  \E layers \in {Propagate(IF prepend THEN <<layer>> \o descriptorLayers
                           ELSE Append(descriptorLayers, layer))} :
    /\ descriptorLayers' = layers
    /\ mergedDescriptor' = mergeDescriptorLayers(layers)

-----------------------------------------------------------------------------
(* Loading the configuration *)

loadVars == <<true, evaluated, renders, written, outputFile, lastLoad>>

Gives(file) == \E e \in Entry : config.given[file][e] # {}

\* New() with the manifest's layers, then those of versions and overrides, if
\* there are any, and of the stack's defaults.
AddManifestLayer ==
  /\ stage = "manifests" /\ todo # <<>>
  /\ todo' = Tail(todo)
  /\ IF Head(todo) \in {"versions", "overrides"} /\ ~Gives(Head(todo))
     THEN UNCHANGED <<descriptorLayers, mergedDescriptor>>
     ELSE AddDescriptor(LayerOf(Head(todo)), FALSE)
  /\ UNCHANGED <<config, stage, loadVars>>

\* LoadConfigFile: the kapp's own file goes below what the manifests say ...
LoadConfigFile ==
  /\ stage = "manifests" /\ todo = <<>>
  /\ AddDescriptor(LayerOf("sugarkube.yaml"), TRUE)
  /\ stage' = IF config.ignoreGlobalDefaults THEN "dependencies" ELSE "globals"
  /\ UNCHANGED <<config, todo, loadVars>>

\* ... and global defaults below that: the run units of sugarkube-conf.yaml,
AddGlobalRunUnits ==
  /\ stage = "globals"
  /\ AddDescriptor(LayerOf("global"), TRUE)
  /\ stage' = "programs" /\ todo' = Reverse(config.requires)
  /\ UNCHANGED <<config, loadVars>>

\* and what it says of the programs the kapp requires.
AddProgram ==
  /\ stage = "programs" /\ todo # <<>>
  /\ todo' = Tail(todo)
  /\ IF Head(todo) \in Program THEN AddDescriptor(LayerOf(Head(todo)), TRUE)
     ELSE UNCHANGED <<descriptorLayers, mergedDescriptor>>
  /\ UNCHANGED <<config, stage, loadVars>>

\* findDependencies and build, when the DAG is made.
AddDependencies ==
  /\ stage = "dependencies" \/ (stage = "programs" /\ todo = <<>>)
  /\ AddDescriptor({}, FALSE)
  /\ evaluated' = true
  /\ stage' = "ready"
  /\ UNCHANGED <<config, todo, true, renders, written, outputFile, lastLoad>>

-----------------------------------------------------------------------------
(* Using it *)

Holds(conditions, where) == conditions = Unset \/ conditions \in where

\* RenderTemplates.  The new layer has the templates that were rendered, with
\* the paths, but without the conditions.
Template(field) == ValueOf(mergedDescriptor, "template", field)
HasTemplate == OfEntry(mergedDescriptor, "template") # {}

ToRender == HasTemplate /\ Holds(Template("conditions"), true)

RenderedLayer(n) ==
  {Key("template"), <<"template", "source", Template("source")>>,
   <<"template", "rendered_path", RenderedPath[n]>>}

\* Mistaken variant of AddRendered: the layer goes below.
AddRenderedBelow(layer) == AddDescriptor(layer, TRUE)

AddRendered(layer) == AddDescriptor(layer, FALSE)

\* renderKappTemplates: the descriptor is templated, with the conditions as
\* they are now, then the templates are rendered.  Without any nothing is
\* added; nor is it if the cache directory, a condition, a path or a file is
\* not as it should be, or a source is empty.
RenderTemplates ==
  /\ stage = "ready" /\ renders < MaxRenders
  /\ evaluated' = true
  /\ \/ /\ stage' = "failed"
        /\ UNCHANGED <<renders, written, descriptorLayers, mergedDescriptor>>
     \/ /\ ~HasTemplate
        /\ UNCHANGED <<stage, renders, written, descriptorLayers, mergedDescriptor>>
     \/ /\ HasTemplate /\ ~(ToRender /\ Template("source") = Unset)
        /\ renders' = renders + 1
        /\ written' = IF ToRender THEN written \cup {renders'} ELSE written
        /\ AddRendered(IF ToRender THEN RenderedLayer(renders') ELSE {})
        /\ UNCHANGED stage
  /\ UNCHANGED <<config, todo, true, outputFile, lastLoad>>

\* The merged descriptor is templated again, with conditions as they are now.
TemplateDescriptor ==
  /\ stage = "ready"
  /\ evaluated' = true
  /\ UNCHANGED <<config, stage, todo, descriptorLayers, mergedDescriptor, true, renders,
                 written, outputFile, lastLoad>>

\* What conditions refer to, such as other kapps' outputs, changes.
ConditionsChange ==
  /\ stage = "ready"
  /\ \E file \in File :
       /\ \E e \in Entry : "conditions" \in config.given[file][e]
       /\ true' = IF file \in true THEN true \ {file} ELSE true \cup {file}
  /\ UNCHANGED <<config, stage, todo, descriptorLayers, mergedDescriptor, evaluated,
                 renders, written, outputFile, lastLoad>>

\* A run step, or the output target, writes the output.
WriteOutput ==
  /\ stage = "ready" /\ ~outputFile
  /\ outputFile' = TRUE
  /\ UNCHANGED <<config, stage, todo, descriptorLayers, mergedDescriptor, true, evaluated,
                 renders, written, lastLoad>>

Output(field) == ValueOf(mergedDescriptor, "output", field)

\* GetOutputs, as the descriptor was last templated.
GetOutputs ==
  /\ stage = "ready" /\ OfEntry(mergedDescriptor, "output") # {}
  /\ lastLoad' = CASE ~Holds(Output("conditions"), evaluated) -> "skipped"
                   [] Holds(Output("conditions"), evaluated) /\ ~outputFile -> "missing"
                   [] OTHER -> IF Output("sensitive") = Unset THEN "kept" ELSE "removed"
  /\ outputFile' = IF lastLoad' = "removed" THEN FALSE ELSE outputFile
  /\ UNCHANGED <<config, stage, todo, descriptorLayers, mergedDescriptor, true, evaluated,
                 renders, written>>

DescriptorInit ==
  /\ config \in Inputs
  /\ stage = "manifests" /\ todo = Manifests
  /\ descriptorLayers = <<>> /\ mergedDescriptor = {}
  /\ true \in SUBSET {file \in File : \E e \in Entry : "conditions" \in config.given[file][e]}
  /\ evaluated = {}
  /\ renders = 0 /\ written = {}
  /\ outputFile = FALSE /\ lastLoad = "none"

DescriptorNext ==
  \/ AddManifestLayer \/ LoadConfigFile \/ AddGlobalRunUnits \/ AddProgram
  \/ AddDependencies \/ TemplateDescriptor \/ RenderTemplates \/ ConditionsChange
  \/ WriteOutput \/ GetOutputs

DescriptorSpec == DescriptorInit /\ [][DescriptorNext]_descriptorVars

-----------------------------------------------------------------------------
(* Properties *)

\* The files that count for this kapp, from the lowest to the highest, and what
\* else it requires.
Precedence ==
  (IF config.ignoreGlobalDefaults THEN <<>> ELSE config.requires \o <<"global">>)
    \o <<"sugarkube.yaml">> \o Manifests

\* The last of the files.
Highest(files) ==
  LET places == {i \in DOMAIN Precedence : Precedence[i] \in files}
  IN  IF places = {} THEN Unset
      ELSE Precedence[CHOOSE i \in places : \A j \in places : j <= i]

Giver(e, f) == Highest({file \in File : f \in config.given[file][e]})
Definer(e) == Highest({file \in File : config.given[file][e] # {}})

\* Once everything is loaded, each field of a source, an output or a run unit
\* has the value of the file with the highest precedence that gives it, in
\* whatever order the layers were added; a template comes from one file.
\* (stack/manifest.go:78-88, kapp.go:133-333, 402-487)
PrecedenceKept ==
  stage = "ready" =>
    /\ \A e \in Entry : \A f \in Propagated(e) \ {"key"} :
         ValueOf(mergedDescriptor, e, f) = Giver(e, f)
    /\ written = {} =>
         OfEntry(mergedDescriptor, "template")
           = IF Definer("template") = Unset THEN {} ELSE OfEntry(LayerOf(Definer("template")), "template")

\* The kapp's variables have the path the template was rendered to last,
\* however often it was skipped or its descriptor merged since.
\* (kapp.go:866-888, executor.go:1210-1236)
RenderedPathKnown ==
  written # {} =>
    Template("rendered_path") = RenderedPath[CHOOSE n \in written : \A k \in written : k <= n]

\* Every variable has its type, and the path is known.
DescriptorInv == DescriptorTypeOK /\ RenderedPathKnown
=============================================================================
