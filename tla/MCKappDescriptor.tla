--------------------------- MODULE MCKappDescriptor ---------------------------
(* Configurations in which the files differ in one entry, in every way. *)
EXTENDS KappDescriptor, TLC

CONSTANTS p1, p2

\* `files` give any of `fields` of the entry, and nothing else is given.
Giving(entry, files, fields) ==
  {[file \in File |-> [e \in Entry |-> IF e = entry /\ file \in files THEN g[file] ELSE {}]] :
     g \in [files -> SUBSET fields]}

Configurations(givens, requirements, ignores) ==
  [given : givens, requires : requirements, ignoreGlobalDefaults : ignores]

OwnFiles == {"sugarkube.yaml", "descriptor", "overrides"}

\* Only the branch of a source is given as a version.
Versions ==
  {[g EXCEPT !["versions"]["source"] = v] :
     g \in Giving("source", OwnFiles, FieldsOf["source"]), v \in {{}, {"branch"}}}

MCInputs ==
  Configurations(Giving("output", OwnFiles, FieldsOf["output"]), {<<>>}, {TRUE})
  \cup Configurations(Versions, {<<>>}, {FALSE})
  \cup Configurations(Giving("unit", {p1, p2, "global", "sugarkube.yaml"}, FieldsOf["unit"]),
                      {<<>>, <<p2, "unknown", p1>>}, BOOLEAN)
  \cup Configurations(Giving("unit", {p1, "manifest defaults", "stack defaults", "overrides"},
                             FieldsOf["unit"]), {<<p1>>}, {FALSE})
  \cup Configurations(Giving("template", {p1, "sugarkube.yaml", "overrides"}, {"source", "conditions"}),
                      {<<p1>>}, {FALSE})
=============================================================================
