----------------------------- MODULE MCProviderVars ----------------------------
(* An instance of ProviderVars for TLC: two directories to search, in which  *)
(* a path of Some, with all below it, may be missing, two kapps that add     *)
(* files, a third that needs both and adds one too, and a fourth after it.   *)
EXTENDS ProviderVars

CONSTANTS shared, own, values, aws, region, notes, ami, zone, app, mail, f, g, h, i

Roots == <<shared, own>>
Names == <<values, aws, region, aws>>

Dir(name) == <<name, "dir">>
Yaml(name) == <<name, "yaml">>

Some == {
  <<shared>>, <<own>>,
  <<shared, Yaml(values)>>, <<shared, Yaml(aws)>>, <<shared, Yaml(region)>>,
  <<shared, Yaml(notes)>>, <<shared, <<values, "txt">>>>,
  <<shared, Dir(aws)>>, <<shared, Dir(aws), Yaml(region)>>, <<shared, Dir(aws), Yaml(values)>>,
  <<shared, Dir(aws), Dir(region)>>, <<shared, Dir(aws), Dir(region), Yaml(values)>>,
  <<shared, Dir(region)>>, <<shared, Dir(region), Yaml(aws)>>,
  <<own, Yaml(region)>>}

MostTrees ==
  {Some} \cup {{path \in Some : ~IsPrefix(gone, path)} : gone \in Some}

Chain == {<<app, ami>>, <<app, zone>>, <<mail, app>>}
Files == [n \in Node |-> CASE n = ami -> <<f>> [] n = zone -> <<g, h>>
                           [] n = app -> <<i>> [] OTHER -> <<>>]
=============================================================================
