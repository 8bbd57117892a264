----------------------------- MODULE MCDagBuild ------------------------------
(* An instance of DagBuild for TLC: two manifests with three kapps. *)
EXTENDS DagBuild

CONSTANTS a, b, c, unknown

TwoManifests == <<<<a, b>>, <<c>>>>

\* Any dependency among the kapps, c's on itself and on one nobody knows.
AnyDependency == ((Node \X Node) \ {<<a, a>>, <<b, b>>}) \cup {<<c, unknown>>}
=============================================================================
