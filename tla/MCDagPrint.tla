----------------------------- MODULE MCDagPrint ------------------------------
(* Instances of DagPrint for TLC. *)
EXTENDS DagPrint

CONSTANTS a, b, c, d

\* a and b are roots, c depends on both and d on b.
Fork == {<<a, c>>, <<b, c>>, <<b, d>>}
=============================================================================
