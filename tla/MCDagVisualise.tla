---------------------------- MODULE MCDagVisualise ----------------------------
(* Instances of DagVisualise, with the walk's inductive invariant, for TLC. *)
EXTENDS DagVisualise, DagWalkInv

CONSTANTS a, b, c, d

\* A diamond: b and c depend on a, d depends on both.
Diamond == {<<a, b>>, <<a, c>>, <<b, d>>, <<c, d>>}

AllButOne == {Node, Node \ {b}}
=============================================================================
