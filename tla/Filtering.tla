------------------------------- MODULE Filtering -------------------------------
(***************************************************************************)
(* Filtering a sequence.  SelectSeq() of the standard modules does the     *)
(* same, but its definition is not available to the prover.                *)
(***************************************************************************)
EXTENDS Sequences, SequencesExt

\* The elements of seq that are in S, in the order they have in seq.
Filtered(seq, S) == FlattenSeq([i \in DOMAIN seq |-> IF seq[i] \in S THEN <<seq[i]>> ELSE <<>>])
=============================================================================
