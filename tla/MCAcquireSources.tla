--------------------------- MODULE MCAcquireSources ---------------------------
(* An instance of AcquireSources for TLC: two kapps, the first with two git *)
(* sources, the second with a file.                                         *)
EXTENDS AcquireSources

CONSTANTS k, l, git1, git2, file

TwoKapps == <<k, l>>
ThreeSources == [kapp \in {k, l} |-> IF kapp = k THEN {git1, git2} ELSE {file}]
=============================================================================
