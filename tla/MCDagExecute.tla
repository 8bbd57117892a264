---------------------------- MODULE MCDagExecute -----------------------------
(* Instances of DagExecute for TLC. *)
EXTENDS DagExecute

CONSTANTS a, b, c

\* c depends on the roots a and b.
Join == {<<a, c>>, <<b, c>>}

\* b's conditions do not hold; a and c are marked.
Install ==
  [action |-> "install", marked |-> {a, c}, valid |-> {a, c}, plan |-> FALSE, approved |-> TRUE,
   runPre |-> TRUE, runPost |-> FALSE, ignoreErrors |-> FALSE]

\* a and c are templated, and c's templating may follow a's, given up.
TemplateAll ==
  [Install EXCEPT !.action = "template", !.valid = {a, b, c}, !.ignoreErrors = TRUE]

\* a is cleaned, whatever run steps fail.
CleanAnyway == [Install EXCEPT !.action = "clean", !.marked = {a}, !.ignoreErrors = TRUE]

Executed == {Install, [TemplateAll EXCEPT !.valid = {a, c}], CleanAnyway}
JustInstall == {Install}
=============================================================================
