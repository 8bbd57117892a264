------------------------------ MODULE VarsFiles ------------------------------
(***************************************************************************)
(* How a provider finds its files of variables: findVarsFiles() walks the  *)
(* stack's directories of variables (provider/provider.go) in the order of *)
(* PrecedenceWalk() (utils/precedence_walk.go), and GetVarsFromFiles()     *)
(* merges what it found: later files override earlier ones.                *)
(*                                                                         *)
(* A path is a sequence: the directory the search starts from, then        *)
(* entries <<base name, kind>>; the kind is an extension or "dir".         *)
(***************************************************************************)
EXTENDS Naturals, FiniteSets, Filtering

CONSTANTS
  Root,            \* the stack's directories of variables, in order
  Precedence,      \* base names, in order: the stack's provider, account, ...
  Trees            \* the directory trees there may be: sets of paths

Kinds == <<"txt", "yaml", "dir">>   \* in the order in which they are sorted

IsFile(path) == Len(path) > 1 /\ path[Len(path)][2] # "dir"

\* Trees are below the directories, and what is above a path is a directory.
ASSUME TreesAssumption ==
  /\ Root \in Seq(ToSet(Root)) /\ Precedence \in Seq(ToSet(Precedence))
  /\ \A t \in Trees : \A path \in t :
       /\ path \in Seq(ToSet(path)) \ {<<>>}
       /\ path[1] \in ToSet(Root)
       /\ \A i \in 2..Len(path) : path[i] \in {path[i][1]} \X ToSet(Kinds)
       /\ Len(path) > 1 => Front(path) \in t /\ ~IsFile(Front(path))

VARIABLES
  tree,            \* input: the directories and files there are
  unreadable,      \* input: directories and files that cannot be read
  root,            \* how many of the directories were searched, or are being
  pending,         \* paths to walk to, the frames of walk() flattened
  paths,           \* the files found
  merged,          \* the files whose variables were merged
  outcome          \* "none", or how GetVarsFromFiles ended

vars == <<tree, unreadable, root, pending, paths, merged, outcome>>

TypeOK ==
  /\ root \in 0..Len(Root)
  /\ ToSet(pending) \cup ToSet(paths) \subseteq tree
  /\ merged \in {<<>>, paths}
  /\ outcome \in {"none", "vars", "empty", "error"}

-----------------------------------------------------------------------------
\* A mistaken variant of Deduped, to show what the properties notice.
AsGiven == [i \in 1..Len(Precedence) |-> Precedence[i]]

\* Each base name where it occurs first.
Deduped ==
  FlattenSeq([i \in DOMAIN Precedence |->
    IF \E j \in 1..(i - 1) : Precedence[j] = Precedence[i] THEN <<>> ELSE <<Precedence[i]>>])

\* What is in a directory under a base name, files before a directory.
Matches(dir, rule) ==
  Filtered([i \in DOMAIN Kinds |-> Append(dir, <<rule, Kinds[i]>>)], tree)

ByRule(dir) == FlattenSeq([i \in DOMAIN Deduped |-> Matches(dir, Deduped[i])])

\* A mistaken variant of applyPrecedence, to show what the properties notice.
applyRules(dir) == ByRule(dir)

TreeFiles == {path \in tree : IsFile(path)}

\* Files are hoisted over directories.
applyPrecedence(dir) == Filtered(ByRule(dir), TreeFiles) \o Filtered(ByRule(dir), tree \ TreeFiles)

Init ==
  /\ tree \in Trees
  /\ unreadable \in {{}} \cup {{path} : path \in tree}
  /\ root = 0
  /\ pending = <<>>
  /\ paths = <<>>
  /\ merged = <<>>
  /\ outcome = "none"

\* PrecedenceWalk() of the next directory, which must exist.
StartWalk ==
  /\ outcome = "none" /\ pending = <<>> /\ root < Len(Root)
  /\ root' = root + 1
  /\ \/ <<Root[root + 1]>> \in tree /\ pending' = <<<<Root[root + 1]>>>> /\ UNCHANGED outcome
     \/ <<Root[root + 1]>> \notin tree /\ outcome' = "error" /\ UNCHANGED pending
  /\ UNCHANGED <<tree, unreadable, paths, merged>>

\* The function that findVarsFiles passes to the walk.
WalkToFile ==
  /\ outcome = "none" /\ pending # <<>> /\ IsFile(Head(pending))
  /\ paths' = IF Last(Head(pending))[2] = "yaml" THEN Append(paths, Head(pending)) ELSE paths
  /\ pending' = Tail(pending)
  /\ UNCHANGED <<tree, unreadable, root, merged, outcome>>

WalkToDir ==
  /\ outcome = "none" /\ pending # <<>> /\ ~IsFile(Head(pending))
  /\ \/ /\ Head(pending) \notin unreadable
        /\ pending' = applyPrecedence(Head(pending)) \o Tail(pending)
        /\ UNCHANGED outcome
     \/ /\ Head(pending) \in unreadable
        /\ outcome' = "error" /\ UNCHANGED pending
  /\ UNCHANGED <<tree, unreadable, root, paths, merged>>

\* All or nothing; a stack without any variables is refused. (Files are not empty.)
MergePaths ==
  /\ outcome = "none" /\ pending = <<>> /\ root = Len(Root)
  /\ \/ ToSet(paths) \cap unreadable # {} /\ outcome' = "error" /\ UNCHANGED merged
     \/ /\ ToSet(paths) \cap unreadable = {} /\ merged' = paths
        /\ outcome' = IF paths = <<>> THEN "empty" ELSE "vars"
  /\ UNCHANGED <<tree, unreadable, root, pending, paths>>

Next == StartWalk \/ WalkToFile \/ WalkToDir \/ MergePaths

Spec == Init /\ [][Next]_vars

-----------------------------------------------------------------------------
\* The files that are meant: every base name on the way is in the list.
Wanted ==
  {path \in tree : /\ IsFile(path) /\ Last(path)[2] = "yaml"
                   /\ \A i \in 2..Len(path) : path[i][1] \in ToSet(Precedence)}

(* If loading the variables succeeds, every file that is meant was merged, *)
(* and no other, and once if the stack names each of its directories once; *)
(* none was left out because it could not be read or is in a directory     *)
(* that cannot.  (precedence_walk.go:26-31)                                *)
MergedExactly ==
  outcome \in {"vars", "empty"} =>
    /\ ToSet(merged) = Wanted
    /\ IsInjective(Root) => Cardinality(ToSet(merged)) = Len(merged)

Position(seq, e) == CHOOSE i \in 1..Len(seq) : seq[i] = e /\ \A j \in 1..(i - 1) : seq[j] # e

\* Whether entry a of a directory comes before entry b.
Precedes(a, b) ==
  IF (a[2] = "dir") # (b[2] = "dir") THEN b[2] = "dir"
  ELSE Position(Precedence, a[1]) < Position(Precedence, b[1])

(* Which of two files overrides the other depends on the names where their *)
(* paths part, and on nothing else: what is in a directory overrides the   *)
(* files beside it, and otherwise what comes later in the list of names    *)
(* overrides what comes earlier.  That is depth first, as the code walks   *)
(* (precedence_walk.go:46-83, :158-183) and as its test expects, where the *)
(* comment at precedence_walk.go:169-170 and CHANGELOG.md:100 say breadth  *)
(* first.                                                                  *)
OverridesByName ==
  \A i, j \in DOMAIN paths : i < j /\ IsInjective(Root) =>
    LET p == paths[i] q == paths[j]
        k == CHOOSE k \in 1..(Len(p) + 1) : p[k] # q[k] /\ \A h \in 1..(k - 1) : p[h] = q[h]
    IN IF k = 1 THEN Position(Root, p[1]) < Position(Root, q[1]) ELSE Precedes(p[k], q[k])
=============================================================================
