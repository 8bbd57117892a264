---------------------------- MODULE AcquireSources ----------------------------
(***************************************************************************)
(* Populating the workspace (cacher/cacher.go with acquirer/git.go and     *)
(* acquirer/file.go).  The manifest's selected kapps are cached one after  *)
(* the other, the sources of a kapp in parallel: a goroutine per source    *)
(* clones or updates it and links to it, and reports on doneCh or errCh,   *)
(* both unbuffered.  The caller returns at the first error, having closed  *)
(* doneCh, on which other goroutines may still send.                       *)
(*                                                                         *)
(* What is on disk outlives the process, which may be killed anywhere; the *)
(* user may then check out another branch and run the command again.       *)
(***************************************************************************)
EXTENDS Naturals, Sequences, FiniteSets, SequencesExt

CONSTANTS
  Kapps,           \* the kapps of the manifest, in order
  SourcesOf,       \* the sources of each kapp
  FileSource,      \* sources on the local file system; the others use git
  MaxRuns          \* bound: how often the command is run

Source == UNION {SourcesOf[k] : k \in ToSet(Kapps)}

ASSUME KappsAssumption ==
  /\ Kapps \in Seq(ToSet(Kapps)) /\ Kapps # <<>> /\ IsInjective(Kapps)
  /\ DOMAIN SourcesOf = ToSet(Kapps)
  /\ \A k, l \in ToSet(Kapps) : k # l => SourcesOf[k] \cap SourcesOf[l] = {}
  /\ \A k \in ToSet(Kapps) : SourcesOf[k] # {}
ASSUME SourceAssumption ==
  IsFiniteSet(Source) /\ FileSource \subseteq Source /\ MaxRuns \in Nat

VARIABLES
  repo,            \* disk: what is in the directory of a source
  content,         \* disk: whether the path the source names exists in it
  link,            \* disk: whether its symbolic link exists, maybe dangling
  pc,              \* where the goroutine of a source is
  mainPc,          \* where the caller is; "off" when no process runs
  queue,           \* selected kapps not yet cached, with the current one
  received,        \* reports received for the current kapp
  dryRun,          \* the option of this run
  runs             \* runs started

diskVars == <<repo, content, link>>
processVars == <<pc, mainPc, queue, received, dryRun, runs>>
acquireVars == <<diskVars, processVars>>

AcquireTypeOK ==
  /\ repo \in [Source -> {"absent", "begun", "checkedOut", "otherBranch"}]
  /\ content \in [Source -> BOOLEAN]
  /\ link \in [Source -> BOOLEAN]
  /\ pc \in [Source -> {"idle", "acquire", "cloning", "updating", "link", "symlink",
                        "failing", "missing", "unlinked", "reporting", "ended"}]
  /\ mainPc \in {"off", "preparing", "waiting", "closing", "failed", "succeeded", "panicked"}
  /\ queue \subseteq ToSet(Kapps)
  /\ received \in 0..(Cardinality(Source) - 1)
  /\ dryRun \in BOOLEAN
  /\ runs \in 0..MaxRuns

-----------------------------------------------------------------------------
AcquireInit ==
  /\ repo = [s \in Source |-> "absent"]
  /\ content \in {f \in [Source -> BOOLEAN] : \A s \in Source \ FileSource : ~f[s]}
  /\ link = [s \in Source |-> FALSE]
  /\ pc = [s \in Source |-> "idle"]
  /\ mainPc = "off"
  /\ queue = {}
  /\ received = 0
  /\ dryRun = FALSE
  /\ runs = 0

\* The command starts on a non-empty selection of kapps.
StartRun ==
  /\ mainPc = "off"
  /\ runs < MaxRuns
  /\ runs' = runs + 1
  /\ queue' \in (SUBSET ToSet(Kapps)) \ {{}}
  /\ mainPc' = "preparing"
  /\ received' = 0
  /\ dryRun' \in BOOLEAN
  /\ UNCHANGED <<diskVars, pc>>

\* Kapps are cached in their order in the manifest.
Before(k, l) == \E i, j \in DOMAIN Kapps : i < j /\ Kapps[i] = k /\ Kapps[j] = l

IsCurrent(k) == k \in queue /\ \A l \in queue \ {k} : Before(k, l)

\* Make the directories of the next kapp and its acquirers, and spawn a
\* goroutine per source; or fail.
Prepare ==
  /\ mainPc = "preparing"
  /\ \/ /\ mainPc' = "waiting"
        /\ \E k \in queue :
             /\ IsCurrent(k)
             /\ pc' = [s \in Source |-> IF s \in SourcesOf[k] THEN "acquire" ELSE "idle"]
     \/ mainPc' = "failed" /\ UNCHANGED pc
  /\ UNCHANGED <<diskVars, queue, received, dryRun, runs>>

\* The process exits or is killed.
EndProcess ==
  /\ mainPc # "off"
  /\ mainPc' = "off"
  /\ pc' = [s \in Source |-> "idle"]
  /\ UNCHANGED <<diskVars, queue, received, dryRun, runs>>

\* Between two runs the user checks out a branch of their own.
SwitchBranch(s) ==
  /\ mainPc = "off"
  /\ repo[s] = "checkedOut"
  /\ repo' = [repo EXCEPT ![s] = "otherBranch"]
  /\ content' \in {[content EXCEPT ![s] = c] : c \in BOOLEAN}
  /\ UNCHANGED <<link, processVars>>

-----------------------------------------------------------------------------
(* The goroutine of a source *)

Running == mainPc \notin {"off", "panicked"}

Go(s, next) ==
  /\ pc' = [pc EXCEPT ![s] = next]
  /\ UNCHANGED <<mainPc, queue, received, dryRun, runs>>

\* Nothing is acquired in a dry run.
SkipAcquire(s) ==
  /\ Running /\ pc[s] = "acquire"
  /\ dryRun
  /\ Go(s, "link")
  /\ UNCHANGED diskVars

\* acquire() of a file source asks whether it is there: only an error of asking
\* is returned, while that it is missing is left for the link to notice.
AcquireFile(s) ==
  /\ Running /\ pc[s] = "acquire"
  /\ ~dryRun /\ s \in FileSource
  /\ \E next \in {"link", "failing"} : Go(s, next)
  /\ UNCHANGED diskVars

\* acquire(): clone() makes the directory if there is none, else update().
Acquire(s) ==
  /\ Running /\ pc[s] = "acquire"
  /\ ~dryRun /\ s \notin FileSource
  /\ \/ repo[s] = "absent" /\ repo' = [repo EXCEPT ![s] = "begun"] /\ Go(s, "cloning")
     \/ repo[s] # "absent" /\ UNCHANGED repo /\ Go(s, "updating")
     \/ UNCHANGED repo /\ Go(s, "failing")
  /\ UNCHANGED <<content, link>>

\* The git commands of clone() succeed, and the checkout has the path or not;
\* or one of them fails or times out.
Clone(s) ==
  /\ Running /\ pc[s] = "cloning"
  /\ \/ /\ repo' = [repo EXCEPT ![s] = "checkedOut"]
        /\ content' \in {[content EXCEPT ![s] = c] : c \in BOOLEAN}
        /\ Go(s, "link")
     \/ UNCHANGED <<repo, content>> /\ Go(s, "failing")
  /\ UNCHANGED link

\* A mistaken variant of Update, to show what the properties notice.
UpdateAnyBranch(s) ==
  /\ Running /\ pc[s] = "updating"
  /\ \/ /\ content' \in {[content EXCEPT ![s] = c] : c \in BOOLEAN}
        /\ Go(s, "link")
     \/ UNCHANGED content /\ Go(s, "failing")
  /\ UNCHANGED <<repo, link>>

\* update() pulls into the branch it wants, and refuses any other; a clone
\* that was begun has no branch yet.
Update(s) ==
  /\ Running /\ pc[s] = "updating"
  /\ \/ /\ repo[s] = "checkedOut"
        /\ content' \in {[content EXCEPT ![s] = c] : c \in BOOLEAN}
        /\ Go(s, "link")
     \/ UNCHANGED content /\ Go(s, "failing")
  /\ UNCHANGED <<repo, link>>

\* A mistaken variant of CheckLink, to show what the properties notice.
CheckLinkItself(s) ==
  /\ Running /\ pc[s] = "link"
  /\ \/ Go(s, IF link[s] \/ dryRun THEN "reporting"
              ELSE IF content[s] THEN "symlink" ELSE "missing")
     \/ Go(s, "failing")
  /\ UNCHANGED diskVars

\* os.Stat follows the link; if it leads nowhere the source is looked at.
CheckLink(s) ==
  /\ Running /\ pc[s] = "link"
  /\ \/ Go(s, IF (link[s] /\ content[s]) \/ dryRun THEN "reporting"
              ELSE IF content[s] THEN "symlink" ELSE "missing")
     \/ Go(s, "failing")
  /\ UNCHANGED diskVars

\* os.Symlink fails if there is a link, be it dangling, or for other reasons.
Symlink(s) ==
  /\ Running /\ pc[s] = "symlink"
  /\ \/ ~link[s] /\ link' = [link EXCEPT ![s] = TRUE] /\ Go(s, "reporting")
     \/ UNCHANGED link /\ Go(s, "unlinked")
  /\ UNCHANGED <<repo, content>>

\* The caller receives an error; two of the goroutine's errors do not make
\* it return.
SendError(s) ==
  /\ mainPc = "waiting"
  /\ \/ pc[s] = "failing" /\ pc' = [pc EXCEPT ![s] = "ended"]
     \/ pc[s] = "missing" /\ pc' = [pc EXCEPT ![s] = "symlink"]
     \/ pc[s] = "unlinked" /\ pc' = [pc EXCEPT ![s] = "reporting"]
  /\ mainPc' = "closing"
  /\ UNCHANGED <<diskVars, queue, received, dryRun, runs>>

\* A mistaken variant of SendDone, to show what the properties notice.
SendDoneUncounted(s) ==
  /\ mainPc = "waiting"
  /\ pc[s] = "reporting"
  /\ pc' = [pc EXCEPT ![s] = "ended"]
  /\ \E k \in queue :
       /\ IsCurrent(k)
       /\ IF received + 1 < Cardinality(SourcesOf[k])
            THEN UNCHANGED <<received, mainPc, queue>>
            ELSE /\ received' = 0
                 /\ queue' = queue \ {k}
                 /\ mainPc' = IF queue' = {} THEN "succeeded" ELSE "preparing"
  /\ UNCHANGED <<diskVars, dryRun, runs>>

\* The caller receives a report; after the last one of a kapp it goes on
\* with the next kapp or is through.
SendDone(s) ==
  /\ mainPc = "waiting"
  /\ pc[s] = "reporting"
  /\ pc' = [pc EXCEPT ![s] = "ended"]
  /\ \E k \in queue :
       /\ IsCurrent(k)
       /\ IF received + 1 < Cardinality(SourcesOf[k])
            THEN received' = received + 1 /\ UNCHANGED <<mainPc, queue>>
            ELSE /\ received' = 0
                 /\ queue' = queue \ {k}
                 /\ mainPc' = IF queue' = {} THEN "succeeded" ELSE "preparing"
  /\ UNCHANGED <<diskVars, dryRun, runs>>

\* The caller closes doneCh and returns the error ...
CloseDoneCh ==
  /\ mainPc = "closing"
  /\ mainPc' = "failed"
  /\ UNCHANGED <<diskVars, pc, queue, received, dryRun, runs>>

\* ... and a goroutine that sends on it, or was about to, panics.
Panic(s) ==
  /\ mainPc = "failed"
  /\ pc[s] = "reporting"
  /\ mainPc' = "panicked"
  /\ UNCHANGED <<diskVars, pc, queue, received, dryRun, runs>>

Goroutine(s) ==
  \/ SkipAcquire(s) \/ AcquireFile(s) \/ Acquire(s) \/ Clone(s) \/ Update(s) \/ CheckLink(s)
  \/ Symlink(s) \/ SendError(s) \/ SendDone(s) \/ Panic(s)

AcquireNext ==
  \/ StartRun
  \/ Prepare
  \/ EndProcess
  \/ CloseDoneCh
  \/ \E s \in Source : SwitchBranch(s) \/ Goroutine(s)

AcquireSpec == AcquireInit /\ [][AcquireNext]_acquireVars

(***************************************************************************)
(* The git commands have timeouts, so every step of a goroutine ends.      *)
(***************************************************************************)
FairAcquireSpec ==
  AcquireSpec /\ WF_acquireVars(Prepare) /\ WF_acquireVars(CloseDoneCh) /\ \A s \in Source : WF_acquireVars(Goroutine(s))

-----------------------------------------------------------------------------
(* The command succeeds only on a workspace in which every source of every *)
(* kapp it was to cache is there, whatever earlier runs left behind, and   *)
(* not before the last of its goroutines is through.                       *)
Linked(s) ==
  /\ s \in FileSource \/ repo[s] = "checkedOut"
  /\ content[s]
  /\ link[s]

SuccessMeansLinked ==
  /\ mainPc = "succeeded" => \A s \in Source : pc[s] \in {"idle", "ended"}
  /\ ~dryRun => \A s \in Source :
       pc[s] = "ended" /\ mainPc \in {"waiting", "preparing", "succeeded"} => Linked(s)

(* A working copy in which the user has checked out another branch is left *)
(* alone, as the message of update() says, to prevent losing work.         *)
NoWorkLost ==
  [][\A s \in Source : mainPc # "off" /\ repo[s] = "otherBranch" =>
       UNCHANGED <<repo[s], content[s]>>]_acquireVars

(* The command ends: for every kapp the caller finds as many reports as it *)
(* waits for among those of its goroutines, or an error.                   *)
AcquireReturns ==
  mainPc = "preparing" ~> mainPc \in {"succeeded", "failed", "panicked", "off"}
=============================================================================
