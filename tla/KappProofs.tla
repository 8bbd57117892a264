------------------------------ MODULE KappProofs ------------------------------
(***************************************************************************)
(* Theorems about what several goroutines do to kapps at once, outside of  *)
(* the walk itself: AcquireSources, for any kapps and sources, and         *)
(* KappRegistry, for every graph, every choice of kapps whose conditions   *)
(* hold and every naming.                                                  *)
(*                                                                         *)
(* Acquiring: the inductive invariant counts.  While the caller waits it   *)
(* has received as many reports as goroutines of the current kapp have     *)
(* ended, so when it has received them all none is left that could send    *)
(* another.                                                                *)
(*                                                                         *)
(* Registries: the argument has two parts.  One is about the schedule:     *)
(* when a kapp has been started its providers are all reported (on the     *)
(* way down) or all waiting (on the way up), so no output that anybody     *)
(* may read is being loaded (ProvidersElsewhere).  The other says what a   *)
(* registry holds at each stage of its life: the outputs of the parents    *)
(* merged so far (Drafted), then of all ancestors, then its own as well    *)
(* (Complete).                                                             *)
(***************************************************************************)
EXTENDS AcquireSources, KappRegistry, FiniteSetTheorems, TLAPS

-----------------------------------------------------------------------------
(* Part 1.  Acquiring sources. *)

Reports(k) == {s \in SourcesOf[k] : pc[s] = "ended"}

\* Nothing runs when no process does.
Still == mainPc = "off" => \A s \in Source : pc[s] = "idle"

\* The caller waits for the goroutines of the current kapp, one per source.
Waiting ==
  mainPc = "waiting" =>
    \E k \in queue :
      /\ IsCurrent(k)
      /\ \A s \in Source : pc[s] # "idle" <=> s \in SourcesOf[k]
      /\ received = Cardinality(Reports(k))
      /\ received < Cardinality(SourcesOf[k])

\* Between two kapps no goroutine is left.
Between ==
  mainPc \in {"preparing", "succeeded"} =>
    received = 0 /\ \A s \in Source : pc[s] \in {"idle", "ended"}

\* A clone is made in a directory that was not there.
Fresh == \A s \in Source : pc[s] = "cloning" => repo[s] = "begun"

\* What is acquired is checked out, and what is reported is linked.
Acquired ==
  ~dryRun => \A s \in Source :
    /\ pc[s] \in {"link", "symlink", "missing", "unlinked", "reporting"} =>
         s \in FileSource \/ repo[s] = "checkedOut"
    /\ mainPc = "waiting" /\ pc[s] = "symlink" => content[s]
    /\ mainPc = "waiting" /\ pc[s] = "reporting" => Linked(s)
    /\ mainPc \in {"waiting", "preparing", "succeeded"} /\ pc[s] = "ended" => Linked(s)

AcquireInv ==
  AcquireTypeOK /\ Still /\ Waiting /\ Between /\ Fresh /\ Acquired

Pc == {"idle", "acquire", "cloning", "updating", "link", "symlink",
       "failing", "missing", "unlinked", "reporting", "ended"}

-----------------------------------------------------------------------------
(* Kapps and their sources *)

LEMMA SourcesFinite ==
  ASSUME NEW k \in ToSet(Kapps)
  PROVE  /\ SourcesOf[k] \subseteq Source /\ IsFiniteSet(SourcesOf[k])
         /\ Cardinality(SourcesOf[k]) \in Nat \ {0}
         /\ Cardinality(Source) \in Nat
         /\ Cardinality(SourcesOf[k]) <= Cardinality(Source)
<1>1. SourcesOf[k] \subseteq Source
  BY DEF Source
<1>2. IsFiniteSet(Source)
  BY SourceAssumption
<1>3. IsFiniteSet(SourcesOf[k]) /\ Cardinality(SourcesOf[k]) <= Cardinality(Source)
  BY <1>1, <1>2, FS_Subset
<1>4. Cardinality(SourcesOf[k]) \in Nat /\ Cardinality(Source) \in Nat
  BY <1>2, <1>3, FS_CardinalityType
<1>5. SourcesOf[k] # {}
  BY KappsAssumption
<1>6. Cardinality(SourcesOf[k]) # 0
  BY <1>3, <1>5, FS_EmptySet
<1>7. QED
  BY <1>1, <1>3, <1>4, <1>6

LEMMA SomeSource == Cardinality(Source) \in Nat \ {0}
<1>1. 1 \in DOMAIN Kapps
  BY KappsAssumption
<1>2. Kapps[1] \in ToSet(Kapps)
  BY <1>1 DEF ToSet
<1>3. QED
  BY <1>2, SourcesFinite

\* One kapp is cached at a time.
LEMMA OneCurrent ==
  ASSUME NEW k, NEW l, IsCurrent(k), IsCurrent(l)
  PROVE  k = l
<1>1. SUFFICES ASSUME k # l PROVE FALSE
  OBVIOUS
<1>2. Before(k, l) /\ Before(l, k)
  BY <1>1 DEF IsCurrent
<1>3. PICK i \in DOMAIN Kapps, j \in DOMAIN Kapps : i < j /\ Kapps[i] = k /\ Kapps[j] = l
  BY <1>2 DEF Before
<1>4. PICK m \in DOMAIN Kapps, n \in DOMAIN Kapps : m < n /\ Kapps[m] = l /\ Kapps[n] = k
  BY <1>2 DEF Before
<1>5. i = n /\ j = m
  BY <1>3, <1>4, KappsAssumption DEF IsInjective
<1>6. DOMAIN Kapps \subseteq Nat
  BY KappsAssumption
<1>7. QED
  BY <1>3, <1>4, <1>5, <1>6

-----------------------------------------------------------------------------
(* A step of a goroutine on its own *)

LEMMA GoKeeps ==
  ASSUME AcquireInv, NEW s \in Source, NEW next \in Pc \ {"idle", "ended"},
         Running, pc[s] \notin {"idle", "ended"}, Go(s, next)
  PROVE  Still' /\ Waiting' /\ Between'
<1> USE DEF Go
<1>1. pc \in [Source -> Pc]
  BY DEF AcquireInv, AcquireTypeOK, Pc
<1>2. Still'
  BY DEF Still, Running
<1>3. Between'
  BY DEF AcquireInv, Between
<1>4. ASSUME NEW x \in Source
      PROVE  (pc'[x] = "idle" <=> pc[x] = "idle") /\ (pc'[x] = "ended" <=> pc[x] = "ended")
  BY <1>1
<1>5. Waiting'
  <2>1. SUFFICES ASSUME mainPc = "waiting" PROVE Waiting'
    BY DEF Waiting
  <2>2. PICK k \in queue : /\ IsCurrent(k)
                           /\ \A x \in Source : pc[x] # "idle" <=> x \in SourcesOf[k]
                           /\ received = Cardinality(Reports(k))
                           /\ received < Cardinality(SourcesOf[k])
    BY <2>1 DEF AcquireInv, Waiting
  <2>3. k \in ToSet(Kapps)
    BY DEF AcquireInv, AcquireTypeOK
  <2>4. SourcesOf[k] \subseteq Source
    BY <2>3, SourcesFinite
  <2>5. Reports(k)' = Reports(k)
    BY <1>4, <2>4 DEF Reports
  <2>6. IsCurrent(k)'
    BY <2>2 DEF IsCurrent
  <2>7. QED
    BY <1>4, <2>2, <2>5, <2>6 DEF Waiting
<1>6. QED
  BY <1>2, <1>3, <1>5

LEMMA GoroutineAlone ==
  ASSUME AcquireInv, NEW s \in Source,
         \/ SkipAcquire(s) \/ AcquireFile(s) \/ Acquire(s) \/ Clone(s) \/ Update(s)
         \/ CheckLink(s) \/ Symlink(s)
  PROVE  AcquireInv'
<1> USE DEF AcquireInv
<1>1. PICK next \in Pc \ {"idle", "ended"} :
        Running /\ pc[s] \notin {"idle", "ended"} /\ Go(s, next)
  BY DEF SkipAcquire, AcquireFile, Acquire, Clone, Update, CheckLink, Symlink, Pc
<1>2. Still' /\ Waiting' /\ Between'
  BY <1>1, GoKeeps
<1>3. AcquireTypeOK'
  BY <1>1 DEF AcquireTypeOK, Go, Pc, diskVars, SkipAcquire, AcquireFile, Acquire, Clone, Update,
              CheckLink, Symlink
<1>4. Fresh'
  BY DEF Fresh, AcquireTypeOK, Go, diskVars, SkipAcquire, AcquireFile, Acquire, Clone, Update,
         CheckLink, Symlink
<1>5. Acquired'
  <2> USE DEF Acquired, Linked, AcquireTypeOK, Go, diskVars
  <2>1. CASE SkipAcquire(s)
    BY <2>1 DEF SkipAcquire
  <2>2. CASE AcquireFile(s)
    BY <2>2 DEF AcquireFile
  <2>3. CASE Acquire(s)
    BY <2>3 DEF Acquire
  <2>4. CASE Clone(s)
    BY <2>4 DEF Clone
  <2>5. CASE Update(s)
    BY <2>5 DEF Update
  <2>6. CASE CheckLink(s)
    BY <2>6 DEF CheckLink
  <2>7. CASE Symlink(s)
    BY <2>7 DEF Symlink
  <2>8. QED
    BY <2>1, <2>2, <2>3, <2>4, <2>5, <2>6, <2>7
<1>6. QED
  BY <1>2, <1>3, <1>4, <1>5

-----------------------------------------------------------------------------
(* A report to the caller *)

LEMMA SendDoneKeeps ==
  ASSUME AcquireInv, NEW s \in Source, SendDone(s)
  PROVE  AcquireInv'
<1> USE DEF AcquireInv
<1>1. mainPc = "waiting" /\ pc[s] = "reporting" /\ pc' = [pc EXCEPT ![s] = "ended"]
  BY DEF SendDone
<1>2. PICK k \in queue :
        /\ IsCurrent(k)
        /\ IF received + 1 < Cardinality(SourcesOf[k])
             THEN received' = received + 1 /\ UNCHANGED <<mainPc, queue>>
             ELSE /\ received' = 0
                  /\ queue' = queue \ {k}
                  /\ mainPc' = IF queue' = {} THEN "succeeded" ELSE "preparing"
  BY DEF SendDone
<1>3. PICK l \in queue : /\ IsCurrent(l)
                         /\ \A x \in Source : pc[x] # "idle" <=> x \in SourcesOf[l]
                         /\ received = Cardinality(Reports(l))
                         /\ received < Cardinality(SourcesOf[l])
  BY <1>1 DEF Waiting
<1>4. k = l
  BY <1>2, <1>3, OneCurrent
<1>5. k \in ToSet(Kapps)
  BY DEF AcquireTypeOK
<1>6. /\ SourcesOf[k] \subseteq Source /\ IsFiniteSet(SourcesOf[k])
      /\ Cardinality(SourcesOf[k]) \in Nat
      /\ Cardinality(Source) \in Nat
      /\ Cardinality(SourcesOf[k]) <= Cardinality(Source)
  BY <1>5, SourcesFinite
<1>7. s \in SourcesOf[k] /\ s \notin Reports(k)
  BY <1>1, <1>3, <1>4 DEF Reports
<1>8. IsFiniteSet(Reports(k))
  BY <1>6, FS_Subset DEF Reports
<1>9. Reports(k)' = Reports(k) \cup {s}
  BY <1>1, <1>6, <1>7 DEF Reports, AcquireTypeOK
<1>10. Cardinality(Reports(k)') = received + 1
  BY <1>3, <1>4, <1>7, <1>8, <1>9, FS_AddElement
<1>11. received \in Nat
  BY <1>3, <1>8, <1>4, FS_CardinalityType
<1>12. UNCHANGED <<diskVars, dryRun, runs>>
  BY DEF SendDone
<1>13. Fresh'
  BY <1>1, <1>12 DEF Fresh, AcquireTypeOK, diskVars
<1>14. Acquired'
  BY <1>1, <1>12 DEF Acquired, Linked, AcquireTypeOK, diskVars
<1>15. CASE received + 1 < Cardinality(SourcesOf[k])
  <2>1. received' = received + 1 /\ UNCHANGED <<mainPc, queue>>
    BY <1>2, <1>15
  <2>2. received' \in 0..(Cardinality(Source) - 1)
    BY <1>6, <1>11, <1>15, <2>1
  <2>3. AcquireTypeOK'
    BY <1>1, <1>12, <2>1, <2>2 DEF AcquireTypeOK, diskVars
  <2>4. IsCurrent(k)'
    BY <1>2, <2>1 DEF IsCurrent
  <2>5. \A x \in Source : pc'[x] # "idle" <=> x \in SourcesOf[k]
    BY <1>1, <1>3, <1>4 DEF AcquireTypeOK
  <2>6. Waiting'
    BY <1>2, <1>10, <1>15, <2>1, <2>4, <2>5 DEF Waiting
  <2>7. Still' /\ Between'
    BY <1>1, <2>1 DEF Still, Between
  <2>8. QED
    BY <1>13, <1>14, <2>3, <2>6, <2>7
<1>16. CASE ~(received + 1 < Cardinality(SourcesOf[k]))
  <2>1. received' = 0 /\ queue' = queue \ {k} /\ mainPc' \in {"succeeded", "preparing"}
    BY <1>2, <1>16
  <2>2. received + 1 = Cardinality(SourcesOf[k])
    BY <1>3, <1>4, <1>6, <1>11, <1>16
  <2>3. Reports(k)' \subseteq SourcesOf[k]
    BY DEF Reports
  <2>4. Reports(k)' = SourcesOf[k]
    BY <1>6, <1>10, <2>2, <2>3, FS_Subset
  <2>5. ASSUME NEW x \in Source PROVE pc'[x] \in {"idle", "ended"}
    <3>1. CASE x \in SourcesOf[k]
      BY <2>4, <3>1 DEF Reports
    <3>2. CASE x \notin SourcesOf[k]
      BY <1>1, <1>3, <1>4, <1>7, <3>2 DEF AcquireTypeOK
    <3>3. QED
      BY <3>1, <3>2
  <2>6. AcquireTypeOK'
    BY <1>1, <1>12, <2>1, SomeSource DEF AcquireTypeOK, diskVars
  <2>7. Still' /\ Waiting' /\ Between'
    BY <2>1, <2>5 DEF Still, Waiting, Between
  <2>8. QED
    BY <1>13, <1>14, <2>6, <2>7
<1>17. QED
  BY <1>15, <1>16

-----------------------------------------------------------------------------
(* The caller, and what happens between two runs *)

LEMMA PrepareKeeps == AcquireInv /\ Prepare => AcquireInv'
<1> SUFFICES ASSUME AcquireInv, Prepare PROVE AcquireInv'
  OBVIOUS
<1> USE DEF AcquireInv
<1>1. mainPc = "preparing" /\ UNCHANGED <<diskVars, queue, received, dryRun, runs>>
  BY DEF Prepare
<1>2. CASE mainPc' = "failed" /\ UNCHANGED pc
  BY <1>1, <1>2 DEF AcquireTypeOK, Still, Waiting, Between, Fresh, Acquired, Linked, diskVars
<1>3. ASSUME mainPc' = "waiting", NEW k \in queue, IsCurrent(k),
             pc' = [s \in Source |-> IF s \in SourcesOf[k] THEN "acquire" ELSE "idle"]
      PROVE  AcquireInv'
  <2>1. AcquireTypeOK'
    BY <1>1, <1>3 DEF AcquireTypeOK, diskVars
  <2>2. Still' /\ Between' /\ Fresh' /\ Acquired'
    BY <1>1, <1>3 DEF Still, Between, Fresh, Acquired, diskVars
  <2>3. k \in ToSet(Kapps)
    BY DEF AcquireTypeOK
  <2>4. SourcesOf[k] \subseteq Source /\ Cardinality(SourcesOf[k]) \in Nat \ {0}
    BY <2>3, SourcesFinite
  <2>5. Reports(k)' = {}
    BY <1>3, <2>4 DEF Reports
  <2>6. received' = Cardinality(Reports(k)')
    BY <1>1, <2>5, FS_EmptySet DEF Between
  <2>7. received' = 0
    BY <1>1 DEF Between
  <2>8. IsCurrent(k)' /\ k \in queue'
    BY <1>1, <1>3 DEF IsCurrent
  <2>9. Waiting'
    <3>1. \A s \in Source : pc'[s] # "idle" <=> s \in SourcesOf[k]
      BY <1>3
    <3>2. received' < Cardinality(SourcesOf[k])
      BY <2>4, <2>7
    <3>3. QED
      BY <2>6, <2>8, <3>1, <3>2 DEF Waiting
  <2>10. QED
    BY <2>1, <2>2, <2>9
<1>4. QED
  BY <1>2, <1>3 DEF Prepare

LEMMA AcquireInitial == AcquireInit => AcquireInv
<1> SUFFICES ASSUME AcquireInit PROVE AcquireInv
  OBVIOUS
<1> USE DEF AcquireInit
<1>1. 0 \in 0..(Cardinality(Source) - 1) /\ 0 \in 0..MaxRuns
  BY SomeSource, SourceAssumption
<1> content \in [Source -> BOOLEAN]
  OBVIOUS
<1>2. AcquireTypeOK
  BY <1>1 DEF AcquireTypeOK
<1>3. Still /\ Waiting /\ Between /\ Fresh /\ Acquired
  BY DEF Still, Waiting, Between, Fresh, Acquired
<1>4. QED
  BY <1>2, <1>3 DEF AcquireInv

LEMMA AcquireStep == AcquireInv /\ [AcquireNext]_acquireVars => AcquireInv'
<1> SUFFICES ASSUME AcquireInv, [AcquireNext]_acquireVars PROVE AcquireInv'
  OBVIOUS
<1>1. CASE StartRun
  BY <1>1, SomeSource, SourceAssumption
     DEF StartRun, AcquireInv, AcquireTypeOK, Still, Waiting, Between, Fresh, Acquired, diskVars
<1>2. CASE Prepare
  BY <1>2, PrepareKeeps
<1>3. CASE EndProcess
  BY <1>3 DEF EndProcess, AcquireInv, AcquireTypeOK, Still, Waiting, Between, Fresh, Acquired, diskVars
<1>4. CASE CloseDoneCh
  BY <1>4 DEF CloseDoneCh, AcquireInv, AcquireTypeOK, Still, Waiting, Between, Fresh, Acquired,
              diskVars
<1>5. ASSUME NEW s \in Source, SwitchBranch(s) PROVE AcquireInv'
  BY <1>5 DEF SwitchBranch, AcquireInv, AcquireTypeOK, Still, Waiting, Between, Fresh, Acquired,
              processVars
<1>6. ASSUME NEW s \in Source, Goroutine(s) PROVE AcquireInv'
  <2>1. CASE \/ SkipAcquire(s) \/ AcquireFile(s) \/ Acquire(s) \/ Clone(s) \/ Update(s)
             \/ CheckLink(s) \/ Symlink(s)
    BY <2>1, GoroutineAlone
  <2>2. CASE SendError(s)
    BY <2>2 DEF SendError, AcquireInv, AcquireTypeOK, Still, Waiting, Between, Fresh, Acquired, diskVars
  <2>3. CASE SendDone(s)
    BY <2>3, SendDoneKeeps
  <2>4. CASE Panic(s)
    BY <2>4 DEF Panic, AcquireInv, AcquireTypeOK, Still, Waiting, Between, Fresh, Acquired, diskVars
  <2>5. QED
    BY <1>6, <2>1, <2>2, <2>3, <2>4 DEF Goroutine
<1>7. CASE UNCHANGED acquireVars
  <2>1. UNCHANGED <<repo, content, link, pc, mainPc, queue, received, dryRun, runs>>
    BY <1>7 DEF acquireVars, diskVars, processVars
  <2>2. AcquireTypeOK' /\ Still' /\ Between' /\ Fresh' /\ Acquired'
    BY <2>1 DEF AcquireInv, AcquireTypeOK, Still, Between, Fresh, Acquired, Linked
  <2>3. Waiting'
    BY <2>1 DEF AcquireInv, Waiting, IsCurrent, Reports
  <2>4. QED
    BY <2>2, <2>3 DEF AcquireInv
<1>8. QED
  BY <1>1, <1>2, <1>3, <1>4, <1>5, <1>6, <1>7 DEF AcquireNext

-----------------------------------------------------------------------------
(* Every behaviour keeps the invariant. *)
THEOREM AcquireInvariant == AcquireSpec => []AcquireInv
<1>1. QED
  BY AcquireInitial, AcquireStep, PTL DEF AcquireSpec

(* Type correctness; the caller never counts more reports than there are   *)
(* sources.                                                                *)
THEOREM AcquireTypeCorrect == AcquireSpec => []AcquireTypeOK
<1>1. AcquireInv => AcquireTypeOK
  BY DEF AcquireInv
<1>2. QED
  BY <1>1, AcquireInvariant, PTL

(* The command (cacher.go, CacheManifest) succeeds only when every source  *)
(* of every kapp it cached is acquired and linked, whatever state killed   *)
(* runs and the user have left the workspace in, and when no goroutine is  *)
(* at work any more.                                                       *)
THEOREM SuccessLinked == AcquireSpec => []SuccessMeansLinked
<1>1. AcquireInv => SuccessMeansLinked
  BY DEF AcquireInv, Between, Acquired, SuccessMeansLinked
<1>2. QED
  BY <1>1, AcquireInvariant, PTL

(* update() in git.go leaves a working copy on another branch alone.       *)
THEOREM BranchesLeftAlone == AcquireSpec => NoWorkLost
<1>1. AcquireInv /\ [AcquireNext]_acquireVars =>
        [\A s \in Source : mainPc # "off" /\ repo[s] = "otherBranch" =>
            UNCHANGED <<repo[s], content[s]>>]_acquireVars
  <2>1. SUFFICES ASSUME AcquireInv, AcquireNext, NEW s \in Source,
                        mainPc # "off", repo[s] = "otherBranch"
                 PROVE  UNCHANGED <<repo[s], content[s]>>
    OBVIOUS
  <2>2. CASE StartRun \/ Prepare \/ EndProcess \/ CloseDoneCh
    BY <2>1, <2>2 DEF StartRun, Prepare, EndProcess, CloseDoneCh, diskVars
  <2>3. ASSUME NEW x \in Source, SwitchBranch(x) PROVE FALSE
    BY <2>1, <2>3 DEF SwitchBranch
  <2>4. ASSUME NEW x \in Source, Clone(x) PROVE UNCHANGED <<repo[s], content[s]>>
    BY <2>1, <2>4 DEF Clone, AcquireInv, Fresh, AcquireTypeOK
  <2>5. ASSUME NEW x \in Source, Acquire(x) \/ Update(x)
        PROVE  UNCHANGED <<repo[s], content[s]>>
    BY <2>1, <2>5 DEF Acquire, Update, AcquireInv, AcquireTypeOK
  <2>6. ASSUME NEW x \in Source,
               \/ SkipAcquire(x) \/ AcquireFile(x) \/ CheckLink(x) \/ Symlink(x)
               \/ SendError(x) \/ SendDone(x) \/ Panic(x)
        PROVE  UNCHANGED <<repo[s], content[s]>>
    BY <2>6 DEF SkipAcquire, AcquireFile, CheckLink, Symlink, SendError, SendDone, Panic, diskVars
  <2>7. QED
    BY <2>1, <2>2, <2>3, <2>4, <2>5, <2>6 DEF AcquireNext, Goroutine
<1>2. QED
  BY <1>1, AcquireInvariant, PTL DEF AcquireSpec, NoWorkLost

-----------------------------------------------------------------------------
(* Part 2.  The registries. *)

USE DEF scheduleVars, inputVars, localVars, outputVars, stackVars, vars

-----------------------------------------------------------------------------
(* The inductive invariant *)

\* What a kapp has of its own output, and what n is to see of it.
Own(a) == local[a][Full(a)]
Seen(n, a) == IF a \in Providers(n) THEN Own(a) ELSE Absent

\* It is what was last loaded, and more only if run steps had loaded it before.
LastLoad(a) ==
  /\ Shows(Own(a), a)
  /\ Own(a) = loaded[a] \/ (Registered(a) /\ a \in LoadsEarly)

\* Exactly the kapps that were started and not reported are with a worker,
\* in any stage but "reporting" only with conditions that hold.
Staged ==
  \A n \in Node :
    /\ stage[n] = "idle" <=> phase[n] # "started"
    /\ stage[n] \notin {"idle", "reporting"} => n \in valid
    /\ target[n] # {} => Storing(n)
    /\ Storing(n) => Registered(n)
    /\ stage[n] = "storing early" => n \in LoadsEarly
    /\ \A f \in DOMAIN loaded[n] : loaded[n][f].of = n

\* On the way down such a kapp's output has not been loaded yet.
Unloaded(n) ==
  \/ phase[n] = "waiting" \/ stage[n] = "merging"
  \/ n \notin LoadsEarly /\ stage[n] \in {"steps", "outputs"}

\* The walk goes by the graph, and down before up.
Scheduled ==
  /\ \A n \in Node : phase[n] # "waiting" =>
       \A m \in Node : (IF walk = "down" THEN <<m, n>> ELSE <<n, m>>) \in Edge => phase[m] = "reported"
  /\ announced => \A n \in Node : phase[n] = "reported"
  /\ \A n \in Node : walk = "down" /\ Unloaded(n) => loaded[n] = Absent

\* Kapps whose local registry their children may read now or later.
Settled(p) ==
  /\ p \in valid
  /\ IF walk = "down" THEN phase[p] = "reported" \/ stage[p] \notin {"idle", "merging"}
     ELSE phase[p] = "waiting"

\* Their registries have what the ancestors had, and their own output.
Complete ==
  /\ \A p \in Node \ valid : local[p] = NoRegistry
  /\ \A p \in Node : Settled(p) \/ Working(p) =>
       local[p] # NoRegistry /\ \A a \in Node \ {p} : local[p][Full(a)] = Seen(p, a)
  /\ \A p \in Node : Settled(p) => LastLoad(p)

\* A registry that is being built has what the parents had that were merged.
Drafted ==
  \A n \in Node : stage[n] = "merging" =>
    /\ toMerge[n] \subseteq Parents(n)
    /\ \A a \in Node :
         draft[n][Full(a)] =
           IF \E p \in (Parents(n) \cap valid) \ toMerge[n] : a = p \/ a \in Providers(p)
           THEN Own(a) ELSE Absent

\* Short names in a registry of kapp n.
Home(n, registry) ==
  \A i \in Id : \A f \in DOMAIN registry[<<"short", i>>] :
    /\ IdOf[registry[<<"short", i>>][f].of] = i
    /\ ManifestOf[registry[<<"short", i>>][f].of] = ManifestOf[n]

AtHome ==
  \A n \in Node :
    /\ Home(n, draft[n]) /\ draft[n][This] = Absent
    /\ local[n] # NoRegistry =>
         Home(n, local[n]) /\ \A f \in DOMAIN local[n][This] : local[n][This][f].of = n

\* Who stores an output alone does so in the map that is the stack's, or in
\* its first one, and no one holds another map after that.
Stacked ==
  /\ \A m, n \in Node : target[m] # {} /\ target[n] # {} /\ m # n => n \in raced
  /\ \A n \in Node \ raced : target[n] # {} => target[n] = stackRef \/ stackRef = {}
  /\ \A n \in Node \ raced : Registered(n) /\ ~Storing(n) =>
       /\ \E x \in stackRef : Shows(stackMaps[x][n], n)
       /\ \A m \in Node : target[m] # {} => target[m] = stackRef
  /\ \A x, n \in Node : \A f \in DOMAIN stackMaps[x][n] : stackMaps[x][n][f].of = n

RegistryInv ==
  TypeOK /\ Staged /\ Scheduled /\ Complete /\ Drafted /\ AtHome /\ Stacked

-----------------------------------------------------------------------------
(* Facts about the definitions *)

\* What a start requires of the schedule, down or up.
LEMMA StartLemma ==
  ASSUME TypeOK, NEW n \in Node, Start(n)
  PROVE  /\ phase[n] = "waiting"
         /\ \A m \in Node : (IF walk = "down" THEN <<m, n>> ELSE <<n, m>>) \in Edge => phase[m] = "reported"
         /\ phase' = [phase EXCEPT ![n] = "started"]
         /\ announced' = announced
<1>1. CASE walk = "down"
  <2>1. \A m \in Node : <<m, n>> \in Edge => m \in DownWalk!Dependencies(n)
    <3>1. SUFFICES ASSUME NEW m \in Node, <<m, n>> \in Edge
                   PROVE  <<n, m>> \in {<<e[2], e[1]>> : e \in Edge}
      BY DEF DownWalk!Dependencies
    <3>2. QED
      BY <3>1
  <2>2. QED
    BY <1>1, <2>1 DEF Start, DownWalk!Start
<1>2. CASE walk = "up"
  BY <1>2 DEF Start, UpWalk!Start, UpWalk!Dependencies
<1>3. QED
  BY <1>1, <1>2 DEF TypeOK

LEMMA Keys ==
  /\ This \in Key \ FullKey
  /\ \A n \in Node : Full(n) \in FullKey /\ Full(n) \in Key /\ Short(n) \in Key \ FullKey /\ Short(n) # This
  /\ \A i \in Id : <<"short", i>> \in Key \ FullKey /\ <<"short", i>> # This
  /\ \A m, n : Full(m) = Full(n) => m = n
BY NamingAssumption DEF This, Key, FullKey, Full, Short

\* Entries are functions, over fields or over the whole.
LEMMA Entries ==
  /\ Absent \in Entry /\ DOMAIN Absent = {}
  /\ \A e \in Entry : /\ DOMAIN e \in Shape /\ e = [f \in DOMAIN e |-> e[f]]
                      /\ \A f \in DOMAIN e : e[f] \in Output
                      /\ DOMAIN e = {} => e = Absent
  /\ \A parts \in Shape : [parts -> Output] \subseteq Entry
<1>1. \A parts \in Shape : [parts -> Output] \subseteq Entry
  BY DEF Entry
<1>2. {} \in Shape
  BY DEF Shape
<1>3. DOMAIN Absent = {} /\ Absent \in [{} -> Output]
  BY DEF Absent
<1>4. ASSUME NEW e \in Entry
      PROVE  /\ DOMAIN e \in Shape /\ e = [f \in DOMAIN e |-> e[f]]
             /\ \A f \in DOMAIN e : e[f] \in Output
             /\ DOMAIN e = {} => e = Absent
  <2>1. PICK parts \in Shape : e \in [parts -> Output]
    BY DEF Entry
  <2>2. QED
    BY <2>1, <1>3 DEF Absent
<1>5. QED
  BY <1>1, <1>2, <1>3, <1>4

\* What is put into an entry, and nothing else, is added to it or replaced.
LEMMA PutParts ==
  \A old, new : \A f \in DOMAIN Put(old, new) :
    \/ f \in DOMAIN old /\ Put(old, new)[f] = old[f]
    \/ f \in DOMAIN new /\ Put(old, new)[f] = new[f]
BY DEF Put

LEMMA PutEntry ==
  ASSUME NEW old \in Entry, NEW new \in Entry
  PROVE  /\ ~Clashes(old, new) => Put(old, new) \in Entry
         /\ Put(old, old) = old /\ Put(Absent, old) = old /\ Put(old, Absent) = old
         /\ Put(Put(old, new), new) = Put(old, new)
<1>1. /\ DOMAIN old \in Shape /\ old = [f \in DOMAIN old |-> old[f]]
      /\ DOMAIN new \in Shape /\ new = [f \in DOMAIN new |-> new[f]]
      /\ DOMAIN Absent = {}
      /\ \A f \in DOMAIN old : old[f] \in Output
      /\ \A f \in DOMAIN new : new[f] \in Output
  BY Entries
<1>2. ASSUME ~Clashes(old, new)
      PROVE  Put(old, new) \in Entry
  <2>1. CASE Whole \in DOMAIN new
    BY <2>1 DEF Put
  <2>2. CASE Whole \notin DOMAIN new
    <3> DEFINE parts == DOMAIN old \cup DOMAIN new
    <3>1. parts \in Shape
      BY <1>1, <1>2, <2>2, FieldAssumption DEF Shape, Clashes
    <3>2. Put(old, new) = [f \in parts |-> IF f \in DOMAIN new THEN new[f] ELSE old[f]]
      BY <2>2 DEF Put
    <3>3. \A f \in parts : (IF f \in DOMAIN new THEN new[f] ELSE old[f]) \in Output
      BY <1>1
    <3> HIDE DEF parts
    <3>4. Put(old, new) \in [parts -> Output]
      BY <3>2, <3>3
    <3>5. QED
      BY <3>1, <3>4, Entries
  <2>3. QED
    BY <2>1, <2>2
<1>3. Put(old, old) = old /\ Put(Absent, old) = old
  BY <1>1 DEF Put
<1>4. Put(old, Absent) = old
  BY <1>1 DEF Put
<1>5. Put(Put(old, new), new) = Put(old, new)
  <2>1. CASE Whole \in DOMAIN new
    BY <2>1 DEF Put
  <2>2. CASE Whole \notin DOMAIN new
    <3> DEFINE both == [f \in DOMAIN old \cup DOMAIN new |-> IF f \in DOMAIN new THEN new[f] ELSE old[f]]
    <3>1. Put(old, new) = both /\ DOMAIN both = DOMAIN old \cup DOMAIN new
      BY <2>2 DEF Put
    <3>2. \A f \in DOMAIN new : both[f] = new[f]
      OBVIOUS
    <3>3. both = [f \in DOMAIN both |-> both[f]]
      OBVIOUS
    <3>4. Put(both, new) = [f \in DOMAIN both \cup DOMAIN new |-> IF f \in DOMAIN new THEN new[f] ELSE both[f]]
      BY <2>2 DEF Put
    <3> HIDE DEF both
    <3>5. Put(both, new) = [f \in DOMAIN both |-> both[f]]
      BY <3>1, <3>2, <3>4
    <3>6. QED
      BY <3>1, <3>3, <3>5
  <2>3. QED
    BY <2>1, <2>2
<1>6. QED
  BY <1>2, <1>3, <1>4, <1>5

\* Adding a parent's registry: qualified keys are merged as they are, short
\* ones only from the same manifest, and `this` never.
LEMMA MergedKeys ==
  ASSUME TypeOK, NEW n \in Node, NEW p \in Node, ~Unmergeable(n, p)
  PROVE  /\ Merged(n, p) \in Registry
         /\ \A k \in FullKey : Merged(n, p)[k] =
              IF local[p] = NoRegistry THEN draft[n][k] ELSE Put(draft[n][k], local[p][k])
         /\ draft[n][This] = Absent => Merged(n, p)[This] = Absent
         /\ \A i \in Id :
              \/ Merged(n, p)[<<"short", i>>] \in {Absent, draft[n][<<"short", i>>]}
              \/ /\ local[p] # NoRegistry /\ ManifestOf[p] = ManifestOf[n]
                 /\ Merged(n, p)[<<"short", i>>] = Put(draft[n][<<"short", i>>], local[p][<<"short", i>>])
<1>1. CASE local[p] = NoRegistry
  BY <1>1 DEF Merged, TypeOK
<1>2. CASE local[p] # NoRegistry
  <2>1. draft[n] \in Registry /\ local[p] \in Registry
    BY <1>2 DEF TypeOK
  <2> DEFINE both == Merge(draft[n], local[p])
             kept == IF ManifestOf[p] # ManifestOf[n] THEN deleteNonFullyQualifiedOutputs(both) ELSE both
  <2>2. both \in Registry /\ \A k \in Key : both[k] = Put(draft[n][k], local[p][k])
    <3>1. \A k \in Key : Put(draft[n][k], local[p][k]) \in Entry
      BY <1>2, <2>1, PutEntry DEF Unmergeable, Registry
    <3>2. QED
      BY <3>1 DEF Merge, Registry
  <2> HIDE DEF both
  <2>3. /\ kept \in Registry
        /\ \A k \in FullKey : kept[k] = both[k]
        /\ \A k \in Key \ FullKey : kept[k] = IF ManifestOf[p] # ManifestOf[n] THEN Absent ELSE both[k]
    BY <2>2, Entries DEF deleteNonFullyQualifiedOutputs, Registry, FullKey, Key
  <2>4. Merged(n, p) = [kept EXCEPT ![This] = Absent]
    BY <1>2 DEF Merged, deleteSpecialThisOutput, both
  <2> HIDE DEF kept
  <2>5. Merged(n, p) \in Registry /\ Merged(n, p)[This] = Absent
    BY <2>3, <2>4, Keys, Entries DEF Registry
  <2>6. \A k \in Key \ {This} : Merged(n, p)[k] = kept[k]
    BY <2>3, <2>4 DEF Registry
  <2>7. \A k \in FullKey : k \in Key \ {This}
    BY Keys DEF FullKey, Full
  <2>8. QED
    BY <1>2, <2>2, <2>3, <2>5, <2>6, <2>7, Keys
<1>3. QED
  BY <1>1, <1>2

\* Adding a kapp's own output touches nothing else.
LEMMA WithOwnKeys ==
  ASSUME TypeOK, NEW n \in Node, local[n] # NoRegistry, NEW value \in Entry, ~Panics(n, value)
  PROVE  /\ WithOwn(n, value) \in Registry
         /\ \A k \in OwnKeys(n) : WithOwn(n, value)[k] = Put(local[n][k], value)
         /\ \A k \in Key \ OwnKeys(n) : WithOwn(n, value)[k] = local[n][k]
<1>1. local[n] \in Registry
  BY DEF TypeOK
<1>2. OwnKeys(n) \subseteq Key
  BY Keys DEF OwnKeys
<1>3. \A k \in OwnKeys(n) : Put(local[n][k], value) \in Entry
  BY <1>1, <1>2, PutEntry DEF Panics, Registry
<1>4. QED
  BY <1>1, <1>2, <1>3 DEF WithOwn, Registry

\* What is loaded from a file.
LEMMA LoadedValue ==
  ASSUME NEW n \in Node, NEW contents \in Contents
  PROVE  /\ GetOutputs(n, contents) \in Entry \ {Absent}
         /\ \A f \in DOMAIN GetOutputs(n, contents) : GetOutputs(n, contents)[f].of = n
<1> DEFINE is == IF Readable(contents) THEN contents.is ELSE "nil"
<1>1. contents.parts \in Shape \ {{}} /\ is \in {"nil", "early", "final"}
  BY DEF Contents, Readable
<1>2. GetOutputs(n, contents) = [f \in contents.parts |-> [of |-> n, is |-> is]]
  BY DEF GetOutputs
<1> HIDE DEF is
<1>3. [of |-> n, is |-> is] \in Output
  BY <1>1 DEF Output
<1>4. GetOutputs(n, contents) \in [contents.parts -> Output]
  BY <1>2, <1>3
<1>5. DOMAIN GetOutputs(n, contents) # {}
  BY <1>1, <1>2
<1>6. QED
  BY <1>1, <1>2, <1>4, <1>5, Entries

-----------------------------------------------------------------------------
(* The providers of a kapp *)

LEMMA ProvidersClosed ==
  ASSUME NEW n \in Node, NEW m \in Providers(n) \cup {n}
  PROVE  Parents(m) \cap valid \subseteq Providers(n)
<1>1. SUFFICES ASSUME NEW p \in Parents(m) \cap valid, NEW S \in SUBSET Node,
                      \A q \in S \cup {n} : Parents(q) \cap valid \subseteq S
               PROVE  p \in S
  BY DEF Providers, Parents
<1>2. m \in S \cup {n}
  BY <1>1 DEF Providers
<1>3. QED
  BY <1>1, <1>2

LEMMA ProvidersSmallest ==
  ASSUME NEW n \in Node, NEW S \in SUBSET Node,
         \A m \in S \cup {n} : Parents(m) \cap valid \subseteq S
  PROVE  Providers(n) \subseteq S
BY DEF Providers

\* The providers are the parents whose conditions hold, and their providers.
LEMMA ProvidersStep ==
  ASSUME NEW n \in Node
  PROVE  \A a \in Node : a \in Providers(n) <=>
           \E p \in Parents(n) \cap valid : a = p \/ a \in Providers(p)
<1> DEFINE S == {a \in Node : \E p \in Parents(n) \cap valid : a = p \/ a \in Providers(p)}
<1>1. \A p : Parents(p) \subseteq Node
  BY DEF Parents
<1>2. ASSUME NEW m \in S \cup {n}, NEW q \in Parents(m) \cap valid
      PROVE  q \in S
  <2>1. CASE m = n
    BY <1>1, <1>2, <2>1
  <2>2. CASE m \in S
    <3>1. PICK p \in Parents(n) \cap valid : m = p \/ m \in Providers(p)
      BY <2>2
    <3>2. q \in Providers(p)
      BY <1>1, <1>2, <3>1, ProvidersClosed
    <3>3. QED
      BY <1>1, <1>2, <3>1, <3>2
  <2>3. QED
    BY <2>1, <2>2
<1>3. Providers(n) \subseteq S
  <2>1. \A m \in S \cup {n} : Parents(m) \cap valid \subseteq S
    BY <1>2
  <2>2. S \in SUBSET Node
    OBVIOUS
  <2> HIDE DEF S
  <2>3. QED
    BY <2>1, <2>2, ProvidersSmallest
<1>4. ASSUME NEW p \in Parents(n) \cap valid
      PROVE  p \in Providers(n) /\ Providers(p) \subseteq Providers(n)
  <2>1. p \in Providers(n)
    BY ProvidersClosed
  <2>2. \A m \in Providers(n) \cup {p} : Parents(m) \cap valid \subseteq Providers(n)
    BY <2>1, ProvidersClosed
  <2>3. Providers(n) \in SUBSET Node /\ p \in Node
    BY <1>1 DEF Providers
  <2>4. QED
    BY <2>1, <2>2, <2>3, ProvidersSmallest
<1>5. QED
  BY <1>3, <1>4

\* While a kapp is being processed its providers are not: on the way down
\* they have been reported, on the way up none has been started.
LEMMA ProvidersElsewhere ==
  ASSUME Scheduled, NEW n \in Node,
         IF walk = "down" THEN phase[n] # "waiting" ELSE phase[n] # "reported"
  PROVE  \A a \in Providers(n) : phase[a] = IF walk = "down" THEN "reported" ELSE "waiting"
<1> DEFINE S == {a \in Node : phase[a] = IF walk = "down" THEN "reported" ELSE "waiting"}
<1>1. ASSUME NEW m \in S \cup {n}, NEW p \in Parents(m) \cap valid
      PROVE  p \in S
  <2>1. p \in Node /\ m \in Node /\ <<p, m>> \in Edge
    BY <1>1 DEF Parents
  <2>2. CASE walk = "down"
    BY <2>1, <2>2 DEF Scheduled
  <2>3. CASE walk # "down"
    BY <2>1, <2>3 DEF Scheduled
  <2>4. QED
    BY <2>2, <2>3
<1>2. Providers(n) \subseteq S
  <2>1. \A m \in S \cup {n} : Parents(m) \cap valid \subseteq S
    BY <1>1
  <2>2. S \in SUBSET Node
    OBVIOUS
  <2> HIDE DEF S
  <2>3. QED
    BY <2>1, <2>2, ProvidersSmallest
<1>3. QED
  BY <1>2

\* Only kapps whose conditions hold are providers.
LEMMA ProvidersValid ==
  ASSUME NEW n \in Node
  PROVE  Providers(n) \subseteq valid
<1>1. \A m \in (Node \cap valid) \cup {n} : Parents(m) \cap valid \subseteq Node \cap valid
  BY DEF Parents
<1>2. QED
  BY <1>1 DEF Providers

LEMMA SameProviders ==
  ASSUME valid' = valid
  PROVE  \A n \in Node : Providers(n)' = Providers(n)
BY DEF Providers, Parents

LEMMA ProvidersNode ==
  \A n : Providers(n) \subseteq Node
BY DEF Providers

-----------------------------------------------------------------------------
(* The steps *)

\* What a worker does when it has loaded an output.
LoadsOutput(n) ==
  \E contents \in Contents, next \in {"storing early", "storing"} :
    /\ next = "storing early" => n \in LoadsEarly
    /\ Register(n, contents, next)

\* And when it could not.
MissesOutput(n) ==
  /\ file' \in [Node -> Contents]
  /\ failed' \subseteq Node
  /\ stage' = [stage EXCEPT ![n] = "reporting"]
  /\ UNCHANGED <<inputVars, walk, scheduleVars, localVars, loaded, stackVars, fatal>>

\* Files that are written have contents.
LEMMA WrittenContents ==
  /\ \A n \in Node, is \in {"early", "final"} : Written(n, is) \subseteq Contents
  /\ Missing \in Contents /\ EmptyFile \in Contents
<1>1. \A n \in Node, is \in {"early", "final"} : Written(n, is) \subseteq Contents
  BY DEF Written, Contents, Shape
<1>2. Missing \in Contents /\ EmptyFile \in Contents
  BY DEF Missing, EmptyFile, Contents, Shape
<1>3. QED
  BY <1>1, <1>2

LEMMA LoadInStepsLoads ==
  ASSUME TypeOK, NEW n \in Node, LoadInSteps(n)
  PROVE  stage[n] = "steps" /\ LoadsOutput(n)
BY DEF TypeOK, LoadInSteps, LoadsOutput

LEMMA LoadOutputsLoads ==
  ASSUME TypeOK, NEW n \in Node, LoadOutputs(n)
  PROVE  /\ stage[n] = "outputs"
         /\ \/ LoadsOutput(n)
            \/ MissesOutput(n)
<1>1. file \in [Node -> Contents]
  BY DEF TypeOK
<1>2. PICK contents \in Written(n, "final") \cup {EmptyFile, file[n]} :
        \/ Register(n, contents, "storing")
        \/ /\ file' = [file EXCEPT ![n] = contents]
           /\ failed' = IF contents.is = "missing" THEN failed \cup {n} ELSE failed
           /\ stage' = [stage EXCEPT ![n] = "reporting"]
           /\ UNCHANGED <<inputVars, walk, scheduleVars, localVars, loaded, stackVars, fatal>>
  BY DEF LoadOutputs
<1>3. contents \in Contents
  BY <1>1, WrittenContents
<1>4. CASE Register(n, contents, "storing")
  BY <1>3, <1>4 DEF LoadsOutput, LoadOutputs
<1>5. CASE /\ file' = [file EXCEPT ![n] = contents]
           /\ failed' = IF contents.is = "missing" THEN failed \cup {n} ELSE failed
           /\ stage' = [stage EXCEPT ![n] = "reporting"]
           /\ UNCHANGED <<inputVars, walk, scheduleVars, localVars, loaded, stackVars, fatal>>
  <2>1. file' \in [Node -> Contents]
    BY <1>1, <1>3, <1>5
  <2>2. failed' \subseteq Node
    BY <1>5 DEF TypeOK
  <2>3. QED
    BY <1>5, <2>1, <2>2 DEF LoadOutputs, MissesOutput
<1>6. QED
  BY <1>2, <1>4, <1>5

\* The program dies, with nothing else done that the invariant looks at.
Dies ==
  /\ fatal' = TRUE
  /\ file' \in [Node -> Contents]
  /\ UNCHANGED <<inputVars, walk, scheduleVars, stage, localVars, loaded, stackVars, failed>>

\* Or the worker has the output, a `value` of its own kapp.
HasLoaded(n, value) ==
  /\ value \in Entry \ {Absent}
  /\ \A f \in DOMAIN value : value[f].of = n
  /\ ~Panics(n, value)
  /\ loaded' = [loaded EXCEPT ![n] = value]
  /\ local' = [local EXCEPT ![n] = WithOwn(n, value)]
  /\ \E s \in {"storing early", "storing"} :
       /\ s = "storing early" => n \in LoadsEarly
       /\ stage' = [stage EXCEPT ![n] = s]
  /\ file' \in [Node -> Contents]
  /\ UNCHANGED <<inputVars, walk, scheduleVars, toMerge, draft, stackVars, failed, fatal>>

LEMMA LoadEffect ==
  ASSUME TypeOK, NEW n \in Node, LoadsOutput(n)
  PROVE  Dies \/ \E value : HasLoaded(n, value)
<1>1. PICK contents \in Contents, next \in {"storing early", "storing"} :
        /\ next = "storing early" => n \in LoadsEarly
        /\ Register(n, contents, next)
  BY DEF LoadsOutput
<1> DEFINE value == GetOutputs(n, contents)
<1>2. /\ value \in Entry \ {Absent}
      /\ \A f \in DOMAIN value : value[f].of = n
  BY LoadedValue
<1>3. /\ file' = [file EXCEPT ![n] = IF n \in Sensitive /\ Readable(contents) THEN Missing ELSE contents]
      /\ \/ fatal' = TRUE /\ UNCHANGED <<loaded, local, stage>>
         \/ /\ ~Panics(n, value)
            /\ loaded' = [loaded EXCEPT ![n] = value]
            /\ local' = [local EXCEPT ![n] = WithOwn(n, value)]
            /\ stage' = [stage EXCEPT ![n] = next]
            /\ UNCHANGED fatal
      /\ UNCHANGED <<inputVars, walk, scheduleVars, toMerge, draft, stackVars, failed>>
  BY <1>1 DEF Register
<1> HIDE DEF value
<1>4. file' \in [Node -> Contents]
  BY <1>3, WrittenContents DEF TypeOK
<1>5. Dies \/ HasLoaded(n, value)
  BY <1>1, <1>2, <1>3, <1>4 DEF HasLoaded, Dies
<1>6. QED
  BY <1>5

\* The worker of n adds the registry of parent p.
Adds(n, p) ==
  /\ stage[n] = "merging"
  /\ p \in toMerge[n]
  /\ ~Unmergeable(n, p)
  /\ draft' = [draft EXCEPT ![n] = Merged(n, p)]
  /\ toMerge' = [toMerge EXCEPT ![n] = @ \ {p}]
  /\ UNCHANGED <<inputVars, walk, scheduleVars, stage, local, outputVars, stackVars, failed, fatal>>

\* A step of the program: what the proofs distinguish.
LEMMA NextCases ==
  ASSUME TypeOK, Next
  PROVE  /\ ~fatal
         /\ \/ \E n \in Node : Receive(n)
            \/ \E n \in Node : \E p \in Node : Adds(n, p)
            \/ \E n \in Node : SetLocalRegistry(n)
            \/ \E n \in Node : WriteOutput(n)
            \/ \E n \in Node : stage[n] \in {"steps", "outputs"} /\ \E value : HasLoaded(n, value)
            \/ \E n \in Node : EndSteps(n)
            \/ \E n \in Node : stage[n] = "outputs" /\ MissesOutput(n)
            \/ \E n \in Node : LookUpStack(n)
            \/ \E n \in Node : StoreInStack(n)
            \/ \E n \in Node : Report(n)
            \/ Dies
            \/ EndOfWalk
            \/ WalkUp
<1>0. file \in [Node -> Contents] /\ toMerge \in [Node -> SUBSET Node]
  BY DEF TypeOK
<1>1. ASSUME NEW n \in Node, LoadInSteps(n)
      PROVE  stage[n] = "steps" /\ (Dies \/ \E value : HasLoaded(n, value))
  BY <1>1, LoadInStepsLoads, LoadEffect
<1>2. ASSUME NEW n \in Node, LoadOutputs(n)
      PROVE  stage[n] = "outputs" /\ (Dies \/ (\E value : HasLoaded(n, value)) \/ MissesOutput(n))
  BY <1>2, LoadOutputsLoads, LoadEffect
<1>3. ASSUME NEW n \in Node, MergeParent(n)
      PROVE  Dies \/ \E p \in Node : Adds(n, p)
  BY <1>0, <1>3 DEF MergeParent, Dies, Adds
<1>4. ASSUME NEW n \in Node, PanicInStack(n)
      PROVE  Dies
  BY <1>0, <1>4 DEF PanicInStack, Dies
<1>5. CASE StackFault
  BY <1>0, <1>5 DEF StackFault, Dies, Next
<1>6. ASSUME NEW n \in Node, Worker(n)
      PROVE  \/ Receive(n) \/ (\E p \in Node : Adds(n, p)) \/ SetLocalRegistry(n) \/ WriteOutput(n)
             \/ stage[n] \in {"steps", "outputs"} /\ \E value : HasLoaded(n, value)
             \/ EndSteps(n) \/ (stage[n] = "outputs" /\ MissesOutput(n))
             \/ LookUpStack(n) \/ StoreInStack(n) \/ Report(n) \/ Dies
  BY <1>1, <1>2, <1>3, <1>4, <1>6 DEF Worker
<1>7. QED
  BY <1>5, <1>6 DEF Next

\* A kapp that is past merging has its registry.
LEMMA WithWorker ==
  ASSUME RegistryInv, NEW n \in Node, stage[n] \in Stage \ {"idle", "merging", "reporting"}
  PROVE  local[n] # NoRegistry /\ n \in valid /\ phase[n] = "started"
BY DEF RegistryInv, TypeOK, Staged, Complete, Working

\* Typing
LEMMA TypeStep ==
  ASSUME RegistryInv, Next
  PROVE  TypeOK'
<1> USE DEF TypeOK, Stage, AtMostOne
<1>0. TypeOK
  BY DEF RegistryInv
<1>1. CASE \E n \in Node : Receive(n)
  <2>1. PICK n \in Node : Receive(n)
    BY <1>0, <1>1
  <2>2. phase' = [phase EXCEPT ![n] = "started"] /\ announced' = announced
    BY <1>0, <2>1, StartLemma DEF Receive
  <2>3. Empty \in Registry /\ Parents(n) \in SUBSET Node
    BY Entries DEF Empty, Registry, Parents
  <2>4. stage' \in [Node -> Stage]
    BY <1>0, <2>1 DEF Receive
  <2>5. toMerge' \in [Node -> SUBSET Node] /\ draft' \in [Node -> Registry]
    BY <1>0, <2>1, <2>3 DEF Receive
  <2>6. QED
    BY <1>0, <2>1, <2>2, <2>4, <2>5 DEF Receive
<1>2. CASE \E n, p \in Node : Adds(n, p)
  <2>1. PICK n \in Node, p \in Node : Adds(n, p)
    BY <1>2
  <2>2. Merged(n, p) \in Registry
    BY <1>0, <2>1, MergedKeys DEF Adds
  <2>3. draft' \in [Node -> Registry]
    BY <1>0, <2>1, <2>2 DEF Adds
  <2>4. toMerge' \in [Node -> SUBSET Node]
    BY <1>0, <2>1 DEF Adds
  <2>5. QED
    BY <1>0, <2>1, <2>3, <2>4 DEF Adds
<1>3. CASE \E n \in Node : SetLocalRegistry(n)
  <2>1. PICK n \in Node : SetLocalRegistry(n)
    BY <1>0, <1>3
  <2>2. local' \in [Node -> Registry \cup {NoRegistry}]
    BY <1>0, <2>1 DEF SetLocalRegistry
  <2>3. stage' \in [Node -> Stage]
    BY <1>0, <2>1 DEF SetLocalRegistry
  <2>4. QED
    BY <1>0, <2>1, <2>2, <2>3 DEF SetLocalRegistry
<1>4. CASE \E n \in Node : WriteOutput(n)
  <2>1. PICK n \in Node : WriteOutput(n)
    BY <1>0, <1>4
  <2>2. file' \in [Node -> Contents]
    <3>1. PICK contents \in Written(n, "early") \cup {EmptyFile} : file' = [file EXCEPT ![n] = contents]
      BY <2>1 DEF WriteOutput
    <3>2. contents \in Contents
      BY WrittenContents
    <3>3. QED
      BY <1>0, <3>1, <3>2
  <2>3. QED
    BY <1>0, <2>1, <2>2 DEF WriteOutput
<1>5. CASE \E n \in Node : stage[n] \in {"steps", "outputs"} /\ \E value : HasLoaded(n, value)
  <2>1. PICK n \in Node : stage[n] \in {"steps", "outputs"} /\ \E value : HasLoaded(n, value)
    BY <1>5
  <2>2. PICK value : HasLoaded(n, value)
    BY <2>1
  <2>3. local[n] # NoRegistry
    BY <1>0, <2>1, WithWorker
  <2>4. WithOwn(n, value) \in Registry
    BY <1>0, <2>2, <2>3, WithOwnKeys DEF HasLoaded
  <2>5. local' \in [Node -> Registry \cup {NoRegistry}]
    BY <1>0, <2>2, <2>4 DEF HasLoaded
  <2>6. stage' \in [Node -> Stage]
    BY <1>0, <2>2 DEF HasLoaded
  <2>7. loaded' \in [Node -> Entry]
    BY <1>0, <2>2 DEF HasLoaded
  <2>8. QED
    BY <1>0, <2>2, <2>5, <2>6, <2>7 DEF HasLoaded
<1>6. CASE \E n \in Node : EndSteps(n)
  <2>1. PICK n \in Node : EndSteps(n)
    BY <1>0, <1>6
  <2>2. stage' \in [Node -> Stage]
    BY <1>0, <2>1 DEF EndSteps
  <2>3. QED
    BY <1>0, <2>1, <2>2 DEF EndSteps
<1>7. CASE \E n \in Node : stage[n] = "outputs" /\ MissesOutput(n)
  <2>1. PICK n \in Node : MissesOutput(n)
    BY <1>0, <1>7
  <2>2. stage' \in [Node -> Stage]
    BY <1>0, <2>1 DEF MissesOutput
  <2>3. QED
    BY <1>0, <2>1, <2>2 DEF MissesOutput
<1>8. CASE \E n \in Node : LookUpStack(n)
  <2>1. PICK n \in Node : LookUpStack(n)
    BY <1>0, <1>8
  <2>2. target' \in [Node -> AtMostOne]
    BY <1>0, <2>1 DEF LookUpStack
  <2>3. raced' \subseteq Node
    BY <1>0, <2>1 DEF LookUpStack, Storers
  <2>4. QED
    BY <1>0, <2>1, <2>2, <2>3 DEF LookUpStack
<1>9. CASE \E n \in Node : StoreInStack(n)
  <2>1. PICK n \in Node : StoreInStack(n)
    BY <1>0, <1>9
  <2>2. stackRef' \in AtMostOne /\ target' \in [Node -> AtMostOne]
    BY <1>0, <2>1 DEF StoreInStack
  <2>3. stage' \in [Node -> Stage]
    BY <1>0, <2>1 DEF StoreInStack
  <2>4. stackMaps' \in [Node -> [Node -> Entry]]
    <3>1. ASSUME NEW m \in target[n]
          PROVE  Put(stackMaps[m][n], loaded[n]) \in Entry
      <4>1. ~Clashes(stackMaps[m][n], loaded[n])
        BY <2>1 DEF StoreInStack
      <4>2. target \in [Node -> AtMostOne]
        BY <1>0
      <4>3. m \in Node
        BY <4>2
      <4>4. stackMaps[m][n] \in Entry /\ loaded[n] \in Entry
        BY <1>0, <4>3
      <4>5. QED
        BY <4>1, <4>4, PutEntry
    <3>2. Stored(n) \in [Node -> [Node -> Entry]]
      BY <1>0, <3>1 DEF Stored
    <3>3. QED
      BY <1>0, <2>1, <3>2 DEF StoreInStack
  <2>5. QED
    BY <1>0, <2>1, <2>2, <2>3, <2>4 DEF StoreInStack
<1>10. CASE \E n \in Node : Report(n)
  <2>1. PICK n \in Node : Report(n)
    BY <1>0, <1>10
  <2>2. phase' \in [Node -> {"waiting", "started", "reported"}] /\ announced' = announced
    BY <1>0, <2>1 DEF Report, DownWalk!Report
  <2>3. stage' \in [Node -> Stage]
    BY <1>0, <2>1 DEF Report
  <2>4. QED
    BY <1>0, <2>1, <2>2, <2>3 DEF Report
<1>11. CASE Dies
  BY <1>0, <1>11 DEF Dies
<1>12. CASE EndOfWalk
  BY <1>0, <1>12 DEF EndOfWalk, DownWalk!Announce
<1>13. CASE WalkUp
  BY <1>0, <1>13 DEF WalkUp
<1>14. QED
  BY <1>0, <1>1, <1>2, <1>3, <1>4, <1>5, <1>6, <1>7, <1>8, <1>9, <1>10, <1>11, <1>12, <1>13, NextCases

\* The conjunct Staged
LEMMA StagedStep ==
  ASSUME RegistryInv, Next
  PROVE  Staged'
<1> USE DEF Staged, Storing, Registered
<1>0. /\ TypeOK /\ Staged
      /\ phase \in [Node -> {"waiting", "started", "reported"}]
      /\ stage \in [Node -> Stage]
      /\ loaded \in [Node -> Entry]
      /\ target \in [Node -> AtMostOne]
  BY DEF RegistryInv, TypeOK
<1>1. CASE \E n \in Node : Receive(n)
  <2>1. PICK n \in Node : Receive(n)
    BY <1>1
  <2>2. phase' = [phase EXCEPT ![n] = "started"]
    BY <1>0, <2>1, StartLemma DEF Receive
  <2>3. stage[n] = "idle" /\ target[n] = {}
    BY <1>0, <2>1, StartLemma DEF Receive
  <2>4. QED
    BY <1>0, <2>1, <2>2, <2>3 DEF Receive
<1>2. CASE \E n, p \in Node : Adds(n, p)
  BY <1>0, <1>2 DEF Adds
<1>3. CASE \E n \in Node : SetLocalRegistry(n)
  <2>1. PICK n \in Node : SetLocalRegistry(n)
    BY <1>3
  <2>2. /\ stage[n] = "merging" /\ UNCHANGED <<phase, valid, target, loaded>>
        /\ \E s \in {"steps", "outputs", "reporting"} : stage' = [stage EXCEPT ![n] = s]
    BY <2>1 DEF SetLocalRegistry
  <2>3. QED
    BY <1>0, <2>2
<1>4. CASE \E n \in Node : WriteOutput(n)
  BY <1>0, <1>4 DEF WriteOutput
<1>5. CASE \E n \in Node : stage[n] \in {"steps", "outputs"} /\ \E value : HasLoaded(n, value)
  <2>1. PICK n \in Node : stage[n] \in {"steps", "outputs"} /\ \E value : HasLoaded(n, value)
    BY <1>5
  <2>2. PICK value : HasLoaded(n, value)
    BY <2>1
  <2>3. PICK s \in {"storing early", "storing"} :
          /\ s = "storing early" => n \in LoadsEarly
          /\ stage' = [stage EXCEPT ![n] = s]
    BY <2>2 DEF HasLoaded
  <2>4. /\ loaded' = [loaded EXCEPT ![n] = value] /\ value # Absent
        /\ \A f \in DOMAIN value : value[f].of = n
        /\ UNCHANGED <<phase, valid, target>>
    BY <2>2 DEF HasLoaded
  <2>5. \A m \in Node \ {n} : stage'[m] = stage[m] /\ loaded'[m] = loaded[m]
    BY <1>0, <2>3, <2>4
  <2>6. stage'[n] = s /\ loaded'[n] = value
    BY <1>0, <2>3, <2>4
  <2>7. n \in valid /\ phase[n] = "started"
    BY <1>0, <2>1
  <2>8. QED
    BY <1>0, <2>3, <2>4, <2>5, <2>6, <2>7
<1>6. CASE \E n \in Node : EndSteps(n)
  <2>1. PICK n \in Node : EndSteps(n)
    BY <1>6
  <2>2. /\ stage[n] = "steps" /\ UNCHANGED <<phase, valid, target, loaded>>
        /\ \E s \in {"outputs", "reporting"} : stage' = [stage EXCEPT ![n] = s]
    BY <2>1 DEF EndSteps
  <2>3. QED
    BY <1>0, <2>2
<1>7. CASE \E n \in Node : stage[n] = "outputs" /\ MissesOutput(n)
  <2>1. PICK n \in Node : stage[n] = "outputs" /\ MissesOutput(n)
    BY <1>7
  <2>2. /\ stage[n] = "outputs" /\ UNCHANGED <<phase, valid, target, loaded>>
        /\ stage' = [stage EXCEPT ![n] = "reporting"]
    BY <2>1 DEF MissesOutput
  <2>3. QED
    BY <1>0, <2>2
<1>8. CASE \E n \in Node : LookUpStack(n)
  BY <1>0, <1>8 DEF LookUpStack
<1>9. CASE \E n \in Node : StoreInStack(n)
  <2>1. PICK n \in Node : StoreInStack(n)
    BY <1>9
  <2>2. /\ Storing(n) /\ UNCHANGED <<phase, valid, loaded>> /\ target' = [target EXCEPT ![n] = {}]
        /\ \E s \in {"steps", "reporting"} : stage' = [stage EXCEPT ![n] = s]
    BY <2>1 DEF StoreInStack
  <2>3. QED
    BY <1>0, <2>2
<1>10. CASE \E n \in Node : Report(n)
  <2>1. PICK n \in Node : Report(n)
    BY <1>10
  <2>2. /\ stage[n] = "reporting" /\ UNCHANGED <<valid, loaded, target>>
        /\ stage' = [stage EXCEPT ![n] = "idle"] /\ phase' = [phase EXCEPT ![n] = "reported"]
    BY <2>1 DEF Report, DownWalk!Report
  <2>3. QED
    BY <1>0, <2>2
<1>11. CASE Dies
  BY <1>0, <1>11 DEF Dies
<1>12. CASE EndOfWalk
  BY <1>0, <1>12 DEF EndOfWalk, DownWalk!Announce
<1>13. CASE WalkUp
  <2>1. \A n \in Node : phase[n] = "reported"
    BY <1>13 DEF WalkUp, RegistryInv, Scheduled
  <2>2. QED
    BY <1>0, <1>13, <2>1 DEF WalkUp
<1>14. QED
  BY <1>0, <1>1, <1>2, <1>3, <1>4, <1>5, <1>6, <1>7, <1>8, <1>9, <1>10, <1>11, <1>12, <1>13, NextCases

\* The conjunct Scheduled
LEMMA ScheduledStep ==
  ASSUME RegistryInv, Next
  PROVE  Scheduled'
<1> USE DEF Scheduled, Unloaded
<1>0. /\ TypeOK /\ Staged /\ Scheduled
      /\ phase \in [Node -> {"waiting", "started", "reported"}]
      /\ stage \in [Node -> Stage]
      /\ loaded \in [Node -> Entry]
  BY DEF RegistryInv, TypeOK
<1>1. CASE \E n \in Node : Receive(n)
  <2>1. PICK n \in Node : Receive(n)
    BY <1>1
  <2>2. /\ phase[n] = "waiting"
        /\ \A m \in Node : (IF walk = "down" THEN <<m, n>> ELSE <<n, m>>) \in Edge => phase[m] = "reported"
        /\ phase' = [phase EXCEPT ![n] = "started"]
        /\ announced' = announced
    BY <1>0, <2>1, StartLemma DEF Receive
  <2>3. walk' = walk /\ loaded' = loaded
    BY <2>1 DEF Receive
  <2>4. \A k \in Node : phase'[k] # "waiting" =>
          \A m \in Node : (IF walk = "down" THEN <<m, k>> ELSE <<k, m>>) \in Edge => phase'[m] = "reported"
    BY <1>0, <2>2
  <2>5. announced' => \A k \in Node : phase'[k] = "reported"
    BY <1>0, <2>2
  <2>6. \A k \in Node : walk = "down" /\ Unloaded(k)' => loaded[k] = Absent
    BY <1>0, <2>1, <2>2 DEF Receive
  <2>7. QED
    BY <2>3, <2>4, <2>5, <2>6
<1>2. CASE \E n, p \in Node : Adds(n, p)
  BY <1>0, <1>2 DEF Adds
<1>3. CASE \E n \in Node : SetLocalRegistry(n)
  <2>1. PICK n \in Node : SetLocalRegistry(n)
    BY <1>3
  <2>2. /\ stage[n] = "merging" /\ UNCHANGED <<phase, announced, walk, loaded>>
        /\ \E s \in {"steps", "outputs", "reporting"} : stage' = [stage EXCEPT ![n] = s]
    BY <2>1 DEF SetLocalRegistry
  <2>3. QED
    BY <1>0, <2>2
<1>4. CASE \E n \in Node : WriteOutput(n)
  BY <1>0, <1>4 DEF WriteOutput
<1>5. CASE \E n \in Node : stage[n] \in {"steps", "outputs"} /\ \E value : HasLoaded(n, value)
  <2>1. PICK n \in Node : stage[n] \in {"steps", "outputs"} /\ \E value : HasLoaded(n, value)
    BY <1>5
  <2>2. PICK value : HasLoaded(n, value)
    BY <2>1
  <2>3. PICK s \in {"storing early", "storing"} : stage' = [stage EXCEPT ![n] = s]
    BY <2>2 DEF HasLoaded
  <2>4. /\ loaded' = [loaded EXCEPT ![n] = value]
        /\ UNCHANGED <<phase, announced, walk>>
    BY <2>2 DEF HasLoaded
  <2>5. \A m \in Node \ {n} : stage'[m] = stage[m] /\ loaded'[m] = loaded[m]
    BY <1>0, <2>3, <2>4
  <2>6. stage'[n] = s /\ phase[n] = "started"
    BY <1>0, <2>1, <2>3 DEF Staged
  <2>7. QED
    BY <1>0, <2>4, <2>5, <2>6
<1>6. CASE \E n \in Node : EndSteps(n)
  <2>1. PICK n \in Node : EndSteps(n)
    BY <1>6
  <2>2. /\ stage[n] = "steps" /\ UNCHANGED <<phase, announced, walk, loaded>>
        /\ \E s \in {"outputs", "reporting"} : stage' = [stage EXCEPT ![n] = s]
    BY <2>1 DEF EndSteps
  <2>3. QED
    BY <1>0, <2>2
<1>7. CASE \E n \in Node : stage[n] = "outputs" /\ MissesOutput(n)
  BY <1>0, <1>7 DEF MissesOutput
<1>8. CASE \E n \in Node : LookUpStack(n)
  BY <1>0, <1>8 DEF LookUpStack
<1>9. CASE \E n \in Node : StoreInStack(n)
  <2>1. PICK n \in Node : StoreInStack(n)
    BY <1>9
  <2>2. /\ UNCHANGED <<phase, announced, walk, loaded>>
        /\ stage' = [stage EXCEPT ![n] = IF stage[n] = "storing early" THEN "steps" ELSE "reporting"]
        /\ stage[n] \in {"storing early", "storing"}
    BY <1>0, <2>1 DEF StoreInStack, Storing
  <2>3. stage'[n] = "steps" => n \in LoadsEarly
    BY <1>0, <2>2 DEF Staged
  <2>4. \A m \in Node \ {n} : stage'[m] = stage[m]
    BY <1>0, <2>2
  <2>5. stage'[n] \in {"steps", "reporting"}
    BY <1>0, <2>2
  <2>6. QED
    BY <1>0, <2>2, <2>3, <2>4, <2>5
<1>10. CASE \E n \in Node : Report(n)
  <2>1. PICK n \in Node : Report(n)
    BY <1>10
  <2>2. /\ stage[n] = "reporting" /\ stage' = [stage EXCEPT ![n] = "idle"]
        /\ phase' = [phase EXCEPT ![n] = "reported"]
        /\ UNCHANGED <<announced, walk, loaded>>
    BY <2>1 DEF Report, DownWalk!Report
  <2>3. phase[n] = "started"
    BY <1>0, <2>2 DEF Staged
  <2>4. \A k \in Node : phase'[k] # "waiting" =>
          \A m \in Node : (IF walk = "down" THEN <<m, k>> ELSE <<k, m>>) \in Edge => phase'[m] = "reported"
    BY <1>0, <2>2, <2>3
  <2>5. QED
    BY <1>0, <2>2, <2>3, <2>4
<1>11. CASE Dies
  BY <1>0, <1>11 DEF Dies
<1>12. CASE EndOfWalk
  BY <1>0, <1>12 DEF EndOfWalk, DownWalk!Announce
<1>13. CASE WalkUp
  BY <1>0, <1>13 DEF WalkUp
<1>14. QED
  BY <1>0, <1>1, <1>2, <1>3, <1>4, <1>5, <1>6, <1>7, <1>8, <1>9, <1>10, <1>11, <1>12, <1>13, NextCases

\* Kapps that are being processed are no providers of those that have their
\* registries, nor of those that are getting them.
LEMMA StartedProvideNot ==
  ASSUME RegistryInv, NEW n \in Node, phase[n] = "started"
  PROVE  /\ \A p \in Node : Settled(p) \/ Working(p) => n \notin Providers(p)
         /\ \A p \in Node : phase[p] = "started" => n \notin Providers(p)
<1>1. ASSUME NEW p \in Node, IF walk = "down" THEN phase[p] # "waiting" ELSE phase[p] # "reported"
      PROVE  n \notin Providers(p)
  BY <1>1, ProvidersElsewhere DEF RegistryInv
<1>2. ASSUME NEW p \in Node, Settled(p) \/ Working(p)
      PROVE  IF walk = "down" THEN phase[p] # "waiting" ELSE phase[p] # "reported"
  BY <1>2 DEF Settled, Working, RegistryInv, Staged, TypeOK
<1>3. QED
  BY <1>1, <1>2

\* When a kapp has been started the registries of its parents are ready.
LEMMA ParentsSettled ==
  ASSUME RegistryInv, NEW n \in Node, phase[n] = "started", NEW p \in Parents(n) \cap valid
  PROVE  Settled(p) /\ p # n
<1>1. <<p, n>> \in Edge /\ p \in Node
  BY DEF Parents
<1>2. CASE walk = "down"
  BY <1>1, <1>2 DEF RegistryInv, Scheduled, Settled
<1>3. CASE walk # "down"
  BY <1>1, <1>3 DEF RegistryInv, Scheduled, Settled
<1>4. QED
  BY <1>2, <1>3

\* A step that changes no local registry and no output keeps Complete.
LEMMA CompleteKept ==
  ASSUME Complete, UNCHANGED <<valid, local, loaded>>,
         \A p \in Node : Settled(p)' => Settled(p),
         \A p \in Node : Working(p)' => Settled(p) \/ Working(p)
  PROVE  Complete'
<1>1. \A p \in Node : Providers(p)' = Providers(p)
  BY SameProviders
<1>2. \A p, a \in Node : Own(a)' = Own(a) /\ Seen(p, a)' = Seen(p, a) /\ (LastLoad(a)' <=> LastLoad(a))
  BY <1>1 DEF Own, Seen, LastLoad, Shows, Registered
<1>3. QED
  BY <1>2 DEF Complete

\* Nor does one that changes only those of a kapp n that has been started,
\* if what n has of the others' outputs is right, and of its own.
LEMMA CompleteChanged ==
  ASSUME RegistryInv, NEW n \in Node, phase[n] = "started", n \in valid,
         UNCHANGED <<valid, phase, walk>>,
         \A p \in Node \ {n} : local'[p] = local[p] /\ loaded'[p] = loaded[p] /\ stage'[p] = stage[p],
         local'[n] # NoRegistry,
         \A a \in Node \ {n} : local'[n][Full(a)] = Seen(n, a),
         walk = "down" => LastLoad(n)'
  PROVE  Complete'
<1>1. \A p \in Node : Providers(p)' = Providers(p)
  BY SameProviders
<1>2. \A p \in Node \ {n} : /\ (Settled(p)' <=> Settled(p)) /\ (Working(p)' <=> Working(p))
                            /\ Own(p)' = Own(p) /\ (LastLoad(p)' <=> LastLoad(p))
  BY DEF Settled, Working, Own, LastLoad, Shows, Registered
<1>3. ASSUME NEW p \in Node, Settled(p) \/ Working(p) \/ p = n, NEW a \in Node
      PROVE  Seen(p, a)' = Seen(p, a)
  BY <1>1, <1>2, <1>3, StartedProvideNot DEF Seen
<1>4. \A p \in Node \ valid' : local'[p] = NoRegistry
  BY DEF RegistryInv, Complete
<1>5. ASSUME NEW p \in Node, Settled(p)' \/ Working(p)'
      PROVE  /\ local'[p] # NoRegistry
             /\ \A a \in Node \ {p} : local'[p][Full(a)] = Seen(p, a)'
  BY <1>2, <1>3, <1>5 DEF RegistryInv, Complete
<1>6. ASSUME NEW p \in Node, Settled(p)'
      PROVE  LastLoad(p)'
  <2>1. CASE p = n
    BY <1>6, <2>1 DEF Settled
  <2>2. CASE p # n
    BY <1>2, <1>6, <2>2 DEF RegistryInv, Complete
  <2>3. QED
    BY <2>1, <2>2
<1>7. QED
  BY <1>4, <1>5, <1>6 DEF Complete

\* The conjunct Complete
LEMMA CompleteStep ==
  ASSUME RegistryInv, Next
  PROVE  Complete'
<1>0. TypeOK /\ Staged /\ Scheduled /\ Complete /\ Drafted
  BY DEF RegistryInv
<1>1. CASE \E n \in Node : Receive(n)
  <2>1. PICK n \in Node : Receive(n)
    BY <1>1
  <2>2. phase' = [phase EXCEPT ![n] = "started"]
    BY <1>0, <2>1, StartLemma DEF Receive
  <2>3. /\ stage' = [stage EXCEPT ![n] = IF n \in valid THEN "merging" ELSE "reporting"]
        /\ UNCHANGED <<valid, walk, local, loaded>>
    BY <2>1 DEF Receive
  <2>4. phase \in [Node -> {"waiting", "started", "reported"}] /\ stage \in [Node -> Stage]
    BY <1>0 DEF TypeOK
  <2>5. QED
    BY <1>0, <2>2, <2>3, <2>4, CompleteKept DEF Settled, Working
<1>2. CASE \E n, p \in Node : Adds(n, p)
  BY <1>0, <1>2, CompleteKept DEF Adds, Settled, Working
<1>3. CASE \E n \in Node : SetLocalRegistry(n)
  <2>1. PICK n \in Node : SetLocalRegistry(n)
    BY <1>3
  <2>2. /\ stage[n] = "merging" /\ toMerge[n] = {}
        /\ local' = [local EXCEPT ![n] = draft[n]]
        /\ \E s \in {"steps", "outputs", "reporting"} : stage' = [stage EXCEPT ![n] = s]
        /\ UNCHANGED <<valid, walk, phase, loaded>>
    BY <2>1 DEF SetLocalRegistry
  <2>3. /\ phase[n] = "started" /\ n \in valid
        /\ stage \in [Node -> Stage] /\ local \in [Node -> Registry \cup {NoRegistry}] /\ draft[n] \in Registry
    BY <1>0, <2>2 DEF Staged, TypeOK
  <2>4. \A a \in Node : draft[n][Full(a)] = Seen(n, a)
    BY <1>0, <2>2, ProvidersStep DEF Drafted, Seen
  <2>5. Seen(n, n) = Absent
    BY <2>3, StartedProvideNot DEF Seen
  <2>6. draft[n] # NoRegistry
    BY <2>3, NilAssumption
  <2>7. local'[n] = draft[n]
    BY <2>2, <2>3
  <2>8. ASSUME walk = "down"
        PROVE  LastLoad(n)'
    <3>1. loaded'[n] = Absent
      BY <1>0, <2>2, <2>8 DEF Scheduled, Unloaded
    <3>2. Own(n)' = Absent
      BY <2>4, <2>5, <2>7 DEF Own
    <3>3. QED
      BY <3>1, <3>2, Entries, PutEntry DEF LastLoad, Shows
  <2>9. \A p \in Node \ {n} : local'[p] = local[p] /\ loaded'[p] = loaded[p] /\ stage'[p] = stage[p]
    BY <2>2, <2>3
  <2>10. QED
    BY <2>2, <2>3, <2>4, <2>6, <2>7, <2>8, <2>9, CompleteChanged
<1>4. CASE \E n \in Node : WriteOutput(n)
  BY <1>0, <1>4, CompleteKept DEF WriteOutput, Settled, Working
<1>5. CASE \E n \in Node : stage[n] \in {"steps", "outputs"} /\ \E value : HasLoaded(n, value)
  <2>1. PICK n \in Node : stage[n] \in {"steps", "outputs"} /\ \E value : HasLoaded(n, value)
    BY <1>5
  <2>2. PICK value : HasLoaded(n, value)
    BY <2>1
  <2>3. local[n] # NoRegistry /\ n \in valid /\ phase[n] = "started"
    BY <2>1, WithWorker DEF Stage
  <2>4. /\ stage \in [Node -> Stage] /\ loaded \in [Node -> Entry]
        /\ local \in [Node -> Registry \cup {NoRegistry}]
    BY <1>0 DEF TypeOK
  <2>5. /\ value \in Entry \ {Absent}
        /\ \A f \in DOMAIN value : value[f].of = n
        /\ loaded' = [loaded EXCEPT ![n] = value]
        /\ local' = [local EXCEPT ![n] = WithOwn(n, value)]
        /\ \E s \in {"storing early", "storing"} : stage' = [stage EXCEPT ![n] = s]
        /\ UNCHANGED <<valid, walk, phase>>
    BY <2>2 DEF HasLoaded
  <2>6. \A p \in Node \ {n} : local'[p] = local[p] /\ loaded'[p] = loaded[p] /\ stage'[p] = stage[p]
    BY <2>4, <2>5
  <2>7. local'[n] = WithOwn(n, value) /\ loaded'[n] = value
    BY <2>4, <2>5
  <2>8. /\ WithOwn(n, value) \in Registry
        /\ WithOwn(n, value)[Full(n)] = Put(Own(n), value)
        /\ \A a \in Node \ {n} : WithOwn(n, value)[Full(a)] = local[n][Full(a)]
    <3>1. \A a \in Node \ {n} : Full(a) \in Key \ OwnKeys(n)
      BY Keys DEF OwnKeys
    <3>2. ~Panics(n, value)
      BY <2>2 DEF HasLoaded
    <3>3. QED
      BY <1>0, <2>3, <2>5, <3>1, <3>2, WithOwnKeys DEF OwnKeys, Own
  <2>9. local'[n] # NoRegistry
    BY <2>7, <2>8, NilAssumption
  <2>10. \A a \in Node \ {n} : local'[n][Full(a)] = Seen(n, a)
    <3>1. Working(n)
      BY <2>1, <2>3 DEF Working
    <3>2. QED
      BY <1>0, <2>7, <2>8, <3>1 DEF Complete
  <2>11. ASSUME walk = "down"
         PROVE  LastLoad(n)'
    <3>1. LastLoad(n)
      BY <1>0, <2>1, <2>3, <2>11 DEF Complete, Settled
    <3>2. Own(n)' = Put(Own(n), value) /\ Own(n) \in Entry
      BY <2>3, <2>4, <2>7, <2>8, Keys DEF Own, Registry
    <3>3. Put(Put(Own(n), value), value) = Put(Own(n), value) /\ Put(Absent, value) = value
      BY <2>5, <3>2, PutEntry
    <3>4. \A f \in DOMAIN Put(Own(n), value) : Put(Own(n), value)[f].of = n
      <4>1. \A f \in DOMAIN Own(n) : Own(n)[f].of = n
        BY <3>1 DEF LastLoad, Shows
      <4>2. \A f \in DOMAIN value : value[f].of = n
        BY <2>5
      <4>3. \A f \in DOMAIN Put(Own(n), value) :
              \/ f \in DOMAIN Own(n) /\ Put(Own(n), value)[f] = Own(n)[f]
              \/ f \in DOMAIN value /\ Put(Own(n), value)[f] = value[f]
        BY PutParts
      <4>4. QED
        BY <4>1, <4>2, <4>3
    <3>5. Shows(Own(n), n)'
      BY <2>7, <3>2, <3>3, <3>4 DEF Shows
    <3>6. CASE n \in LoadsEarly
      BY <2>5, <2>7, <3>5, <3>6 DEF LastLoad, Registered
    <3>7. CASE n \notin LoadsEarly
      <4>1. loaded[n] = Absent
        BY <1>0, <2>1, <2>11, <3>7 DEF Scheduled, Unloaded
      <4>2. Own(n) = Absent
        BY <3>1, <3>7, <4>1 DEF LastLoad
      <4>3. Own(n)' = loaded'[n]
        BY <2>7, <3>2, <3>3, <4>2
      <4>4. QED
        BY <3>5, <4>3 DEF LastLoad
    <3>8. QED
      BY <3>6, <3>7
  <2>12. QED
    BY <2>3, <2>5, <2>6, <2>9, <2>10, <2>11, CompleteChanged
<1>6. CASE \E n \in Node : EndSteps(n)
  BY <1>0, <1>6, CompleteKept DEF EndSteps, TypeOK, Settled, Working
<1>7. CASE \E n \in Node : stage[n] = "outputs" /\ MissesOutput(n)
  BY <1>0, <1>7, CompleteKept DEF MissesOutput, TypeOK, Settled, Working
<1>8. CASE \E n \in Node : LookUpStack(n)
  BY <1>0, <1>8, CompleteKept DEF LookUpStack, Settled, Working
<1>9. CASE \E n \in Node : StoreInStack(n)
  BY <1>0, <1>9, CompleteKept DEF StoreInStack, Storing, TypeOK, Settled, Working
<1>10. CASE \E n \in Node : Report(n)
  <2>1. PICK n \in Node : Report(n)
    BY <1>10
  <2>2. /\ stage[n] = "reporting" /\ stage' = [stage EXCEPT ![n] = "idle"]
        /\ phase' = [phase EXCEPT ![n] = "reported"]
        /\ UNCHANGED <<valid, walk, local, loaded>>
    BY <2>1 DEF Report, DownWalk!Report
  <2>3. phase[n] = "started" /\ phase \in [Node -> {"waiting", "started", "reported"}]
        /\ stage \in [Node -> Stage]
    BY <1>0, <2>2 DEF Staged, TypeOK
  <2>4. \A p \in Node : Settled(p)' => Settled(p)
    BY <2>2, <2>3 DEF Settled
  <2>5. \A p \in Node : Working(p)' => Working(p)
    BY <2>2, <2>3 DEF Working
  <2>6. QED
    BY <1>0, <2>2, <2>4, <2>5, CompleteKept
<1>11. CASE Dies
  BY <1>0, <1>11, CompleteKept DEF Dies, Settled, Working
<1>12. CASE EndOfWalk
  BY <1>0, <1>12, CompleteKept DEF EndOfWalk, DownWalk!Announce, Settled, Working
<1>13. CASE WalkUp
  <2>1. \A n \in Node : phase[n] = "reported" /\ stage[n] = "idle"
    BY <1>0, <1>13 DEF WalkUp, Scheduled, Staged
  <2>2. /\ walk = "down" /\ walk' = "up" /\ phase' = [n \in Node |-> "waiting"]
        /\ UNCHANGED <<valid, stage, local, loaded>>
    BY <1>13 DEF WalkUp
  <2>3. QED
    BY <1>0, <2>1, <2>2, CompleteKept DEF Settled, Working
<1>14. QED
  BY <1>0, <1>1, <1>2, <1>3, <1>4, <1>5, <1>6, <1>7, <1>8, <1>9, <1>10, <1>11, <1>12, <1>13, NextCases

\* The conjunct Drafted
LEMMA DraftedStep ==
  ASSUME RegistryInv, Next
  PROVE  Drafted'
<1>0. TypeOK /\ Staged /\ Scheduled /\ Complete /\ Drafted /\ ~fatal
  BY NextCases DEF RegistryInv
<1>a. ASSUME UNCHANGED <<valid, toMerge, draft>>,
             \A n \in Node : stage'[n] = "merging" => stage[n] = "merging",
             \A n \in Node : stage'[n] = "merging" =>
               \A p \in Parents(n) \cap valid : \A a \in Node :
                 a = p \/ a \in Providers(p) => local'[a] = local[a]
      PROVE  Drafted'
  <2>1. \A p \in Node : Providers(p)' = Providers(p)
    BY <1>a, SameProviders
  <2>2. \A n : Parents(n)' = Parents(n) /\ Parents(n) \subseteq Node
    BY DEF Parents
  <2>3. ASSUME NEW n \in Node, stage'[n] = "merging", NEW p \in Parents(n) \cap valid, NEW a \in Node,
               a = p \/ a \in Providers(p)
        PROVE  Own(a)' = Own(a)
    BY <1>a, <2>3 DEF Own
  <2>4. ASSUME NEW n \in Node, stage'[n] = "merging", NEW a \in Node
        PROVE  draft'[n][Full(a)] =
                 IF \E p \in (Parents(n)' \cap valid') \ toMerge'[n] : a = p \/ a \in Providers(p)'
                 THEN Own(a)' ELSE Absent
    <3>1. draft[n][Full(a)] =
            IF \E p \in (Parents(n) \cap valid) \ toMerge[n] : a = p \/ a \in Providers(p)
            THEN Own(a) ELSE Absent
      BY <1>0, <1>a, <2>4 DEF Drafted
    <3>2. (\E p \in (Parents(n) \cap valid) \ toMerge[n] : a = p \/ a \in Providers(p)) => Own(a)' = Own(a)
      BY <2>3, <2>4
    <3>3. QED
      BY <1>a, <2>1, <2>2, <3>1, <3>2
  <2>5. QED
    BY <1>0, <1>a, <2>2, <2>4 DEF Drafted
<1>1. CASE \E n \in Node : Receive(n)
  <2>1. PICK n \in Node : Receive(n)
    BY <1>1
  <2>2. /\ UNCHANGED <<valid, local>>
        /\ stage' = [stage EXCEPT ![n] = IF n \in valid THEN "merging" ELSE "reporting"]
        /\ toMerge' = [toMerge EXCEPT ![n] = Parents(n)]
        /\ draft' = [draft EXCEPT ![n] = Empty]
    BY <2>1 DEF Receive
  <2>3. \A p \in Node : Providers(p)' = Providers(p)
    BY <2>2, SameProviders
  <2>4. \A a \in Node : Own(a)' = Own(a)
    BY <2>2 DEF Own
  <2>5. \A m : Parents(m)' = Parents(m) /\ Parents(m) \subseteq Node
    BY DEF Parents
  <2>6. /\ stage \in [Node -> Stage] /\ toMerge \in [Node -> SUBSET Node] /\ draft \in [Node -> Registry]
        /\ \A a \in Node : Empty[Full(a)] = Absent
    BY <1>0, Keys DEF TypeOK, Empty
  <2>7. ASSUME NEW m \in Node, m # n, stage'[m] = "merging"
        PROVE  /\ toMerge'[m] \subseteq Parents(m)'
               /\ \A a \in Node :
                    draft'[m][Full(a)] =
                      IF \E p \in (Parents(m)' \cap valid') \ toMerge'[m] : a = p \/ a \in Providers(p)'
                      THEN Own(a)' ELSE Absent
    <3>1. stage[m] = "merging" /\ toMerge'[m] = toMerge[m] /\ draft'[m] = draft[m]
      BY <2>2, <2>6, <2>7
    <3>2. QED
      BY <1>0, <2>2, <2>3, <2>4, <2>5, <3>1 DEF Drafted
  <2>8. /\ toMerge'[n] \subseteq Parents(n)'
        /\ \A a \in Node :
             draft'[n][Full(a)] =
               IF \E p \in (Parents(n)' \cap valid') \ toMerge'[n] : a = p \/ a \in Providers(p)'
               THEN Own(a)' ELSE Absent
    BY <2>2, <2>5, <2>6
  <2>9. QED
    BY <2>7, <2>8 DEF Drafted
<1>2. CASE \E n, p \in Node : Adds(n, p)
  <2>1. PICK n \in Node, p \in Node : Adds(n, p)
    BY <1>2
  <2>2. /\ p \in toMerge[n] /\ ~Unmergeable(n, p)
        /\ draft' = [draft EXCEPT ![n] = Merged(n, p)]
        /\ toMerge' = [toMerge EXCEPT ![n] = @ \ {p}]
    BY <2>1 DEF Adds
  <2>3. stage[n] = "merging" /\ phase[n] = "started" /\ UNCHANGED <<valid, local, stage>>
    BY <1>0, <2>1 DEF Adds, Staged
  <2>4. \A q \in Node : Providers(q)' = Providers(q)
    BY <2>3, SameProviders
  <2>5. \A a \in Node : Own(a)' = Own(a)
    BY <2>3 DEF Own
  <2>6. \A m : Parents(m)' = Parents(m) /\ Parents(m) \subseteq Node
    BY DEF Parents
  <2>7. toMerge \in [Node -> SUBSET Node] /\ draft \in [Node -> Registry] /\ p \in Node /\ p \in Parents(n)
    BY <1>0, <2>2, <2>3 DEF TypeOK, Drafted
  <2>8. ASSUME NEW a \in Node
        PROVE  Merged(n, p)[Full(a)] =
                 IF \E q \in (Parents(n) \cap valid) \ (toMerge[n] \ {p}) : a = q \/ a \in Providers(q)
                 THEN Own(a) ELSE Absent
    <3>1. Merged(n, p)[Full(a)] =
            IF local[p] = NoRegistry THEN draft[n][Full(a)] ELSE Put(draft[n][Full(a)], local[p][Full(a)])
      BY <1>0, <2>2, <2>7, Keys, MergedKeys
    <3>2. draft[n][Full(a)] =
            IF \E q \in (Parents(n) \cap valid) \ toMerge[n] : a = q \/ a \in Providers(q)
            THEN Own(a) ELSE Absent
      BY <1>0, <2>3 DEF Drafted
    <3>3. CASE p \notin valid
      <4>1. local[p] = NoRegistry
        BY <1>0, <2>7, <3>3 DEF Complete
      <4>2. (Parents(n) \cap valid) \ (toMerge[n] \ {p}) = (Parents(n) \cap valid) \ toMerge[n]
        BY <3>3
      <4>3. QED
        BY <3>1, <3>2, <4>1, <4>2
    <3>4. CASE p \in valid
      <4>1. Settled(p)
        BY <2>3, <2>7, <3>4, ParentsSettled
      <4>2. local[p] # NoRegistry /\ local[p][Full(a)] = IF a = p THEN Own(a) ELSE Seen(p, a)
        BY <1>0, <2>7, <4>1 DEF Complete, Own
      <4>3. (Parents(n) \cap valid) \ (toMerge[n] \ {p}) = ((Parents(n) \cap valid) \ toMerge[n]) \cup {p}
        BY <2>2, <2>7, <3>4
      <4>a. local[p] \in Registry
        BY <1>0, <2>7, <4>2 DEF TypeOK
      <4>b. local[p][Full(a)] \in Entry /\ draft[n][Full(a)] \in Entry
        BY <2>7, <4>a, Keys DEF Registry
      <4>4. CASE a = p \/ a \in Providers(p)
        <5>1. local[p][Full(a)] = Own(a)
          BY <4>2, <4>4 DEF Seen
        <5>2. Merged(n, p)[Full(a)] = Put(draft[n][Full(a)], Own(a))
          BY <3>1, <4>2, <5>1
        <5>3. draft[n][Full(a)] \in {Own(a), Absent}
          BY <3>2
        <5>4. Merged(n, p)[Full(a)] = Own(a)
          BY <4>b, <5>1, <5>2, <5>3, PutEntry
        <5>5. QED
          BY <4>3, <4>4, <5>4
      <4>5. CASE ~(a = p \/ a \in Providers(p))
        <5>1. local[p][Full(a)] = Absent
          BY <4>2, <4>5 DEF Seen
        <5>2. Merged(n, p)[Full(a)] = draft[n][Full(a)]
          BY <3>1, <4>2, <4>b, <5>1, PutEntry
        <5>3. QED
          BY <3>2, <4>3, <4>5, <5>2
      <4>6. QED
        BY <4>4, <4>5
    <3>5. QED
      BY <3>3, <3>4
  <2>9. toMerge'[n] = toMerge[n] \ {p} /\ draft'[n] = Merged(n, p)
    BY <2>2, <2>7
  <2>10. ASSUME NEW m \in Node, stage'[m] = "merging"
         PROVE  /\ toMerge'[m] \subseteq Parents(m)'
                /\ \A a \in Node :
                     draft'[m][Full(a)] =
                       IF \E q \in (Parents(m)' \cap valid') \ toMerge'[m] : a = q \/ a \in Providers(q)'
                       THEN Own(a)' ELSE Absent
    <3>1. CASE m = n
      <4>1. toMerge'[n] \subseteq Parents(n)'
        BY <1>0, <2>3, <2>6, <2>9 DEF Drafted
      <4>2. QED
        BY <2>3, <2>4, <2>5, <2>6, <2>8, <2>9, <3>1, <4>1
    <3>2. CASE m # n
      <4>1. stage[m] = "merging" /\ toMerge'[m] = toMerge[m] /\ draft'[m] = draft[m]
        BY <2>2, <2>3, <2>7, <2>10, <3>2
      <4>2. QED
        BY <1>0, <2>3, <2>4, <2>5, <2>6, <4>1 DEF Drafted
    <3>3. QED
      BY <3>1, <3>2
  <2>11. QED
    BY <2>10 DEF Drafted
<1>b. ASSUME NEW n \in Node, phase[n] = "started", NEW m \in Node, stage[m] = "merging",
             NEW p \in Parents(m) \cap valid
      PROVE  n # p /\ n \notin Providers(p)
  <2>1. phase[m] = "started"
    BY <1>0, <1>b DEF Staged
  <2>2. p \in Node /\ Settled(p)
    BY <1>b, <2>1, ParentsSettled DEF Parents
  <2>3. n \notin Providers(p)
    BY <1>b, <2>2, StartedProvideNot
  <2>4. p \in Providers(m) /\ n \notin Providers(m)
    BY <1>b, <2>1, <2>2, ProvidersStep, StartedProvideNot
  <2>5. QED
    BY <2>3, <2>4
<1>3. CASE \E n \in Node : SetLocalRegistry(n)
  <2>1. PICK n \in Node : SetLocalRegistry(n)
    BY <1>3
  <2>2. /\ stage[n] = "merging" /\ UNCHANGED <<valid, toMerge, draft>>
        /\ \E s \in {"steps", "outputs", "reporting"} : stage' = [stage EXCEPT ![n] = s]
        /\ local' = [local EXCEPT ![n] = draft[n]]
    BY <2>1 DEF SetLocalRegistry
  <2>3. \A m \in Node : stage'[m] = "merging" => stage[m] = "merging"
    BY <1>0, <2>2 DEF TypeOK
  <2>4. \A a \in Node \ {n} : local'[a] = local[a]
    BY <1>0, <2>2 DEF TypeOK
  <2>5. phase[n] = "started"
    BY <1>0, <2>2 DEF Staged
  <2>6. QED
    BY <1>a, <1>b, <2>2, <2>3, <2>4, <2>5
<1>4. CASE \E n \in Node : WriteOutput(n)
  BY <1>4, <1>a DEF WriteOutput
<1>5. CASE \E n \in Node : stage[n] \in {"steps", "outputs"} /\ \E value : HasLoaded(n, value)
  <2>1. PICK n \in Node : stage[n] \in {"steps", "outputs"} /\ \E value : HasLoaded(n, value)
    BY <1>5
  <2>2. PICK value : HasLoaded(n, value)
    BY <2>1
  <2>3. phase[n] = "started"
    BY <2>1, WithWorker DEF Stage
  <2>4. /\ UNCHANGED <<valid, toMerge, draft>>
        /\ \E s \in {"storing early", "storing"} : stage' = [stage EXCEPT ![n] = s]
        /\ local' = [local EXCEPT ![n] = WithOwn(n, value)]
    BY <2>2 DEF HasLoaded
  <2>5. \A m \in Node : stage'[m] = "merging" => stage[m] = "merging"
    BY <1>0, <2>4 DEF TypeOK
  <2>6. \A a \in Node \ {n} : local'[a] = local[a]
    BY <1>0, <2>4 DEF TypeOK
  <2>7. QED
    BY <1>a, <1>b, <2>3, <2>4, <2>5, <2>6
<1>6. CASE \E n \in Node : EndSteps(n)
  BY <1>0, <1>6, <1>a DEF EndSteps, TypeOK
<1>7. CASE \E n \in Node : stage[n] = "outputs" /\ MissesOutput(n)
  BY <1>0, <1>7, <1>a DEF MissesOutput, TypeOK
<1>8. CASE \E n \in Node : LookUpStack(n)
  BY <1>8, <1>a DEF LookUpStack
<1>9. CASE \E n \in Node : StoreInStack(n)
  BY <1>0, <1>9, <1>a DEF StoreInStack, TypeOK
<1>10. CASE \E n \in Node : Report(n)
  BY <1>0, <1>10, <1>a DEF Report, TypeOK
<1>11. CASE Dies
  <2>1. UNCHANGED <<valid, stage, local, toMerge, draft>>
    BY <1>11 DEF Dies
  <2>2. QED
    BY <1>a, <2>1
<1>12. CASE EndOfWalk
  BY <1>12, <1>a DEF EndOfWalk
<1>13. CASE WalkUp
  BY <1>13, <1>a DEF WalkUp
<1>14. QED
  BY <1>0, <1>1, <1>2, <1>3, <1>4, <1>5, <1>6, <1>7, <1>8, <1>9, <1>10, <1>11, <1>12, <1>13, NextCases

\* The conjunct AtHome
LEMMA AtHomeStep ==
  ASSUME RegistryInv, Next
  PROVE  AtHome'
<1>0. TypeOK /\ Staged /\ Complete /\ Drafted /\ AtHome
  BY DEF RegistryInv
<1>a. ASSUME UNCHANGED <<draft, local>>
      PROVE  AtHome'
  BY <1>0, <1>a DEF AtHome, Home
<1>1. CASE \E n \in Node : Receive(n)
  <2>1. PICK n \in Node : Receive(n)
    BY <1>1
  <2>2. draft' = [draft EXCEPT ![n] = Empty] /\ UNCHANGED local
    BY <2>1 DEF Receive
  <2>3. Home(n, Empty) /\ Empty[This] = Absent
    BY Keys, Entries DEF Home, Empty
  <2>4. draft'[n] = Empty /\ \A m \in Node \ {n} : draft'[m] = draft[m]
    BY <1>0, <2>2 DEF TypeOK
  <2>5. QED
    BY <1>0, <2>2, <2>3, <2>4 DEF AtHome, Home
<1>2. CASE \E n, p \in Node : Adds(n, p)
  <2>1. PICK n \in Node, p \in Node : Adds(n, p)
    BY <1>2
  <2>2. draft' = [draft EXCEPT ![n] = Merged(n, p)] /\ UNCHANGED local /\ ~Unmergeable(n, p)
    BY <2>1 DEF Adds
  <2>3. Merged(n, p)[This] = Absent
    BY <1>0, <2>2, MergedKeys DEF AtHome
  <2>4. Home(n, Merged(n, p))
    <3>1. SUFFICES ASSUME NEW i \in Id, NEW f \in DOMAIN Merged(n, p)[<<"short", i>>]
                   PROVE  /\ IdOf[Merged(n, p)[<<"short", i>>][f].of] = i
                          /\ ManifestOf[Merged(n, p)[<<"short", i>>][f].of] = ManifestOf[n]
      BY DEF Home
    <3>2. Home(n, draft[n])
      BY <1>0 DEF AtHome
    <3>3. CASE Merged(n, p)[<<"short", i>>] = draft[n][<<"short", i>>]
      BY <3>2, <3>3 DEF Home
    <3>4. CASE Merged(n, p)[<<"short", i>>] = Absent
      BY <3>1, <3>4, Entries
    <3>5. CASE /\ local[p] # NoRegistry /\ ManifestOf[p] = ManifestOf[n]
               /\ Merged(n, p)[<<"short", i>>] = Put(draft[n][<<"short", i>>], local[p][<<"short", i>>])
      <4>1. Home(p, local[p])
        BY <1>0, <3>5 DEF AtHome
      <4>2. \/ /\ f \in DOMAIN draft[n][<<"short", i>>]
               /\ Merged(n, p)[<<"short", i>>][f] = draft[n][<<"short", i>>][f]
            \/ /\ f \in DOMAIN local[p][<<"short", i>>]
               /\ Merged(n, p)[<<"short", i>>][f] = local[p][<<"short", i>>][f]
        BY <3>1, <3>5, PutParts
      <4>3. QED
        BY <3>2, <3>5, <4>1, <4>2 DEF Home
    <3>6. QED
      BY <1>0, <2>2, <3>3, <3>4, <3>5, MergedKeys
  <2>5. draft'[n] = Merged(n, p) /\ \A m \in Node \ {n} : draft'[m] = draft[m]
    BY <1>0, <2>2 DEF TypeOK
  <2>6. QED
    BY <1>0, <2>2, <2>3, <2>4, <2>5 DEF AtHome, Home
<1>3. CASE \E n \in Node : SetLocalRegistry(n)
  <2>1. PICK n \in Node : SetLocalRegistry(n)
    BY <1>3
  <2>2. local' = [local EXCEPT ![n] = draft[n]] /\ UNCHANGED draft
    BY <2>1 DEF SetLocalRegistry
  <2>3. local'[n] = draft[n] /\ \A m \in Node \ {n} : local'[m] = local[m]
    BY <1>0, <2>2 DEF TypeOK
  <2>4. QED
    BY <1>0, <2>2, <2>3, Entries DEF AtHome, Home
<1>4. CASE \E n \in Node : WriteOutput(n)
  BY <1>4, <1>a DEF WriteOutput
<1>5. CASE \E n \in Node : stage[n] \in {"steps", "outputs"} /\ \E value : HasLoaded(n, value)
  <2>1. PICK n \in Node : stage[n] \in {"steps", "outputs"} /\ \E value : HasLoaded(n, value)
    BY <1>5
  <2>2. PICK value : HasLoaded(n, value)
    BY <2>1
  <2>3. local[n] # NoRegistry
    BY <2>1, WithWorker DEF Stage
  <2>4. /\ UNCHANGED draft
        /\ local' = [local EXCEPT ![n] = WithOwn(n, value)]
        /\ value \in Entry /\ ~Panics(n, value)
        /\ \A f \in DOMAIN value : value[f].of = n
    BY <2>2 DEF HasLoaded
  <2>5. local'[n] = WithOwn(n, value) /\ \A m \in Node \ {n} : local'[m] = local[m]
    BY <1>0, <2>4 DEF TypeOK
  <2>6. Home(n, local[n]) /\ \A f \in DOMAIN local[n][This] : local[n][This][f].of = n
    BY <1>0, <2>3 DEF AtHome
  <2>7. /\ \A k \in OwnKeys(n) : WithOwn(n, value)[k] = Put(local[n][k], value)
        /\ \A k \in Key \ OwnKeys(n) : WithOwn(n, value)[k] = local[n][k]
    BY <1>0, <2>3, <2>4, WithOwnKeys
  <2>8. \A f \in DOMAIN WithOwn(n, value)[This] : WithOwn(n, value)[This][f].of = n
    <3>1. WithOwn(n, value)[This] = Put(local[n][This], value)
      BY <2>7 DEF OwnKeys
    <3>2. QED
      BY <2>4, <2>6, <3>1, PutParts
  <2>9. Home(n, WithOwn(n, value))
    <3>1. SUFFICES ASSUME NEW i \in Id, NEW f \in DOMAIN WithOwn(n, value)[<<"short", i>>]
                   PROVE  /\ IdOf[WithOwn(n, value)[<<"short", i>>][f].of] = i
                          /\ ManifestOf[WithOwn(n, value)[<<"short", i>>][f].of] = ManifestOf[n]
      BY DEF Home
    <3>2. CASE i = IdOf[n]
      <4>1. WithOwn(n, value)[<<"short", i>>] = Put(local[n][<<"short", i>>], value)
        BY <2>7, <3>2 DEF OwnKeys, Short
      <4>2. \/ /\ f \in DOMAIN local[n][<<"short", i>>]
               /\ WithOwn(n, value)[<<"short", i>>][f] = local[n][<<"short", i>>][f]
            \/ /\ f \in DOMAIN value
               /\ WithOwn(n, value)[<<"short", i>>][f] = value[f]
        BY <3>1, <4>1, PutParts
      <4>3. QED
        BY <2>4, <2>6, <3>2, <4>2 DEF Home
    <3>3. CASE i # IdOf[n]
      <4>1. <<"short", i>> \in Key \ OwnKeys(n)
        BY <3>3, Keys DEF OwnKeys, Short, Full
      <4>2. WithOwn(n, value)[<<"short", i>>] = local[n][<<"short", i>>]
        BY <2>7, <4>1
      <4>3. QED
        BY <2>6, <3>1, <4>2 DEF Home
    <3>4. QED
      BY <3>2, <3>3
  <2>10. \A m \in Node : Home(m, draft'[m]) /\ draft'[m][This] = Absent
    BY <1>0, <2>4 DEF AtHome
  <2>11. \A m \in Node \ {n} : local'[m] # NoRegistry =>
           Home(m, local'[m]) /\ \A f \in DOMAIN local'[m][This] : local'[m][This][f].of = m
    BY <1>0, <2>5 DEF AtHome
  <2>12. QED
    BY <2>5, <2>8, <2>9, <2>10, <2>11 DEF AtHome, Home
<1>6. CASE \E n \in Node : EndSteps(n)
  BY <1>6, <1>a DEF EndSteps
<1>7. CASE \E n \in Node : stage[n] = "outputs" /\ MissesOutput(n)
  BY <1>7, <1>a DEF MissesOutput
<1>8. CASE \E n \in Node : LookUpStack(n)
  BY <1>8, <1>a DEF LookUpStack
<1>9. CASE \E n \in Node : StoreInStack(n)
  BY <1>9, <1>a DEF StoreInStack
<1>10. CASE \E n \in Node : Report(n)
  BY <1>10, <1>a DEF Report
<1>11. CASE Dies
  BY <1>11, <1>a DEF Dies
<1>12. CASE EndOfWalk
  BY <1>12, <1>a DEF EndOfWalk
<1>13. CASE WalkUp
  BY <1>13, <1>a DEF WalkUp
<1>14. QED
  BY <1>0, <1>1, <1>2, <1>3, <1>4, <1>5, <1>6, <1>7, <1>8, <1>9, <1>10, <1>11, <1>12, <1>13, NextCases

\* The conjunct Stacked
LEMMA StackedStep ==
  ASSUME RegistryInv, Next
  PROVE  Stacked'
<1>0. TypeOK /\ Staged /\ Stacked
  BY DEF RegistryInv
<1>a. ASSUME UNCHANGED <<stackRef, stackMaps, target, raced, loaded>>,
             \A n \in Node : Storing(n)' <=> Storing(n)
      PROVE  Stacked'
  BY <1>0, <1>a DEF Stacked, Shows, Registered
<1>1. CASE \E n \in Node : Receive(n)
  <2>1. PICK n \in Node : Receive(n)
    BY <1>1
  <2>2. stage[n] = "idle"
    BY <1>0, <2>1, StartLemma DEF Receive, Staged
  <2>3. stage' \in {[stage EXCEPT ![n] = "merging"], [stage EXCEPT ![n] = "reporting"]}
    BY <2>1 DEF Receive
  <2>4. QED
    BY <1>0, <1>a, <2>1, <2>2, <2>3 DEF Receive, Storing, TypeOK
<1>2. CASE \E n, p \in Node : Adds(n, p)
  BY <1>2, <1>a DEF Adds, Storing
<1>3. CASE \E n \in Node : SetLocalRegistry(n)
  <2>1. PICK n \in Node : SetLocalRegistry(n)
    BY <1>3
  <2>2. stage[n] = "merging" /\ \E s \in {"steps", "outputs", "reporting"} : stage' = [stage EXCEPT ![n] = s]
    BY <2>1 DEF SetLocalRegistry
  <2>3. UNCHANGED <<stackRef, stackMaps, target, raced, loaded>>
    BY <2>1 DEF SetLocalRegistry
  <2>4. QED
    BY <1>0, <1>a, <2>2, <2>3 DEF Storing, TypeOK
<1>4. CASE \E n \in Node : WriteOutput(n)
  BY <1>4, <1>a DEF WriteOutput, Storing
<1>5. CASE \E n \in Node : stage[n] \in {"steps", "outputs"} /\ \E value : HasLoaded(n, value)
  <2>1. PICK n \in Node : stage[n] \in {"steps", "outputs"} /\ \E value : HasLoaded(n, value)
    BY <1>5
  <2>2. PICK value : HasLoaded(n, value)
    BY <2>1
  <2>3. /\ loaded' = [loaded EXCEPT ![n] = value]
        /\ \E s \in {"storing early", "storing"} : stage' = [stage EXCEPT ![n] = s]
        /\ UNCHANGED <<stackRef, stackMaps, target, raced>>
    BY <2>2 DEF HasLoaded
  <2>4. stage \in [Node -> Stage] /\ loaded \in [Node -> Entry]
    BY <1>0 DEF TypeOK
  <2>5. Storing(n)'
    BY <2>3, <2>4 DEF Storing
  <2>6. \A m \in Node \ {n} : (Storing(m)' <=> Storing(m)) /\ loaded'[m] = loaded[m]
    BY <2>3, <2>4 DEF Storing
  <2>7. ASSUME NEW m \in Node \ raced', Registered(m)', ~Storing(m)'
        PROVE  /\ \E x \in stackRef' : Shows(stackMaps[x][m], m)'
               /\ \A k \in Node : target'[k] # {} => target'[k] = stackRef'
    <3>1. m # n /\ m \notin raced /\ Registered(m) /\ ~Storing(m)
      BY <2>3, <2>5, <2>6, <2>7 DEF Registered
    <3>2. PICK x \in stackRef : Shows(stackMaps[x][m], m)
      BY <1>0, <3>1 DEF Stacked
    <3>3. Shows(stackMaps[x][m], m)'
      BY <2>3, <2>6, <3>1, <3>2 DEF Shows
    <3>4. \A k \in Node : target[k] # {} => target[k] = stackRef
      BY <1>0, <3>1 DEF Stacked
    <3>5. QED
      BY <2>3, <3>2, <3>3, <3>4
  <2>8. QED
    BY <1>0, <2>3, <2>7 DEF Stacked
<1>6. CASE \E n \in Node : EndSteps(n)
  <2>1. PICK n \in Node : EndSteps(n)
    BY <1>6
  <2>2. /\ stage[n] = "steps" /\ \E s \in {"outputs", "reporting"} : stage' = [stage EXCEPT ![n] = s]
        /\ UNCHANGED <<stackRef, stackMaps, target, raced, loaded>>
    BY <2>1 DEF EndSteps
  <2>3. QED
    BY <1>0, <1>a, <2>2 DEF Storing, TypeOK
<1>7. CASE \E n \in Node : stage[n] = "outputs" /\ MissesOutput(n)
  BY <1>0, <1>7, <1>a DEF MissesOutput, Storing, TypeOK
<1>8. CASE \E n \in Node : LookUpStack(n)
  <2>1. PICK n \in Node : LookUpStack(n)
    BY <1>8
  <2>2. /\ Storing(n) /\ target[n] = {}
        /\ target' = [target EXCEPT ![n] = IF stackRef = {} THEN {n} ELSE stackRef]
        /\ raced' = IF Storers = {} THEN raced \ {n} ELSE raced \cup Storers \cup {n}
        /\ UNCHANGED <<stage, loaded, stackRef, stackMaps>>
    BY <2>1 DEF LookUpStack
  <2>3. target \in [Node -> AtMostOne]
    BY <1>0 DEF TypeOK
  <2>4. target'[n] = (IF stackRef = {} THEN {n} ELSE stackRef) /\ \A m \in Node \ {n} : target'[m] = target[m]
    BY <2>2, <2>3
  <2>5. \A m \in Node : m \in Storers <=> target[m] # {}
    BY DEF Storers
  <2>6. \A k, m \in Node : target'[k] # {} /\ target'[m] # {} /\ k # m => m \in raced'
    <3>1. SUFFICES ASSUME NEW k \in Node, NEW m \in Node, target'[k] # {}, target'[m] # {}, k # m
                   PROVE  m \in raced'
      OBVIOUS
    <3>2. Storers # {}
      BY <2>4, <2>5, <3>1
    <3>3. m = n \/ m \in Storers
      BY <2>4, <2>5, <3>1
    <3>4. QED
      BY <2>2, <3>2, <3>3
  <2>7. \A m \in Node \ raced' : target'[m] # {} => target'[m] = stackRef' \/ stackRef' = {}
    <3>1. SUFFICES ASSUME NEW m \in Node \ raced', m # n, target[m] # {}
                   PROVE  target[m] = stackRef \/ stackRef = {}
      BY <2>2, <2>4
    <3>2. m \notin raced
      BY <2>2, <3>1
    <3>3. QED
      BY <1>0, <3>1, <3>2 DEF Stacked
  <2>8. ASSUME NEW m \in Node \ raced', Registered(m)', ~Storing(m)'
        PROVE  /\ \E x \in stackRef' : Shows(stackMaps[x][m], m)'
               /\ \A k \in Node : target'[k] # {} => target'[k] = stackRef'
    <3>1. m # n /\ m \notin raced /\ Registered(m) /\ ~Storing(m)
      BY <2>2, <2>8 DEF Storing, Registered
    <3>2. PICK x \in stackRef : Shows(stackMaps[x][m], m)
      BY <1>0, <3>1 DEF Stacked
    <3>3. Shows(stackMaps[x][m], m)'
      BY <2>2, <3>2 DEF Shows
    <3>4. \A k \in Node : target[k] # {} => target[k] = stackRef
      BY <1>0, <3>1 DEF Stacked
    <3>5. QED
      BY <2>2, <2>4, <3>2, <3>3, <3>4
  <2>9. \A x, m \in Node : \A f \in DOMAIN stackMaps'[x][m] : stackMaps'[x][m][f].of = m
    BY <1>0, <2>2 DEF Stacked
  <2>10. QED
    BY <2>6, <2>7, <2>8, <2>9 DEF Stacked
<1>9. CASE \E n \in Node : StoreInStack(n)
  <2>1. PICK n \in Node : StoreInStack(n)
    BY <1>9
  <2>2. /\ Storing(n) /\ target[n] # {} /\ stackRef' = target[n]
        /\ \/ stackMaps' = Stored(n)
           \/ stackMaps' = stackMaps /\ \E m \in Node \ {n} : target[m] = target[n]
        /\ target' = [target EXCEPT ![n] = {}]
        /\ \E s \in {"steps", "reporting"} : stage' = [stage EXCEPT ![n] = s]
        /\ UNCHANGED <<loaded, raced>>
    BY <2>1 DEF StoreInStack
  <2>3. /\ target \in [Node -> AtMostOne] /\ stage \in [Node -> Stage]
        /\ stackMaps \in [Node -> [Node -> Entry]] /\ loaded \in [Node -> Entry]
        /\ stackRef \in AtMostOne
    BY <1>0 DEF TypeOK
  <2>4. target'[n] = {} /\ \A m \in Node \ {n} : target'[m] = target[m]
    BY <2>2, <2>3
  <2>5. \A m \in Node \ {n} : Storing(m)' <=> Storing(m)
    BY <2>2, <2>3 DEF Storing
  <2>6. \A x, m \in Node : m # n => stackMaps'[x][m] = stackMaps[x][m]
    BY <2>2, <2>3 DEF Stored
  <2>7. \A x \in Node : stackMaps'[x][n] \in {stackMaps[x][n], Put(stackMaps[x][n], loaded[n])}
    BY <2>2, <2>3 DEF Stored
  <2>8. \A x, m \in Node : \A f \in DOMAIN stackMaps'[x][m] : stackMaps'[x][m][f].of = m
    <3>1. ASSUME NEW x \in Node, NEW f \in DOMAIN stackMaps'[x][n]
          PROVE  stackMaps'[x][n][f].of = n
      <4>1. \/ f \in DOMAIN stackMaps[x][n] /\ stackMaps'[x][n][f] = stackMaps[x][n][f]
            \/ f \in DOMAIN loaded[n] /\ stackMaps'[x][n][f] = loaded[n][f]
        BY <2>7, <3>1, PutParts
      <4>2. \A h \in DOMAIN loaded[n] : loaded[n][h].of = n
        BY <1>0 DEF Staged
      <4>3. QED
        BY <1>0, <4>1, <4>2 DEF Stacked
    <3>2. QED
      BY <1>0, <2>6, <3>1 DEF Stacked
  <2>9. \A k, m \in Node : target'[k] # {} /\ target'[m] # {} /\ k # m => m \in raced'
    BY <1>0, <2>2, <2>4 DEF Stacked
  <2>10. \A m \in Node \ raced' : target'[m] # {} => target'[m] = stackRef' \/ stackRef' = {}
    BY <1>0, <2>2, <2>4 DEF Stacked
  <2>11. ASSUME NEW m \in Node \ raced', m # n, Registered(m)', ~Storing(m)'
         PROVE  /\ \E x \in stackRef' : Shows(stackMaps[x][m], m)'
                /\ \A k \in Node : target'[k] # {} => target'[k] = stackRef'
    <3>1. m \notin raced /\ Registered(m) /\ ~Storing(m)
      BY <2>2, <2>5, <2>11 DEF Registered
    <3>2. PICK x \in stackRef : Shows(stackMaps[x][m], m)
      BY <1>0, <3>1 DEF Stacked
    <3>3. \A k \in Node : target[k] # {} => target[k] = stackRef
      BY <1>0, <3>1 DEF Stacked
    <3>4. x \in Node
      BY <2>3, <3>2 DEF AtMostOne
    <3>5. Shows(stackMaps[x][m], m)'
      BY <2>2, <2>6, <2>11, <3>2, <3>4 DEF Shows
    <3>6. stackRef' = stackRef
      BY <2>2, <3>3
    <3>7. QED
      BY <2>4, <3>2, <3>3, <3>5, <3>6
  <2>12. ASSUME n \notin raced'
         PROVE  /\ \E x \in stackRef' : Shows(stackMaps[x][n], n)'
                /\ \A k \in Node : target'[k] # {} => target'[k] = stackRef'
    <3>1. \A k \in Node \ {n} : target[k] = {}
      BY <1>0, <2>2, <2>12 DEF Stacked
    <3>2. stackMaps' = Stored(n)
      BY <2>2, <3>1
    <3>3. PICK x \in Node : target[n] = {x}
      BY <2>2, <2>3 DEF AtMostOne
    <3>4. stackMaps'[x][n] = Put(stackMaps[x][n], loaded[n])
      BY <2>3, <3>2, <3>3 DEF Stored
    <3>5. stackMaps'[x][n] = Put(stackMaps'[x][n], loaded'[n])
      <4>1. stackMaps[x][n] \in Entry /\ loaded[n] \in Entry
        BY <2>3
      <4>2. QED
        BY <2>2, <3>4, <4>1, PutEntry
    <3>6. Shows(stackMaps[x][n], n)'
      BY <2>8, <3>5 DEF Shows
    <3>7. QED
      BY <2>2, <2>4, <3>1, <3>3, <3>6
  <2>13. QED
    BY <2>8, <2>9, <2>10, <2>11, <2>12 DEF Stacked
<1>10. CASE \E n \in Node : Report(n)
  BY <1>0, <1>10, <1>a DEF Report, Storing, TypeOK
<1>11. CASE Dies
  BY <1>11, <1>a DEF Dies, Storing
<1>12. CASE EndOfWalk
  BY <1>12, <1>a DEF EndOfWalk, Storing
<1>13. CASE WalkUp
  BY <1>13, <1>a DEF WalkUp, Storing
<1>14. QED
  BY <1>0, <1>1, <1>2, <1>3, <1>4, <1>5, <1>6, <1>7, <1>8, <1>9, <1>10, <1>11, <1>12, <1>13, NextCases

-----------------------------------------------------------------------------
(* The theorems *)

LEMMA RegistryInit == Init => RegistryInv
<1> SUFFICES ASSUME Init PROVE RegistryInv
  OBVIOUS
<1>1. /\ phase = [n \in Node |-> "waiting"] /\ announced = FALSE
  BY DEF Init, DownWalk!Init
<1>2. Empty \in Registry /\ Missing \in Contents
  BY Entries, WrittenContents DEF Empty, Registry
<1>3. TypeOK
  BY <1>1, <1>2, Entries DEF Init, TypeOK, Stage, AtMostOne
<1>4. Staged
  BY <1>1, Entries DEF Init, Staged, Storing
<1>5. Scheduled
  BY <1>1 DEF Init, Scheduled
<1>6. Complete
  BY <1>1 DEF Init, Complete, Settled, Working
<1>7. Drafted
  BY DEF Init, Drafted
<1>8. AtHome
  BY Keys, Entries DEF Init, AtHome, Home, Empty
<1>9. Stacked
  BY Entries DEF Init, Stacked, Registered
<1>10. QED
  BY <1>3, <1>4, <1>5, <1>6, <1>7, <1>8, <1>9 DEF RegistryInv

LEMMA RegistryUnchanged ==
  ASSUME RegistryInv, UNCHANGED vars
  PROVE  RegistryInv'
<1>1. \A n \in Node : Providers(n)' = Providers(n)
  BY SameProviders
<1>2. \A p, a \in Node : Own(a)' = Own(a) /\ Seen(p, a)' = Seen(p, a) /\ (LastLoad(a)' <=> LastLoad(a))
  BY <1>1 DEF Own, Seen, LastLoad, Shows, Registered
<1>3. TypeOK' /\ Staged' /\ Scheduled'
  BY DEF RegistryInv, TypeOK, Staged, Scheduled, Unloaded, Registered, Storing
<1>7. AtHome'
  BY DEF RegistryInv, AtHome, Home
<1>8. Stacked'
  <2>1. \A m \in Node : (Registered(m)' <=> Registered(m)) /\ (Storing(m)' <=> Storing(m))
    BY DEF Registered, Storing
  <2>2. \A m, x : Shows(stackMaps[x][m], m)' <=> Shows(stackMaps[x][m], m)
    BY DEF Shows
  <2>3. QED
    BY <2>1, <2>2 DEF RegistryInv, Stacked
<1>4. Complete'
  BY <1>2 DEF RegistryInv, Complete, Settled, Working
<1>5. Drafted'
  <2>1. \A n : Parents(n)' = Parents(n) /\ Parents(n) \subseteq Node
    BY DEF Parents
  <2>2. QED
    BY <1>1, <1>2, <2>1 DEF RegistryInv, Drafted
<1>6. QED
  BY <1>3, <1>4, <1>5, <1>7, <1>8 DEF RegistryInv

\* The invariant of the registries: whoever is about to read a registry
\* finds in it exactly what the schedule has made ready.
THEOREM RegistryInvariant == Spec => []RegistryInv
<1>1. RegistryInv /\ [Next]_vars => RegistryInv'
  <2>1. CASE Next
    BY <2>1, TypeStep, StagedStep, ScheduledStep, CompleteStep, DraftedStep, AtHomeStep, StackedStep DEF RegistryInv
  <2>2. CASE UNCHANGED vars
    BY <2>2, RegistryUnchanged
  <2>3. QED
    BY <2>1, <2>2
<1>2. QED
  BY <1>1, RegistryInit, PTL DEF Spec

\* For any graph, any choice of kapps that declare their output and any
\* outcome of loading it, maps or not, a kapp's templates see the outputs of
\* exactly its ancestors under qualified names, as these see them themselves
\* and as they were last loaded (addParentRegistries, executor.go).  What an
\* earlier load had besides is only seen of kapps whose run steps load.
THEOREM ParentsOutputsArrive == Spec => []SeesAncestors
<1>1. RegistryInv => SeesAncestors
  <2>1. SUFFICES ASSUME RegistryInv, NEW n \in Node, Working(n), NEW a \in Node \ {n}
                 PROVE  IF a \in Providers(n)
                        THEN /\ local[n][Full(a)] = local[a][Full(a)]
                             /\ Shows(local[n][Full(a)], a)
                             /\ local[n][Full(a)] = loaded[a] \/ (Registered(a) /\ a \in LoadsEarly)
                        ELSE local[n][Full(a)] = Absent
    BY DEF SeesAncestors
  <2>2. local[n][Full(a)] = Seen(n, a)
    BY <2>1 DEF RegistryInv, Complete
  <2>3. CASE a \notin Providers(n)
    BY <2>2, <2>3 DEF Seen
  <2>4. CASE a \in Providers(n)
    <3>1. phase[n] = "started"
      BY <2>1 DEF RegistryInv, Staged, Working
    <3>2. phase[a] = IF walk = "down" THEN "reported" ELSE "waiting"
      BY <2>1, <2>4, <3>1, ProvidersElsewhere DEF RegistryInv
    <3>3. a \in valid
      BY <2>1, <2>4, ProvidersValid
    <3>4. LastLoad(a)
      BY <2>1, <3>2, <3>3 DEF RegistryInv, Complete, Settled
    <3>5. QED
      BY <2>2, <2>4, <3>4 DEF Seen, LastLoad, Own
  <2>5. QED
    BY <2>3, <2>4
<1>2. QED
  BY <1>1, RegistryInvariant, PTL

\* For any assignment of kapps to manifests and of IDs to kapps, no part of
\* an output is seen under a short name in another manifest.
THEOREM ShortNamesStay == Spec => []ShortNamesStayHome
<1>1. RegistryInv => ShortNamesStayHome
  BY DEF RegistryInv, AtHome, Home, ShortNamesStayHome
<1>2. QED
  BY <1>1, RegistryInvariant, PTL

\* The stack's registry only loses the outputs of kapps whose workers store
\* them while another worker does, whatever the others race for.
THEOREM OnlyRacesLoseOutputs == Spec => []StackKeepsOutputs
<1>1. RegistryInv => StackKeepsOutputs
  <2>1. SUFFICES ASSUME RegistryInv, NEW n \in Node \ raced, phase[n] = "reported", Registered(n)
                 PROVE  \E m \in stackRef : Shows(stackMaps[m][n], n)
    BY DEF StackKeepsOutputs
  <2>2. ~Storing(n)
    BY <2>1 DEF RegistryInv, Staged, Storing
  <2>3. QED
    BY <2>1, <2>2 DEF RegistryInv, Stacked
<1>2. QED
  BY <1>1, RegistryInvariant, PTL
=============================================================================
