-------------------------- MODULE ProviderVarsProofs --------------------------
(***************************************************************************)
(* Proofs about VarsFiles and ProviderVars, for every precedence and every *)
(* tree of files.  FilesInv is the invariant of the search: what is still  *)
(* to be looked at and what was found are together what is wanted, and in  *)
(* order.  KappInv is that of the kapps: each has added its files to the   *)
(* shared list in the order it was given them, after those of all kapps it *)
(* depends on.                                                             *)
(***************************************************************************)
EXTENDS ProviderVars, SequenceFacts

-----------------------------------------------------------------------------
(* Positions, and paths *)

(* The position of an element is that of its first occurrence.             *)
LEMMA PositionFacts ==
  ASSUME NEW T, NEW s \in Seq(T), NEW e
  PROVE  /\ e \in ToSet(s) => /\ Position(s, e) \in 1..Len(s) /\ s[Position(s, e)] = e
                              /\ \A j \in 1..(Position(s, e) - 1) : s[j] # e
         /\ \A i \in 1..Len(s) : s[i] = e /\ (\A j \in 1..(i - 1) : s[j] # e) => Position(s, e) = i
<1> DEFINE First(i) == s[i] = e /\ \A j \in 1..(i - 1) : s[j] # e
<1>1. Len(s) \in Nat /\ ToSet(s) = {s[i] : i \in 1..Len(s)}
  BY LenProperties, ToSetFacts
<1>2. ASSUME e \in ToSet(s)
      PROVE  \E i \in 1..Len(s) : First(i)
  <2> DEFINE S == {i \in 1..Len(s) : s[i] = e}
  <2>1. S \in SUBSET Nat /\ S # {}
    BY <1>1, <1>2
  <2> HIDE DEF S
  <2>2. PICK i \in S : \A j \in S : i <= j
    BY <2>1, LeastNumber
  <2>3. i \in 1..Len(s) /\ s[i] = e /\ \A j \in 1..Len(s) : s[j] = e => i <= j
    BY <2>2 DEF S
  <2>4. \A j \in 1..(i - 1) : s[j] # e
    BY <1>1, <2>3
  <2>5. QED
    BY <2>3, <2>4
<1>3. ASSUME NEW i \in 1..Len(s), NEW k \in 1..Len(s), First(i), First(k)
      PROVE  i = k
  BY <1>1, <1>3
<1>4. Position(s, e) = CHOOSE i \in 1..Len(s) : First(i)
  BY DEF Position
<1> HIDE DEF First
<1>5. ASSUME NEW k \in 1..Len(s), First(k)
      PROVE  Position(s, e) \in 1..Len(s) /\ First(Position(s, e))
  BY <1>4, <1>5
<1>6. ASSUME NEW k \in 1..Len(s), First(k)
      PROVE  Position(s, e) = k
  BY <1>3, <1>5, <1>6
<1>7. QED
  BY <1>2, <1>5, <1>6 DEF First

Elements == UNION {ToSet(path) : path \in tree}

(* The paths of a tree are sequences of entries below a directory.         *)
LEMMA TreeFacts ==
  ASSUME tree \in Trees, NEW path \in tree
  PROVE  /\ path \in Seq(Elements) /\ Len(path) \in Nat \ {0} /\ DOMAIN path = 1..Len(path)
         /\ path[1] \in ToSet(Root)
         /\ \A i \in 2..Len(path) : path[i] = <<path[i][1], path[i][2]>> /\ path[i][2] \in ToSet(Kinds)
<1>1. /\ path \in Seq(ToSet(path)) \ {<<>>} /\ path[1] \in ToSet(Root)
      /\ \A i \in 2..Len(path) : path[i] \in {path[i][1]} \X ToSet(Kinds)
  BY TreesAssumption, Zenon
<1>2. ToSet(path) \subseteq Elements
  BY DEF Elements
<1>3. path \in Seq(Elements)
  BY <1>1, <1>2, SeqMonotonic
<1>4. Len(path) \in Nat \ {0} /\ DOMAIN path = 1..Len(path)
  BY <1>3, <1>1, EmptySeq, LenProperties
<1>5. ASSUME NEW i \in 2..Len(path)
      PROVE  path[i] = <<path[i][1], path[i][2]>> /\ path[i][2] \in ToSet(Kinds)
  <2>1. path[i] \in {path[i][1]} \X ToSet(Kinds)
    BY <1>1
  <2> DEFINE e == path[i]
  <2>2. PICK k \in ToSet(Kinds) : e = <<e[1], k>>
    BY <2>1
  <2>3. QED
    BY <2>2
<1>6. QED
  BY <1>1, <1>3, <1>4, <1>5

(* What is above a path in a tree is a directory in it.                    *)
LEMMA Directories ==
  ASSUME tree \in Trees, NEW path \in tree, NEW n \in 1..Len(path)
  PROVE  /\ SubSeq(path, 1, n) \in tree
         /\ n < Len(path) => ~IsFile(SubSeq(path, 1, n))
<1> DEFINE L == Len(path)
           Above(k) == SubSeq(path, 1, k)
           S == {d \in 0..(L - 1) : Above(L - d) \in tree}
<1>1. path \in Seq(Elements) /\ L \in Nat \ {0}
  BY TreeFacts
<1>2. ASSUME NEW k \in 1..L
      PROVE  Above(k) \in Seq(Elements) /\ Len(Above(k)) = k
  BY <1>1, <1>2, PrefixFacts
<1>3. ASSUME NEW k \in 2..L, Above(k) \in tree
      PROVE  Above(k - 1) \in tree /\ ~IsFile(Above(k - 1))
  <2>1. Len(Above(k)) = k /\ k > 1
    BY <1>1, <1>2
  <2>2. Front(Above(k)) \in tree /\ ~IsFile(Front(Above(k)))
    <3> HIDE DEF Above
    <3>1. QED
      BY <1>3, <2>1, TreesAssumption
  <2>3. Front(Above(k)) = Above(k - 1)
    <3>1. k \in 0..L /\ k - 1 \in 0..k
      BY <1>1
    <3> DEFINE m == k - 1
    <3>2. m \in 0..k /\ Front(Above(k)) = SubSeq(Above(k), 1, m)
      BY <2>1, <3>1 DEF Front
    <3> HIDE DEF m
    <3>3. SubSeq(Above(k), 1, m) = Above(m)
      BY <1>1, <3>1, <3>2, PrefixOfPrefix
    <3>4. QED
      BY <3>2, <3>3 DEF m
  <2>4. QED
    BY <2>2, <2>3
<1>4. Above(L) = path
  BY <1>1, SubSeqFull
<1> HIDE DEF Above
<1>5. 0..(L - 1) \subseteq S
  <2> DEFINE zero == 0
             n1 == L - 1
  <2>1. zero \in Nat /\ n1 \in Nat /\ zero \in S
    <3>1. L - 0 = L
      BY <1>1
    <3>2. QED
      BY <1>1, <1>4, <3>1
  <2>2. ASSUME NEW d \in zero..n1, d # zero, d - 1 \in S
        PROVE  d \in S
    <3> DEFINE k == L - (d - 1)
    <3>1. k \in 2..L /\ k - 1 = L - d
      BY <1>1, <2>2
    <3>2. Above(k) \in tree
      BY <2>2
    <3> HIDE DEF k
    <3>3. Above(k - 1) \in tree
      BY <1>3, <3>1, <3>2
    <3>4. QED
      BY <3>1, <3>3
  <2> HIDE DEF zero, n1, S
  <2>3. zero..n1 \subseteq S
    BY <2>1, <2>2, IntervalInduction
  <2>4. QED
    BY <2>3 DEF zero, n1
<1>6. ASSUME NEW k \in 1..L
      PROVE  Above(k) \in tree
  <2>1. L - k \in 0..(L - 1) /\ L - (L - k) = k
    BY <1>1
  <2>2. L - k \in S
    BY <1>5, <2>1
  <2>3. QED
    BY <2>1, <2>2
<1>7. ASSUME n < L
      PROVE  ~IsFile(Above(n))
  <2> DEFINE k == n + 1
  <2>1. k \in 2..L /\ k \in 1..L /\ k - 1 = n
    BY <1>1, <1>7
  <2> HIDE DEF k
  <2>2. QED
    BY <1>3, <1>6, <2>1
<1>8. QED
  BY <1>6, <1>7 DEF Above

(* All elements of a path but its last are directories.                    *)
LEMMA DirectoryEntry ==
  ASSUME tree \in Trees, NEW path \in tree, NEW n \in 2..Len(path), n < Len(path)
  PROVE  path[n][2] = "dir"
<1> DEFINE above == SubSeq(path, 1, n)
<1>1. path \in Seq(Elements) /\ Len(path) \in Nat
  BY TreeFacts
<1>2. above \in Seq(Elements) /\ Len(above) = n /\ \A i \in 1..n : above[i] = path[i]
  <2>1. n \in 0..Len(path)
    BY <1>1
  <2>2. QED
    BY <1>1, <2>1, PrefixFacts
<1>3. ~IsFile(above)
  <2>1. n \in 1..Len(path)
    BY <1>1
  <2>2. QED
    BY <2>1, Directories
<1> HIDE DEF above
<1>4. above[n] = path[n] /\ n > 1
  BY <1>1, <1>2
<1>5. QED
  BY <1>2, <1>3, <1>4 DEF IsFile

-----------------------------------------------------------------------------
(* The entries of a directory *)

(* The list of base names, without repetitions.                            *)
LEMMA DedupedFacts ==
  /\ Deduped \in Seq(ToSet(Precedence)) /\ ToSet(Deduped) = ToSet(Precedence)
  /\ \A x, y \in 1..Len(Deduped) : x < y =>
       Position(Precedence, Deduped[x]) < Position(Precedence, Deduped[y])
<1> DEFINE T == ToSet(Precedence)
           Late(i) == \E j \in 1..(i - 1) : Precedence[j] = Precedence[i]
           parts == [i \in DOMAIN Precedence |-> IF Late(i) THEN <<>> ELSE <<Precedence[i]>>]
           d == FlattenSeq(parts)
<1>1. /\ Precedence \in Seq(T) /\ DOMAIN Precedence = 1..Len(Precedence) /\ Len(Precedence) \in Nat
      /\ \A i \in 1..Len(Precedence) : Precedence[i] \in T
  BY TreesAssumption, LenProperties, ElementOfSeq
<1> HIDE DEF Late
<1>2. parts \in [1..Len(Precedence) -> Seq(T)]
  <2>1. ASSUME NEW i \in 1..Len(Precedence)
        PROVE  <<Precedence[i]>> \in Seq(T) /\ <<>> \in Seq(T)
    BY <1>1
  <2> HIDE DEF T
  <2>2. QED
    BY <1>1, <2>1
<1>3. parts \in Seq(Seq(T)) /\ Len(parts) = Len(Precedence)
  <2>1. parts \in Seq(Seq(T))
    BY <1>1, <1>2, SeqDef
  <2>2. DOMAIN parts = 1..Len(Precedence) /\ DOMAIN parts = 1..Len(parts) /\ Len(parts) \in Nat
    BY <1>1, <2>1, LenProperties
  <2>3. QED
    BY <1>1, <2>1, <2>2
<1>4. /\ \A i \in 1..Len(Precedence) : \A j \in 1..Len(parts[i]) : ~Late(i) /\ j = 1 /\ parts[i][j] = Precedence[i]
      /\ \A i \in 1..Len(Precedence) : ~Late(i) => 1 \in 1..Len(parts[i]) /\ parts[i][1] = Precedence[i]
  BY <1>1
<1>5. d \in Seq(T) /\ Laid(parts, d)
  <2> HIDE DEF parts, T
  <2>1. QED
    BY <1>3, FlattenLaid
<1>6. d = Deduped
  BY DEF Deduped, Late
<1> HIDE DEF parts, d
<1>7. ASSUME NEW i \in 1..Len(Precedence), ~Late(i)
      PROVE  Position(Precedence, Precedence[i]) = i
  BY <1>1, <1>7, PositionFacts DEF Late
<1>8. \A x, y \in 1..Len(d) : x < y => Position(Precedence, d[x]) < Position(Precedence, d[y])
  <2> SUFFICES ASSUME NEW x \in 1..Len(d), NEW y \in 1..Len(d), x < y
               PROVE  Position(Precedence, d[x]) < Position(Precedence, d[y])
    OBVIOUS
  <2>1. PICK i \in 1..Len(parts), k \in 1..Len(parts) : \E j \in 1..Len(parts[i]), l \in 1..Len(parts[k]) :
           d[x] = parts[i][j] /\ d[y] = parts[k][l] /\ Before(i, j, k, l)
    BY <1>5 DEF Laid
  <2>2. PICK j \in 1..Len(parts[i]), l \in 1..Len(parts[k]) :
           d[x] = parts[i][j] /\ d[y] = parts[k][l] /\ Before(i, j, k, l)
    BY <2>1
  <2>3. i < k /\ ~Late(i) /\ ~Late(k) /\ d[x] = Precedence[i] /\ d[y] = Precedence[k]
    BY <1>3, <1>4, <2>2 DEF Before
  <2>4. QED
    BY <1>3, <1>7, <2>3
<1>9. ToSet(d) = T
  <2>1. ToSet(d) = {d[x] : x \in 1..Len(d)} /\ ToSet(d) \subseteq T
    <3> HIDE DEF T
    <3>1. QED
      BY <1>5, ToSetFacts
  <2>2. ASSUME NEW e \in T
        PROVE  e \in ToSet(d)
    <3> DEFINE i == Position(Precedence, e)
    <3>1. i \in 1..Len(Precedence) /\ Precedence[i] = e /\ \A j \in 1..(i - 1) : Precedence[j] # e
      BY <1>1, PositionFacts
    <3> HIDE DEF i
    <3>2. ~Late(i)
      BY <3>1 DEF Late
    <3>3. 1 \in 1..Len(parts[i]) /\ parts[i][1] = e
      BY <1>4, <3>1, <3>2
    <3>4. \E x \in 1..Len(d) : d[x] = parts[i][1]
      BY <1>3, <1>5, <3>1, <3>3 DEF Laid
    <3>5. QED
      BY <2>1, <3>3, <3>4
  <2>3. QED
    BY <2>1, <2>2
<1>10. QED
  BY <1>5, <1>6, <1>8, <1>9


(* Appending to a path: what is above it is unchanged.                     *)
LEMMA ChildFacts ==
  ASSUME tree \in Trees, NEW dir \in tree, NEW e
  PROVE  LET c == Append(dir, e) IN
         /\ Len(c) = Len(dir) + 1 /\ Len(c) > 1 /\ c[Len(c)] = e
         /\ \A i \in 1..Len(dir) : c[i] = dir[i]
         /\ IsFile(c) <=> e[2] # "dir"
         /\ c # <<>>
<1> DEFINE c == Append(dir, e)
           T == Elements \cup {e}
<1>1. dir \in Seq(Elements) /\ Len(dir) \in Nat \ {0}
  BY TreeFacts
<1>2. dir \in Seq(T) /\ e \in T
  BY <1>1, SeqMonotonic
<1>3. /\ Len(c) = Len(dir) + 1 /\ c[Len(dir) + 1] = e /\ c # <<>>
      /\ \A i \in 1..Len(dir) : c[i] = dir[i]
  <2> HIDE DEF T
  <2>1. QED
    BY <1>2, AppendProperties
<1> HIDE DEF c
<1>4. Len(c) > 1 /\ c[Len(c)] = e
  BY <1>1, <1>3
<1>5. QED
  BY <1>3, <1>4 DEF IsFile, c

(* Two entries under the same name are of different kinds.                 *)
Under(dir, rule) == {Append(dir, <<rule, k>>) : k \in ToSet(Kinds)}

(* A rule matches what is in the tree under its name, each kind once.      *)
LEMMA MatchesFacts ==
  ASSUME tree \in Trees, NEW dir \in tree, NEW rule
  PROVE  /\ Matches(dir, rule) \in Seq(tree)
         /\ ToSet(Matches(dir, rule)) = Under(dir, rule) \cap tree
         /\ \A x, y \in 1..Len(Matches(dir, rule)) : x < y =>
              \E a, b \in ToSet(Kinds) :
                a # b /\ Matches(dir, rule)[x] = Append(dir, <<rule, a>>)
                      /\ Matches(dir, rule)[y] = Append(dir, <<rule, b>>)
<1> DEFINE s == [i \in DOMAIN Kinds |-> Append(dir, <<rule, Kinds[i]>>)]
           m == Filtered(s, tree)
           U == Under(dir, rule)
<1>1. /\ DOMAIN Kinds = 1..3 /\ ToSet(Kinds) = {"txt", "yaml", "dir"}
      /\ \A i \in 1..3 : Kinds[i] \in ToSet(Kinds) /\ \A k \in 1..3 : i < k => Kinds[i] # Kinds[k]
      /\ \A k \in ToSet(Kinds) : \E i \in 1..3 : Kinds[i] = k
  <2>1. DOMAIN Kinds = 1..3 /\ Kinds[1] = "txt" /\ Kinds[2] = "yaml" /\ Kinds[3] = "dir"
    BY DEF Kinds
  <2>2. ToSet(Kinds) = {Kinds[i] : i \in 1..3}
    BY <2>1 DEF ToSet
  <2>3. \A i \in 1..3 : i = 1 \/ i = 2 \/ i = 3
    OBVIOUS
  <2>4. QED
    BY <2>1, <2>2, <2>3
<1>2. s \in [1..3 -> U]
  BY <1>1 DEF Under
<1>3. s \in Seq(U) /\ Len(s) = 3
  <2>1. s \in Seq(U)
    BY <1>2, SeqDef
  <2>2. DOMAIN s = 1..3 /\ DOMAIN s = 1..Len(s) /\ Len(s) \in Nat
    BY <1>2, <2>1, LenProperties
  <2>3. QED
    BY <2>1, <2>2
<1>4. \A i \in 1..3 : s[i] = Append(dir, <<rule, Kinds[i]>>)
  BY <1>1
<1> HIDE DEF s
<1>5. ToSet(s) = U
  <2>1. ToSet(s) = {s[i] : i \in 1..3}
    BY <1>3, ToSetFacts
  <2>2. ASSUME NEW i \in 1..3
        PROVE  s[i] \in U
    BY <1>1, <1>4 DEF Under
  <2>3. ASSUME NEW k \in ToSet(Kinds)
        PROVE  Append(dir, <<rule, k>>) \in ToSet(s)
    <3>1. PICK i \in 1..3 : Kinds[i] = k
      BY <1>1
    <3>2. s[i] = Append(dir, <<rule, k>>)
      BY <1>4, <3>1
    <3>3. QED
      BY <2>1, <3>2
  <2>4. QED
    BY <2>1, <2>2, <2>3 DEF Under
<1>6. m = Matches(dir, rule)
  BY DEF Matches, s
<1>7. /\ m \in Seq(U) /\ ToSet(m) = U \cap tree
      /\ \A x, y \in 1..Len(m) : x < y =>
           \E i, k \in 1..Len(s) : i < k /\ m[x] = s[i] /\ m[y] = s[k]
  <2>1. /\ m \in Seq(U) /\ ToSet(m) = ToSet(s) \cap tree
        /\ \A x, y \in 1..Len(m) : x < y =>
             \E i, k \in 1..Len(s) : i < k /\ m[x] = s[i] /\ m[y] = s[k]
    <3>1. s \in Seq(U)
      BY <1>3
    <3> HIDE DEF U
    <3>2. QED
      BY <3>1, FilteredFacts
  <2>2. QED
    BY <1>5, <2>1
<1> HIDE DEF m
<1>8. m \in Seq(tree)
  <2>1. m \in Seq(ToSet(m))
    BY <1>7, ToSetFacts
  <2>2. QED
    BY <1>7, <2>1, SeqMonotonic
<1>9. ASSUME NEW x \in 1..Len(m), NEW y \in 1..Len(m), x < y
      PROVE  \E a, b \in ToSet(Kinds) :
               a # b /\ m[x] = Append(dir, <<rule, a>>) /\ m[y] = Append(dir, <<rule, b>>)
  <2>1. PICK i, k \in 1..3 : i < k /\ m[x] = s[i] /\ m[y] = s[k]
    BY <1>3, <1>7, <1>9
  <2>2. Kinds[i] \in ToSet(Kinds) /\ Kinds[k] \in ToSet(Kinds) /\ Kinds[i] # Kinds[k]
    BY <1>1, <2>1
  <2>3. m[x] = Append(dir, <<rule, Kinds[i]>>) /\ m[y] = Append(dir, <<rule, Kinds[k]>>)
    BY <1>4, <2>1
  <2>4. QED
    BY <2>2, <2>3
<1>10. QED
  BY <1>6, <1>7, <1>8, <1>9

(* What a walk finds in a directory.                                       *)
Children(dir) ==
  {c \in tree : \E r \in ToSet(Precedence) : \E k \in ToSet(Kinds) : c = Append(dir, <<r, k>>)}

\* The order of the base names, and of a directory's entries.
RuleBefore(a, b) ==
  \/ Position(Precedence, a[1]) < Position(Precedence, b[1])
  \/ a[1] = b[1] /\ a[2] # b[2]

EntryBefore(a, b) ==
  IF (a[2] = "dir") # (b[2] = "dir") THEN b[2] = "dir" ELSE RuleBefore(a, b)

Entries == ToSet(Precedence) \X ToSet(Kinds)

ByRulePairs(dir) ==
  {z \in tree \X tree : \E a, b \in Entries :
     z[1] = Append(dir, a) /\ z[2] = Append(dir, b) /\ RuleBefore(a, b)}

EntryPairs(dir) ==
  {z \in tree \X tree : \E a, b \in Entries :
     z[1] = Append(dir, a) /\ z[2] = Append(dir, b) /\ EntryBefore(a, b)}

(* The files sorted by rules are those that were found.                    *)
LEMMA ByRuleFacts ==
  ASSUME tree \in Trees, NEW dir \in tree
  PROVE  /\ ByRule(dir) \in Seq(tree) /\ ToSet(ByRule(dir)) = Children(dir)
         /\ Ordered(ByRule(dir), ByRulePairs(dir))
<1> DEFINE d == Deduped
           n == Len(d)
           parts == [i \in DOMAIN d |-> Matches(dir, d[i])]
           f == FlattenSeq(parts)
<1>1. /\ d \in Seq(ToSet(Precedence)) /\ n \in Nat /\ DOMAIN d = 1..n
      /\ \A i \in 1..n : d[i] \in ToSet(Precedence)
      /\ ToSet(d) = ToSet(Precedence) /\ ToSet(d) = {d[i] : i \in 1..n}
      /\ \A x, y \in 1..n : x < y => Position(Precedence, d[x]) < Position(Precedence, d[y])
  <2>1. d \in Seq(ToSet(Precedence)) /\ ToSet(d) = ToSet(Precedence)
        /\ \A x, y \in 1..n : x < y => Position(Precedence, d[x]) < Position(Precedence, d[y])
    BY DedupedFacts
  <2> HIDE DEF d
  <2>2. QED
    BY <2>1, LenProperties, ElementOfSeq, ToSetFacts
<1>2. f = ByRule(dir)
  BY DEF ByRule
<1> HIDE DEF d
<1>3. \A i \in 1..n : /\ Matches(dir, d[i]) \in Seq(tree)
                      /\ ToSet(Matches(dir, d[i])) = Under(dir, d[i]) \cap tree
                      /\ \A x, y \in 1..Len(Matches(dir, d[i])) : x < y =>
                           \E a, b \in ToSet(Kinds) :
                             a # b /\ Matches(dir, d[i])[x] = Append(dir, <<d[i], a>>)
                                   /\ Matches(dir, d[i])[y] = Append(dir, <<d[i], b>>)
  BY MatchesFacts
<1>4. parts \in [1..n -> Seq(tree)] /\ \A i \in 1..n : parts[i] = Matches(dir, d[i])
  BY <1>1, <1>3
<1>5. parts \in Seq(Seq(tree)) /\ Len(parts) = n
  <2>1. parts \in Seq(Seq(tree))
    BY <1>1, <1>4, SeqDef
  <2>2. DOMAIN parts = 1..n /\ DOMAIN parts = 1..Len(parts) /\ Len(parts) \in Nat
    BY <1>4, <2>1, LenProperties
  <2>3. QED
    BY <1>1, <2>1, <2>2
<1> HIDE DEF parts
<1>6. f \in Seq(tree) /\ Laid(parts, f)
  BY <1>5, FlattenLaid
<1> HIDE DEF f, n
<1>7. ASSUME NEW i \in 1..n, NEW j \in 1..Len(parts[i])
      PROVE  \E k \in ToSet(Kinds) : parts[i][j] = Append(dir, <<d[i], k>>)
  <2>1. parts[i][j] \in ToSet(parts[i])
    BY <1>3, <1>4, ToSetFacts
  <2>2. QED
    BY <1>3, <1>4, <2>1 DEF Under
<1>8. ASSUME NEW i \in 1..n, NEW k \in ToSet(Kinds), Append(dir, <<d[i], k>>) \in tree
      PROVE  \E j \in 1..Len(parts[i]) : parts[i][j] = Append(dir, <<d[i], k>>)
  <2>1. Append(dir, <<d[i], k>>) \in ToSet(parts[i])
    BY <1>3, <1>4, <1>8 DEF Under
  <2>2. ToSet(parts[i]) = {parts[i][j] : j \in 1..Len(parts[i])}
    BY <1>3, <1>4, ToSetFacts
  <2>3. QED
    BY <2>1, <2>2
<1>9. ToSet(f) = {f[x] : x \in 1..Len(f)} /\ \A x \in 1..Len(f) : f[x] \in tree
  BY <1>6, ToSetFacts, ElementOfSeq
<1>10. ToSet(f) = Children(dir)
  <2>1. ASSUME NEW x \in 1..Len(f)
        PROVE  f[x] \in Children(dir)
    <3>1. PICK i \in 1..n : \E j \in 1..Len(parts[i]) : f[x] = parts[i][j]
      BY <1>5, <1>6 DEF Laid
    <3>2. PICK k \in ToSet(Kinds) : f[x] = Append(dir, <<d[i], k>>)
      BY <1>7, <3>1
    <3>3. QED
      BY <1>1, <1>9, <3>2 DEF Children
  <2>2. ASSUME NEW c \in Children(dir)
        PROVE  c \in ToSet(f)
    <3>1. PICK i \in 1..n, k \in ToSet(Kinds) : c = Append(dir, <<d[i], k>>) /\ c \in tree
      BY <1>1 DEF Children
    <3>2. PICK j \in 1..Len(parts[i]) : parts[i][j] = c
      BY <1>8, <3>1
    <3>3. \E x \in 1..Len(f) : f[x] = c
      BY <1>5, <1>6, <3>2 DEF Laid
    <3>4. QED
      BY <1>9, <3>3
  <2>3. QED
    BY <1>9, <2>1, <2>2
<1>11. Ordered(f, ByRulePairs(dir))
  <2> SUFFICES ASSUME NEW x \in 1..Len(f), NEW y \in 1..Len(f), x < y
               PROVE  <<f[x], f[y]>> \in ByRulePairs(dir)
    BY DEF Ordered
  <2> SUFFICES \E a, b \in Entries :
                 f[x] = Append(dir, a) /\ f[y] = Append(dir, b) /\ RuleBefore(a, b)
    BY <1>9 DEF ByRulePairs
  <2>1. PICK i \in 1..n, k \in 1..n : \E j \in 1..Len(parts[i]), l \in 1..Len(parts[k]) :
           f[x] = parts[i][j] /\ f[y] = parts[k][l] /\ Before(i, j, k, l)
    BY <1>5, <1>6 DEF Laid
  <2>2. PICK j \in 1..Len(parts[i]), l \in 1..Len(parts[k]) :
           f[x] = parts[i][j] /\ f[y] = parts[k][l] /\ Before(i, j, k, l)
    BY <2>1
  <2>3. CASE i < k
    <3>1. PICK a, b \in ToSet(Kinds) : f[x] = Append(dir, <<d[i], a>>) /\ f[y] = Append(dir, <<d[k], b>>)
      BY <1>7, <2>2
    <3>2. RuleBefore(<<d[i], a>>, <<d[k], b>>)
      BY <1>1, <2>3 DEF RuleBefore
    <3>3. QED
      BY <1>1, <3>1, <3>2 DEF Entries
  <2>4. CASE i = k /\ j < l
    <3>1. PICK a, b \in ToSet(Kinds) :
             a # b /\ f[x] = Append(dir, <<d[i], a>>) /\ f[y] = Append(dir, <<d[i], b>>)
      <4>1. l \in 1..Len(parts[i]) /\ f[y] = parts[i][l] /\ f[x] = parts[i][j] /\ j < l
        BY <2>2, <2>4
      <4>2. PICK a, b \in ToSet(Kinds) :
               a # b /\ Matches(dir, d[i])[j] = Append(dir, <<d[i], a>>)
                     /\ Matches(dir, d[i])[l] = Append(dir, <<d[i], b>>)
        <5> DEFINE M == Matches(dir, d[i])
        <5>1. parts[i] = M
          BY <1>4
        <5>2. l \in 1..Len(M) /\ j \in 1..Len(M) /\ j < l
          BY <4>1, <5>1
        <5>3. QED
          BY <1>3, <5>2
      <4>3. QED
        BY <1>4, <4>1, <4>2
    <3>2. RuleBefore(<<d[i], a>>, <<d[i], b>>)
      BY <3>1 DEF RuleBefore
    <3>3. QED
      BY <1>1, <3>1, <3>2 DEF Entries
  <2>5. QED
    BY <2>2, <2>3, <2>4 DEF Before
<1>12. QED
  BY <1>2, <1>6, <1>10, <1>11

(* The entries that a walk goes to next: files, then directories, and      *)
(* either by the list of base names.                                       *)
LEMMA PrecedenceFacts ==
  ASSUME tree \in Trees, NEW dir \in tree
  PROVE  /\ applyPrecedence(dir) \in Seq(tree)
         /\ ToSet(applyPrecedence(dir)) = Children(dir)
         /\ Ordered(applyPrecedence(dir), EntryPairs(dir))
<1> DEFINE B == ByRule(dir)
           F == Filtered(B, TreeFiles)
           D == Filtered(B, tree \ TreeFiles)
<1>1. B \in Seq(tree) /\ ToSet(B) = Children(dir) /\ Ordered(B, ByRulePairs(dir))
  BY ByRuleFacts
<1>2. applyPrecedence(dir) = F \o D
  BY DEF applyPrecedence
<1> HIDE DEF B
<1>3. /\ F \in Seq(tree) /\ ToSet(F) = ToSet(B) \cap TreeFiles
      /\ D \in Seq(tree) /\ ToSet(D) = ToSet(B) \cap (tree \ TreeFiles)
      /\ Ordered(F, ByRulePairs(dir)) /\ Ordered(D, ByRulePairs(dir))
  BY <1>1, FilteredFacts, OrderedFiltered
<1> HIDE DEF F, D
<1>4. F \o D \in Seq(tree) /\ ToSet(F \o D) = ToSet(F) \cup ToSet(D)
  BY <1>3, ConcatProperties, ToSetConcat
<1>5. Children(dir) \subseteq tree
  BY DEF Children
<1>6. ToSet(F \o D) = Children(dir)
  BY <1>1, <1>3, <1>4, <1>5
<1>7. ASSUME NEW e
      PROVE  IsFile(Append(dir, e)) <=> e[2] # "dir"
  BY ChildFacts
<1>8. ASSUME NEW z \in ByRulePairs(dir), z[1] \in TreeFiles <=> z[2] \in TreeFiles
      PROVE  z \in EntryPairs(dir)
  <2>1. PICK a, b \in Entries : z[1] = Append(dir, a) /\ z[2] = Append(dir, b) /\ RuleBefore(a, b)
    BY DEF ByRulePairs
  <2>2. z \in tree \X tree /\ z[1] \in tree /\ z[2] \in tree
    BY DEF ByRulePairs
  <2>3. (a[2] # "dir") <=> (b[2] # "dir")
    BY <1>7, <1>8, <2>1, <2>2 DEF TreeFiles
  <2>4. EntryBefore(a, b)
    BY <2>1, <2>3 DEF EntryBefore
  <2>5. QED
    BY <2>1, <2>2, <2>4 DEF EntryPairs
<1>9. ASSUME NEW s, Ordered(s, ByRulePairs(dir)), s = F \/ s = D
      PROVE  Ordered(s, EntryPairs(dir))
  <2>1. s \in Seq(tree) /\ \A i \in 1..Len(s) : s[i] \in ToSet(s)
    BY <1>3, <1>9, ToSetFacts
  <2>2. \/ \A i \in 1..Len(s) : s[i] \in TreeFiles
        \/ \A i \in 1..Len(s) : s[i] \notin TreeFiles
    BY <1>3, <1>9, <2>1
  <2>3. QED
    BY <1>8, <1>9, <2>2 DEF Ordered
<1>10. ASSUME NEW p \in ToSet(F), NEW q \in ToSet(D)
       PROVE  <<p, q>> \in EntryPairs(dir)
  <2>1. p \in TreeFiles /\ q \in tree \ TreeFiles /\ p \in Children(dir) /\ q \in Children(dir)
    BY <1>1, <1>3
  <2>2. PICK a, b \in Entries : p = Append(dir, a) /\ q = Append(dir, b)
    BY <2>1 DEF Children, Entries
  <2>3. a[2] # "dir" /\ b[2] = "dir"
    BY <1>7, <2>1, <2>2 DEF TreeFiles
  <2>4. EntryBefore(a, b)
    BY <2>3 DEF EntryBefore
  <2>5. p \in tree /\ q \in tree
    BY <2>1 DEF TreeFiles
  <2>6. QED
    BY <2>2, <2>4, <2>5 DEF EntryPairs
<1>11. Ordered(F \o D, EntryPairs(dir))
  BY <1>3, <1>9, <1>10, OrderedConcat
<1>12. QED
  BY <1>2, <1>4, <1>6, <1>11


-----------------------------------------------------------------------------
(* Path w is path p or below it.                                           *)
Begins(p, w) == Len(p) <= Len(w) /\ \A i \in 1..Len(p) : w[i] = p[i]

(* A path that another begins with is a prefix of it.                      *)
LEMMA BeginsFacts ==
  ASSUME tree \in Trees, NEW p \in tree, NEW w \in tree, Begins(p, w)
  PROVE  Len(p) \in 1..Len(w) /\ SubSeq(w, 1, Len(p)) = p
<1>1. p \in Seq(Elements) /\ w \in Seq(Elements) /\ Len(p) \in Nat \ {0} /\ Len(w) \in Nat
  BY TreeFacts
<1> DEFINE n == Len(p)
<1>2. n \in 1..Len(w) /\ n \in 0..Len(w)
  BY <1>1 DEF Begins
<1> HIDE DEF n
<1> DEFINE s == SubSeq(w, 1, n)
<1>3. s \in Seq(Elements) /\ Len(s) = n /\ \A i \in 1..n : s[i] = w[i]
  BY <1>1, <1>2, PrefixFacts
<1> HIDE DEF s
<1>4. \A i \in 1..Len(s) : s[i] = p[i]
  BY <1>3 DEF Begins, n
<1>5. s = p
  <2>1. Len(s) = Len(p)
    BY <1>3 DEF n
  <2>2. QED
    BY <1>1, <1>3, <1>4, <2>1, SeqEqual
<1>6. QED
  BY <1>2, <1>5 DEF s, n

(* Below a file there is nothing; below a directory, w is below a child.   *)
LEMMA BelowFile ==
  ASSUME tree \in Trees, NEW p \in tree, NEW w \in tree, Begins(p, w), IsFile(p)
  PROVE  p = w
<1>1. Len(p) \in 1..Len(w) /\ SubSeq(w, 1, Len(p)) = p /\ w \in Seq(Elements) /\ Len(w) \in Nat
  BY BeginsFacts, TreeFacts
<1>2. ~(Len(p) < Len(w))
  BY <1>1, Directories
<1>3. Len(p) = Len(w)
  BY <1>1, <1>2
<1>4. QED
  BY <1>1, <1>3, SubSeqFull

(* A file wanted that is below a directory is below one of its children.   *)
LEMMA BelowDirectory ==
  ASSUME tree \in Trees, NEW p \in tree, NEW w \in Wanted, Begins(p, w), ~IsFile(p)
  PROVE  \E c \in Children(p) : Begins(c, w)
<1>1. /\ w \in tree /\ IsFile(w)
      /\ \A i \in 2..Len(w) : w[i][1] \in ToSet(Precedence)
  BY DEF Wanted
<1> DEFINE n == Len(p)
           k == n + 1
           c == SubSeq(w, 1, k)
<1>2. n \in 1..Len(w) /\ SubSeq(w, 1, n) = p /\ w \in Seq(Elements) /\ Len(w) \in Nat
  BY <1>1, BeginsFacts, TreeFacts
<1> HIDE DEF n
<1>3. n # Len(w)
  BY <1>1, <1>2, SubSeqFull
<1>4. n \in 0..Len(w) /\ n < Len(w) /\ k \in 1..Len(w) /\ k \in 2..Len(w) /\ k \in 0..Len(w)
  BY <1>2, <1>3
<1>5. c = Append(p, w[k])
  BY <1>2, <1>4, LongerPrefix
<1>6. c \in tree
  <2> HIDE DEF k
  <2>1. QED
    BY <1>1, <1>4, Directories
<1>7. w[k] = <<w[k][1], w[k][2]>> /\ w[k][2] \in ToSet(Kinds) /\ w[k][1] \in ToSet(Precedence)
  <2> HIDE DEF k
  <2>1. QED
    BY <1>1, <1>4, TreeFacts
<1>8. c \in Children(p)
  BY <1>5, <1>6, <1>7 DEF Children
<1>9. Begins(c, w)
  <2> HIDE DEF k
  <2>1. Len(c) = k /\ \A i \in 1..k : c[i] = w[i]
    BY <1>2, <1>4, PrefixFacts
  <2> HIDE DEF c
  <2>2. QED
    BY <1>4, <2>1 DEF Begins
<1>10. QED
  BY <1>8, <1>9

(* The order of the paths of a walk: by the names where they part.         *)
Sorted(p, q) ==
  \E k \in 1..Len(p) :
    /\ k <= Len(q) /\ p[k] # q[k] /\ \A h \in 1..(k - 1) : p[h] = q[h]
    /\ IF k = 1 THEN Position(Root, p[1]) < Position(Root, q[1]) ELSE EntryBefore(p[k], q[k])

SortedPairs == {z \in tree \X tree : Sorted(z[1], z[2])}

(* Going from a directory to its children keeps the order.                 *)
LEMMA SortedChildren ==
  ASSUME tree \in Trees, NEW dir \in tree
  PROVE  /\ EntryPairs(dir) \subseteq SortedPairs
         /\ \A q \in tree, c \in Children(dir) :
              /\ <<dir, q>> \in SortedPairs => <<c, q>> \in SortedPairs
              /\ <<q, dir>> \in SortedPairs => <<q, c>> \in SortedPairs
<1>1. Len(dir) \in Nat \ {0}
  BY TreeFacts
<1>2. ASSUME NEW z \in EntryPairs(dir)
      PROVE  z \in SortedPairs
  <2>1. PICK a, b \in Entries : z[1] = Append(dir, a) /\ z[2] = Append(dir, b) /\ EntryBefore(a, b)
    BY DEF EntryPairs
  <2> DEFINE p == z[1]
             q == z[2]
             k == Len(dir) + 1
  <2>2. /\ Len(p) = k /\ Len(q) = k /\ p[k] = a /\ q[k] = b
        /\ \A h \in 1..Len(dir) : p[h] = dir[h] /\ q[h] = dir[h]
    BY <2>1, ChildFacts
  <2>3. a # b
    <3>1. a[1] \in ToSet(Precedence) /\ b[1] \in ToSet(Precedence)
      BY DEF Entries
    <3>2. Position(Precedence, a[1]) \in Nat
      <4>1. Precedence \in Seq(ToSet(Precedence)) /\ Len(Precedence) \in Nat
        BY TreesAssumption, LenProperties
      <4>2. Position(Precedence, a[1]) \in 1..Len(Precedence)
        BY <3>1, <4>1, PositionFacts
      <4>3. QED
        BY <4>1, <4>2
    <3>3. QED
      BY <2>1, <3>2 DEF EntryBefore, RuleBefore
  <2>4. k \in 1..k /\ k <= k /\ k # 1 /\ k - 1 = Len(dir)
    BY <1>1
  <2>5. z \in tree \X tree
    BY DEF EntryPairs
  <2> HIDE DEF p, q, k
  <2>6. Sorted(p, q)
    BY <2>1, <2>2, <2>3, <2>4 DEF Sorted
  <2>7. QED
    BY <2>5, <2>6 DEF SortedPairs, p, q
<1>3. ASSUME NEW q \in tree, NEW c \in Children(dir)
      PROVE  /\ <<dir, q>> \in SortedPairs => <<c, q>> \in SortedPairs
             /\ <<q, dir>> \in SortedPairs => <<q, c>> \in SortedPairs
  <2>1. /\ c \in tree /\ Len(c) = Len(dir) + 1 /\ \A i \in 1..Len(dir) : c[i] = dir[i]
    BY ChildFacts DEF Children
  <2>2. ASSUME Sorted(dir, q)
        PROVE  Sorted(c, q)
    <3>1. PICK k \in 1..Len(dir) :
             /\ k <= Len(q) /\ dir[k] # q[k] /\ \A h \in 1..(k - 1) : dir[h] = q[h]
             /\ IF k = 1 THEN Position(Root, dir[1]) < Position(Root, q[1])
                ELSE EntryBefore(dir[k], q[k])
      BY <2>2 DEF Sorted
    <3>2. k \in 1..Len(c) /\ c[k] = dir[k] /\ \A h \in 1..(k - 1) : c[h] = dir[h]
      BY <1>1, <2>1
    <3>3. QED
      BY <3>1, <3>2 DEF Sorted
  <2>3. ASSUME Sorted(q, dir)
        PROVE  Sorted(q, c)
    <3>1. PICK k \in 1..Len(q) :
             /\ k <= Len(dir) /\ q[k] # dir[k] /\ \A h \in 1..(k - 1) : q[h] = dir[h]
             /\ IF k = 1 THEN Position(Root, q[1]) < Position(Root, dir[1])
                ELSE EntryBefore(q[k], dir[k])
      BY <2>3 DEF Sorted
    <3>2. Len(q) \in Nat
      BY TreeFacts
    <3>3. k <= Len(c) /\ c[k] = dir[k] /\ \A h \in 1..(k - 1) : c[h] = dir[h]
      BY <1>1, <2>1, <3>1, <3>2
    <3>4. QED
      BY <3>1, <3>3 DEF Sorted
  <2>4. QED
    BY <2>1, <2>2, <2>3 DEF SortedPairs
<1>4. QED
  BY <1>2, <1>3

(* The two directories of a walk are in the order of the list.             *)
LEMMA SortedRoots ==
  ASSUME tree \in Trees, IsInjective(Root), NEW p \in tree, NEW q \in tree,
         NEW r \in 1..Len(Root), NEW s \in 1..Len(Root), r < s, p[1] = Root[r], q[1] = Root[s]
  PROVE  <<p, q>> \in SortedPairs
<1>1. Root \in Seq(ToSet(Root)) /\ DOMAIN Root = 1..Len(Root) /\ Len(Root) \in Nat
  BY TreesAssumption, LenProperties
<1>2. \A i, j \in 1..Len(Root) : Root[i] = Root[j] => i = j
  BY <1>1 DEF IsInjective
<1>3. Position(Root, p[1]) = r /\ Position(Root, q[1]) = s
  <2>1. \A j \in 1..(r - 1) : j \in 1..Len(Root) /\ j # r
    BY <1>1
  <2>2. \A j \in 1..(s - 1) : j \in 1..Len(Root) /\ j # s
    BY <1>1
  <2>3. /\ Root[r] = p[1] /\ \A j \in 1..(r - 1) : Root[j] # p[1]
        /\ Root[s] = q[1] /\ \A j \in 1..(s - 1) : Root[j] # q[1]
    BY <1>2, <2>1, <2>2
  <2>4. QED
    BY <1>1, <2>3, PositionFacts
<1>4. p[1] # q[1]
  BY <1>2
<1>5. 1 \in 1..Len(p) /\ 1 <= Len(q) /\ \A h \in 1..(1 - 1) : p[h] = q[h]
  BY TreeFacts
<1>6. Sorted(p, q)
  BY <1>3, <1>4, <1>5 DEF Sorted
<1>7. QED
  BY <1>6 DEF SortedPairs

-----------------------------------------------------------------------------
(* The invariant of the search *)

FilesTypes ==
  /\ tree \in Trees
  /\ root \in 0..Len(Root)
  /\ pending \in Seq(tree) /\ paths \in Seq(tree)
  /\ outcome \in {"none", "vars", "empty", "error"}

\* Files of variables, as they are meant, below a directory that was searched.
Meant(p) ==
  /\ \E r \in 1..root : p[1] = Root[r]
  /\ \A i \in 2..Len(p) : p[i][1] \in ToSet(Precedence)

Named ==
  /\ \A p \in ToSet(paths) \cup ToSet(pending) : Meant(p)
  /\ \A p \in ToSet(paths) : IsFile(p) /\ Last(p)[2] = "yaml"

\* The order of what was found and of what is to be searched.
Listed == IsInjective(Root) => Ordered(paths \o pending, SortedPairs)

\* What is meant was found, or is below what is to be searched.
Covered ==
  outcome # "error" => \A w \in Wanted :
    \/ w \in ToSet(paths)
    \/ \E p \in ToSet(pending) : Begins(p, w)
    \/ \E r \in (root + 1)..Len(Root) : w[1] = Root[r]

Ended ==
  /\ outcome \in {"vars", "empty"} => pending = <<>> /\ root = Len(Root) /\ merged = paths
  /\ outcome \notin {"vars", "empty"} => merged = <<>>

FilesInv == FilesTypes /\ Named /\ Listed /\ Covered /\ Ended

(* The invariant holds at first, ...                                       *)
LEMMA FilesInit == Init => FilesInv
<1> SUFFICES ASSUME Init
             PROVE  FilesInv
  OBVIOUS
<1>1. /\ tree \in Trees /\ root = 0 /\ pending = <<>> /\ paths = <<>> /\ merged = <<>>
      /\ outcome = "none"
  BY DEF Init
<1>2. Root \in Seq(ToSet(Root)) /\ Len(Root) \in Nat /\ ToSet(Root) = {Root[i] : i \in 1..Len(Root)}
  BY TreesAssumption, LenProperties, ToSetFacts
<1>3. <<>> \in Seq(tree) /\ <<>> \o <<>> = <<>> /\ ToSet(<<>>) = {}
  BY EmptySeq, ConcatEmptySeq, ToSetEmpty
<1>4. FilesTypes
  BY <1>1, <1>2, <1>3 DEF FilesTypes
<1>5. Named /\ Ended
  BY <1>1, <1>3 DEF Named, Ended
<1>6. Listed
  BY <1>1, <1>3, OrderedFew DEF Listed
<1>7. Covered
  <2>1. ASSUME NEW w \in Wanted
        PROVE  \E r \in 1..Len(Root) : w[1] = Root[r]
    BY <1>1, <1>2, TreeFacts DEF Wanted
  <2>2. root + 1 = 1
    BY <1>1
  <2>3. QED
    BY <2>1, <2>2 DEF Covered
<1>8. QED
  BY <1>4, <1>5, <1>6, <1>7 DEF FilesInv

(* ... and each step of the search keeps it.                               *)
LEMMA FilesStep == FilesInv /\ [Next]_vars => FilesInv'
<1> SUFFICES ASSUME FilesInv, [Next]_vars
             PROVE  FilesInv'
  OBVIOUS
<1>1. /\ tree \in Trees /\ root \in 0..Len(Root) /\ pending \in Seq(tree) /\ paths \in Seq(tree)
      /\ outcome \in {"none", "vars", "empty", "error"}
  BY DEF FilesInv, FilesTypes
<1>2. Root \in Seq(ToSet(Root)) /\ Len(Root) \in Nat
  BY TreesAssumption, LenProperties
<1>3. tree' = tree
  BY DEF vars, Next, StartWalk, WalkToFile, WalkToDir, MergePaths
<1>4. Wanted' = Wanted /\ SortedPairs' = SortedPairs
  BY <1>3 DEF Wanted, SortedPairs
<1>5. Named /\ Listed /\ Covered /\ Ended
  BY DEF FilesInv
<1>6. CASE StartWalk
  <2> DEFINE dir == <<Root[root + 1]>>
  <2>1. /\ outcome = "none" /\ pending = <<>> /\ root < Len(Root) /\ root' = root + 1
        /\ paths' = paths /\ merged' = merged
    BY <1>6 DEF StartWalk
  <2>2. \/ dir \in tree /\ pending' = <<dir>> /\ outcome' = outcome
        \/ dir \notin tree /\ pending' = pending /\ outcome' = "error"
    BY <1>6 DEF StartWalk
  <2>3. root' \in 1..Len(Root) /\ root' \in 0..Len(Root) /\ dir[1] = Root[root'] /\ Len(dir) = 1
    BY <1>1, <1>2, <2>1
  <2> HIDE DEF dir
  <2>4. /\ pending' \in Seq(tree) /\ outcome' \in {"none", "vars", "empty", "error"}
        /\ \A p \in ToSet(pending') : p = dir
    <3>1. CASE dir \in tree /\ pending' = <<dir>> /\ outcome' = outcome
      <4>1. <<dir>> \in Seq(tree) /\ ToSet(<<dir>>) = {dir}
        BY <3>1, ToSetFacts DEF ToSet
      <4>2. QED
        BY <1>1, <3>1, <4>1
    <3>2. CASE dir \notin tree /\ pending' = pending /\ outcome' = "error"
      BY <1>1, <2>1, <3>2, ToSetEmpty
    <3>3. QED
      BY <2>2, <3>1, <3>2
  <2>5. FilesTypes'
    BY <1>1, <1>3, <2>1, <2>3, <2>4 DEF FilesTypes
  <2>6. Named'
    <3>1. ASSUME NEW p \in ToSet(paths)
          PROVE  Meant(p)'
      <4>1. Meant(p) /\ 1..root \subseteq 1..root'
        BY <1>1, <1>5, <2>1 DEF Named
      <4>2. QED
        BY <4>1 DEF Meant
    <3>2. \A p : p = dir => Meant(p)'
      <4>1. \A i \in 2..Len(dir) : FALSE
        BY <2>3
      <4>2. root' \in 1..root'
        BY <2>3, <1>2
      <4>3. QED
        BY <2>3, <4>1, <4>2 DEF Meant
    <3>3. QED
      BY <1>5, <2>1, <2>4, <3>1, <3>2 DEF Named
  <2>7. Listed'
    <3> SUFFICES ASSUME IsInjective(Root)
                 PROVE  Ordered(paths' \o pending', SortedPairs)
      BY <1>4 DEF Listed
    <3>1. Ordered(paths, SortedPairs)
      <4>1. paths \o pending = paths
        BY <1>1, <2>1, ConcatEmptySeq
      <4>2. QED
        BY <1>5, <4>1 DEF Listed
    <3>2. Ordered(pending', SortedPairs)
      BY <2>1, <2>2, OrderedFew
    <3>3. ASSUME NEW p \in ToSet(paths), NEW q \in ToSet(pending')
          PROVE  <<p, q>> \in SortedPairs
      <4>1. PICK r \in 1..root : p[1] = Root[r]
        BY <1>5 DEF Named, Meant
      <4>2. p \in tree /\ q \in tree /\ q = dir
        BY <1>1, <2>4, ToSetFacts
      <4>3. r \in 1..Len(Root) /\ r < root'
        BY <1>1, <1>2, <2>1
      <4>4. QED
        BY <1>1, <2>3, <4>1, <4>2, <4>3, SortedRoots
    <3>4. QED
      BY <1>1, <2>1, <2>4, <3>1, <3>2, <3>3, OrderedConcat
  <2>8. Covered'
    <3> SUFFICES ASSUME outcome' # "error", NEW w \in Wanted
                 PROVE  \/ w \in ToSet(paths')
                        \/ \E p \in ToSet(pending') : Begins(p, w)
                        \/ \E r \in (root' + 1)..Len(Root) : w[1] = Root[r]
      BY <1>4 DEF Covered
    <3>1. pending' = <<dir>> /\ ToSet(<<dir>>) = {dir}
      BY <2>2 DEF ToSet
    <3>2. CASE w \in ToSet(paths)
      BY <2>1, <3>2
    <3>3. ASSUME NEW r \in (root + 1)..Len(Root), w[1] = Root[r]
          PROVE  \/ Begins(dir, w)
                 \/ \E q \in (root' + 1)..Len(Root) : w[1] = Root[q]
      <4>1. CASE r = root'
        <5>1. w[1] = dir[1] /\ Len(w) \in Nat \ {0}
          BY <1>1, <2>3, <3>3, <4>1, TreeFacts DEF Wanted
        <5>2. QED
          BY <2>3, <5>1 DEF Begins
      <4>2. CASE r # root'
        <5>1. r \in (root' + 1)..Len(Root)
          BY <1>1, <1>2, <2>1, <4>2
        <5>2. QED
          BY <3>3, <5>1
      <4>3. QED
        BY <4>1, <4>2
    <3>4. \/ w \in ToSet(paths)
          \/ \E r \in (root + 1)..Len(Root) : w[1] = Root[r]
      BY <1>5, <2>1, ToSetEmpty DEF Covered
    <3>5. QED
      BY <3>1, <3>2, <3>3, <3>4
  <2>9. Ended'
    BY <1>5, <2>1, <2>2 DEF Ended
  <2>10. QED
    BY <2>5, <2>6, <2>7, <2>8, <2>9 DEF FilesInv
<1>7. ASSUME NEW h, NEW t, pending # <<>>, h = Head(pending), t = Tail(pending)
      PROVE  /\ h \in tree /\ t \in Seq(tree) /\ <<h>> \in Seq(tree) /\ Meant(h)
             /\ ToSet(pending) = {h} \cup ToSet(t)
             /\ IsInjective(Root) =>
                  /\ Ordered(paths, SortedPairs) /\ Ordered(t, SortedPairs)
                  /\ \A p \in ToSet(paths) : <<p, h>> \in SortedPairs
                  /\ \A p \in ToSet(t) : <<h, p>> \in SortedPairs
                  /\ \A p \in ToSet(paths), q \in ToSet(t) : <<p, q>> \in SortedPairs
  <2>1. /\ h \in tree /\ t \in Seq(tree) /\ <<h>> \in Seq(tree)
        /\ pending = <<h>> \o t
        /\ ToSet(pending) = {h} \cup ToSet(t)
    BY <1>1, <1>7, HeadTail
  <2>2. ToSet(<<h>>) = {h}
    BY DEF ToSet
  <2>3. Meant(h)
    BY <1>5, <2>1 DEF Named
  <2>4. ASSUME IsInjective(Root)
        PROVE  /\ Ordered(paths, SortedPairs) /\ Ordered(t, SortedPairs)
               /\ \A p \in ToSet(paths) : <<p, h>> \in SortedPairs
               /\ \A p \in ToSet(t) : <<h, p>> \in SortedPairs
               /\ \A p \in ToSet(paths), q \in ToSet(t) : <<p, q>> \in SortedPairs
    <3>1. Ordered(paths \o pending, SortedPairs)
      BY <1>5, <2>4 DEF Listed
    <3>2. /\ Ordered(paths, SortedPairs) /\ Ordered(pending, SortedPairs)
          /\ \A p \in ToSet(paths), q \in ToSet(pending) : <<p, q>> \in SortedPairs
      BY <1>1, <3>1, OrderedConcat
    <3>3. Ordered(t, SortedPairs) /\ \A p \in ToSet(<<h>>), q \in ToSet(t) : <<p, q>> \in SortedPairs
      BY <2>1, <3>2, OrderedConcat
    <3>4. QED
      BY <2>1, <2>2, <3>2, <3>3
  <2>5. QED
    BY <2>1, <2>3, <2>4
<1>8. CASE WalkToFile
  <2> DEFINE h == Head(pending)
             t == Tail(pending)
  <2>1. /\ outcome = "none" /\ pending # <<>> /\ IsFile(h)
        /\ pending' = t /\ root' = root /\ merged' = merged /\ outcome' = outcome
        /\ paths' = IF Last(h)[2] = "yaml" THEN Append(paths, h) ELSE paths
    BY <1>8 DEF WalkToFile
  <2> HIDE DEF h, t
  <2>2. /\ h \in tree /\ t \in Seq(tree) /\ <<h>> \in Seq(tree) /\ Meant(h)
        /\ ToSet(pending) = {h} \cup ToSet(t)
        /\ IsInjective(Root) =>
             /\ Ordered(paths, SortedPairs) /\ Ordered(t, SortedPairs)
             /\ \A p \in ToSet(paths) : <<p, h>> \in SortedPairs
             /\ \A p \in ToSet(t) : <<h, p>> \in SortedPairs
             /\ \A p \in ToSet(paths), q \in ToSet(t) : <<p, q>> \in SortedPairs
    BY <1>7, <2>1 DEF h, t
  <2>3. /\ Append(paths, h) \in Seq(tree) /\ ToSet(Append(paths, h)) = ToSet(paths) \cup {h}
        /\ Append(paths, h) = paths \o <<h>> /\ ToSet(<<h>>) = {h}
    <3>1. ToSet(<<h>>) = {h}
      BY DEF ToSet
    <3>2. QED
      BY <1>1, <2>2, <3>1, AppendProperties, ToSetAppend, AppendIsConcat
  <2>4. FilesTypes'
    BY <1>1, <1>3, <2>1, <2>2, <2>3 DEF FilesTypes
  <2>5. Named'
    <3>1. \A p : Meant(p)' <=> Meant(p)
      BY <2>1 DEF Meant
    <3>2. \A p \in ToSet(paths') : Meant(p) /\ IsFile(p) /\ Last(p)[2] = "yaml"
      BY <1>5, <2>1, <2>2, <2>3 DEF Named
    <3>3. \A p \in ToSet(pending') : Meant(p)
      BY <1>5, <2>1, <2>2 DEF Named
    <3>4. QED
      BY <3>1, <3>2, <3>3 DEF Named
  <2>6. Listed'
    <3> SUFFICES ASSUME IsInjective(Root)
                 PROVE  Ordered(paths' \o t, SortedPairs)
      BY <1>4, <2>1 DEF Listed
    <3>1. Ordered(paths', SortedPairs)
      <4>1. Ordered(paths \o <<h>>, SortedPairs)
        BY <1>1, <2>2, <2>3, OrderedConcat, OrderedFew
      <4>2. QED
        BY <2>1, <2>2, <2>3, <4>1
    <3>2. \A p \in ToSet(paths'), q \in ToSet(t) : <<p, q>> \in SortedPairs
      BY <2>1, <2>2, <2>3
    <3>3. paths' \in Seq(tree)
      BY <1>1, <2>1, <2>3
    <3>4. QED
      BY <2>2, <3>1, <3>2, <3>3, OrderedConcat
  <2>7. Covered'
    <3> SUFFICES ASSUME outcome' # "error", NEW w \in Wanted
                 PROVE  \/ w \in ToSet(paths')
                        \/ \E p \in ToSet(t) : Begins(p, w)
                        \/ \E r \in (root + 1)..Len(Root) : w[1] = Root[r]
      BY <1>4, <2>1 DEF Covered
    <3>1. ASSUME Begins(h, w)
          PROVE  w \in ToSet(paths')
      <4>1. h = w
        BY <1>1, <2>1, <2>2, <3>1, BelowFile DEF Wanted
      <4>2. QED
        BY <2>1, <2>3, <4>1 DEF Wanted
    <3>2. ToSet(paths) \subseteq ToSet(paths')
      BY <2>1, <2>3
    <3>3. QED
      BY <1>5, <2>1, <2>2, <3>1, <3>2 DEF Covered
  <2>8. Ended'
    BY <1>5, <2>1 DEF Ended
  <2>9. QED
    BY <2>4, <2>5, <2>6, <2>7, <2>8 DEF FilesInv
<1>9. CASE WalkToDir
  <2> DEFINE h == Head(pending)
             t == Tail(pending)
             a == applyPrecedence(h)
  <2>1. /\ outcome = "none" /\ pending # <<>> /\ ~IsFile(h)
        /\ paths' = paths /\ root' = root /\ merged' = merged
        /\ \/ pending' = a \o t /\ outcome' = outcome
           \/ pending' = pending /\ outcome' = "error"
    BY <1>9 DEF WalkToDir
  <2> HIDE DEF h, t
  <2>2. /\ h \in tree /\ t \in Seq(tree) /\ <<h>> \in Seq(tree) /\ Meant(h)
        /\ ToSet(pending) = {h} \cup ToSet(t)
        /\ IsInjective(Root) =>
             /\ Ordered(paths, SortedPairs) /\ Ordered(t, SortedPairs)
             /\ \A p \in ToSet(paths) : <<p, h>> \in SortedPairs
             /\ \A p \in ToSet(t) : <<h, p>> \in SortedPairs
             /\ \A p \in ToSet(paths), q \in ToSet(t) : <<p, q>> \in SortedPairs
    BY <1>7, <2>1 DEF h, t
  <2>3. a \in Seq(tree) /\ ToSet(a) = Children(h) /\ Ordered(a, EntryPairs(h))
    BY <1>1, <2>2, PrecedenceFacts
  <2> HIDE DEF a
  <2>4. CASE pending' = pending /\ outcome' = "error"
    <3>1. FilesTypes'
      BY <1>1, <1>3, <2>1, <2>4 DEF FilesTypes
    <3>2. Named' /\ Listed' /\ Covered' /\ Ended'
      BY <1>4, <1>5, <2>1, <2>4 DEF Named, Meant, Listed, Covered, Ended
    <3>3. QED
      BY <3>1, <3>2 DEF FilesInv
  <2>5. CASE pending' = a \o t /\ outcome' = outcome
    <3>1. a \o t \in Seq(tree) /\ ToSet(a \o t) = Children(h) \cup ToSet(t)
      BY <2>2, <2>3, ConcatProperties, ToSetConcat
    <3>2. FilesTypes'
      BY <1>1, <1>3, <2>1, <2>5, <3>1 DEF FilesTypes
    <3>3. Named'
      <4>1. \A p : Meant(p)' <=> Meant(p)
        BY <2>1 DEF Meant
      <4>2. ASSUME NEW c \in Children(h)
            PROVE  Meant(c)
        <5>1. PICK r \in ToSet(Precedence), k \in ToSet(Kinds) : c = Append(h, <<r, k>>)
          BY DEF Children
        <5>2. /\ Len(c) = Len(h) + 1 /\ c[Len(c)] = <<r, k>> /\ \A i \in 1..Len(h) : c[i] = h[i]
          BY <1>1, <2>2, <5>1, ChildFacts
        <5>3. Len(h) \in Nat \ {0}
          BY <1>1, <2>2, TreeFacts
        <5>4. c[1] = h[1] /\ \A i \in 2..Len(c) : i = Len(c) \/ (i \in 2..Len(h) /\ c[i] = h[i])
          BY <5>2, <5>3
        <5>5. QED
          BY <2>2, <5>2, <5>4 DEF Meant
      <4>3. \A p \in ToSet(pending') : Meant(p)
        BY <1>5, <2>2, <2>5, <3>1, <4>2 DEF Named
      <4>4. QED
        BY <1>5, <2>1, <4>1, <4>3 DEF Named
    <3>4. Listed'
      <4> SUFFICES ASSUME IsInjective(Root)
                   PROVE  Ordered(paths \o (a \o t), SortedPairs)
        BY <1>4, <2>1, <2>5 DEF Listed
      <4>1. \A z \in EntryPairs(h) : z \in SortedPairs
        BY <1>1, <2>2, SortedChildren
      <4>2. Ordered(a, SortedPairs)
        BY <2>3, <4>1 DEF Ordered
      <4>3. \A p \in tree, c \in Children(h) :
              /\ <<h, p>> \in SortedPairs => <<c, p>> \in SortedPairs
              /\ <<p, h>> \in SortedPairs => <<p, c>> \in SortedPairs
        BY <1>1, <2>2, SortedChildren
      <4>4. ToSet(paths) \subseteq tree /\ ToSet(t) \subseteq tree
        BY <1>1, <2>2, ToSetFacts
      <4>5. Ordered(a \o t, SortedPairs)
        <5>1. \A p \in ToSet(a), q \in ToSet(t) : <<p, q>> \in SortedPairs
          BY <2>2, <2>3, <4>3, <4>4
        <5>2. QED
          BY <2>2, <2>3, <4>2, <5>1, OrderedConcat
      <4>6. \A p \in ToSet(paths), q \in ToSet(a \o t) : <<p, q>> \in SortedPairs
        BY <2>2, <3>1, <4>3, <4>4
      <4>7. QED
        BY <1>1, <2>2, <3>1, <4>5, <4>6, OrderedConcat
    <3>5. Covered'
      <4> SUFFICES ASSUME outcome' # "error", NEW w \in Wanted
                   PROVE  \/ w \in ToSet(paths)
                          \/ \E p \in ToSet(a \o t) : Begins(p, w)
                          \/ \E r \in (root + 1)..Len(Root) : w[1] = Root[r]
        BY <1>4, <2>1, <2>5 DEF Covered
      <4>1. ASSUME Begins(h, w)
            PROVE  \E p \in Children(h) : Begins(p, w)
        BY <1>1, <2>1, <2>2, <4>1, BelowDirectory
      <4>2. QED
        BY <1>5, <2>1, <2>2, <3>1, <4>1 DEF Covered
    <3>6. Ended'
      BY <1>5, <2>1, <2>5 DEF Ended
    <3>7. QED
      BY <3>2, <3>3, <3>4, <3>5, <3>6 DEF FilesInv
  <2>6. QED
    BY <2>1, <2>4, <2>5
<1>10. CASE MergePaths
  <2>1. /\ outcome = "none" /\ pending = <<>> /\ root = Len(Root)
        /\ root' = root /\ pending' = pending /\ paths' = paths
        /\ \/ outcome' = "error" /\ merged' = merged
           \/ outcome' \in {"vars", "empty"} /\ merged' = paths
    BY <1>10 DEF MergePaths
  <2>2. FilesTypes'
    BY <1>1, <1>3, <2>1 DEF FilesTypes
  <2>3. Named' /\ Listed' /\ Covered' /\ Ended'
    BY <1>4, <1>5, <2>1 DEF Named, Meant, Listed, Covered, Ended
  <2>4. QED
    BY <2>2, <2>3 DEF FilesInv
<1>11. CASE UNCHANGED vars
  <2>1. FilesTypes' /\ Named' /\ Listed' /\ Covered' /\ Ended'
    BY <1>1, <1>4, <1>5, <1>11 DEF vars, FilesTypes, Named, Meant, Listed, Covered, Ended
  <2>2. QED
    BY <2>1 DEF FilesInv
<1>12. QED
  BY <1>6, <1>8, <1>9, <1>10, <1>11 DEF Next


(* The types follow from the invariant.                                    *)
LEMMA FilesTypeOK == FilesInv => TypeOK
<1> SUFFICES ASSUME FilesInv
             PROVE  TypeOK
  OBVIOUS
<1>1. FilesTypes /\ Ended
  BY DEF FilesInv
<1>2. ToSet(pending) \subseteq tree /\ ToSet(paths) \subseteq tree
  BY <1>1, ToSetFacts DEF FilesTypes
<1>3. QED
  BY <1>1, <1>2 DEF FilesTypes, Ended, TypeOK

(* What is found is what is meant.                                         *)
LEMMA FilesMerged == FilesInv => MergedExactly
<1> SUFFICES ASSUME FilesInv, outcome \in {"vars", "empty"}
             PROVE  /\ ToSet(merged) = Wanted
                    /\ IsInjective(Root) => Cardinality(ToSet(merged)) = Len(merged)
  BY DEF MergedExactly
<1>1. FilesTypes /\ Named /\ Listed /\ Covered /\ Ended
  BY DEF FilesInv
<1>2. pending = <<>> /\ root = Len(Root) /\ merged = paths /\ Len(Root) \in Nat
  <2>1. Root \in Seq(ToSet(Root))
    BY TreesAssumption
  <2>2. QED
    BY <1>1, <2>1, LenProperties DEF Ended
<1>3. paths \in Seq(tree) /\ ToSet(paths) \subseteq tree /\ ToSet(<<>>) = {}
  BY <1>1, ToSetFacts, ToSetEmpty DEF FilesTypes
<1>4. ToSet(paths) \subseteq Wanted
  BY <1>1, <1>3 DEF Named, Meant, Wanted
<1>5. Wanted \subseteq ToSet(paths)
  <2>1. \A r \in (root + 1)..Len(Root) : FALSE
    BY <1>2
  <2>2. QED
    BY <1>1, <1>2, <1>3, <2>1 DEF Covered
<1>6. ASSUME IsInjective(Root)
      PROVE  Cardinality(ToSet(paths)) = Len(paths)
  <2>1. Ordered(paths, SortedPairs)
    <3>1. paths \o <<>> = paths
      BY <1>3, ConcatEmptySeq
    <3>2. QED
      BY <1>1, <1>2, <1>6, <3>1 DEF Listed
  <2>2. \A p, q : <<p, q>> \in SortedPairs => p # q
    BY DEF SortedPairs, Sorted
  <2>3. \A i, j \in 1..Len(paths) : i < j => paths[i] # paths[j]
    BY <2>1, <2>2 DEF Ordered
  <2>4. QED
    BY <1>3, <2>3, DistinctCount
<1>7. QED
  BY <1>2, <1>4, <1>5, <1>6

(* Two files of variables part at names, which are not the same.           *)
LEMMA FilesParting ==
  ASSUME tree \in Trees, NEW p \in tree, NEW q \in tree, Sorted(p, q),
         IsFile(p), IsFile(q), Last(p)[2] = "yaml", Last(q)[2] = "yaml"
  PROVE  LET k == CHOOSE k \in 1..(Len(p) + 1) : p[k] # q[k] /\ \A h \in 1..(k - 1) : p[h] = q[h]
         IN IF k = 1 THEN Position(Root, p[1]) < Position(Root, q[1]) ELSE Precedes(p[k], q[k])
<1> DEFINE Part(k) == p[k] # q[k] /\ \A h \in 1..(k - 1) : p[h] = q[h]
           part == CHOOSE k \in 1..(Len(p) + 1) : Part(k)
<1>1. PICK k \in 1..Len(p) :
         /\ k <= Len(q) /\ p[k] # q[k] /\ \A h \in 1..(k - 1) : p[h] = q[h]
         /\ IF k = 1 THEN Position(Root, p[1]) < Position(Root, q[1]) ELSE EntryBefore(p[k], q[k])
  BY DEF Sorted
<1>2. Len(p) \in Nat \ {0} /\ Len(q) \in Nat \ {0}
  BY TreeFacts
<1>3. k \in 1..(Len(p) + 1) /\ Part(k)
  BY <1>1, <1>2
<1>4. ASSUME NEW j \in 1..(Len(p) + 1), Part(j)
      PROVE  j = k
  <2>1. ~(j < k) /\ ~(k < j)
    BY <1>1, <1>2, <1>4
  <2>2. QED
    BY <1>2, <2>1
<1> HIDE DEF Part
<1>5. part = k
  BY <1>3, <1>4
<1>6. ASSUME k # 1
      PROVE  Precedes(p[k], q[k])
  <2>1. EntryBefore(p[k], q[k]) /\ k \in 2..Len(p) /\ k \in 2..Len(q)
    BY <1>1, <1>2, <1>6
  <2>2. CASE (p[k][2] = "dir") # (q[k][2] = "dir")
    BY <2>1, <2>2 DEF EntryBefore, Precedes
  <2>3. CASE (p[k][2] = "dir") = (q[k][2] = "dir")
    <3>1. RuleBefore(p[k], q[k])
      BY <2>1, <2>3 DEF EntryBefore
    <3>2. p[k] = <<p[k][1], p[k][2]>> /\ q[k] = <<q[k][1], q[k][2]>>
      BY <2>1, TreeFacts
    <3>3. p[k][2] = q[k][2]
      <4>1. CASE p[k][2] = "dir"
        BY <2>3, <4>1
      <4>2. CASE p[k][2] # "dir"
        <5>1. q[k][2] # "dir"
          BY <2>3, <4>2
        <5>2. ~(k < Len(p)) /\ ~(k < Len(q))
          BY <2>1, <4>2, <5>1, DirectoryEntry
        <5>3. k = Len(p) /\ k = Len(q)
          BY <1>2, <2>1, <5>2
        <5>4. QED
          BY <5>3 DEF Last
      <4>3. QED
        BY <4>1, <4>2
    <3>4. Position(Precedence, p[k][1]) < Position(Precedence, q[k][1])
      BY <3>1, <3>3 DEF RuleBefore
    <3>5. QED
      BY <2>3, <3>4 DEF Precedes
  <2>4. QED
    BY <2>2, <2>3
<1>7. IF part = 1 THEN Position(Root, p[1]) < Position(Root, q[1]) ELSE Precedes(p[part], q[part])
  BY <1>1, <1>5, <1>6
<1>8. QED
  BY <1>7 DEF Part

(* The order of what is found is by names.                                 *)
LEMMA FilesOrder == FilesInv => OverridesByName
<1> SUFFICES ASSUME FilesInv, IsInjective(Root),
                    NEW i \in DOMAIN paths, NEW j \in DOMAIN paths, i < j
             PROVE  LET p == paths[i] q == paths[j]
                        k == CHOOSE k \in 1..(Len(p) + 1) : p[k] # q[k] /\ \A h \in 1..(k - 1) : p[h] = q[h]
                    IN IF k = 1 THEN Position(Root, p[1]) < Position(Root, q[1])
                       ELSE Precedes(p[k], q[k])
  BY DEF OverridesByName
<1>1. tree \in Trees /\ paths \in Seq(tree) /\ pending \in Seq(tree) /\ Named /\ Listed
  BY DEF FilesInv, FilesTypes
<1>2. DOMAIN paths = 1..Len(paths) /\ ToSet(paths) = {paths[x] : x \in 1..Len(paths)}
  BY <1>1, LenProperties, ToSetFacts
<1>3. Ordered(paths, SortedPairs)
  BY <1>1, OrderedConcat DEF Listed
<1> DEFINE p == paths[i]
           q == paths[j]
<1>4. /\ p \in tree /\ q \in tree /\ Sorted(p, q)
      /\ IsFile(p) /\ Last(p)[2] = "yaml" /\ IsFile(q) /\ Last(q)[2] = "yaml"
  <2>1. p \in ToSet(paths) /\ q \in ToSet(paths) /\ <<p, q>> \in SortedPairs
    BY <1>2, <1>3 DEF Ordered
  <2>2. QED
    BY <1>1, <2>1 DEF SortedPairs, Named
<1> HIDE DEF p, q
<1>5. LET k == CHOOSE k \in 1..(Len(p) + 1) : p[k] # q[k] /\ \A h \in 1..(k - 1) : p[h] = q[h]
      IN IF k = 1 THEN Position(Root, p[1]) < Position(Root, q[1]) ELSE Precedes(p[k], q[k])
  BY <1>1, <1>4, FilesParting
<1>6. QED
  BY <1>5 DEF p, q

(* What the search is at has the type it is declared with.                 *)
THEOREM FilesTypeCorrect == Spec => []TypeOK
  BY FilesTypeOK, FilesInit, FilesStep, PTL DEF Spec

(* findVarsFiles() returns the files the configured precedence names, and  *)
(* no others, each once: whatever the precedence and the tree.             *)
THEOREM MergedAreTheWanted == Spec => []MergedExactly
  BY FilesMerged, FilesInit, FilesStep, PTL DEF Spec

(* Among them, a file that is to override another comes after it.          *)
THEOREM OverridingComesLater == Spec => []OverridesByName
  BY FilesOrder, FilesInit, FilesStep, PTL DEF Spec

(* A kapp's step leaves the stack's search as it is.                       *)
LEMMA ProviderStep == [ProviderNext]_providerAllVars => [Next]_vars
<1> SUFFICES ASSUME [ProviderNext]_providerAllVars
             PROVE  [Next]_vars
  OBVIOUS
<1>1. CASE Search
  BY <1>1 DEF Search, Next
<1>2. CASE LoadStack
  BY <1>2 DEF LoadStack, Next
<1>3. CASE UNCHANGED vars
  BY <1>3
<1>4. CASE UNCHANGED providerAllVars
  BY <1>4 DEF providerAllVars
<1>5. QED
  BY <1>1, <1>2, <1>3, <1>4 DEF ProviderNext

(* ... and for one whose kapps add files: what they do is no step of it.   *)
THEOREM ProviderImplementsFiles == ProviderSpec => Spec
<1>1. ProviderInit => Init
  BY DEF ProviderInit
<1>2. QED
  BY <1>1, ProviderStep, PTL DEF ProviderSpec, Spec

\* So the files are as they should be there, too.
THEOREM ProviderFilesCorrect == ProviderSpec => [](MergedExactly /\ OverridesByName)
  BY ProviderImplementsFiles, MergedAreTheWanted, OverridingComesLater, PTL

-----------------------------------------------------------------------------
(* The invariant of the kapps' work on the list *)

Busy(n) == stage[n] \in {"appending", "loading"}

\* Kapp n has added its files and has had them loaded.
Done(n) ==
  phase[n] = "reported" \/ stage[n] = "reporting" \/ (n \in PreAction /\ stage[n] = "apply")

ProviderTypes ==
  ProviderTypeOK /\ phase \in [Node -> {"waiting", "started", "reported"}] /\ added \in [Node -> Nat]

\* A kapp is at some stage while the walk has it started, after all it depends on.
Scheduled ==
  \A n \in Node :
    /\ stage[n] = "idle" <=> phase[n] # "started"
    /\ phase[n] # "waiting" => \A d \in Walk!Dependencies(n) : phase[d] = "reported"

\* The stack is loaded before any kapp is.
StackFirst ==
  outcome # "vars" =>
    /\ \A n \in Node : phase[n] = "waiting" /\ read[n] = <<>> /\ seen[n] = <<>>
    /\ providerVars = <<>>
    /\ outcome = "none" => varsPaths = <<>>

\* Which file may come before which in a list.
FilePairs ==
  {z \in (File \cup tree) \X (File \cup tree) :
     /\ z[2] \in tree => z[1] \in tree
     /\ \A m, n \in Node : z[1] \in OwnFiles[n] /\ z[2] \in OwnFiles[m] => m \notin Earlier[n]}

\* A list whose order is right, of files of the stack and of kapps that were started.
WellMade(list) ==
  /\ Ordered(list, FilePairs)
  /\ \A file \in ToSet(list), n \in Node : file \in OwnFiles[n] => phase[n] # "waiting"

Made == WellMade(varsPaths) /\ WellMade(providerVars) /\ \A n \in Node : WellMade(read[n])

\* The stack's own files are in every list.
Based ==
  /\ outcome = "vars" => /\ ToSet(merged) \subseteq ToSet(varsPaths)
                         /\ ToSet(merged) \subseteq ToSet(providerVars)
  /\ \A n \in Node : Busy(n) => ToSet(merged) \subseteq ToSet(read[n])
  /\ \A n \in Node : seen[n] # <<>> => ToSet(merged) \subseteq ToSet(seen[n])

\* Without a race, one worker at a time is at work on the list, and has read it.
Alone ==
  ~raced => \A n \in Node : Busy(n) => read[n] = varsPaths /\ \A m \in Node : Busy(m) => m = n

Counted ==
  \A n \in Node : /\ Done(n) \/ stage[n] = "loading" => added[n] = Len(FilesOf[n])
                  /\ stage[n] = "appending" => added[n] < Len(FilesOf[n])

\* Without a race, what was added is in the list, ...
Added == ~raced => \A n \in Node : \A i \in 1..added[n] : FilesOf[n][i] \in ToSet(varsPaths)

\* ... and without a failure it was loaded.
Loaded ==
  ~raced /\ ~failed => \A n \in Node : Done(n) => ToSet(FilesOf[n]) \subseteq ToSet(providerVars)

KappInv ==
  /\ ProviderTypes /\ Scheduled /\ StackFirst /\ Made /\ Based
  /\ Alone /\ Counted /\ Added /\ Loaded /\ SeesFiles

(* A kapp that was started has all that comes before it behind it.         *)
LEMMA EarlierDone ==
  ASSUME Scheduled, NEW n \in Node, phase[n] # "waiting", NEW a \in Earlier[n]
  PROVE  a \in Node /\ phase[a] = "reported"
<1> DEFINE S == {m \in Node : phase[m] = "reported"}
<1>1. \A m \in S \cup {n} : Walk!Dependencies(m) \subseteq S
  <2> SUFFICES ASSUME NEW m \in S \cup {n}, NEW d \in Walk!Dependencies(m)
               PROVE  d \in S
    OBVIOUS
  <2>1. m \in Node /\ phase[m] # "waiting" /\ d \in Node
    BY DEF Walk!Dependencies
  <2>2. QED
    BY <2>1 DEF Scheduled
<1>2. /\ a \in Node
      /\ \A T \in SUBSET Node : (\A m \in T \cup {n} : Walk!Dependencies(m) \subseteq T) => a \in T
  BY DEF Earlier
<1>3. S \in SUBSET Node
  OBVIOUS
<1> HIDE DEF S
<1>4. a \in S
  BY <1>1, <1>2, <1>3
<1>5. QED
  BY <1>4 DEF S

(* A list of the stack's own files is in order.                            *)
LEMMA StackListMade ==
  ASSUME tree \in Trees, NEW list \in Seq(tree)
  PROVE  WellMade(list)
<1>1. ToSet(list) \subseteq tree /\ \A i \in 1..Len(list) : list[i] \in tree
  BY ToSetFacts, ElementOfSeq
<1>2. ASSUME NEW n \in Node
      PROVE  OwnFiles[n] \cap tree = {}
  <2>1. OwnFiles[n] \subseteq ToSet(FilesOf[n])
    BY DEF OwnFiles
  <2>2. FilesOf[n] \in Seq(File) /\ tree \cap File = {}
    BY FilesAssumption
  <2>3. ToSet(FilesOf[n]) \subseteq File
    BY <2>2, ToSetFacts
  <2>4. QED
    BY <2>1, <2>2, <2>3
<1>3. \A p, q \in tree : <<p, q>> \in FilePairs
  BY <1>2 DEF FilePairs
<1>4. QED
  BY <1>1, <1>2, <1>3 DEF WellMade, Ordered

(* A kapp that is at work may append a file of its own.                    *)
LEMMA AppendMade ==
  ASSUME tree \in Trees, Scheduled, NEW n \in Node, phase[n] = "started",
         NEW list \in Paths, WellMade(list), NEW file \in ToSet(FilesOf[n])
  PROVE  WellMade(Append(list, file)) /\ Append(list, file) \in Paths
<1> DEFINE T == File \cup tree
<1>1. file \in File /\ file \in T /\ file \notin tree /\ list \in Seq(T)
  <2>1. FilesOf[n] \in Seq(File) /\ tree \cap File = {}
    BY FilesAssumption
  <2>2. ToSet(FilesOf[n]) \subseteq File
    BY <2>1, ToSetFacts
  <2>3. QED
    BY <2>1, <2>2 DEF Paths
<1>2. \A m \in Node : file \in OwnFiles[m] => m = n
  BY DEF OwnFiles
<1>3. ASSUME NEW f \in ToSet(list)
      PROVE  <<f, file>> \in FilePairs
  <2>1. f \in T
    BY <1>1, ToSetFacts
  <2>2. ASSUME NEW k \in Node, NEW m \in Node, f \in OwnFiles[k], file \in OwnFiles[m]
        PROVE  m \notin Earlier[k]
    <3>1. m = n /\ phase[k] # "waiting"
      BY <1>2, <2>2 DEF WellMade
    <3>2. QED
      BY <3>1, EarlierDone
  <2>3. QED
    BY <1>1, <2>1, <2>2 DEF FilePairs
<1> HIDE DEF T
<1>4. /\ Append(list, file) = list \o <<file>> /\ <<file>> \in Seq(T)
      /\ Append(list, file) \in Seq(T)
      /\ ToSet(Append(list, file)) = ToSet(list) \cup {file} /\ ToSet(<<file>>) = {file}
  <2>1. ToSet(<<file>>) = {file} /\ <<file>> \in Seq(T)
    BY <1>1 DEF ToSet
  <2>2. QED
    BY <1>1, <2>1, AppendProperties, AppendIsConcat, ToSetAppend
<1>5. Ordered(list \o <<file>>, FilePairs)
  <2>1. Ordered(list, FilePairs) /\ Ordered(<<file>>, FilePairs)
    BY OrderedFew DEF WellMade
  <2>2. \A a \in ToSet(list), b \in ToSet(<<file>>) : <<a, b>> \in FilePairs
    BY <1>3, <1>4
  <2>3. QED
    BY <1>1, <1>4, <2>1, <2>2, OrderedConcat
<1>6. \A f \in ToSet(Append(list, file)), m \in Node : f \in OwnFiles[m] => phase[m] # "waiting"
  <2>1. phase[n] # "waiting"
    OBVIOUS
  <2>2. QED
    BY <1>2, <1>4, <2>1 DEF WellMade
<1>7. QED
  BY <1>4, <1>5, <1>6 DEF WellMade, Paths, T

(* The kapps' invariant holds at first, ...                                *)
LEMMA KappInit == ProviderInit => KappInv
<1> SUFFICES ASSUME ProviderInit
             PROVE  KappInv
  OBVIOUS
<1>1. /\ tree \in Trees /\ outcome = "none" /\ merged = <<>> /\ missing \subseteq File
      /\ phase = [n \in Node |-> "waiting"] /\ stage = [n \in Node |-> "idle"]
      /\ added = [n \in Node |-> 0]
      /\ read = [n \in Node |-> <<>>] /\ seen = [n \in Node |-> <<>>]
      /\ varsPaths = <<>> /\ providerVars = <<>> /\ raced = FALSE /\ failed = FALSE
  BY DEF ProviderInit, Init, Walk!Init
<1>2. \A n \in Node : FilesOf[n] \in Seq(File) /\ Len(FilesOf[n]) \in Nat
  BY FilesAssumption, LenProperties
<1>3. <<>> \in Paths /\ <<>> \in Seq(tree)
  BY EmptySeq DEF Paths
<1>4. ProviderTypes
  <2>1. \A n \in Node : added[n] \in 0..Len(FilesOf[n])
    BY <1>1, <1>2
  <2>2. added \in [Node -> Nat] /\ phase \in [Node -> {"waiting", "started", "reported"}]
    BY <1>1
  <2>3. read \in [Node -> Paths] /\ seen \in [Node -> Paths]
    BY <1>1, <1>3
  <2>4. QED
    BY <1>1, <1>3, <2>1, <2>2, <2>3 DEF ProviderTypes, ProviderTypeOK
<1>5. WellMade(<<>>)
  BY <1>1, <1>3, StackListMade
<1>6. Scheduled /\ StackFirst /\ Made
  BY <1>1, <1>5 DEF Scheduled, StackFirst, Made
<1>7. \A n \in Node : ~Busy(n) /\ ~Done(n) /\ seen[n] = <<>> /\ stage[n] # "loading" /\ added[n] = 0
  BY <1>1 DEF Busy, Done
<1>8. Based /\ Alone /\ Counted /\ Loaded /\ SeesFiles
  BY <1>1, <1>7 DEF Based, Alone, Counted, Loaded, SeesFiles
<1>9. Added
  <2>1. \A n \in Node : 1..added[n] = {}
    BY <1>7
  <2>2. QED
    BY <2>1 DEF Added
<1>10. QED
  BY <1>4, <1>6, <1>8, <1>9 DEF KappInv


(* What is well made stays so.                                             *)
LEMMA MadeKept ==
  ASSUME tree' = tree, \A n \in Node : phase[n] # "waiting" => phase'[n] # "waiting",
         NEW list, WellMade(list)
  PROVE  /\ Ordered(list, FilePairs')
         /\ \A file \in ToSet(list), n \in Node : file \in OwnFiles[n] => phase'[n] # "waiting"
<1>1. FilePairs' = FilePairs
  BY DEF FilePairs
<1>2. QED
  BY <1>1 DEF WellMade

(* The lists that were read stay well made while the files do.             *)
LEMMA ListsKept ==
  ASSUME Made, tree' = tree, \A n \in Node : phase[n] # "waiting" => phase'[n] # "waiting",
         varsPaths' = varsPaths, providerVars' = providerVars,
         \A n \in Node : read'[n] \in {read[n], varsPaths}
  PROVE  Made'
<1>1. /\ WellMade(varsPaths) /\ WellMade(providerVars)
      /\ \A n \in Node : WellMade(read'[n])
  BY DEF Made
<1>2. \A list : WellMade(list) =>
        /\ Ordered(list, FilePairs')
        /\ \A file \in ToSet(list), n \in Node : file \in OwnFiles[n] => phase'[n] # "waiting"
  BY MadeKept
<1>3. /\ WellMade(varsPaths)' /\ WellMade(providerVars)'
  BY <1>1, <1>2 DEF WellMade
<1>4. \A n \in Node : WellMade(read[n])'
  BY <1>1, <1>2 DEF WellMade
<1>5. QED
  BY <1>3, <1>4 DEF Made

(* Receiving a kapp, ...                                                   *)
LEMMA KappReceive ==
  ASSUME KappInv, outcome = "vars", UNCHANGED vars, NEW n \in Node, Receive(n)
  PROVE  KappInv'
<1>1. /\ ProviderTypes /\ Scheduled /\ StackFirst /\ Made /\ Based
      /\ Alone /\ Counted /\ Added /\ Loaded /\ SeesFiles
  BY DEF KappInv
<1>2. /\ tree' = tree /\ merged' = merged /\ outcome' = outcome
      /\ phase[n] = "waiting" /\ \A d \in Walk!Dependencies(n) : phase[d] = "reported"
      /\ phase' = [phase EXCEPT ![n] = "started"] /\ stage' = [stage EXCEPT ![n] = "render"]
      /\ UNCHANGED <<missing, added, read, seen, sharedVars, raced, failed>>
  BY DEF Receive, Walk!Start, vars
<1>3. /\ phase'[n] = "started" /\ stage'[n] = "render"
      /\ \A m \in Node : m # n => phase'[m] = phase[m] /\ stage'[m] = stage[m]
  BY <1>1, <1>2 DEF ProviderTypes, ProviderTypeOK
<1>4. ProviderTypes'
  BY <1>1, <1>2 DEF ProviderTypes, ProviderTypeOK, Paths, sharedVars
<1>5. Scheduled'
  <2>1. \A m \in Node : Walk!Dependencies(m)' = Walk!Dependencies(m) /\ Walk!Dependencies(m) \subseteq Node
    BY DEF Walk!Dependencies
  <2>2. \A m \in Node : phase[m] = "reported" => phase'[m] = "reported"
    BY <1>2, <1>3
  <2>3. QED
    BY <1>1, <1>2, <1>3, <2>1, <2>2 DEF Scheduled
<1>6. StackFirst' /\ Made'
  <2>1. Made'
    BY <1>1, <1>2, <1>3, ListsKept DEF sharedVars
  <2>2. QED
    BY <1>2, <2>1 DEF StackFirst
<1>7. \A m \in Node : /\ (Busy(m)' => Busy(m)) /\ (Done(m)' => Done(m))
                      /\ stage'[m] \in {"appending", "loading"} => stage[m] = stage'[m]
  BY <1>3 DEF Busy, Done
<1>8. Based' /\ Alone' /\ Counted' /\ Added' /\ Loaded'
  BY <1>1, <1>2, <1>7 DEF Based, Alone, Counted, Added, Loaded, sharedVars
<1>9. SeesFiles'
  <2>1. \A m \in Node : stage'[m] = "reporting" => stage[m] = "reporting"
    BY <1>3
  <2>2. QED
    BY <1>1, <1>2, <2>1 DEF SeesFiles, sharedVars
<1>10. QED
  BY <1>4, <1>5, <1>6, <1>8, <1>9 DEF KappInv

(* ... rendering it or applying it, ...                                    *)
LEMMA KappUse ==
  ASSUME KappInv, outcome = "vars", UNCHANGED vars, NEW n \in Node, Render(n) \/ Apply(n)
  PROVE  KappInv'
<1>1. /\ ProviderTypes /\ Scheduled /\ StackFirst /\ Made /\ Based
      /\ Alone /\ Counted /\ Added /\ Loaded /\ SeesFiles
  BY DEF KappInv
<1>2. /\ tree' = tree /\ merged' = merged /\ outcome' = outcome
      /\ seen' = [seen EXCEPT ![n] = providerVars]
      /\ UNCHANGED <<missing, scheduleVars, added, read, sharedVars, raced, failed>>
  BY DEF Render, Apply, vars
<1>3. /\ stage[n] \in {"render", "apply"} /\ stage'[n] \in {"adding", "apply", "reporting"}
      /\ stage'[n] = "apply" => stage[n] = "render" /\ (n \in PreAction => FilesOf[n] = <<>>)
      /\ stage'[n] = "reporting" => stage[n] = "apply" /\ (n \notin PreAction => FilesOf[n] = <<>>)
      /\ stage' \in [Node -> {"idle", "render", "apply", "adding", "appending", "loading", "reporting"}]
      /\ \A m \in Node : m # n => stage'[m] = stage[m] /\ seen'[m] = seen[m]
      /\ seen'[n] = providerVars
  BY <1>1 DEF ProviderTypes, ProviderTypeOK, Render, Apply, Adds
<1>4. ProviderTypes'
  BY <1>1, <1>2, <1>3 DEF ProviderTypes, ProviderTypeOK, Paths, sharedVars, scheduleVars
<1>5. Scheduled'
  <2>1. \A m \in Node : Walk!Dependencies(m)' = Walk!Dependencies(m)
    BY DEF Walk!Dependencies
  <2>2. QED
    BY <1>1, <1>2, <1>3, <2>1 DEF Scheduled, scheduleVars
<1>6. StackFirst' /\ Made'
  <2>1. Made'
    BY <1>1, <1>2, <1>3, ListsKept DEF sharedVars, scheduleVars
  <2>2. QED
    BY <1>2, <2>1 DEF StackFirst
<1>7. \A m \in Node : /\ Busy(m)' => Busy(m)
                      /\ Done(m)' => Done(m) \/ (m = n /\ FilesOf[m] = <<>>)
                      /\ stage'[m] \in {"appending", "loading"} => stage[m] = stage'[m]
  BY <1>2, <1>3 DEF Busy, Done, scheduleVars
<1>8. ASSUME NEW m \in Node, FilesOf[m] = <<>>
      PROVE  added[m] = Len(FilesOf[m]) /\ ToSet(FilesOf[m]) = {}
  <2>1. added[m] \in 0..Len(FilesOf[m]) /\ Len(FilesOf[m]) = 0
    BY <1>1, <1>8 DEF ProviderTypes, ProviderTypeOK
  <2>2. QED
    BY <1>8, <2>1, ToSetEmpty
<1>9. Alone' /\ Counted' /\ Added' /\ Loaded'
  BY <1>1, <1>2, <1>7, <1>8 DEF Alone, Counted, Added, Loaded, sharedVars
<1>10. Based'
  BY <1>1, <1>2, <1>3, <1>7 DEF Based, sharedVars
<1>11. SeesFiles'
  <2>1. phase[n] # "waiting"
    BY <1>1, <1>3 DEF Scheduled
  <2>2. ASSUME ~raced, ~failed, NEW a \in Earlier[n]
        PROVE  ToSet(FilesOf[a]) \subseteq ToSet(providerVars)
    <3>1. a \in Node /\ Done(a)
      BY <1>1, <2>1, EarlierDone DEF Done
    <3>2. QED
      BY <1>1, <2>2, <3>1 DEF Loaded
  <2>3. ASSUME ~raced, ~failed, n \in PreAction, stage'[n] = "reporting"
        PROVE  ToSet(FilesOf[n]) \subseteq ToSet(providerVars)
    <3>1. Done(n)
      BY <1>3, <2>3 DEF Done
    <3>2. QED
      BY <1>1, <2>3, <3>1 DEF Loaded
  <2>4. ToSet(merged) \subseteq ToSet(providerVars)
    BY <1>1 DEF Based
  <2>5. QED
    BY <1>1, <1>2, <1>3, <2>2, <2>3, <2>4 DEF SeesFiles
<1>12. QED
  BY <1>4, <1>5, <1>6, <1>9, <1>10, <1>11 DEF KappInv

(* ... reading the list to append to it or to load it, ...                 *)
LEMMA KappRead ==
  ASSUME KappInv, outcome = "vars", UNCHANGED vars, NEW n \in Node, StartAppend(n) \/ StartRefresh(n)
  PROVE  KappInv'
<1>1. /\ ProviderTypes /\ Scheduled /\ StackFirst /\ Made /\ Based
      /\ Alone /\ Counted /\ Added /\ Loaded /\ SeesFiles
  BY DEF KappInv
<1>2. /\ tree' = tree /\ merged' = merged /\ outcome' = outcome
      /\ stage[n] = "adding" /\ read' = [read EXCEPT ![n] = varsPaths]
      /\ raced' = (raced \/ \E m \in Node : Busy(m))
      /\ UNCHANGED <<missing, scheduleVars, added, seen, sharedVars, failed>>
  BY DEF StartAppend, StartRefresh, ReadPaths, vars, Busy
<1>3. /\ stage'[n] \in {"appending", "loading"} /\ (stage'[n] = "loading" => added[n] = Len(FilesOf[n]))
      /\ stage'[n] = "appending" => added[n] < Len(FilesOf[n])
      /\ stage' \in [Node -> {"idle", "render", "apply", "adding", "appending", "loading", "reporting"}]
      /\ \A m \in Node : m # n => stage'[m] = stage[m] /\ read'[m] = read[m]
      /\ read'[n] = varsPaths
  BY <1>1 DEF ProviderTypes, ProviderTypeOK, StartAppend, StartRefresh, ReadPaths
<1>4. ProviderTypes'
  <2>1. read' \in [Node -> Paths] /\ raced' \in BOOLEAN
    BY <1>1, <1>2 DEF ProviderTypes, ProviderTypeOK
  <2>2. QED
    BY <1>1, <1>2, <1>3, <2>1 DEF ProviderTypes, ProviderTypeOK, Paths, sharedVars, scheduleVars
<1>5. Scheduled'
  <2>1. \A m \in Node : Walk!Dependencies(m)' = Walk!Dependencies(m)
    BY DEF Walk!Dependencies
  <2>2. QED
    BY <1>1, <1>2, <1>3, <2>1 DEF Scheduled, scheduleVars
<1>6. StackFirst' /\ Made'
  <2>1. Made'
    BY <1>1, <1>2, <1>3, ListsKept DEF sharedVars, scheduleVars
  <2>2. QED
    BY <1>2, <2>1 DEF StackFirst
<1>7. \A m \in Node : /\ Busy(m)' => Busy(m) \/ m = n
                      /\ Done(m)' => Done(m)
  BY <1>2, <1>3 DEF Busy, Done, scheduleVars
<1>8. Based'
  BY <1>1, <1>2, <1>3, <1>7 DEF Based, sharedVars
<1>9. Alone'
  <2>1. ~raced' => ~raced /\ \A m \in Node : ~Busy(m)
    BY <1>2
  <2>2. QED
    BY <1>2, <1>3, <1>7, <2>1 DEF Alone, sharedVars
<1>10. Counted' /\ Added' /\ Loaded'
  <2>1. ~raced' => ~raced
    BY <1>2
  <2>2. \A m \in Node : stage'[m] \in {"appending", "loading"} => stage[m] = stage'[m] \/ m = n
    BY <1>3
  <2>3. Counted'
    BY <1>1, <1>2, <1>3, <1>7, <2>2 DEF Counted
  <2>4. QED
    BY <1>1, <1>2, <1>7, <2>1, <2>3 DEF Added, Loaded, sharedVars
<1>11. SeesFiles'
  <2>1. ~raced' => ~raced
    BY <1>2
  <2>2. \A m \in Node : stage'[m] = "reporting" => stage[m] = "reporting"
    BY <1>3
  <2>3. QED
    BY <1>1, <1>2, <2>1, <2>2 DEF SeesFiles
<1>12. QED
  BY <1>4, <1>5, <1>6, <1>8, <1>9, <1>10, <1>11 DEF KappInv

(* ... writing it with another file, ...                                   *)
LEMMA KappAppend ==
  ASSUME FilesInv, KappInv, outcome = "vars", UNCHANGED vars, NEW n \in Node, EndAppend(n)
  PROVE  KappInv'
<1>1. /\ ProviderTypes /\ Scheduled /\ StackFirst /\ Made /\ Based
      /\ Alone /\ Counted /\ Added /\ Loaded /\ SeesFiles /\ tree \in Trees
  BY DEF KappInv, FilesInv, FilesTypes
<1> DEFINE file == FilesOf[n][added[n] + 1]
           list == Append(read[n], file)
<1>2. /\ tree' = tree /\ merged' = merged /\ outcome' = outcome
      /\ stage[n] = "appending" /\ varsPaths' = list
      /\ added' = [added EXCEPT ![n] = @ + 1] /\ stage' = [stage EXCEPT ![n] = "adding"]
      /\ UNCHANGED <<missing, scheduleVars, read, seen, providerVars, raced, failed>>
  BY DEF EndAppend, vars
<1>3. /\ stage'[n] = "adding" /\ added'[n] = added[n] + 1
      /\ stage' \in [Node -> {"idle", "render", "apply", "adding", "appending", "loading", "reporting"}]
      /\ \A m \in Node : m # n => stage'[m] = stage[m] /\ added'[m] = added[m]
  BY <1>1, <1>2 DEF ProviderTypes, ProviderTypeOK
<1>4. FilesOf[n] \in Seq(File) /\ Len(FilesOf[n]) \in Nat /\ added[n] \in 0..Len(FilesOf[n])
      /\ ToSet(FilesOf[n]) = {FilesOf[n][i] : i \in 1..Len(FilesOf[n])}
  BY <1>1, FilesAssumption, LenProperties, ToSetFacts DEF ProviderTypes, ProviderTypeOK
<1>5. added[n] + 1 \in 1..Len(FilesOf[n]) /\ file \in ToSet(FilesOf[n]) /\ phase[n] = "started"
  <2>1. added[n] < Len(FilesOf[n])
    BY <1>1, <1>2 DEF Counted
  <2>2. added[n] + 1 \in 1..Len(FilesOf[n])
    BY <1>4, <2>1
  <2>3. phase[n] = "started"
    BY <1>1, <1>2 DEF Scheduled
  <2>4. QED
    BY <1>4, <2>2, <2>3
<1> HIDE DEF file
<1>6. WellMade(list) /\ list \in Paths /\ ToSet(list) = ToSet(read[n]) \cup {file}
  <2>1. read[n] \in Paths /\ WellMade(read[n])
    BY <1>1 DEF ProviderTypes, ProviderTypeOK, Made
  <2>2. WellMade(list) /\ list \in Paths
    BY <1>1, <1>5, <2>1, AppendMade
  <2>3. file \in File
    BY <1>4, <1>5, ToSetFacts
  <2>4. ToSet(list) = ToSet(read[n]) \cup {file}
    <3> DEFINE T == File \cup tree
    <3>1. read[n] \in Seq(T) /\ file \in T
      BY <2>1, <2>3 DEF Paths
    <3> HIDE DEF T
    <3>2. QED
      BY <3>1, ToSetAppend
  <2>5. QED
    BY <2>2, <2>4
<1> HIDE DEF list
<1>7. ProviderTypes'
  <2>1. \A m \in Node : added'[m] \in 0..Len(FilesOf[m])
    <3>1. added'[n] \in 0..Len(FilesOf[n])
      BY <1>3, <1>4, <1>5
    <3>2. QED
      BY <1>1, <1>3, <3>1 DEF ProviderTypes, ProviderTypeOK
  <2>2. added' \in [Node -> Nat]
    BY <1>1, <1>2, <1>4 DEF ProviderTypes
  <2>3. QED
    BY <1>1, <1>2, <1>3, <1>6, <2>1, <2>2 DEF ProviderTypes, ProviderTypeOK, Paths, scheduleVars
<1>8. Scheduled' /\ StackFirst'
  <2>1. \A m \in Node : Walk!Dependencies(m)' = Walk!Dependencies(m)
    BY DEF Walk!Dependencies
  <2>2. Scheduled'
    BY <1>1, <1>2, <1>3, <2>1 DEF Scheduled, scheduleVars
  <2>3. QED
    BY <1>2, <2>2 DEF StackFirst
<1>9. Made'
  <2>1. \A l : WellMade(l) =>
          /\ Ordered(l, FilePairs')
          /\ \A f \in ToSet(l), m \in Node : f \in OwnFiles[m] => phase'[m] # "waiting"
    <3>1. \A m \in Node : phase[m] # "waiting" => phase'[m] # "waiting"
      BY <1>2 DEF scheduleVars
    <3>2. QED
      BY <1>2, <3>1, MadeKept
  <2>2. WellMade(varsPaths') /\ WellMade(providerVars') /\ \A m \in Node : WellMade(read'[m])
    BY <1>1, <1>2, <1>6 DEF Made
  <2>3. WellMade(varsPaths)' /\ WellMade(providerVars)'
    BY <2>1, <2>2 DEF WellMade
  <2>4. \A m \in Node : WellMade(read[m])'
    BY <2>1, <2>2 DEF WellMade
  <2>5. QED
    BY <2>3, <2>4 DEF Made
<1>10. \A m \in Node : /\ Busy(m)' => Busy(m) /\ m # n
                       /\ Done(m)' => Done(m) /\ m # n
                       /\ stage'[m] \in {"appending", "loading"} => stage[m] = stage'[m] /\ m # n
  BY <1>1, <1>2, <1>3, <1>5 DEF Busy, Done, scheduleVars
<1>11. Busy(n)
  BY <1>2 DEF Busy
<1>12. Based'
  BY <1>1, <1>2, <1>6, <1>10, <1>11 DEF Based
<1>13. Alone' /\ Counted' /\ Loaded'
  BY <1>1, <1>2, <1>3, <1>10, <1>11 DEF Alone, Counted, Loaded
<1>14. Added'
  <2> SUFFICES ASSUME ~raced', NEW m \in Node, NEW i \in 1..added'[m]
               PROVE  FilesOf[m][i] \in ToSet(list)
    BY <1>2 DEF Added
  <2>1. read[n] = varsPaths
    BY <1>1, <1>2, <1>11 DEF Alone
  <2>2. CASE i \in 1..added[m]
    BY <1>1, <1>2, <1>6, <2>1, <2>2 DEF Added
  <2>3. CASE i \notin 1..added[m]
    <3>1. m = n /\ i = added[n] + 1
      <4>1. m = n
        BY <1>3, <2>3
      <4>2. QED
        BY <1>3, <1>4, <2>3, <4>1
    <3>2. QED
      BY <1>6, <3>1 DEF file
  <2>4. QED
    BY <2>2, <2>3
<1>15. SeesFiles'
  <2>1. \A m \in Node : stage'[m] = "reporting" => stage[m] = "reporting"
    BY <1>3
  <2>2. QED
    BY <1>1, <1>2, <2>1 DEF SeesFiles
<1>16. QED
  BY <1>7, <1>8, <1>9, <1>12, <1>13, <1>14, <1>15 DEF KappInv

(* ... replacing the stack's variables, ...                                *)
LEMMA KappLoad ==
  ASSUME KappInv, outcome = "vars", UNCHANGED vars, NEW n \in Node, EndRefresh(n)
  PROVE  KappInv'
<1>1. /\ ProviderTypes /\ Scheduled /\ StackFirst /\ Made /\ Based
      /\ Alone /\ Counted /\ Added /\ Loaded /\ SeesFiles
  BY DEF KappInv
<1>2. /\ tree' = tree /\ merged' = merged /\ outcome' = outcome
      /\ stage[n] = "loading"
      /\ \/ providerVars' = read[n] /\ failed' = failed
         \/ failed' = TRUE /\ providerVars' = providerVars
      /\ UNCHANGED <<missing, scheduleVars, added, read, seen, varsPaths, raced>>
  BY DEF EndRefresh, vars
<1>3. /\ stage'[n] \in {"apply", "reporting"} /\ (n \in PreAction <=> stage'[n] = "apply")
      /\ stage' \in [Node -> {"idle", "render", "apply", "adding", "appending", "loading", "reporting"}]
      /\ \A m \in Node : m # n => stage'[m] = stage[m]
  BY <1>1 DEF ProviderTypes, ProviderTypeOK, EndRefresh
<1>4. ProviderTypes'
  <2>1. providerVars' \in Paths /\ failed' \in BOOLEAN
    BY <1>1, <1>2 DEF ProviderTypes, ProviderTypeOK
  <2>2. QED
    BY <1>1, <1>2, <1>3, <2>1 DEF ProviderTypes, ProviderTypeOK, Paths, scheduleVars
<1>5. Scheduled' /\ StackFirst'
  <2>1. \A m \in Node : Walk!Dependencies(m)' = Walk!Dependencies(m)
    BY DEF Walk!Dependencies
  <2>2. Scheduled'
    BY <1>1, <1>2, <1>3, <2>1 DEF Scheduled, scheduleVars
  <2>3. QED
    BY <1>2, <2>2 DEF StackFirst
<1>6. Made'
  <2>1. \A l : WellMade(l) =>
          /\ Ordered(l, FilePairs')
          /\ \A f \in ToSet(l), m \in Node : f \in OwnFiles[m] => phase'[m] # "waiting"
    <3>1. \A m \in Node : phase[m] # "waiting" => phase'[m] # "waiting"
      BY <1>2 DEF scheduleVars
    <3>2. QED
      BY <1>2, <3>1, MadeKept
  <2>2. WellMade(varsPaths') /\ WellMade(providerVars') /\ \A m \in Node : WellMade(read'[m])
    BY <1>1, <1>2 DEF Made
  <2>3. WellMade(varsPaths)' /\ WellMade(providerVars)'
    BY <2>1, <2>2 DEF WellMade
  <2>4. \A m \in Node : WellMade(read[m])'
    BY <2>1, <2>2 DEF WellMade
  <2>5. QED
    BY <2>3, <2>4 DEF Made
<1>7. \A m \in Node : /\ Busy(m)' => Busy(m) /\ m # n
                      /\ Done(m)' => Done(m) \/ m = n
                      /\ stage'[m] \in {"appending", "loading"} => stage[m] = stage'[m] /\ m # n
  BY <1>2, <1>3 DEF Busy, Done, scheduleVars
<1>8. Busy(n) /\ added[n] = Len(FilesOf[n])
  BY <1>1, <1>2 DEF Busy, Counted
<1>9. Based' /\ Alone' /\ Counted' /\ Added'
  BY <1>1, <1>2, <1>3, <1>7, <1>8 DEF Based, Alone, Counted, Added
<1>10. Loaded'
  <2> SUFFICES ASSUME ~raced', ~failed', NEW m \in Node, Done(m)'
               PROVE  ToSet(FilesOf[m]) \subseteq ToSet(read[n])
    BY <1>2 DEF Loaded
  <2>1. read[n] = varsPaths
    BY <1>1, <1>2, <1>8 DEF Alone
  <2>2. added[m] = Len(FilesOf[m])
    BY <1>1, <1>7, <1>8 DEF Counted
  <2>3. ToSet(FilesOf[m]) = {FilesOf[m][i] : i \in 1..Len(FilesOf[m])}
    BY FilesAssumption, ToSetFacts
  <2>4. \A i \in 1..added[m] : FilesOf[m][i] \in ToSet(varsPaths)
    BY <1>1, <1>2 DEF Added
  <2>5. QED
    BY <2>1, <2>2, <2>3, <2>4
<1>11. SeesFiles'
  <2>1. \A m \in Node : stage'[m] = "reporting" /\ m \in PreAction => stage[m] = "reporting"
    BY <1>3
  <2>2. ~failed' => ~failed
    BY <1>2
  <2>3. QED
    BY <1>1, <1>2, <2>1, <2>2 DEF SeesFiles
<1>12. QED
  BY <1>4, <1>5, <1>6, <1>9, <1>10, <1>11 DEF KappInv

(* ... reporting it; and the end of the walk.                              *)
LEMMA KappReport ==
  ASSUME KappInv, outcome = "vars", UNCHANGED vars, NEW n \in Node, Report(n)
  PROVE  KappInv'
<1>1. /\ ProviderTypes /\ Scheduled /\ StackFirst /\ Made /\ Based
      /\ Alone /\ Counted /\ Added /\ Loaded /\ SeesFiles
  BY DEF KappInv
<1>2. /\ tree' = tree /\ merged' = merged /\ outcome' = outcome
      /\ phase[n] = "started" /\ stage[n] = "reporting"
      /\ phase' = [phase EXCEPT ![n] = "reported"] /\ stage' = [stage EXCEPT ![n] = "idle"]
      /\ UNCHANGED <<missing, added, read, seen, sharedVars, raced, failed>>
  BY DEF Report, Walk!Report, vars
<1>3. /\ phase'[n] = "reported" /\ stage'[n] = "idle"
      /\ \A m \in Node : m # n => phase'[m] = phase[m] /\ stage'[m] = stage[m]
  BY <1>1, <1>2 DEF ProviderTypes, ProviderTypeOK
<1>4. ProviderTypes'
  BY <1>1, <1>2 DEF ProviderTypes, ProviderTypeOK, Paths, sharedVars
<1>5. Scheduled'
  <2>1. \A m \in Node : Walk!Dependencies(m)' = Walk!Dependencies(m) /\ Walk!Dependencies(m) \subseteq Node
    BY DEF Walk!Dependencies
  <2>2. \A m \in Node : phase[m] = "reported" => phase'[m] = "reported"
    BY <1>2, <1>3
  <2>3. QED
    BY <1>1, <1>2, <1>3, <2>1, <2>2 DEF Scheduled
<1>6. StackFirst' /\ Made'
  <2>1. Made'
    BY <1>1, <1>2, <1>3, ListsKept DEF sharedVars
  <2>2. QED
    BY <1>2, <2>1 DEF StackFirst
<1>7. \A m \in Node : /\ (Busy(m)' => Busy(m)) /\ (Done(m)' => Done(m))
                      /\ stage'[m] \in {"appending", "loading"} => stage[m] = stage'[m]
  BY <1>2, <1>3 DEF Busy, Done
<1>8. Based' /\ Alone' /\ Counted' /\ Added' /\ Loaded'
  BY <1>1, <1>2, <1>7 DEF Based, Alone, Counted, Added, Loaded, sharedVars
<1>9. SeesFiles'
  <2>1. \A m \in Node : stage'[m] = "reporting" => stage[m] = "reporting"
    BY <1>3
  <2>2. QED
    BY <1>1, <1>2, <2>1 DEF SeesFiles, sharedVars
<1>10. QED
  BY <1>4, <1>5, <1>6, <1>8, <1>9 DEF KappInv

(* While the stack is searched and loaded, no kapp is at work.             *)
LEMMA KappStack ==
  ASSUME FilesInv, KappInv, Search \/ LoadStack
  PROVE  KappInv'
<1>1. /\ ProviderTypes /\ Scheduled /\ StackFirst /\ Made /\ Based
      /\ Alone /\ Counted /\ Added /\ Loaded /\ SeesFiles
      /\ tree \in Trees /\ paths \in Seq(tree)
  BY DEF KappInv, FilesInv, FilesTypes
<1>2. /\ tree' = tree /\ outcome = "none"
      /\ UNCHANGED kappVars
      /\ \/ merged' = merged /\ varsPaths' = varsPaths /\ providerVars' = providerVars
            /\ outcome' \in {"none", "error"}
         \/ /\ varsPaths' = paths /\ providerVars' = merged'
            /\ \/ merged' = merged /\ outcome' = "error"
               \/ merged' = paths /\ outcome' \in {"empty", "vars"} /\ (outcome' = "empty" => paths = <<>>)
  BY DEF Search, LoadStack, StartWalk, WalkToFile, WalkToDir, MergePaths, sharedVars
<1>3. /\ merged = <<>> /\ varsPaths = <<>> /\ providerVars = <<>>
      /\ \A n \in Node : phase[n] = "waiting" /\ read[n] = <<>> /\ seen[n] = <<>>
      /\ \A n \in Node : ~Busy(n) /\ ~Done(n) /\ stage[n] = "idle"
  <2>1. merged = <<>>
    BY <1>2 DEF FilesInv, Ended
  <2>2. QED
    BY <1>1, <1>2, <2>1 DEF StackFirst, Scheduled, Busy, Done
<1>4. ToSet(<<>>) = {} /\ <<>> \in Seq(tree)
  BY ToSetEmpty, EmptySeq
<1>5. varsPaths' \in Seq(tree) /\ providerVars' \in Seq(tree)
  BY <1>1, <1>2, <1>3, <1>4
<1>6. ProviderTypes'
  <2>1. varsPaths' \in Paths /\ providerVars' \in Paths
    <3>1. tree \subseteq File \cup tree
      OBVIOUS
    <3>2. QED
      BY <1>5, <3>1, SeqMonotonic DEF Paths
  <2>2. QED
    BY <1>1, <1>2, <2>1 DEF ProviderTypes, ProviderTypeOK, Paths, kappVars, scheduleVars
<1>7. Scheduled'
  <2>1. \A m \in Node : Walk!Dependencies(m)' = Walk!Dependencies(m)
    BY DEF Walk!Dependencies
  <2>2. QED
    BY <1>1, <1>2, <2>1 DEF Scheduled, kappVars, scheduleVars
<1>8. StackFirst'
  BY <1>2, <1>3 DEF StackFirst, kappVars, scheduleVars
<1>9. Made'
  <2>1. \A l : WellMade(l) =>
          /\ Ordered(l, FilePairs')
          /\ \A f \in ToSet(l), m \in Node : f \in OwnFiles[m] => phase'[m] # "waiting"
    <3>1. \A m \in Node : phase[m] # "waiting" => phase'[m] # "waiting"
      BY <1>2 DEF kappVars, scheduleVars
    <3>2. QED
      BY <1>2, <3>1, MadeKept
  <2>2. WellMade(varsPaths') /\ WellMade(providerVars')
    BY <1>1, <1>5, StackListMade
  <2>3. \A m \in Node : WellMade(read'[m])
    BY <1>1, <1>2 DEF Made, kappVars
  <2>4. WellMade(varsPaths)' /\ WellMade(providerVars)'
    BY <2>1, <2>2 DEF WellMade
  <2>5. \A m \in Node : WellMade(read[m])'
    BY <2>1, <2>3 DEF WellMade
  <2>6. QED
    BY <2>4, <2>5 DEF Made
<1>10. \A n \in Node : ~Busy(n)' /\ ~Done(n)' /\ stage'[n] = "idle" /\ seen'[n] = <<>>
  BY <1>2, <1>3 DEF Busy, Done, kappVars, scheduleVars
<1>11. Based'
  BY <1>2, <1>10 DEF Based
<1>12. Alone' /\ Counted' /\ Loaded' /\ SeesFiles'
  BY <1>10 DEF Alone, Counted, Loaded, SeesFiles
<1>13. Added'
  BY <1>1, <1>2, <1>3, <1>4 DEF Added, kappVars
<1>14. QED
  BY <1>6, <1>7, <1>8, <1>9, <1>11, <1>12, <1>13 DEF KappInv

(* ... and each step of a kapp, or of the stack, keeps it.                 *)
LEMMA KappStep == FilesInv /\ KappInv /\ [ProviderNext]_providerAllVars => KappInv'
<1> SUFFICES ASSUME FilesInv, KappInv, [ProviderNext]_providerAllVars
             PROVE  KappInv'
  OBVIOUS
<1>1. ASSUME outcome = "vars", UNCHANGED vars, NEW n \in Node, Worker(n)
      PROVE  KappInv'
  BY <1>1, KappReceive, KappUse, KappRead, KappAppend, KappLoad, KappReport DEF Worker
<1>2. ASSUME UNCHANGED <<vars, missing, phase, stage, added, read, seen, sharedVars, raced, failed>>
      PROVE  KappInv'
  <2>1. /\ ProviderTypes /\ Scheduled /\ StackFirst /\ Made /\ Based
        /\ Alone /\ Counted /\ Added /\ Loaded /\ SeesFiles
    BY DEF KappInv
  <2>2. /\ tree' = tree /\ merged' = merged /\ outcome' = outcome /\ missing' = missing
        /\ phase' = phase /\ stage' = stage /\ added' = added /\ read' = read /\ seen' = seen
        /\ varsPaths' = varsPaths /\ providerVars' = providerVars /\ raced' = raced /\ failed' = failed
    BY <1>2 DEF vars, sharedVars
  <2>3. ProviderTypes'
    BY <2>1, <2>2 DEF ProviderTypes, ProviderTypeOK, Paths
  <2>4. Scheduled'
    <3>1. \A m \in Node : Walk!Dependencies(m)' = Walk!Dependencies(m)
      BY DEF Walk!Dependencies
    <3>2. QED
      BY <2>1, <2>2, <3>1 DEF Scheduled
  <2>5. StackFirst' /\ Made'
    <3>1. Made'
      BY <2>1, <2>2, ListsKept
    <3>2. QED
      BY <2>1, <2>2, <3>1 DEF StackFirst
  <2>6. \A n \in Node : (Busy(n)' <=> Busy(n)) /\ (Done(n)' <=> Done(n))
    BY <2>2 DEF Busy, Done
  <2>7. Based' /\ Alone' /\ Counted' /\ Added' /\ Loaded'
    BY <2>1, <2>2, <2>6 DEF Based, Alone, Counted, Added, Loaded
  <2>8. SeesFiles'
    BY <2>1, <2>2 DEF SeesFiles
  <2>9. QED
    BY <2>3, <2>4, <2>5, <2>7, <2>8 DEF KappInv
<1>3. CASE Search \/ LoadStack
  BY <1>3, KappStack
<1>4. CASE outcome = "vars" /\ UNCHANGED vars /\ EndOfWalk
  BY <1>2, <1>4 DEF EndOfWalk, Walk!Announce
<1>5. CASE UNCHANGED providerAllVars
  BY <1>2, <1>5 DEF providerAllVars, kappVars, scheduleVars
<1>6. QED
  BY <1>1, <1>3, <1>4, <1>5 DEF ProviderNext

(* From both invariants: the lists are in order, the kapps' files in them. *)
LEMMA KappOrder == FilesInv /\ KappInv => ProviderInv
<1> SUFFICES ASSUME FilesInv, KappInv
             PROVE  ProviderInv
  OBVIOUS
<1>1. TypeOK /\ ProviderTypeOK
  BY FilesTypeOK DEF KappInv, ProviderTypes
<1>2. Ordered(providerVars, FilePairs)
  BY DEF KappInv, Made, WellMade
<1>3. DOMAIN providerVars = 1..Len(providerVars)
  BY <1>1, LenProperties DEF ProviderTypeOK, Paths
<1>4. OrderKept
  BY <1>2, <1>3 DEF OrderKept, Ordered, FilePairs
<1>5. QED
  BY <1>1, <1>4 DEF ProviderInv

(* Both invariants hold while a stack's kapps run.                         *)
THEOREM ProviderInvariant == ProviderSpec => [](FilesInv /\ KappInv)
<1>1. FilesInv /\ [ProviderNext]_providerAllVars => FilesInv'
  <2>1. [ProviderNext]_providerAllVars => [Next]_vars
    BY ProviderStep
  <2>2. QED
    BY <2>1, FilesStep
<1>2. ProviderInit => FilesInv /\ KappInv
  BY FilesInit, KappInit DEF ProviderInit
<1>3. QED
  BY <1>1, <1>2, KappStep, PTL DEF ProviderSpec

(* A kapp's templates are rendered with the variables of the stack and of  *)
(* all kapps it depends on: their files were loaded before.                *)
THEOREM FilesAreSeen == ProviderSpec => []SeesFiles
<1>1. KappInv => SeesFiles
  BY DEF KappInv
<1>2. QED
  BY <1>1, ProviderInvariant, PTL

(* The list the kapps share keeps each kapp's own files in order, though   *)
(* the kapps append to it at the same time.                                *)
THEOREM SharedListCorrect == ProviderSpec => []ProviderInv
  BY KappOrder, ProviderInvariant, PTL
===============================================================================
