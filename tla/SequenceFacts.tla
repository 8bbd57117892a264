----------------------------- MODULE SequenceFacts -----------------------------
(***************************************************************************)
(* Facts about sequences that the proofs of several models rest on.  The   *)
(* library states induction for an operator P(_), which no prover here can *)
(* instantiate; a set that contains 0 and is closed under successor serves *)
(* as well, and so does one of sequences.                                  *)
(***************************************************************************)
EXTENDS Naturals, FiniteSetTheorems, Filtering, WellFoundedInduction, SequenceTheorems, TLAPS

(* Induction: a set with 0 and the successors of its members has all       *)
(* numbers.                                                                *)
LEMMA NaturalInduction ==
  ASSUME NEW S, 0 \in S, \A n \in Nat : n \in S => n + 1 \in S
  PROVE  Nat \subseteq S
<1> SUFFICES ASSUME ~(Nat \subseteq S)
             PROVE  FALSE
  OBVIOUS
<1> DEFINE T == {n \in Nat : n \notin S}
<1>1. PICK x \in T : \A y \in T : <<y, x>> \notin OpToRel(<, Nat)
  <2>1. T \subseteq Nat /\ T # {}
    OBVIOUS
  <2>2. QED
    BY <2>1, WFMin, NatLessThanWellFounded
<1>2. x - 1 \in Nat /\ <<x - 1, x>> \in OpToRel(<, Nat)
  <2>1. x \in Nat \ {0}
    OBVIOUS
  <2>2. QED
    BY <2>1 DEF OpToRel
<1>3. x - 1 \notin T
  BY <1>1, <1>2, Zenon
<1>4. x \in Nat /\ x \notin S /\ x - 1 \in Nat /\ (x - 1) + 1 = x
  <2>1. x \in Nat /\ x \notin S
    OBVIOUS
  <2>2. x - 1 \in Nat
    BY <1>2, Zenon
  <2>3. QED
    BY <2>1, <2>2
<1>5. x - 1 \in S
  BY <1>3, <1>4
<1>6. QED
  BY <1>4, <1>5

(* The same for an interval, where the step comes from the number before.  *)
LEMMA IntervalInduction ==
  ASSUME NEW m \in Nat, NEW n \in Nat, NEW S, m <= n => m \in S,
         \A i \in m..n : i # m /\ i - 1 \in S => i \in S
  PROVE  m..n \subseteq S
<1> DEFINE T == {k \in Nat : m + k <= n => m + k \in S}
<1>1. 0 \in T
  OBVIOUS
<1>2. ASSUME NEW k \in Nat, k \in T
      PROVE  k + 1 \in T
  <2> DEFINE i == m + (k + 1)
  <2> SUFFICES ASSUME i <= n
               PROVE  i \in S
    OBVIOUS
  <2>1. i \in m..n /\ i # m /\ i - 1 = m + k /\ m + k <= n
    OBVIOUS
  <2>2. m + k \in S
    BY <1>2, <2>1
  <2> HIDE DEF i
  <2>3. QED
    BY <2>1, <2>2
<1> HIDE DEF T
<1>3. Nat \subseteq T
  BY <1>1, <1>2, NaturalInduction
<1>4. ASSUME NEW i \in m..n
      PROVE  i \in S
  <2>1. i - m \in T /\ m + (i - m) = i
    BY <1>3
  <2>2. QED
    BY <2>1 DEF T
<1>5. QED
  BY <1>4

(* Every set of numbers that is not empty has a least one.                 *)
LEMMA LeastNumber ==
  ASSUME NEW S \in SUBSET Nat, S # {}
  PROVE  \E x \in S : \A y \in S : x <= y
<1>1. PICK x \in S : \A y \in S : <<y, x>> \notin OpToRel(<, Nat)
  BY WFMin, NatLessThanWellFounded
<1>2. \A y \in S : ~(y < x)
  BY <1>1 DEF OpToRel
<1>3. QED
  BY <1>2

(* Induction over sequences: a set with the empty sequence that has, with  *)
(* a sequence, those that are longer by one element, has all of them.      *)
LEMMA SequenceInduction ==
  ASSUME NEW T, NEW S, <<>> \in S,
         \A s \in Seq(T), e \in T : s \in S => Append(s, e) \in S
  PROVE  Seq(T) \subseteq S
<1> DEFINE Short == {n \in Nat : \A s \in Seq(T) : Len(s) = n => s \in S}
<1>1. 0 \in Short
  BY EmptySeq
<1>2. ASSUME NEW n \in Nat, n \in Short
      PROVE  n + 1 \in Short
  <2> SUFFICES ASSUME NEW s \in Seq(T), Len(s) = n + 1
               PROVE  s \in S
    OBVIOUS
  <2>1. s # <<>>
    BY EmptySeq
  <2>2. PICK front \in Seq(T), e \in T : s = Append(front, e)
    BY <2>1, SequenceEmptyOrAppend
  <2>3. Len(front) = n
    BY <2>2, AppendProperties, LenProperties
  <2>4. QED
    BY <1>2, <2>2, <2>3
<1> HIDE DEF Short
<1>3. Nat \subseteq Short
  BY <1>1, <1>2, NaturalInduction
<1>4. QED
  BY <1>3, LenProperties DEF Short

Recursion(V, c, Step, m, n) ==
  \E g \in [m..n -> V] : \A i \in m..n : g[i] = IF i = m THEN c ELSE Step[<<g[i - 1], i>>]

(* A function may be defined from its value at the number before.          *)
LEMMA RecursionExists ==
  ASSUME NEW V, NEW c \in V, NEW Step \in [V \X Nat -> V], NEW m \in Nat, NEW n \in Nat
  PROVE  Recursion(V, c, Step, m, n)
<1> USE DEF Recursion
<1> DEFINE Good == {k \in Nat : \E g \in [m..(m + k) -> V] : \A i \in m..(m + k) :
                                   g[i] = IF i = m THEN c ELSE Step[<<g[i - 1], i>>]}
<1>1. 0 \in Good
  <2> DEFINE g == [i \in m..(m + 0) |-> c]
  <2>1. g \in [m..(m + 0) -> V] /\ \A i \in m..(m + 0) : i = m /\ g[i] = c
    OBVIOUS
  <2>2. QED
    BY <2>1
<1>2. ASSUME NEW k \in Nat, k \in Good
      PROVE  k + 1 \in Good
  <2>1. PICK g \in [m..(m + k) -> V] : \A i \in m..(m + k) :
               g[i] = IF i = m THEN c ELSE Step[<<g[i - 1], i>>]
    BY <1>2
  <2> DEFINE new == m + (k + 1)
             h == [i \in m..new |-> IF i = new THEN Step[<<g[m + k], new>>] ELSE g[i]]
  <2>2. g[m + k] \in V /\ new \in Nat
    OBVIOUS
  <2>3. h \in [m..new -> V]
    BY <2>2
  <2>4. ASSUME NEW i \in m..new
        PROVE  h[i] = IF i = m THEN c ELSE Step[<<h[i - 1], i>>]
    <3>1. CASE i = new
      <4>1. i # m /\ i - 1 = m + k /\ i - 1 \in m..new /\ i - 1 # new
        BY <3>1
      <4>2. h[i - 1] = g[m + k]
        BY <4>1
      <4>3. QED
        BY <3>1, <4>1, <4>2
    <3>2. CASE i # new
      <4>1. i \in m..(m + k) /\ (i # m => i - 1 \in m..(m + k) /\ i - 1 # new)
        BY <3>2
      <4>2. h[i] = g[i] /\ (i # m => h[i - 1] = g[i - 1])
        BY <3>2, <4>1
      <4>3. QED
        BY <2>1, <4>1, <4>2
    <3>3. QED
      BY <3>1, <3>2
  <2> HIDE DEF h
  <2>5. QED
    BY <2>3, <2>4
<1> HIDE DEF Good
<1>3. Nat \subseteq Good
  BY <1>1, <1>2, NaturalInduction
<1>4. CASE n < m
  <2>1. m..n = {}
    BY <1>4
  <2>2. [i \in m..n |-> c] \in [m..n -> V]
    OBVIOUS
  <2>3. QED
    BY <2>1, <2>2
<1>5. CASE m <= n
  <2>1. n - m \in Good /\ m + (n - m) = n
    BY <1>3, <1>5
  <2>2. QED
    BY <2>1 DEF Good
<1>6. QED
  BY <1>4, <1>5

-----------------------------------------------------------------------------
(* FlattenSeq *)

(* The recursive function in the definition of FlattenSeq is one.          *)
LEMMA FlattenFunction ==
  ASSUME NEW T, NEW s \in Seq(Seq(T)), Len(s) # 0
  PROVE  \E g \in [1..Len(s) -> Seq(T)] :
           /\ \A i \in 1..Len(s) : g[i] = IF i = 1 THEN s[i] ELSE g[i - 1] \o s[i]
           /\ FlattenSeq(s) = g[Len(s)]
<1> DEFINE n == Len(s)
           Step == [x \in Seq(T) \X Nat |-> IF x[2] \in 1..n THEN x[1] \o s[x[2]] ELSE x[1]]
           Equation(g) == g = [i \in 1..n |-> IF i = 1 THEN s[i] ELSE g[i - 1] \o s[i]]
           flatten == CHOOSE g : Equation(g)
<1>1. n \in Nat /\ n >= 1 /\ \A i \in 1..n : s[i] \in Seq(T)
  BY LenProperties, ElementOfSeq
<1>2. Step \in [Seq(T) \X Nat -> Seq(T)]
  BY <1>1, ConcatProperties
<1>3. PICK g \in [1..n -> Seq(T)] : \A i \in 1..n : g[i] = IF i = 1 THEN s[1] ELSE Step[<<g[i - 1], i>>]
  <2> DEFINE V == Seq(T)
             c == s[1]
             one == 1
  <2>1. c \in V /\ Step \in [V \X Nat -> V] /\ n \in Nat /\ one \in Nat
    BY <1>1, <1>2
  <2> HIDE DEF Step, n, V, c, one
  <2>2. Recursion(V, c, Step, one, n)
    BY <2>1, RecursionExists
  <2>3. QED
    BY <2>2 DEF Recursion, V, c, one
<1>4. \A i \in 1..n : g[i] = IF i = 1 THEN s[i] ELSE g[i - 1] \o s[i]
  <2> SUFFICES ASSUME NEW i \in 1..n, i # 1
               PROVE  g[i] = g[i - 1] \o s[i]
    BY <1>3
  <2>1. i - 1 \in 1..n /\ i \in Nat
    BY <1>1
  <2>2. <<g[i - 1], i>> \in Seq(T) \X Nat
    BY <2>1
  <2>3. Step[<<g[i - 1], i>>] = g[i - 1] \o s[i]
    BY <2>2
  <2>4. QED
    BY <1>3, <2>3
<1>5. Equation(g)
  BY <1>4
<1>6. Equation(flatten)
  BY <1>5
<1>7. FlattenSeq(s) = flatten[n]
  BY <1>1 DEF FlattenSeq
<1>8. DOMAIN flatten = 1..n /\ \A i \in 1..n : flatten[i] = IF i = 1 THEN s[i] ELSE flatten[i - 1] \o s[i]
  BY <1>6
<1> HIDE DEF flatten
<1>9. \A i \in 1..n : flatten[i] = g[i]
  <2> DEFINE Same == {i \in 1..n : flatten[i] = g[i]}
  <2>1. 1 \in 1..n /\ flatten[1] = g[1]
    <3>1. 1 \in 1..n
      BY <1>1
    <3> HIDE DEF n
    <3>2. flatten[1] = s[1] /\ g[1] = s[1]
      BY <1>4, <1>8, <3>1
    <3>3. QED
      BY <3>1, <3>2
  <2>2. ASSUME NEW i \in 1..n, i # 1, i - 1 \in Same
        PROVE  i \in Same
    BY <1>4, <1>8, <2>2
  <2>3. 1 \in Same
    BY <2>1
  <2> DEFINE one == 1
  <2>4. one \in Nat /\ n \in Nat /\ one \in Same /\ \A i \in one..n : i # one /\ i - 1 \in Same => i \in Same
    BY <1>1, <2>2, <2>3
  <2> HIDE DEF Same, one, n
  <2>5. one..n \subseteq Same
    BY <2>4, IntervalInduction
  <2>6. QED
    BY <2>5 DEF Same, one
<1>10. n \in 1..n
  BY <1>1
<1>11. FlattenSeq(s) = g[n]
  BY <1>7, <1>9, <1>10
<1>12. QED
  BY <1>4, <1>11

(* Flattening nothing gives nothing.                                       *)
LEMMA FlattenEmpty == FlattenSeq(<<>>) = <<>>
  BY EmptySeq DEF FlattenSeq

(* Flattened lists of T are a list of T.                                   *)
LEMMA FlattenType ==
  ASSUME NEW T, NEW s \in Seq(Seq(T))
  PROVE  FlattenSeq(s) \in Seq(T)
<1>1. CASE Len(s) = 0
  <2>1. s = <<>>
    BY <1>1, EmptySeq
  <2>2. QED
    BY <2>1, FlattenEmpty, EmptySeq
<1>2. CASE Len(s) # 0
  <2>1. Len(s) \in 1..Len(s)
    BY <1>2, LenProperties
  <2>2. QED
    BY <1>2, <2>1, FlattenFunction
<1>3. QED
  BY <1>1, <1>2

(* One sequence more.                                                      *)
LEMMA FlattenAppend ==
  ASSUME NEW T, NEW s \in Seq(Seq(T)), NEW t \in Seq(T)
  PROVE  FlattenSeq(Append(s, t)) = FlattenSeq(s) \o t
<1> DEFINE n == Len(s)
           st == Append(s, t)
<1>1. n \in Nat /\ st \in Seq(Seq(T)) /\ Len(st) = n + 1 /\ st[n + 1] = t /\ \A i \in 1..n : st[i] = s[i]
  BY LenProperties, AppendProperties
<1>2. PICK h \in [1..Len(st) -> Seq(T)] :
           /\ \A i \in 1..Len(st) : h[i] = IF i = 1 THEN st[i] ELSE h[i - 1] \o st[i]
           /\ FlattenSeq(st) = h[Len(st)]
  <2> HIDE DEF st
  <2>1. Len(st) # 0
    BY <1>1
  <2>2. QED
    BY <1>1, <2>1, FlattenFunction
<1>3. CASE n = 0
  <2>1. s = <<>>
    BY <1>3, EmptySeq
  <2>2. FlattenSeq(st) = t
    BY <1>1, <1>2, <1>3
  <2>3. QED
    BY <2>1, <2>2, FlattenEmpty, ConcatEmptySeq
<1>4. CASE n # 0
  <2>1. PICK g \in [1..n -> Seq(T)] :
           /\ \A i \in 1..n : g[i] = IF i = 1 THEN s[i] ELSE g[i - 1] \o s[i]
           /\ FlattenSeq(s) = g[n]
    BY <1>4, FlattenFunction
  <2> DEFINE Same == {i \in 1..n : h[i] = g[i]}
             one == 1
  <2>2. one \in 1..n /\ \A i \in 1..n : i \in 1..Len(st)
    BY <1>1, <1>4
  <2>3. one \in Same
    BY <1>1, <1>2, <2>1, <2>2
  <2>4. ASSUME NEW i \in 1..n, i # one, i - 1 \in Same
        PROVE  i \in Same
    <3>1. h[i] = h[i - 1] \o st[i]
      BY <1>2, <2>2, <2>4
    <3>2. g[i] = g[i - 1] \o s[i]
      BY <2>1, <2>4
    <3>3. QED
      BY <1>1, <2>4, <3>1, <3>2
  <2>5. h[n] = g[n]
    <3>1. one \in Nat /\ n \in Nat /\ n \in one..n
      BY <1>1, <1>4
    <3> HIDE DEF Same, n
    <3>2. \A i \in one..n : i # one /\ i - 1 \in Same => i \in Same
      BY <2>4
    <3> HIDE DEF one
    <3>3. one..n \subseteq Same
      BY <2>3, <3>1, <3>2, IntervalInduction
    <3>4. QED
      BY <3>1, <3>3 DEF Same
  <2>6. h[n + 1] = h[n] \o st[n + 1]
    <3>1. n + 1 \in 1..Len(st) /\ n + 1 # 1 /\ (n + 1) - 1 = n
      BY <1>1, <1>4
    <3>2. QED
      BY <1>2, <3>1
  <2>7. QED
    BY <1>1, <1>2, <2>1, <2>5, <2>6
<1>5. QED
  BY <1>3, <1>4

(* What is in a flattened sequence, and in which order.                    *)
Before(i, j, k, l) == i < k \/ (i = k /\ j < l)

Laid(s, flat) ==
  /\ \A x \in 1..Len(flat) : \E i \in 1..Len(s) : \E j \in 1..Len(s[i]) : flat[x] = s[i][j]
  /\ \A x, y \in 1..Len(flat) : x < y =>
       \E i, k \in 1..Len(s) : \E j \in 1..Len(s[i]), l \in 1..Len(s[k]) :
         flat[x] = s[i][j] /\ flat[y] = s[k][l] /\ Before(i, j, k, l)
  /\ \A i \in 1..Len(s) : \A j \in 1..Len(s[i]) : \E x \in 1..Len(flat) : flat[x] = s[i][j]

(* Where in the flattened list each element of each list is.               *)
LEMMA FlattenLaid ==
  ASSUME NEW T
  PROVE  \A s \in Seq(Seq(T)) : FlattenSeq(s) \in Seq(T) /\ Laid(s, FlattenSeq(s))
<1> DEFINE S == {s \in Seq(Seq(T)) : Laid(s, FlattenSeq(s))}
<1>1. <<>> \in S
  BY FlattenEmpty, EmptySeq DEF Laid
<1>2. ASSUME NEW s \in Seq(Seq(T)), NEW t \in Seq(T), s \in S
      PROVE  Append(s, t) \in S
  <2> DEFINE n == Len(s)
             st == Append(s, t)
             f == FlattenSeq(s)
             ft == f \o t
  <2>1. n \in Nat /\ st \in Seq(Seq(T)) /\ Len(st) = n + 1 /\ st[n + 1] = t /\ \A i \in 1..n : st[i] = s[i]
    BY LenProperties, AppendProperties
  <2>2. f \in Seq(T) /\ Len(f) \in Nat /\ Len(t) \in Nat
    BY FlattenType, LenProperties
  <2>3. /\ Len(ft) = Len(f) + Len(t)
        /\ \A x \in 1..(Len(f) + Len(t)) : ft[x] = IF x <= Len(f) THEN f[x] ELSE t[x - Len(f)]
    BY <2>2, ConcatProperties
  <2>4. FlattenSeq(st) = ft
    BY FlattenAppend
  <2>5. Laid(s, f)
    BY <1>2
  <2> HIDE DEF n, st, f, ft
  <2>6. \A x \in 1..Len(ft) : \/ x \in 1..Len(f) /\ ft[x] = f[x]
                              \/ x > Len(f) /\ x - Len(f) \in 1..Len(t) /\ ft[x] = t[x - Len(f)]
    BY <2>2, <2>3
  <2>7. ASSUME NEW x \in 1..Len(f)
        PROVE  \E i \in 1..n : \E j \in 1..Len(st[i]) : f[x] = st[i][j]
    <3>1. PICK i \in 1..n : \E j \in 1..Len(s[i]) : f[x] = s[i][j]
      BY <2>5 DEF Laid, n
    <3>2. QED
      BY <2>1, <3>1
  <2>8. n + 1 \in 1..Len(st) /\ \A i \in 1..n : i \in 1..Len(st)
    BY <2>1
  <2>9. ASSUME NEW x \in 1..Len(ft)
        PROVE  \E i \in 1..Len(st) : \E j \in 1..Len(st[i]) : ft[x] = st[i][j]
    <3>1. CASE x \in 1..Len(f) /\ ft[x] = f[x]
      BY <2>7, <2>8, <3>1
    <3>2. CASE x > Len(f) /\ x - Len(f) \in 1..Len(t) /\ ft[x] = t[x - Len(f)]
      BY <2>1, <2>8, <3>2
    <3>3. QED
      BY <2>6, <3>1, <3>2
  <2>10. ASSUME NEW x \in 1..Len(ft), NEW y \in 1..Len(ft), x < y
         PROVE  \E i, k \in 1..Len(st) : \E j \in 1..Len(st[i]), l \in 1..Len(st[k]) :
                  ft[x] = st[i][j] /\ ft[y] = st[k][l] /\ Before(i, j, k, l)
    <3>1. CASE y <= Len(f)
      <4>1. x \in 1..Len(f) /\ y \in 1..Len(f) /\ ft[x] = f[x] /\ ft[y] = f[y]
        BY <2>2, <2>6, <2>10, <3>1
      <4>2. PICK i \in 1..n, k \in 1..n : \E j \in 1..Len(s[i]), l \in 1..Len(s[k]) :
              f[x] = s[i][j] /\ f[y] = s[k][l] /\ Before(i, j, k, l)
        BY <2>5, <2>10, <4>1 DEF Laid, n
      <4>3. QED
        BY <2>1, <2>8, <4>1, <4>2
    <3>2. CASE y > Len(f) /\ x <= Len(f)
      <4>1. /\ x \in 1..Len(f) /\ ft[x] = f[x]
            /\ y - Len(f) \in 1..Len(st[n + 1]) /\ ft[y] = st[n + 1][y - Len(f)]
        BY <2>1, <2>2, <2>6, <2>10, <3>2
      <4>2. PICK i \in 1..n : \E j \in 1..Len(st[i]) : f[x] = st[i][j]
        BY <2>7, <4>1
      <4>3. PICK j \in 1..Len(st[i]) : f[x] = st[i][j]
        BY <4>2
      <4>4. Before(i, j, n + 1, y - Len(f))
        BY <2>1 DEF Before
      <4>5. QED
        BY <2>8, <4>1, <4>3, <4>4
    <3>3. CASE x > Len(f)
      <4>1. /\ x - Len(f) \in 1..Len(st[n + 1]) /\ ft[x] = st[n + 1][x - Len(f)]
            /\ y - Len(f) \in 1..Len(st[n + 1]) /\ ft[y] = st[n + 1][y - Len(f)]
        BY <2>1, <2>2, <2>6, <2>10, <3>3
      <4>2. Before(n + 1, x - Len(f), n + 1, y - Len(f))
        BY <2>2, <2>10, <3>3 DEF Before
      <4>3. QED
        BY <2>8, <4>1, <4>2
    <3>4. QED
      BY <2>2, <2>3, <3>1, <3>2, <3>3
  <2>11. ASSUME NEW i \in 1..Len(st), NEW j \in 1..Len(st[i])
         PROVE  \E x \in 1..Len(ft) : ft[x] = st[i][j]
    <3>1. CASE i \in 1..n
      <4>1. j \in 1..Len(s[i]) /\ st[i] = s[i]
        BY <2>1, <3>1
      <4>2. PICK x \in 1..Len(f) : f[x] = s[i][j]
        BY <2>5, <3>1, <4>1 DEF Laid, n
      <4>3. x \in 1..Len(ft) /\ ft[x] = f[x]
        BY <2>2, <2>3
      <4>4. QED
        BY <4>1, <4>2, <4>3
    <3>2. CASE i = n + 1
      <4>1. j \in 1..Len(t) /\ st[i] = t
        BY <2>1, <3>2
      <4> DEFINE x == Len(f) + j
      <4>2. x \in 1..Len(ft) /\ x > Len(f) /\ x - Len(f) = j
        BY <2>2, <2>3, <4>1
      <4> HIDE DEF x
      <4>3. ft[x] = t[j]
        BY <2>2, <2>3, <4>2
      <4>4. QED
        BY <4>1, <4>2, <4>3
    <3>3. QED
      BY <2>1, <3>1, <3>2
  <2>12. Laid(st, ft)
    BY <2>9, <2>10, <2>11 DEF Laid
  <2>13. QED
    BY <2>1, <2>4, <2>12 DEF st
<1> HIDE DEF S
<1>3. Seq(Seq(T)) \subseteq S
  BY <1>1, <1>2, SequenceInduction
<1>4. QED
  BY <1>3, FlattenType DEF S

-----------------------------------------------------------------------------
(* The elements of a sequence *)

(* The elements of a list are what it has at its indices.                  *)
LEMMA ToSetFacts ==
  ASSUME NEW T, NEW s \in Seq(T)
  PROVE  /\ ToSet(s) = {s[i] : i \in 1..Len(s)}
         /\ ToSet(s) \subseteq T
         /\ s \in Seq(ToSet(s))
<1>1. DOMAIN s = 1..Len(s) /\ Len(s) \in Nat /\ s \in [1..Len(s) -> T]
  BY LenProperties
<1>2. ToSet(s) = {s[i] : i \in 1..Len(s)}
  BY <1>1 DEF ToSet
<1>3. s \in [1..Len(s) -> ToSet(s)]
  BY <1>1, <1>2
<1>4. s \in Seq(ToSet(s))
  BY <1>1, <1>3, SeqDef
<1>5. QED
  BY <1>1, <1>2, <1>4

(* The empty list has no elements.                                         *)
LEMMA ToSetEmpty == ToSet(<<>>) = {}
  BY DEF ToSet

(* The elements of a list and of what follows it.                          *)
LEMMA ToSetConcat ==
  ASSUME NEW T, NEW s \in Seq(T), NEW t \in Seq(T)
  PROVE  ToSet(s \o t) = ToSet(s) \cup ToSet(t)
<1>1. Len(s) \in Nat /\ Len(t) \in Nat
  BY LenProperties
<1> DEFINE st == s \o t
<1>2. /\ st \in Seq(T) /\ Len(st) = Len(s) + Len(t)
      /\ \A i \in 1..(Len(s) + Len(t)) : st[i] = IF i <= Len(s) THEN s[i] ELSE t[i - Len(s)]
  BY ConcatProperties
<1> HIDE DEF st
<1>3. /\ ToSet(s) = {s[i] : i \in 1..Len(s)} /\ ToSet(t) = {t[i] : i \in 1..Len(t)}
      /\ ToSet(st) = {st[i] : i \in 1..Len(st)}
  BY <1>2, ToSetFacts
<1>4. ASSUME NEW i \in 1..Len(st)
      PROVE  st[i] \in ToSet(s) \cup ToSet(t)
  <2>1. CASE i <= Len(s)
    BY <1>1, <1>2, <1>3, <2>1
  <2>2. CASE i > Len(s)
    <3>1. i - Len(s) \in 1..Len(t) /\ st[i] = t[i - Len(s)]
      BY <1>1, <1>2, <2>2
    <3>2. QED
      BY <1>3, <3>1
  <2>3. QED
    BY <1>1, <1>2, <2>1, <2>2
<1>5. ASSUME NEW i \in 1..Len(s)
      PROVE  s[i] \in ToSet(st)
  BY <1>1, <1>2, <1>3
<1>6. ASSUME NEW i \in 1..Len(t)
      PROVE  t[i] \in ToSet(st)
  <2> DEFINE k == Len(s) + i
  <2>1. k \in 1..Len(st) /\ k > Len(s) /\ k - Len(s) = i
    BY <1>1, <1>2
  <2> HIDE DEF k
  <2>2. st[k] = t[i]
    BY <1>1, <1>2, <2>1
  <2>3. QED
    BY <1>3, <2>1, <2>2
<1>7. QED
  BY <1>3, <1>4, <1>5, <1>6 DEF st

(* The elements of a list with one more.                                   *)
LEMMA ToSetAppend ==
  ASSUME NEW T, NEW s \in Seq(T), NEW e \in T
  PROVE  ToSet(Append(s, e)) = ToSet(s) \cup {e}
<1>1. Append(s, e) = s \o <<e>> /\ <<e>> \in Seq(T)
  BY AppendIsConcat
<1>2. ToSet(<<e>>) = {e}
  BY DEF ToSet
<1> DEFINE one == <<e>>
<1>3. ToSet(s \o one) = ToSet(s) \cup ToSet(one)
  <2>1. one \in Seq(T)
    BY <1>1
  <2> HIDE DEF one
  <2>2. QED
    BY <2>1, ToSetConcat
<1>4. QED
  BY <1>1, <1>2, <1>3

(* A list is its head and its tail.                                        *)
LEMMA HeadTail ==
  ASSUME NEW T, NEW s \in Seq(T), s # <<>>
  PROVE  /\ Head(s) \in T /\ Tail(s) \in Seq(T) /\ <<Head(s)>> \in Seq(T)
         /\ s = <<Head(s)>> \o Tail(s)
         /\ ToSet(s) = {Head(s)} \cup ToSet(Tail(s))
<1>1. /\ Head(s) \in T /\ Tail(s) \in Seq(T) /\ Len(Tail(s)) = Len(s) - 1
      /\ \A i \in 1..Len(Tail(s)) : Tail(s)[i] = s[i + 1]
      /\ Len(s) \in Nat \ {0} /\ Len(Tail(s)) \in Nat
  BY HeadTailProperties, EmptySeq, LenProperties
<1> DEFINE h == <<Head(s)>>
           t == Tail(s)
           ht == h \o t
<1>2. h \in Seq(T) /\ Len(h) = 1 /\ h[1] = s[1] /\ ToSet(h) = {Head(s)}
  BY <1>1 DEF ToSet
<1>3. /\ ht \in Seq(T) /\ Len(ht) = Len(h) + Len(t)
      /\ \A i \in 1..(Len(h) + Len(t)) : ht[i] = IF i <= Len(h) THEN h[i] ELSE t[i - Len(h)]
  BY <1>1, <1>2, ConcatProperties
<1>4. s = ht
  <2> HIDE DEF h, t, ht
  <2>1. Len(s) = Len(ht)
    BY <1>1, <1>2, <1>3 DEF t
  <2>2. ASSUME NEW i \in 1..Len(s)
        PROVE  s[i] = ht[i]
    <3>1. CASE i = 1
      BY <1>1, <1>2, <1>3, <2>1, <3>1
    <3>2. CASE i # 1
      <4>1. i - 1 \in 1..Len(t) /\ (i - 1) + 1 = i
        BY <1>1, <3>2 DEF t
      <4>2. t[i - 1] = s[i]
        BY <1>1, <4>1 DEF t
      <4>3. QED
        BY <1>1, <1>2, <1>3, <2>1, <3>2, <4>2
    <3>3. QED
      BY <3>1, <3>2
  <2>3. QED
    BY <1>3, <2>1, <2>2, SeqEqual
<1>5. ToSet(s) = {Head(s)} \cup ToSet(t)
  <2>1. h \in Seq(T) /\ t \in Seq(T) /\ s = h \o t /\ ToSet(h) = {Head(s)}
    BY <1>1, <1>2, <1>4
  <2> HIDE DEF h, t, ht
  <2>2. ToSet(h \o t) = ToSet(h) \cup ToSet(t)
    BY <2>1, ToSetConcat
  <2>3. QED
    BY <2>1, <2>2
<1>6. QED
  BY <1>1, <1>2, <1>4, <1>5

(* The first elements of a sequence.                                       *)
LEMMA PrefixFacts ==
  ASSUME NEW T, NEW s \in Seq(T), NEW n \in 0..Len(s)
  PROVE  /\ SubSeq(s, 1, n) \in Seq(T) /\ Len(SubSeq(s, 1, n)) = n
         /\ \A i \in 1..n : SubSeq(s, 1, n)[i] = s[i]
<1> DEFINE one == 1
           sub == SubSeq(s, one, n)
<1>1. Len(s) \in Nat /\ n \in Nat
  BY LenProperties
<1>2. one \in Int /\ n \in Int /\ \A i \in one..n : s[i] \in T
  BY <1>1, ElementOfSeq
<1>3. /\ sub \in Seq(T) /\ Len(sub) = IF one <= n THEN n - one + 1 ELSE 0
      /\ \A i \in 1..(n - one + 1) : sub[i] = s[one + i - 1]
  <2> HIDE DEF one
  <2>1. QED
    BY <1>2, SubSeqProperties
<1> HIDE DEF sub
<1>4. Len(sub) = n /\ \A i \in 1..n : sub[i] = s[i]
  <2>1. n - one + 1 = n /\ (one <= n \/ n = 0) /\ \A i \in 1..n : one + i - 1 = i
    BY <1>1
  <2>2. QED
    BY <1>3, <2>1
<1>5. QED
  BY <1>3, <1>4 DEF sub

(* The beginning of a beginning is a beginning.                            *)
LEMMA PrefixOfPrefix ==
  ASSUME NEW T, NEW s \in Seq(T), NEW n \in 0..Len(s), NEW k \in 0..n
  PROVE  SubSeq(SubSeq(s, 1, n), 1, k) = SubSeq(s, 1, k)
<1> DEFINE sub == SubSeq(s, 1, n)
           a == SubSeq(sub, 1, k)
           b == SubSeq(s, 1, k)
<1>1. Len(s) \in Nat /\ n \in Nat /\ k \in Nat /\ k \in 0..Len(s)
  BY LenProperties
<1>2. sub \in Seq(T) /\ Len(sub) = n /\ \A i \in 1..n : sub[i] = s[i]
  BY PrefixFacts
<1>3. b \in Seq(T) /\ Len(b) = k /\ \A i \in 1..k : b[i] = s[i]
  BY <1>1, PrefixFacts
<1> HIDE DEF sub, b
<1>4. a \in Seq(T) /\ Len(a) = k /\ \A i \in 1..k : a[i] = sub[i]
  BY <1>2, PrefixFacts
<1> HIDE DEF a
<1>5. a = b
  <2>1. Len(a) = Len(b) /\ \A i \in 1..Len(a) : a[i] = b[i]
    BY <1>1, <1>2, <1>3, <1>4
  <2>2. QED
    BY <1>3, <1>4, <2>1, SeqEqual
<1>6. QED
  BY <1>5 DEF a, b, sub

(* A beginning that is one element longer.                                 *)
LEMMA LongerPrefix ==
  ASSUME NEW T, NEW s \in Seq(T), NEW n \in 0..Len(s), n < Len(s)
  PROVE  SubSeq(s, 1, n + 1) = Append(SubSeq(s, 1, n), s[n + 1])
<1> DEFINE a == SubSeq(s, 1, n)
           b == SubSeq(s, 1, n + 1)
           c == Append(a, s[n + 1])
<1>1. Len(s) \in Nat /\ n \in Nat /\ n + 1 \in 0..Len(s) /\ n + 1 \in 1..Len(s)
  BY LenProperties
<1>2. a \in Seq(T) /\ Len(a) = n /\ \A i \in 1..n : a[i] = s[i]
  BY PrefixFacts
<1>3. b \in Seq(T) /\ Len(b) = n + 1 /\ \A i \in 1..(n + 1) : b[i] = s[i]
  <2> DEFINE m == n + 1
  <2>1. m \in 0..Len(s)
    BY <1>1
  <2> HIDE DEF m
  <2>2. SubSeq(s, 1, m) \in Seq(T) /\ Len(SubSeq(s, 1, m)) = m /\ \A i \in 1..m : SubSeq(s, 1, m)[i] = s[i]
    BY <2>1, PrefixFacts
  <2>3. QED
    BY <2>2 DEF m
<1> HIDE DEF a, b
<1>4. s[n + 1] \in T
  BY <1>1, ElementOfSeq
<1>5. c \in Seq(T) /\ Len(c) = n + 1 /\ c[n + 1] = s[n + 1] /\ \A i \in 1..n : c[i] = a[i]
  BY <1>2, <1>4, AppendProperties
<1> HIDE DEF c
<1>6. b = c
  <2>1. Len(b) = Len(c) /\ \A i \in 1..Len(b) : b[i] = c[i]
    BY <1>1, <1>2, <1>3, <1>5
  <2>2. QED
    BY <1>3, <1>5, <2>1, SeqEqual
<1>7. QED
  BY <1>6 DEF a, b, c

(* Filtering keeps what is in the set, and the order.                      *)
LEMMA FilteredFacts ==
  ASSUME NEW T, NEW s \in Seq(T), NEW S
  PROVE  /\ Filtered(s, S) \in Seq(T)
         /\ ToSet(Filtered(s, S)) = ToSet(s) \cap S
         /\ \A x, y \in 1..Len(Filtered(s, S)) : x < y =>
              \E i, k \in 1..Len(s) : i < k /\ Filtered(s, S)[x] = s[i] /\ Filtered(s, S)[y] = s[k]
<1> DEFINE parts == [i \in DOMAIN s |-> IF s[i] \in S THEN <<s[i]>> ELSE <<>>]
           f == FlattenSeq(parts)
<1>1. Len(s) \in Nat /\ DOMAIN s = 1..Len(s) /\ \A i \in 1..Len(s) : s[i] \in T
  BY LenProperties, ElementOfSeq
<1>2. parts \in [1..Len(s) -> Seq(T)]
  <2>1. ASSUME NEW i \in 1..Len(s)
        PROVE  <<s[i]>> \in Seq(T) /\ <<>> \in Seq(T)
    BY <1>1
  <2>2. QED
    BY <1>1, <2>1
<1>3. parts \in Seq(Seq(T)) /\ Len(parts) = Len(s)
  <2>1. parts \in Seq(Seq(T))
    BY <1>1, <1>2, SeqDef
  <2>2. DOMAIN parts = 1..Len(s) /\ DOMAIN parts = 1..Len(parts) /\ Len(parts) \in Nat
    BY <1>1, <2>1, LenProperties
  <2>3. QED
    BY <1>1, <2>1, <2>2
<1>4. /\ \A i \in 1..Len(s) : \A j \in 1..Len(parts[i]) : s[i] \in S /\ j = 1 /\ parts[i][j] = s[i]
      /\ \A i \in 1..Len(s) : s[i] \in S => 1 \in 1..Len(parts[i]) /\ parts[i][1] = s[i]
  BY <1>1
<1> HIDE DEF parts
<1>5. f \in Seq(T) /\ Laid(parts, f)
  BY <1>3, FlattenLaid
<1>6. f = Filtered(s, S)
  BY DEF Filtered, parts
<1> HIDE DEF f
<1>7. \A x, y \in 1..Len(f) : x < y => \E i, k \in 1..Len(s) : i < k /\ f[x] = s[i] /\ f[y] = s[k]
  <2> SUFFICES ASSUME NEW x \in 1..Len(f), NEW y \in 1..Len(f), x < y
               PROVE  \E i, k \in 1..Len(s) : i < k /\ f[x] = s[i] /\ f[y] = s[k]
    OBVIOUS
  <2>1. PICK i \in 1..Len(s), k \in 1..Len(s) : \E j \in 1..Len(parts[i]), l \in 1..Len(parts[k]) :
           f[x] = parts[i][j] /\ f[y] = parts[k][l] /\ Before(i, j, k, l)
    BY <1>3, <1>5 DEF Laid
  <2>2. PICK j \in 1..Len(parts[i]), l \in 1..Len(parts[k]) :
           f[x] = parts[i][j] /\ f[y] = parts[k][l] /\ Before(i, j, k, l)
    BY <2>1
  <2>3. i < k
    BY <1>4, <2>2 DEF Before
  <2>4. QED
    BY <1>4, <2>2, <2>3
<1>8. ToSet(f) = ToSet(s) \cap S
  <2>1. ToSet(f) = {f[x] : x \in 1..Len(f)} /\ ToSet(s) = {s[i] : i \in 1..Len(s)}
    BY <1>5, ToSetFacts
  <2>2. ASSUME NEW x \in 1..Len(f)
        PROVE  f[x] \in ToSet(s) \cap S
    <3>1. PICK i \in 1..Len(s) : \E j \in 1..Len(parts[i]) : f[x] = parts[i][j]
      BY <1>3, <1>5 DEF Laid
    <3>2. QED
      BY <1>4, <2>1, <3>1
  <2>3. ASSUME NEW i \in 1..Len(s), s[i] \in S
        PROVE  s[i] \in ToSet(f)
    <3>1. \E x \in 1..Len(f) : f[x] = parts[i][1]
      BY <1>3, <1>4, <1>5, <2>3 DEF Laid
    <3>2. QED
      BY <1>4, <2>1, <2>3, <3>1
  <2>4. QED
    BY <2>1, <2>2, <2>3
<1>9. QED
  BY <1>5, <1>6, <1>7, <1>8

-----------------------------------------------------------------------------
(* Sequences whose elements are in an order: a set of pairs.               *)
Ordered(s, R) == \A i, j \in 1..Len(s) : i < j => <<s[i], s[j]>> \in R

(* Two ordered lists are ordered together if all across them is.           *)
LEMMA OrderedConcat ==
  ASSUME NEW T, NEW s \in Seq(T), NEW t \in Seq(T), NEW R
  PROVE  Ordered(s \o t, R) <=> /\ Ordered(s, R) /\ Ordered(t, R)
                                /\ \A a \in ToSet(s), b \in ToSet(t) : <<a, b>> \in R
<1> DEFINE st == s \o t
<1>1. /\ Len(s) \in Nat /\ Len(t) \in Nat /\ Len(st) = Len(s) + Len(t)
      /\ \A i \in 1..(Len(s) + Len(t)) : st[i] = IF i <= Len(s) THEN s[i] ELSE t[i - Len(s)]
  BY LenProperties, ConcatProperties
<1>2. ToSet(s) = {s[i] : i \in 1..Len(s)} /\ ToSet(t) = {t[i] : i \in 1..Len(t)}
  BY ToSetFacts
<1> HIDE DEF st
<1>3. \A i \in 1..Len(s) : i \in 1..Len(st) /\ st[i] = s[i]
  BY <1>1
<1>4. ASSUME NEW i \in 1..Len(t)
      PROVE  Len(s) + i \in 1..Len(st) /\ st[Len(s) + i] = t[i]
  <2> DEFINE k == Len(s) + i
  <2>1. k \in 1..(Len(s) + Len(t)) /\ ~(k <= Len(s)) /\ k - Len(s) = i
    BY <1>1
  <2> HIDE DEF k
  <2>2. k \in 1..Len(st) /\ st[k] = t[i]
    BY <1>1, <2>1
  <2>3. QED
    BY <2>2 DEF k
<1>5. ASSUME Ordered(st, R)
      PROVE  /\ Ordered(s, R) /\ Ordered(t, R)
             /\ \A a \in ToSet(s), b \in ToSet(t) : <<a, b>> \in R
  <2>1. ASSUME NEW i \in 1..Len(s), NEW j \in 1..Len(s), i < j
        PROVE  <<s[i], s[j]>> \in R
    BY <1>3, <1>5, <2>1 DEF Ordered
  <2>2. ASSUME NEW i \in 1..Len(t), NEW j \in 1..Len(t), i < j
        PROVE  <<t[i], t[j]>> \in R
    <3>1. Len(s) + i < Len(s) + j
      BY <1>1, <2>2
    <3>2. QED
      BY <1>4, <1>5, <3>1 DEF Ordered
  <2>3. ASSUME NEW i \in 1..Len(s), NEW j \in 1..Len(t)
        PROVE  <<s[i], t[j]>> \in R
    <3>1. i < Len(s) + j
      BY <1>1
    <3>2. QED
      BY <1>3, <1>4, <1>5, <3>1 DEF Ordered
  <2>4. QED
    BY <1>2, <2>1, <2>2, <2>3 DEF Ordered
<1>6. ASSUME Ordered(s, R), Ordered(t, R), \A a \in ToSet(s), b \in ToSet(t) : <<a, b>> \in R
      PROVE  Ordered(st, R)
  <2> SUFFICES ASSUME NEW i \in 1..Len(st), NEW j \in 1..Len(st), i < j
               PROVE  <<st[i], st[j]>> \in R
    BY DEF Ordered
  <2>1. CASE j <= Len(s)
    <3>1. i \in 1..Len(s) /\ j \in 1..Len(s) /\ st[i] = s[i] /\ st[j] = s[j]
      BY <1>1, <2>1
    <3>2. QED
      BY <1>6, <3>1 DEF Ordered
  <2>2. CASE i <= Len(s) /\ ~(j <= Len(s))
    <3>1. i \in 1..Len(s) /\ j - Len(s) \in 1..Len(t) /\ st[i] = s[i] /\ st[j] = t[j - Len(s)]
      BY <1>1, <2>2
    <3>2. QED
      BY <1>2, <1>6, <3>1
  <2>3. CASE ~(i <= Len(s))
    <3>1. /\ i - Len(s) \in 1..Len(t) /\ j - Len(s) \in 1..Len(t) /\ i - Len(s) < j - Len(s)
          /\ st[i] = t[i - Len(s)] /\ st[j] = t[j - Len(s)]
      BY <1>1, <2>3
    <3>2. QED
      BY <1>6, <3>1 DEF Ordered
  <2>4. QED
    BY <1>1, <2>1, <2>2, <2>3
<1>7. QED
  BY <1>5, <1>6 DEF st

(* A list of at most one element is ordered.                               *)
LEMMA OrderedFew == \A R, e : Ordered(<<>>, R) /\ Ordered(<<e>>, R)
<1>1. \A e : Len(<<>>) = 0 /\ Len(<<e>>) = 1
  OBVIOUS
<1>2. QED
  BY <1>1 DEF Ordered

(* An ordered list stays ordered when elements are left out.               *)
LEMMA OrderedFiltered ==
  ASSUME NEW T, NEW s \in Seq(T), NEW S, NEW R, Ordered(s, R)
  PROVE  Ordered(Filtered(s, S), R)
<1> DEFINE f == Filtered(s, S)
<1>1. \A x, y \in 1..Len(f) : x < y => \E i, k \in 1..Len(s) : i < k /\ f[x] = s[i] /\ f[y] = s[k]
  BY FilteredFacts
<1> HIDE DEF f
<1>2. Ordered(f, R)
  BY <1>1 DEF Ordered
<1>3. QED
  BY <1>2 DEF f

(* Without repetitions, a sequence is as long as the set of its elements.  *)
LEMMA DistinctCount ==
  ASSUME NEW T, NEW s \in Seq(T), \A i, j \in 1..Len(s) : i < j => s[i] # s[j]
  PROVE  Cardinality(ToSet(s)) = Len(s)
<1>1. Len(s) \in Nat /\ DOMAIN s = 1..Len(s) /\ ToSet(s) = {s[i] : i \in 1..Len(s)}
      /\ s \in [1..Len(s) -> T]
  BY LenProperties, ToSetFacts
<1> DEFINE n == Len(s)
           I == 1..n
<1>2. IsFiniteSet(I) /\ Cardinality(I) = n
  <2>1. 1 \in Int /\ n \in Int /\ n \in Nat
    BY <1>1
  <2> DEFINE one == 1
  <2>2. one \in Int /\ (one > n <=> n = 0) /\ n - one + 1 = n
    BY <2>1
  <2> HIDE DEF one, n
  <2>3. IsFiniteSet(one..n) /\ Cardinality(one..n) = IF one > n THEN 0 ELSE n - one + 1
    BY <2>1, <2>2, FS_Interval
  <2>4. IsFiniteSet(one..n) /\ Cardinality(one..n) = n
    BY <2>2, <2>3
  <2>5. QED
    BY <2>4 DEF one
<1>3. \A i, j \in I : s[i] = s[j] => i = j
  <2>1. \A i, j \in 1..Len(s) : i = j \/ i < j \/ j < i
    BY <1>1
  <2>2. QED
    BY <2>1
<1>4. s \in [I -> ToSet(s)]
  BY <1>1
<1>5. s \in Bijection(I, ToSet(s))
  BY <1>1, <1>3, <1>4 DEF Bijection, Injection, Surjection, IsInjective
<1>6. ExistsBijection(I, ToSet(s))
  BY <1>5 DEF ExistsBijection
<1> HIDE DEF I, n
<1>7. Cardinality(ToSet(s)) = Cardinality(I)
  BY <1>2, <1>6, FS_Bijection
<1>8. QED
  BY <1>2, <1>7 DEF n

-----------------------------------------------------------------------------
(* Sequences each element of which is replaced with a sequence             *)
Parts(f, s) == [i \in DOMAIN s |-> f[s[i]]]
FlatMap(f, s) == FlattenSeq(Parts(f, s))

\* Function f replaces members of T with sequences of members of U.
Replaces(f, T, U) == f \in [T -> Seq(U)]

(* There is nothing to replace in nothing, ...                             *)
LEMMA FlatMapEmpty == \A f : FlatMap(f, <<>>) = <<>>
<1> TAKE f
<1>1. Parts(f, <<>>) = <<>>
  <2>1. DOMAIN <<>> = {}
    BY EmptySeq, LenProperties
  <2>2. QED
    BY <2>1 DEF Parts
<1>2. QED
  BY <1>1, FlattenEmpty DEF FlatMap

(* What is replaced with sequences of T is a sequence of sequences of T.   *)
LEMMA PartsFacts ==
  ASSUME NEW T, NEW U, NEW f, Replaces(f, T, U), NEW s \in Seq(T)
  PROVE  Parts(f, s) \in Seq(Seq(U)) /\ Len(Parts(f, s)) = Len(s)
<1> DEFINE parts == Parts(f, s)
<1>1. Len(s) \in Nat /\ DOMAIN s = 1..Len(s) /\ \A i \in 1..Len(s) : s[i] \in T
  BY LenProperties, ElementOfSeq
<1>2. parts \in [1..Len(s) -> Seq(U)]
  BY <1>1 DEF Replaces, Parts
<1> HIDE DEF parts
<1>3. parts \in Seq(Seq(U))
  BY <1>1, <1>2, SeqDef
<1>4. DOMAIN parts = 1..Len(s) /\ DOMAIN parts = 1..Len(parts) /\ Len(parts) \in Nat
  BY <1>2, <1>3, LenProperties
<1>5. Len(parts) = Len(s)
  BY <1>1, <1>4
<1>6. QED
  BY <1>3, <1>5 DEF parts

(* ... and an element more is replaced after the others.                   *)
LEMMA FlatMapAppend ==
  ASSUME NEW T, NEW U, NEW f, Replaces(f, T, U), NEW s \in Seq(T), NEW e \in T
  PROVE  /\ FlatMap(f, s) \in Seq(U)
         /\ FlatMap(f, Append(s, e)) = FlatMap(f, s) \o f[e]
<1> DEFINE st == Append(s, e)
           a == Parts(f, s)
           b == Parts(f, st)
           g == f[e]
<1>1. /\ Len(s) \in Nat /\ st \in Seq(T) /\ Len(st) = Len(s) + 1
      /\ st[Len(s) + 1] = e /\ \A i \in 1..Len(s) : st[i] = s[i]
  BY LenProperties, AppendProperties
<1> HIDE DEF st
<1>2. DOMAIN s = 1..Len(s) /\ DOMAIN st = 1..Len(st)
  BY <1>1, LenProperties
<1>3. a \in Seq(Seq(U)) /\ Len(a) = Len(s) /\ b \in Seq(Seq(U)) /\ Len(b) = Len(st)
  BY <1>1, PartsFacts
<1>4. \A i \in 1..Len(s) : b[i] = a[i]
  BY <1>1, <1>2 DEF Parts
<1>5. b[Len(s) + 1] = g /\ g \in Seq(U)
  BY <1>1, <1>2 DEF Replaces, Parts
<1>6. a \in Seq(Seq(U)) /\ Len(a) = Len(s) /\ b \in Seq(Seq(U)) /\ Len(b) = Len(s) + 1
  BY <1>1, <1>3
<1>7. g \in Seq(U) /\ b[Len(s) + 1] = g /\ \A i \in 1..Len(s) : b[i] = a[i]
  BY <1>4, <1>5
<1>8. FlatMap(f, s) = FlattenSeq(a) /\ FlatMap(f, st) = FlattenSeq(b)
  BY DEF FlatMap
<1> HIDE DEF a, b, g
<1>9. b = Append(a, g)
  <2> DEFINE c == Append(a, g)
  <2>1. c \in Seq(Seq(U)) /\ Len(c) = Len(a) + 1 /\ c[Len(a) + 1] = g /\ \A i \in 1..Len(a) : c[i] = a[i]
    BY <1>6, <1>7, AppendProperties
  <2> HIDE DEF c
  <2>2. \A i \in 1..(Len(s) + 1) : b[i] = c[i]
    <3> TAKE i \in 1..(Len(s) + 1)
    <3>1. CASE i = Len(s) + 1
      BY <1>6, <1>7, <2>1, <3>1
    <3>2. CASE i \in 1..Len(s)
      BY <1>6, <1>7, <2>1, <3>2
    <3>3. QED
      BY <1>1, <3>1, <3>2
  <2>3. Len(b) = Len(c) /\ \A i \in 1..Len(b) : b[i] = c[i]
    BY <1>6, <2>1, <2>2
  <2>4. b = c
    BY <1>6, <2>1, <2>3, SeqEqual
  <2>5. QED
    BY <2>4 DEF c
<1>10. FlattenSeq(b) = FlattenSeq(a) \o g /\ FlattenSeq(a) \in Seq(U)
  BY <1>6, <1>7, <1>9, FlattenAppend, FlattenType
<1>11. QED
  BY <1>8, <1>10 DEF st, g

(* One element is replaced with its sequence.                              *)
LEMMA FlatMapOne ==
  ASSUME NEW T, NEW U, NEW f, Replaces(f, T, U), NEW e \in T
  PROVE  FlatMap(f, <<e>>) = f[e]
<1> DEFINE nil == <<>>
<1>1. Append(nil, e) = <<e>>
  BY EmptySeq, AppendIsConcat, ConcatEmptySeq
<1>2. FlatMap(f, Append(nil, e)) = FlatMap(f, nil) \o f[e]
  <2>1. nil \in Seq(T)
    BY EmptySeq
  <2> HIDE DEF nil
  <2>2. QED
    BY <2>1, FlatMapAppend
<1>3. f[e] \in Seq(U)
  BY DEF Replaces
<1>4. QED
  BY <1>1, <1>2, <1>3, FlatMapEmpty, ConcatEmptySeq

(* The elements of two lists are replaced in one as in the other.          *)
LEMMA FlatMapConcat ==
  ASSUME NEW T, NEW U, NEW f, Replaces(f, T, U), NEW s \in Seq(T)
  PROVE  \A t \in Seq(T) : FlatMap(f, s \o t) = FlatMap(f, s) \o FlatMap(f, t)
<1> DEFINE S == {t \in Seq(T) : FlatMap(f, s \o t) = FlatMap(f, s) \o FlatMap(f, t)}
<1>1. \A t \in Seq(T) : FlatMap(f, t) \in Seq(U)
  <2> TAKE t \in Seq(T)
  <2>1. CASE t = <<>>
    BY <2>1, FlatMapEmpty, EmptySeq
  <2>2. CASE t # <<>>
    <3>1. t[1] \in T
      BY <2>2, EmptySeq, LenProperties, ElementOfSeq
    <3>2. QED
      BY <3>1, FlatMapAppend
  <2>3. QED
    BY <2>1, <2>2
<1>2. <<>> \in S
  BY <1>1, FlatMapEmpty, EmptySeq, ConcatEmptySeq
<1>3. ASSUME NEW t \in Seq(T), NEW e \in T, t \in S
      PROVE  Append(t, e) \in S
  <2>1. Append(t, e) \in Seq(T) /\ s \o t \in Seq(T)
    BY AppendProperties, ConcatProperties
  <2>2. s \o Append(t, e) = Append(s \o t, e)
    <3>1. Append(t, e) = t \o <<e>> /\ Append(s \o t, e) = (s \o t) \o <<e>> /\ <<e>> \in Seq(T)
      BY <2>1, AppendIsConcat
    <3>2. QED
      BY <3>1, ConcatAssociative
  <2>3. FlatMap(f, Append(s \o t, e)) = FlatMap(f, s \o t) \o f[e]
    <3> DEFINE st == s \o t
    <3>1. st \in Seq(T)
      BY <2>1
    <3> HIDE DEF st
    <3>2. FlatMap(f, Append(st, e)) = FlatMap(f, st) \o f[e]
      BY <3>1, FlatMapAppend
    <3>3. QED
      BY <3>2 DEF st
  <2>4. FlatMap(f, Append(t, e)) = FlatMap(f, t) \o f[e]
    BY FlatMapAppend
  <2>5. (FlatMap(f, s) \o FlatMap(f, t)) \o f[e] = FlatMap(f, s) \o (FlatMap(f, t) \o f[e])
    <3> DEFINE a == FlatMap(f, s)
               b == FlatMap(f, t)
               c == f[e]
    <3>1. a \in Seq(U) /\ b \in Seq(U) /\ c \in Seq(U)
      BY <1>1 DEF Replaces
    <3> HIDE DEF a, b, c
    <3>2. (a \o b) \o c = a \o (b \o c)
      BY <3>1, ConcatAssociative
    <3>3. QED
      BY <3>2 DEF a, b, c
  <2>6. QED
    BY <1>3, <2>1, <2>2, <2>3, <2>4, <2>5
<1> HIDE DEF S
<1>4. Seq(T) \subseteq S
  BY <1>2, <1>3, SequenceInduction
<1>5. QED
  BY <1>4 DEF S

(* Replacing all elements gives a sequence.                                *)
LEMMA FlatMapType ==
  ASSUME NEW T, NEW U, NEW f, Replaces(f, T, U), NEW s \in Seq(T)
  PROVE  FlatMap(f, s) \in Seq(U)
<1>1. Parts(f, s) \in Seq(Seq(U))
  BY PartsFacts
<1>2. QED
  BY <1>1, FlattenType DEF FlatMap

(* To replace twice is to replace once, with what has been replaced.       *)
LEMMA FlatMapTwice ==
  ASSUME NEW T, NEW U, NEW V, NEW f, Replaces(f, T, U), NEW g, Replaces(g, U, V)
  PROVE  \A s \in Seq(T) : FlatMap(g, FlatMap(f, s)) = FlatMap([e \in T |-> FlatMap(g, f[e])], s)
<1> DEFINE h == [e \in T |-> FlatMap(g, f[e])]
           S == {s \in Seq(T) : FlatMap(g, FlatMap(f, s)) = FlatMap(h, s)}
<1>1. Replaces(h, T, V) /\ \A e \in T : f[e] \in Seq(U) /\ h[e] = FlatMap(g, f[e])
  <2>1. \A e \in T : f[e] \in Seq(U)
    BY DEF Replaces
  <2>2. \A e \in T : FlatMap(g, f[e]) \in Seq(V)
    BY <2>1, FlatMapType
  <2>3. QED
    BY <2>1, <2>2 DEF Replaces
<1> HIDE DEF h
<1>2. <<>> \in S
  BY FlatMapEmpty, EmptySeq
<1>3. ASSUME NEW s \in Seq(T), NEW e \in T, s \in S
      PROVE  Append(s, e) \in S
  <2>1. /\ FlatMap(f, Append(s, e)) = FlatMap(f, s) \o f[e] /\ FlatMap(f, s) \in Seq(U)
        /\ FlatMap(h, Append(s, e)) = FlatMap(h, s) \o h[e]
    BY <1>1, FlatMapAppend
  <2>2. FlatMap(g, FlatMap(f, s) \o f[e]) = FlatMap(g, FlatMap(f, s)) \o FlatMap(g, f[e])
    BY <1>1, <2>1, FlatMapConcat
  <2>3. Append(s, e) \in Seq(T)
    BY AppendProperties
  <2>4. QED
    BY <1>1, <1>3, <2>1, <2>2, <2>3
<1> HIDE DEF S
<1>4. Seq(T) \subseteq S
  BY <1>2, <1>3, SequenceInduction
<1>5. QED
  BY <1>4 DEF S, h

(* It is enough to know what the elements of the sequence are replaced     *)
(* with.                                                                   *)
LEMMA FlatMapAgree ==
  ASSUME NEW T, NEW s \in Seq(T), NEW f, NEW g, \A e \in T : f[e] = g[e]
  PROVE  FlatMap(f, s) = FlatMap(g, s)
<1>1. DOMAIN s = 1..Len(s) /\ \A i \in 1..Len(s) : s[i] \in T
  BY LenProperties, ElementOfSeq
<1>2. [i \in DOMAIN s |-> f[s[i]]] = [i \in DOMAIN s |-> g[s[i]]]
  BY <1>1
<1>3. QED
  BY <1>2 DEF FlatMap, Parts

(* To filter is to replace what is left out with nothing.                  *)
LEMMA FilteredIsFlatMap ==
  ASSUME NEW T, NEW s \in Seq(T), NEW S
  PROVE  Filtered(s, S) = FlatMap([e \in T |-> IF e \in S THEN <<e>> ELSE <<>>], s)
<1> DEFINE f == [e \in T |-> IF e \in S THEN <<e>> ELSE <<>>]
<1>1. DOMAIN s = 1..Len(s) /\ \A i \in 1..Len(s) : s[i] \in T
  BY LenProperties, ElementOfSeq
<1>2. [i \in DOMAIN s |-> IF s[i] \in S THEN <<s[i]>> ELSE <<>>] = [i \in DOMAIN s |-> f[s[i]]]
  BY <1>1
<1>3. QED
  BY <1>2 DEF FlatMap, Parts, Filtered

(* Filtering two lists, one after the other.                               *)
LEMMA FilteredConcat ==
  ASSUME NEW T, NEW s \in Seq(T), NEW t \in Seq(T), NEW S
  PROVE  Filtered(s \o t, S) = Filtered(s, S) \o Filtered(t, S)
<1> DEFINE f == [e \in T |-> IF e \in S THEN <<e>> ELSE <<>>]
<1>1. Replaces(f, T, T)
  <2>1. \A e \in T : <<e>> \in Seq(T) /\ <<>> \in Seq(T)
    OBVIOUS
  <2>2. QED
    BY <2>1 DEF Replaces
<1>2. s \o t \in Seq(T)
  BY ConcatProperties
<1>3. /\ Filtered(s \o t, S) = FlatMap(f, s \o t)
      /\ Filtered(s, S) = FlatMap(f, s) /\ Filtered(t, S) = FlatMap(f, t)
  BY <1>2, FilteredIsFlatMap
<1> HIDE DEF f
<1>4. FlatMap(f, s \o t) = FlatMap(f, s) \o FlatMap(f, t)
  BY <1>1, FlatMapConcat
<1>5. QED
  BY <1>3, <1>4

(* Filtering a list of one, ...                                            *)
LEMMA FilteredOne ==
  ASSUME NEW e, NEW S
  PROVE  Filtered(<<e>>, S) = IF e \in S THEN <<e>> ELSE <<>>
<1> DEFINE T == {e}
           f == [x \in T |-> IF x \in S THEN <<x>> ELSE <<>>]
<1>1. Replaces(f, T, T) /\ e \in T /\ <<e>> \in Seq(T) /\ f[e] = IF e \in S THEN <<e>> ELSE <<>>
  <2>1. \A x \in T : <<x>> \in Seq(T) /\ <<>> \in Seq(T)
    OBVIOUS
  <2>2. QED
    BY <2>1 DEF Replaces
<1>2. Filtered(<<e>>, S) = FlatMap(f, <<e>>)
  BY <1>1, FilteredIsFlatMap
<1> HIDE DEF f
<1>3. QED
  BY <1>1, <1>2, FlatMapOne

(* ... and filtering twice.                                                *)
LEMMA FilteredTwice ==
  ASSUME NEW T, NEW s \in Seq(T), NEW S, NEW R
  PROVE  Filtered(Filtered(s, S), R) = Filtered(s, S \cap R)
<1> DEFINE F(Q) == [e \in T |-> IF e \in Q THEN <<e>> ELSE <<>>]
<1>1. \A Q : Replaces(F(Q), T, T) /\ \A e \in T : F(Q)[e] = IF e \in Q THEN <<e>> ELSE <<>>
  <2>1. \A e \in T : <<e>> \in Seq(T) /\ <<>> \in Seq(T)
    OBVIOUS
  <2>2. QED
    BY <2>1 DEF Replaces
<1>2. \A Q : \A t \in Seq(T) : Filtered(t, Q) = FlatMap(F(Q), t)
  BY FilteredIsFlatMap
<1> HIDE DEF F
<1> DEFINE h == [e \in T |-> FlatMap(F(R), F(S)[e])]
<1>3. Filtered(Filtered(s, S), R) = FlatMap(h, s)
  <2>1. Filtered(s, S) = FlatMap(F(S), s) /\ Filtered(s, S) \in Seq(T)
    BY <1>2, FilteredFacts
  <2>2. Filtered(Filtered(s, S), R) = FlatMap(F(R), FlatMap(F(S), s))
    BY <1>2, <2>1
  <2>3. FlatMap(F(R), FlatMap(F(S), s)) = FlatMap(h, s)
    BY <1>1, FlatMapTwice
  <2>4. QED
    BY <2>2, <2>3
<1>4. ASSUME NEW e \in T
      PROVE  h[e] = F(S \cap R)[e]
  <2>1. FlatMap(F(R), <<e>>) = F(R)[e] /\ FlatMap(F(R), <<>>) = <<>>
    BY <1>1, FlatMapOne, FlatMapEmpty
  <2>2. QED
    BY <1>1, <2>1
<1> DEFINE k == F(S \cap R)
<1>5. \A e \in T : h[e] = k[e]
  BY <1>4
<1> HIDE DEF h, k
<1>6. FlatMap(h, s) = FlatMap(k, s)
  BY <1>5, FlatMapAgree
<1>7. QED
  BY <1>2, <1>3, <1>6 DEF k
================================================================================
