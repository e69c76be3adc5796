----------------------------- MODULE OrderLemmas -----------------------------
(***************************************************************************)
(* The code searches lists for their first, least or greatest element.     *)
(* These lemmas say that the element is there to be found.                 *)
(***************************************************************************)
EXTENDS Integers, FiniteSets, FiniteSetsExt, SequencesExt, SequenceTheorems,
        FiniteSetTheorems, WellFoundedInduction, TLAPS

\* The least number principle, from the well-foundedness of strict inclusion
\* on the intervals 0 .. x.
LEMMA LeastNumber ==
  ASSUME NEW S \in SUBSET Nat, S # {}
  PROVE  \E m \in S : \A x \in S : m <= x
<1> DEFINE R == StrictSubsetOrdering(Nat)
           F == FiniteSubsetsOf(Nat)
           T == {0 .. x : x \in S}
<1>1. T \subseteq F /\ T # {}
  <2>1. ASSUME NEW x \in S
        PROVE  0 .. x \in F
    <3>1. IsFiniteSet(0 .. x)
      BY FS_Interval
    <3> QED
      BY <3>1 DEF FiniteSubsetsOf
  <2> QED
    BY <2>1
<1>2. PICK t \in T : \A u \in T : <<u, t>> \notin R
  <2> HIDE DEF R, F, T
  <2> QED
    BY <1>1, WFMin, FS_StrictSubsetOrderingWellFounded, Zenon DEF R, F
<1>3. PICK m \in S : t = 0 .. m
  BY <1>2
<1>4. ASSUME NEW x \in S
      PROVE  m <= x
  <2>1. <<0 .. x, 0 .. m>> \notin R
    BY <1>2, <1>3
  <2>2. x < m => 0 .. x \subseteq 0 .. m /\ m \in 0 .. m /\ m \notin 0 .. x
    OBVIOUS
  <2> QED
    BY <2>1, <2>2 DEF StrictSubsetOrdering
<1> QED
  BY <1>4

\* Numbers up to a bound have a greatest one.
LEMMA GreatestNumber ==
  ASSUME NEW n \in Nat, NEW S \in SUBSET (0 .. n), S # {}
  PROVE  \E m \in S : \A x \in S : x <= m
<1> DEFINE T == {b \in Nat : \A x \in S : x <= b}
<1>1. n \in T
  OBVIOUS
<1>2. PICK m \in T : \A b \in T : m <= b
  <2> HIDE DEF T
  <2>1. T \subseteq Nat
    BY DEF T
  <2> QED
    BY <1>1, <2>1, LeastNumber
<1>3. m \in S
  <2> SUFFICES ASSUME m \notin S PROVE FALSE
    OBVIOUS
  <2>1. PICK y \in S : TRUE
    OBVIOUS
  <2>2. m - 1 \in T
    <3>1. \A x \in S : x <= m - 1
      BY <1>2
    <3>2. m - 1 \in Nat
      BY <2>1, <3>1
    <3> QED
      BY <3>1, <3>2
  <2> QED
    BY <1>2, <2>2
<1> QED
  BY <1>2, <1>3

\* A function on a finite set of numbers takes a least value, and there is a
\* first place where it does.
LEMMA FirstLeastPlace ==
  ASSUME NEW S \in SUBSET Nat, IsFiniteSet(S), S # {}, NEW f \in [S -> Int]
  PROVE  \E x \in S : \A y \in S : f[x] < f[y] \/ (f[x] = f[y] /\ x <= y)
<1> DEFINE Below(x) == {y \in S : f[y] < f[x] \/ (f[y] = f[x] /\ y < x)}
           R == StrictSubsetOrdering(S)
           F == FiniteSubsetsOf(S)
           T == {Below(x) : x \in S}
<1>1. T \subseteq F /\ T # {}
  <2>1. F = SUBSET S
    BY FS_FiniteSubsetsOfFinite
  <2>2. \A x \in S : Below(x) \in F
    <3> HIDE DEF F
    <3> QED
      BY <2>1
  <2>3. \A x \in S : Below(x) \in T
    OBVIOUS
  <2> HIDE DEF F, Below
  <2> QED
    BY <2>2, <2>3
<1>2. PICK t \in T : \A u \in T : <<u, t>> \notin R
  <2> HIDE DEF R, F, T
  <2> QED
    BY <1>1, WFMin, FS_StrictSubsetOrderingWellFounded, Zenon DEF R, F
<1>3. PICK m \in S : t = Below(m)
  BY <1>2
<1>4. ASSUME NEW y \in S
      PROVE  f[m] < f[y] \/ (f[m] = f[y] /\ m <= y)
  <2>1. SUFFICES ASSUME y \in Below(m)
                 PROVE  FALSE
    <3>1. f[m] \in Int /\ f[y] \in Int /\ m \in Int /\ y \in Int
      OBVIOUS
    <3> QED
      BY <2>1, <3>1
  <2>2. Below(y) \subseteq Below(m)
    <3>1. ASSUME NEW z \in Below(y)
          PROVE  z \in Below(m)
      <4>1. f[m] \in Int /\ f[y] \in Int /\ f[z] \in Int
        OBVIOUS
      <4>2. z \in S /\ z \in Int /\ y \in Int /\ m \in Int
        OBVIOUS
      <4> QED
        BY <2>1, <3>1, <4>1, <4>2
    <3> QED
      BY <3>1
  <2>3. y \notin Below(y)
    BY DEF Below
  <2>4. Below(y) # Below(m)
    <3> HIDE DEF Below
    <3> QED
      BY <2>1, <2>3
  <2>5. <<Below(y), Below(m)>> \in R
    BY <2>2, <2>4 DEF StrictSubsetOrdering
  <2> QED
    BY <1>2, <1>3, <2>5
<1> QED
  BY <1>4

\* A set of numbers has a least one, and a finite one a greatest.
LEMMA MinIn ==
  ASSUME NEW S \in SUBSET Nat, S # {}
  PROVE  Min(S) \in S
BY LeastNumber DEF Min

LEMMA MaxIn ==
  ASSUME NEW S \in SUBSET Nat, IsFiniteSet(S), S # {}
  PROVE  Max(S) \in S
<1> DEFINE f == [x \in S |-> - x]
<1>1. f \in [S -> Int]
  OBVIOUS
<1>2. PICK m \in S : \A y \in S : f[m] < f[y] \/ (f[m] = f[y] /\ m <= y)
  <2> HIDE DEF f
  <2> QED
    BY <1>1, FirstLeastPlace
<1>3. \A y \in S : m >= y
  BY <1>2
<1> QED
  BY <1>3 DEF Max

\* Induction along a loop.
LEMMA Climb ==
  ASSUME NEW n \in Nat, NEW S, 0 \in S, \A k \in 0 .. n - 1 : k \in S => k + 1 \in S
  PROVE  0 .. n \subseteq S
<1> DEFINE bad == {k \in 0 .. n : k \notin S}
<1>1. SUFFICES ASSUME bad # {} PROVE FALSE
  OBVIOUS
<1>2. PICK m \in bad : \A x \in bad : m <= x
  <2>1. bad \in SUBSET Nat
    OBVIOUS
  <2> HIDE DEF bad
  <2> QED
    BY <1>1, <2>1, LeastNumber
<1>3. m \in 1 .. n /\ m \notin S
  BY <1>2
<1>4. m - 1 \in 0 .. n - 1 /\ m - 1 \notin bad
  BY <1>2, <1>3
<1> QED
  BY <1>3, <1>4

\* A loop whose steps stay in a set runs to its end.
LoopsThrough(h, n, S, start, step) ==
  h \in [0 .. n -> S] /\ h[0] = start /\ \A k \in 1 .. n : h[k] = step[k][h[k - 1]]

LEMMA LoopRuns ==
  ASSUME NEW n \in Nat, NEW S, NEW start \in S, NEW step \in [1 .. n -> [S -> S]]
  PROVE  \E h : LoopsThrough(h, n, S, start, step)
<1> DEFINE good == {m \in 0 .. n : \E h : LoopsThrough(h, m, S, start, step)}
<1>1. 0 \in good
  <2>1. LoopsThrough([k \in 0 .. 0 |-> start], 0, S, start, step)
    BY DEF LoopsThrough
  <2> QED
    BY <2>1
<1>2. ASSUME NEW m \in 0 .. n - 1, m \in good
      PROVE  m + 1 \in good
  <2>1. PICK h : LoopsThrough(h, m, S, start, step)
    BY <1>2
  <2> DEFINE g == [k \in 0 .. m + 1 |-> IF k = m + 1 THEN step[k][h[m]] ELSE h[k]]
  <2>2. h[m] \in S /\ step[m + 1][h[m]] \in S
    BY <2>1 DEF LoopsThrough
  <2>3. g \in [0 .. m + 1 -> S]
    BY <2>1, <2>2 DEF LoopsThrough
  <2>4. ASSUME NEW k \in 1 .. m + 1
        PROVE  g[k] = step[k][g[k - 1]]
    <3>1. CASE k = m + 1
      BY <3>1
    <3>2. CASE k \in 1 .. m
      <4>1. g[k] = h[k] /\ g[k - 1] = h[k - 1]
        BY <3>2
      <4> QED
        BY <2>1, <3>2, <4>1 DEF LoopsThrough
    <3> QED
      BY <3>1, <3>2
  <2>5. g[0] = start
    BY <2>1 DEF LoopsThrough
  <2>6. LoopsThrough(g, m + 1, S, start, step)
    BY <2>3, <2>4, <2>5 DEF LoopsThrough
  <2> HIDE DEF g
  <2>7. m + 1 \in 0 .. n
    OBVIOUS
  <2> QED
    BY <2>6, <2>7
<1> HIDE DEF good
<1>3. 0 .. n \subseteq good
  BY <1>1, <1>2, Climb, Zenon
<1>4. n \in good
  BY <1>3
<1> QED
  BY <1>4 DEF good

\* What is defined for each member from those of a lower rank is defined for all.
Recursion(F, T, S, rank, n) ==
  /\ S # {} /\ n \in Nat /\ rank \in [T -> 0 .. n] /\ F \in [[T -> S] -> [T -> S]]
  /\ \A t \in T : \A g, h \in [T -> S] :
       (\A u \in T : rank[u] < rank[t] => g[u] = h[u]) => F[g][t] = F[h][t]

HasSolution(F, T, S) == \E h \in [T -> S] : F[h] = h

LEMMA RecursionRuns ==
  ASSUME NEW T, NEW S, NEW n, NEW rank, NEW F, Recursion(F, T, S, rank, n)
  PROVE  HasSolution(F, T, S)
<1>0. /\ S # {} /\ n \in Nat /\ rank \in [T -> 0 .. n] /\ F \in [[T -> S] -> [T -> S]]
      /\ \A t \in T : \A g, h \in [T -> S] :
           (\A u \in T : rank[u] < rank[t] => g[u] = h[u]) => F[g][t] = F[h][t]
  BY DEF Recursion
<1> DEFINE R == [T -> S]
           start == [t \in T |-> CHOOSE s \in S : TRUE]
           step == [k \in 1 .. n + 2 |-> F]
<1>1. n + 2 \in Nat /\ start \in R /\ step \in [1 .. n + 2 -> [R -> R]]
  BY <1>0
<1> HIDE DEF R, start, step
<1>2. PICK h : LoopsThrough(h, n + 2, R, start, step)
  BY <1>1, LoopRuns, Zenon
<1>3. \A k \in 0 .. n + 1 : h[k] \in R /\ h[k + 1] = F[h[k]]
  <2> SUFFICES ASSUME NEW k \in 0 .. n + 1
               PROVE  h[k] \in R /\ h[k + 1] = F[h[k]]
    OBVIOUS
  <2>1. k \in 0 .. n + 2 /\ k + 1 \in 1 .. n + 2 /\ (k + 1) - 1 = k
    BY <1>0
  <2>2. h[k] \in R /\ h[k + 1] = step[k + 1][h[(k + 1) - 1]]
    BY <1>2, <2>1, Zenon DEF LoopsThrough
  <2> QED
    BY <2>1, <2>2 DEF step
<1> DEFINE Settled == {k \in 0 .. n + 1 : \A t \in T : rank[t] < k => h[k][t] = h[k + 1][t]}
<1>4. 0 \in Settled
  BY <1>0
<1>5. ASSUME NEW k \in 0 .. (n + 1) - 1, k \in Settled
      PROVE  k + 1 \in Settled
  <2>1. ASSUME NEW t \in T, rank[t] < k + 1
        PROVE  h[k + 1][t] = h[k + 2][t]
    <3>1. k \in 0 .. n + 1 /\ k + 1 \in 0 .. n + 1 /\ (k + 1) + 1 = k + 2
      BY <1>0
    <3>2. h[k] \in R /\ h[k + 1] \in R /\ h[k + 1] = F[h[k]] /\ h[k + 2] = F[h[k + 1]]
      BY <1>3, <3>1
    <3>3. \A u \in T : rank[u] < rank[t] => h[k][u] = h[k + 1][u]
      BY <1>0, <1>5, <2>1
    <3> QED
      BY <1>0, <3>2, <3>3 DEF R
  <2>2. k + 1 \in 0 .. n + 1 /\ (k + 1) + 1 = k + 2
    BY <1>0
  <2> QED
    BY <2>1, <2>2
<1> HIDE DEF Settled
<1>6. n + 1 \in Settled
  <2>1. n + 1 \in Nat
    BY <1>0
  <2>2. 0 .. n + 1 \subseteq Settled
    BY <1>4, <1>5, <2>1, Climb, Zenon
  <2> QED
    BY <2>1, <2>2
<1>7. \A t \in T : h[n + 1][t] = h[(n + 1) + 1][t]
  <2>1. \A t \in T : rank[t] \in 0 .. n /\ n \in Nat
    BY <1>0
  <2>2. \A t \in T : rank[t] < n + 1
    BY <2>1
  <2>3. \A t \in T : rank[t] < n + 1 => h[n + 1][t] = h[(n + 1) + 1][t]
    BY <1>6, Zenon DEF Settled
  <2> QED
    BY <2>2, <2>3
<1>8. n + 1 \in 0 .. n + 1
  BY <1>0
<1>9. h[n + 1] \in R /\ h[(n + 1) + 1] = F[h[n + 1]]
  BY <1>3, <1>8
<1>10. h[n + 1] = F[h[n + 1]]
  BY <1>0, <1>7, <1>9 DEF R
<1>11. F[h[n + 1]] = h[n + 1] /\ h[n + 1] \in [T -> S]
  BY <1>9, <1>10 DEF R
<1> QED
  BY <1>11, Zenon DEF HasSolution

-----------------------------------------------------------------------------
\* A sequence is one of its own members.
LEMMA SequenceOfItsOwn == ASSUME NEW E, NEW u \in Seq(E) PROVE u \in Seq(ToSet(u))
<1> DEFINE T == ToSet(u)
<1>1. Len(u) \in Nat /\ u = [k \in 1 .. Len(u) |-> u[k]]
  OBVIOUS
<1>2. \A k \in 1 .. Len(u) : u[k] \in T
  BY DEF ToSet
<1> HIDE DEF T
<1>3. [k \in 1 .. Len(u) |-> u[k]] \in Seq(T)
  BY <1>1, <1>2
<1>4. u \in Seq(T)
  BY <1>1, <1>3, Zenon
<1> QED
  BY <1>4 DEF T

\* f holds the sequences of ss joined, one by one.
Joins(f, ss, E) ==
  f \in [0 .. Len(ss) -> Seq(E)] /\ f[0] = <<>> /\ \A k \in 1 .. Len(ss) : f[k] = f[k - 1] \o ss[k]

LEMMA FlattenJoins ==
  ASSUME NEW E, NEW ss \in Seq(Seq(E))
  PROVE  \E f : Joins(f, ss, E) /\ FlattenSeq(ss) = f[Len(ss)]
<1> DEFINE n == Len(ss)
           T == 1 .. n
           S == Seq(E)
           Runs(f) == f = [i \in T |-> IF i = 1 THEN ss[i] ELSE f[i - 1] \o ss[i]]
           rank == [i \in T |-> i]
           F == [g \in [T -> S] |-> [i \in T |-> IF i = 1 THEN ss[i] ELSE g[i - 1] \o ss[i]]]
           flatten == CHOOSE f : Runs(f)
<1>1. n \in Nat /\ rank \in [T -> 0 .. n] /\ S # {}
  <2>1. <<>> \in S
    OBVIOUS
  <2> QED
    BY <2>1
<1>2. F \in [[T -> S] -> [T -> S]]
  <2> SUFFICES ASSUME NEW g \in [T -> S], NEW i \in T
               PROVE  (IF i = 1 THEN ss[i] ELSE g[i - 1] \o ss[i]) \in S
    OBVIOUS
  <2>1. ss[i] \in S
    OBVIOUS
  <2>2. CASE i # 1
    <3>1. i - 1 \in T
      BY <2>2
    <3>2. g[i - 1] \in S
      BY <3>1
    <3> QED
      BY <2>1, <2>2, <3>2
  <2> QED
    BY <2>1, <2>2
<1>3. ASSUME NEW k \in T, NEW g \in [T -> S], NEW h \in [T -> S],
             \A u \in T : rank[u] < rank[k] => g[u] = h[u]
      PROVE  F[g][k] = F[h][k]
  <2>1. k # 1 => k - 1 \in T /\ rank[k - 1] < rank[k]
    OBVIOUS
  <2>2. k # 1 => g[k - 1] = h[k - 1]
    BY <1>3, <2>1
  <2> HIDE DEF S
  <2> QED
    BY <2>2
<1>4. PICK f \in [T -> S] : F[f] = f
  <2> HIDE DEF T, F, rank, S
  <2>1. Recursion(F, T, S, rank, n)
    BY <1>1, <1>2, <1>3 DEF Recursion
  <2>2. HasSolution(F, T, S)
    BY <2>1, RecursionRuns
  <2> QED
    BY <2>2 DEF HasSolution
<1>5. Runs(f)
  BY <1>4
<1>6. Runs(flatten)
  <2> HIDE DEF Runs
  <2> QED
    BY <1>5
<1>7. FlattenSeq(ss) = IF n = 0 THEN ss ELSE flatten[n]
  BY DEF FlattenSeq
<1> HIDE DEF flatten
<1> DEFINE h == [k \in 0 .. n |-> IF k = 0 THEN <<>> ELSE flatten[k]]
           Known == {k \in 0 .. n : h[k] \in S}
<1>8. \A k \in 1 .. n : h[k] = h[k - 1] \o ss[k]
  <2> SUFFICES ASSUME NEW k \in 1 .. n PROVE h[k] = h[k - 1] \o ss[k]
    OBVIOUS
  <2>1. h[k] = IF k = 1 THEN ss[k] ELSE flatten[k - 1] \o ss[k]
    <3>1. k \in T /\ k \in 0 .. n /\ k # 0
      OBVIOUS
    <3>2. flatten[k] = IF k = 1 THEN ss[k] ELSE flatten[k - 1] \o ss[k]
      BY <1>6, <3>1
    <3>3. h[k] = flatten[k]
      BY <3>1
    <3> QED
      BY <3>2, <3>3, Zenon
  <2>2. ss[k] = <<>> \o ss[k]
    <3>1. ss[k] \in Seq(E)
      OBVIOUS
    <3> QED
      BY <3>1
  <2>3. k = 1 => h[k - 1] = <<>>
    OBVIOUS
  <2>4. k # 1 => h[k - 1] = flatten[k - 1]
    OBVIOUS
  <2> HIDE DEF h
  <2> QED
    BY <2>1, <2>2, <2>3, <2>4
<1>9. 0 \in Known
  OBVIOUS
<1>10. ASSUME NEW k \in 0 .. n - 1, k \in Known PROVE k + 1 \in Known
  <2>1. k + 1 \in 1 .. n /\ (k + 1) - 1 = k /\ k + 1 \in 0 .. n
    OBVIOUS
  <2>2. ss[k + 1] \in Seq(E) /\ h[k] \in Seq(E)
    BY <1>10, <2>1
  <2>3. h[k + 1] = h[k] \o ss[k + 1]
    BY <1>8, <2>1
  <2> HIDE DEF h
  <2>4. h[k + 1] \in Seq(E)
    BY <2>2, <2>3
  <2> QED
    BY <2>1, <2>4
<1>11. 0 .. n \subseteq Known
  <2> HIDE DEF Known, n
  <2> QED
    BY <1>1, <1>9, <1>10, Climb, Zenon
<1>12. h \in [0 .. n -> Seq(E)] /\ h[0] = <<>>
  BY <1>11
<1>13. FlattenSeq(ss) = h[n]
  BY <1>7
<1> HIDE DEF h
<1>14. Joins(h, ss, E)
  BY <1>8, <1>12 DEF Joins
<1> QED
  BY <1>13, <1>14

LEMMA FlattenIsSequence ==
  ASSUME NEW E, NEW ss \in Seq(Seq(E)) PROVE FlattenSeq(ss) \in Seq(E)
<1>1. PICK f : Joins(f, ss, E) /\ FlattenSeq(ss) = f[Len(ss)]
  BY FlattenJoins
<1>2. Len(ss) \in 0 .. Len(ss)
  OBVIOUS
<1> QED
  BY <1>1, <1>2 DEF Joins

\* Nothing is lost where sequences are joined.
LEMMA SetOfConcat ==
  ASSUME NEW E, NEW u \in Seq(E), NEW w \in Seq(E)
  PROVE  ToSet(u) \subseteq ToSet(u \o w) /\ ToSet(w) \subseteq ToSet(u \o w)
<1>1. ASSUME NEW q \in DOMAIN u PROVE u[q] \in ToSet(u \o w)
  <2>1. q \in DOMAIN (u \o w) /\ (u \o w)[q] = u[q]
    OBVIOUS
  <2> QED
    BY <2>1 DEF ToSet
<1>2. ASSUME NEW q \in DOMAIN w PROVE w[q] \in ToSet(u \o w)
  <2>1. Len(u) + q \in DOMAIN (u \o w) /\ (u \o w)[Len(u) + q] = w[q]
    OBVIOUS
  <2> QED
    BY <2>1 DEF ToSet
<1> QED
  BY <1>1, <1>2 DEF ToSet

LEMMA FlattenKeeps ==
  ASSUME NEW E, NEW ss \in Seq(Seq(E)), NEW i \in DOMAIN ss PROVE ToSet(ss[i]) \subseteq ToSet(FlattenSeq(ss))
<1>1. PICK f : Joins(f, ss, E) /\ FlattenSeq(ss) = f[Len(ss)]
  BY FlattenJoins
<1>2. PICK n : n = Len(ss)
  OBVIOUS
<1>3. n \in Nat /\ i \in 1 .. n
  BY <1>2
<1>4. f \in [0 .. n -> Seq(E)] /\ \A q \in 1 .. n : f[q] = f[q - 1] \o ss[q]
  BY <1>1, <1>2, Zenon DEF Joins
<1> DEFINE Good == {k \in 0 .. n : k >= i => ToSet(ss[i]) \subseteq ToSet(f[k])}
<1>5. 0 \in Good
  BY <1>3
<1>6. ASSUME NEW k \in 0 .. n - 1, k \in Good PROVE k + 1 \in Good
  <2>1. k + 1 \in 1 .. n /\ (k + 1) - 1 = k /\ k + 1 \in 0 .. n /\ k \in 0 .. n
    BY <1>3
  <2>2. f[k + 1] = f[k] \o ss[k + 1]
    <3>1. f[k + 1] = f[(k + 1) - 1] \o ss[k + 1]
      BY <1>4, <2>1, Zenon
    <3> QED
      BY <2>1, <3>1, Zenon
  <2>3. f[k] \in Seq(E) /\ ss[k + 1] \in Seq(E)
    <3>1. f[k] \in Seq(E)
      BY <1>4, <2>1, Zenon
    <3>2. k + 1 \in DOMAIN ss
      BY <1>2, <2>1
    <3> QED
      BY <3>1, <3>2
  <2>4. ToSet(f[k]) \subseteq ToSet(f[k + 1]) /\ ToSet(ss[k + 1]) \subseteq ToSet(f[k + 1])
    BY <2>2, <2>3, SetOfConcat
  <2>5. CASE k >= i
    <3>1. ToSet(ss[i]) \subseteq ToSet(f[k])
      BY <1>6, <2>5
    <3> QED
      BY <2>1, <2>4, <3>1
  <2>6. CASE k + 1 = i
    BY <2>1, <2>4, <2>6
  <2>7. CASE k + 1 < i
    BY <1>3, <2>1, <2>7
  <2> QED
    BY <1>3, <2>5, <2>6, <2>7
<1>7. n \in Good
  <2>1. 0 .. n \subseteq Good
    <3> HIDE DEF Good
    <3> QED
      BY <1>3, <1>5, <1>6, Climb, Zenon
  <2> QED
    BY <1>3, <2>1
<1> QED
  BY <1>1, <1>2, <1>3, <1>7

\* Where the parts of ss begin in the whole they are joined to.
Starts(start, whole, ss) ==
  /\ start \in [0 .. Len(ss) -> Nat] /\ start[0] = 0 /\ start[Len(ss)] = Len(whole)
  /\ \A k \in 1 .. Len(ss) : start[k] = start[k - 1] + Len(ss[k]) /\ start[k] <= Len(whole)

\* Each place of the whole is one of a part, and holds what the part has there.
Holds(start, whole, ss) ==
  /\ \A k \in 1 .. Len(ss) : \A v \in 1 .. Len(ss[k]) : whole[start[k - 1] + v] = ss[k][v]
  /\ \A j \in 1 .. Len(whole) : \E k \in 1 .. Len(ss) : \E v \in 1 .. Len(ss[k]) : j = start[k - 1] + v

LEMMA JoinTwo ==
  ASSUME NEW E, NEW u \in Seq(E), NEW w \in Seq(E)
  PROVE  /\ Len(u \o w) = Len(u) + Len(w)
         /\ \A j \in 1 .. Len(u) : (u \o w)[j] = u[j]
         /\ \A v \in 1 .. Len(w) : (u \o w)[Len(u) + v] = w[v]
OBVIOUS

LEMMA FlattenStarts ==
  ASSUME NEW E, NEW ss \in Seq(Seq(E))
  PROVE  \E start : Starts(start, FlattenSeq(ss), ss) /\ Holds(start, FlattenSeq(ss), ss)
<1>1. PICK f : Joins(f, ss, E) /\ FlattenSeq(ss) = f[Len(ss)]
  BY FlattenJoins
<1>2. PICK n \in Nat : n = Len(ss)
  OBVIOUS
<1>3. f \in [0 .. n -> Seq(E)] /\ f[0] = <<>> /\ \A q \in 1 .. n : f[q] = f[q - 1] \o ss[q]
  BY <1>1, <1>2, Zenon DEF Joins
<1>4. \A q \in 1 .. n : ss[q] \in Seq(E)
  BY <1>2
<1> DEFINE s == [k \in 0 .. n |-> Len(f[k])]
           len == [k \in 1 .. n |-> Len(ss[k])]
<1>5. s \in [0 .. n -> Nat] /\ s[0] = 0 /\ s[n] = Len(f[n])
  <2>1. \A k \in 0 .. n : f[k] \in Seq(E)
    BY <1>3
  <2> QED
    BY <1>2, <1>3, <2>1
<1>6. ASSUME NEW k \in 1 .. n
      PROVE  /\ s[k] = s[k - 1] + len[k] /\ s[k - 1] \in Nat /\ len[k] \in Nat
             /\ \A j \in 1 .. s[k - 1] : f[k][j] = f[k - 1][j]
             /\ \A v \in 1 .. len[k] : f[k][s[k - 1] + v] = ss[k][v]
  <2>1. k - 1 \in 0 .. n /\ k \in 0 .. n
    BY <1>2
  <2>2. f[k - 1] \in Seq(E) /\ ss[k] \in Seq(E)
    BY <1>3, <1>4, <2>1
  <2>3. f[k] = f[k - 1] \o ss[k]
    BY <1>3
  <2>4. s[k] = Len(f[k]) /\ s[k - 1] = Len(f[k - 1]) /\ len[k] = Len(ss[k])
    BY <2>1
  <2>5. Len(f[k - 1]) \in Nat /\ Len(ss[k]) \in Nat
    BY <2>2
  <2> HIDE DEF s, len
  <2>6. /\ Len(f[k]) = Len(f[k - 1]) + Len(ss[k])
        /\ \A j \in 1 .. Len(f[k - 1]) : f[k][j] = f[k - 1][j]
        /\ \A v \in 1 .. Len(ss[k]) : f[k][Len(f[k - 1]) + v] = ss[k][v]
    <3> DEFINE u == f[k - 1]
               w == ss[k]
    <3>1. u \in Seq(E) /\ w \in Seq(E) /\ f[k] = u \o w
      BY <2>2, <2>3
    <3> HIDE DEF u, w
    <3>2. /\ Len(u \o w) = Len(u) + Len(w)
          /\ \A j \in 1 .. Len(u) : (u \o w)[j] = u[j]
          /\ \A v \in 1 .. Len(w) : (u \o w)[Len(u) + v] = w[v]
      BY <3>1, JoinTwo
    <3> QED
      BY <3>1, <3>2, Zenon DEF u, w
  <2> QED
    BY <2>4, <2>5, <2>6, Zenon
<1>60. \A i \in 1 .. n : len[i] = Len(ss[i])
  OBVIOUS
<1> HIDE DEF s, len
<1> DEFINE Upto(k) ==
             /\ \A i \in 1 .. k : s[i] <= s[k] /\ \A v \in 1 .. len[i] : f[k][s[i - 1] + v] = ss[i][v]
             /\ \A j \in 1 .. s[k] : \E i \in 1 .. k : \E v \in 1 .. len[i] : j = s[i - 1] + v
           Good == {k \in 0 .. n : Upto(k)}
<1>7. 0 \in Good
  BY <1>5
<1>8. ASSUME NEW k \in 0 .. n - 1, k \in Good PROVE k + 1 \in Good
  <2>0. k + 1 \in 1 .. n /\ k \in 0 .. n /\ k + 1 \in 0 .. n /\ (k + 1) - 1 = k
    OBVIOUS
  <2>1. PICK m \in 1 .. n : m = k + 1
    BY <2>0
  <2>2. /\ s[m] = s[k] + len[m] /\ s[k] \in Nat /\ len[m] \in Nat
        /\ \A j \in 1 .. s[k] : f[m][j] = f[k][j]
        /\ \A v \in 1 .. len[m] : f[m][s[k] + v] = ss[m][v]
    <3>1. m - 1 = k
      BY <2>1
    <3> QED
      BY <1>6, <3>1
  <2>3. Upto(k)
    BY <1>8
  <2>4. ASSUME NEW i \in 1 .. m
        PROVE  s[i] <= s[m] /\ \A v \in 1 .. len[i] : f[m][s[i - 1] + v] = ss[i][v]
    <3>1. CASE i = m
      <4>1. m - 1 = k
        BY <2>1
      <4> QED
        BY <2>2, <3>1, <4>1
    <3>2. CASE i # m
      <4>1. i \in 1 .. k /\ i \in 1 .. n
        BY <2>1, <3>2
      <4>2. s[i] <= s[k] /\ \A v \in 1 .. len[i] : f[k][s[i - 1] + v] = ss[i][v]
        BY <2>3, <4>1
      <4>3. s[i] = s[i - 1] + len[i] /\ s[i - 1] \in Nat /\ len[i] \in Nat
        BY <1>6, <4>1
      <4>4. \A v \in 1 .. len[i] : s[i - 1] + v \in 1 .. s[k]
        BY <2>2, <4>2, <4>3
      <4>5. s[i] <= s[m]
        BY <2>2, <4>2, <4>3
      <4>6. ASSUME NEW v \in 1 .. len[i] PROVE f[m][s[i - 1] + v] = ss[i][v]
        <5>1. PICK j \in 1 .. s[k] : j = s[i - 1] + v
          BY <4>4
        <5>2. f[m][j] = f[k][j] /\ f[k][s[i - 1] + v] = ss[i][v]
          BY <2>2, <4>2
        <5> QED
          BY <5>1, <5>2
      <4> QED
        BY <4>5, <4>6
    <3> QED
      BY <3>1, <3>2
  <2>5. ASSUME NEW j \in 1 .. s[m]
        PROVE  \E i \in 1 .. m : \E v \in 1 .. len[i] : j = s[i - 1] + v
    <3>1. CASE j \in 1 .. s[k]
      BY <2>1, <2>3, <3>1
    <3>2. CASE j \notin 1 .. s[k]
      <4>1. PICK v \in 1 .. len[m] : j = s[k] + v
        <5>1. j - s[k] \in 1 .. len[m] /\ j = s[k] + (j - s[k])
          BY <2>2, <3>2
        <5> QED
          BY <5>1
      <4>2. m \in 1 .. m /\ m - 1 = k
        BY <2>1
      <4> QED
        BY <4>1, <4>2
    <3> QED
      BY <3>1, <3>2
  <2>6. Upto(m)
    BY <2>4, <2>5
  <2> HIDE DEF Upto
  <2> QED
    BY <2>0, <2>1, <2>6
<1>9. n \in Good
  <2>1. 0 .. n \subseteq Good
    <3> HIDE DEF Good
    <3> QED
      BY <1>2, <1>7, <1>8, Climb, Zenon
  <2>2. n \in 0 .. n
    BY <1>2
  <2> HIDE DEF Good
  <2> QED
    BY <2>1, <2>2
<1>10. Upto(n)
  BY <1>9
<1>11. FlattenSeq(ss) = f[n] /\ n = Len(ss) /\ s[n] = Len(f[n])
  BY <1>1, <1>2, <1>5, Zenon
<1>12. Starts(s, f[n], ss)
  <2>1. \A k \in 1 .. n : s[k] = s[k - 1] + Len(ss[k]) /\ s[k] <= Len(f[n])
    BY <1>6, <1>60, <1>10, <1>11
  <2> QED
    BY <1>5, <1>11, <2>1, Zenon DEF Starts
<1>13. Holds(s, f[n], ss)
  <2>1. ASSUME NEW k \in 1 .. Len(ss), NEW v \in 1 .. Len(ss[k]) PROVE f[n][s[k - 1] + v] = ss[k][v]
    <3>1. k \in 1 .. n /\ v \in 1 .. len[k]
      BY <1>60, <1>11
    <3> QED
      BY <1>10, <3>1, Zenon
  <2>2. ASSUME NEW j \in 1 .. Len(f[n])
        PROVE  \E k \in 1 .. Len(ss) : \E v \in 1 .. Len(ss[k]) : j = s[k - 1] + v
    <3>1. j \in 1 .. s[n]
      BY <1>11
    <3>2. PICK k \in 1 .. n : \E v \in 1 .. len[k] : j = s[k - 1] + v
      BY <1>10, <3>1, Zenon
    <3>3. k \in 1 .. Len(ss) /\ len[k] = Len(ss[k])
      BY <1>60, <1>11, <3>2
    <3> QED
      BY <3>2, <3>3
  <2> HIDE DEF Upto
  <2> QED
    BY <2>1, <2>2, Zenon DEF Holds
<1> QED
  BY <1>11, <1>12, <1>13, Zenon

\* Parts of the same length follow one another at even distances.
LEMMA FlattenEven ==
  ASSUME NEW E, NEW ss \in Seq(Seq(E)), NEW m \in Nat, \A k \in 1 .. Len(ss) : Len(ss[k]) = m
  PROVE  /\ Len(FlattenSeq(ss)) = Len(ss) * m
         /\ \A k \in 1 .. Len(ss) : \A v \in 1 .. m : FlattenSeq(ss)[(k - 1) * m + v] = ss[k][v]
<1>1. PICK start : Starts(start, FlattenSeq(ss), ss) /\ Holds(start, FlattenSeq(ss), ss)
  BY FlattenStarts
<1>2. PICK n \in Nat : n = Len(ss)
  OBVIOUS
<1>3. PICK whole : whole = FlattenSeq(ss)
  OBVIOUS
<1>4. \A k \in 1 .. n : start[k] = start[k - 1] + m
  <2>1. \A k \in 1 .. n : start[k] = start[k - 1] + Len(ss[k])
    BY <1>1, <1>2, Zenon DEF Starts
  <2> QED
    BY <1>2, <2>1
<1> DEFINE Good == {k \in 0 .. n : start[k] = k * m}
<1>5. 0 \in Good
  BY <1>1 DEF Starts
<1>6. ASSUME NEW k \in 0 .. n - 1, k \in Good PROVE k + 1 \in Good
  <2>1. k + 1 \in 1 .. n /\ (k + 1) - 1 = k /\ k + 1 \in 0 .. n /\ (k + 1) * m = k * m + m
    OBVIOUS
  <2>2. start[k + 1] = start[k] + m
    BY <1>4, <2>1
  <2> QED
    BY <1>6, <2>1, <2>2
<1>7. 0 .. n \subseteq Good
  <2> HIDE DEF Good
  <2> QED
    BY <1>2, <1>5, <1>6, Climb, Zenon
<1>8. Len(FlattenSeq(ss)) = Len(ss) * m
  <2>1. start[n] = n * m
    BY <1>7
  <2> QED
    BY <1>1, <1>2, <2>1 DEF Starts
<1>9. ASSUME NEW k \in 1 .. Len(ss), NEW v \in 1 .. m
      PROVE  FlattenSeq(ss)[(k - 1) * m + v] = ss[k][v]
  <2>1. k - 1 \in 0 .. n
    BY <1>2
  <2>2. start[k - 1] = (k - 1) * m
    BY <1>7, <2>1
  <2>3. v \in 1 .. Len(ss[k])
    OBVIOUS
  <2>4. FlattenSeq(ss)[start[k - 1] + v] = ss[k][v]
    BY <1>1, <2>3, Zenon DEF Holds
  <2> QED
    BY <2>2, <2>4, Zenon
<1> QED
  BY <1>8, <1>9

\* What is joined of parts of the same lengths has, place by place, the same
\* place of the same part.
InStep(u, ss, w, tt) ==
  /\ Len(u) = Len(w)
  /\ \A j \in 1 .. Len(u) : \E k \in 1 .. Len(ss) : \E v \in 1 .. Len(ss[k]) :
       u[j] = ss[k][v] /\ w[j] = tt[k][v]

LEMMA FlattenInStep ==
  ASSUME NEW E, NEW F, NEW ss \in Seq(Seq(E)), NEW tt \in Seq(Seq(F)), Len(ss) = Len(tt),
         \A k \in 1 .. Len(ss) : Len(ss[k]) = Len(tt[k])
  PROVE  InStep(FlattenSeq(ss), ss, FlattenSeq(tt), tt)
<1>1. PICK s : Starts(s, FlattenSeq(ss), ss) /\ Holds(s, FlattenSeq(ss), ss)
  BY FlattenStarts
<1>2. PICK t : Starts(t, FlattenSeq(tt), tt) /\ Holds(t, FlattenSeq(tt), tt)
  BY FlattenStarts
<1>3. PICK n \in Nat : n = Len(ss) /\ n = Len(tt)
  OBVIOUS
<1>4. /\ s \in [0 .. n -> Nat] /\ s[0] = 0 /\ s[n] = Len(FlattenSeq(ss))
      /\ t[0] = 0 /\ t[n] = Len(FlattenSeq(tt))
      /\ \A k \in 1 .. n : s[k] = s[k - 1] + Len(ss[k])
      /\ \A k \in 1 .. n : t[k] = t[k - 1] + Len(tt[k])
  BY <1>1, <1>2, <1>3, Zenon DEF Starts
<1> DEFINE Good == {k \in 0 .. n : s[k] = t[k]}
<1>5. 0 \in Good
  BY <1>4
<1>6. ASSUME NEW k \in 0 .. n - 1, k \in Good PROVE k + 1 \in Good
  <2>1. k + 1 \in 1 .. n /\ (k + 1) - 1 = k /\ k + 1 \in 0 .. n
    OBVIOUS
  <2>2. PICK q \in 1 .. n : q = k + 1 /\ q - 1 = k
    BY <2>1
  <2>3. s[q] = s[k] + Len(ss[q]) /\ t[q] = t[k] + Len(tt[q]) /\ Len(ss[q]) = Len(tt[q])
    <3>1. s[q] = s[q - 1] + Len(ss[q]) /\ t[q] = t[q - 1] + Len(tt[q])
      BY <1>4, Zenon
    <3>2. Len(ss[q]) = Len(tt[q])
      BY <1>3
    <3> QED
      BY <2>2, <3>1, <3>2
  <2> QED
    BY <1>6, <2>1, <2>2, <2>3, Zenon
<1>7. 0 .. n \subseteq Good
  <2> HIDE DEF Good
  <2> QED
    BY <1>3, <1>5, <1>6, Climb, Zenon
<1>8. Len(FlattenSeq(ss)) = Len(FlattenSeq(tt))
  <2>1. s[n] = t[n]
    BY <1>7
  <2> QED
    BY <1>4, <2>1, Zenon
<1>9. ASSUME NEW j \in 1 .. Len(FlattenSeq(ss))
      PROVE  \E k \in 1 .. Len(ss) : \E v \in 1 .. Len(ss[k]) :
               FlattenSeq(ss)[j] = ss[k][v] /\ FlattenSeq(tt)[j] = tt[k][v]
  <2>0. PICK k \in 1 .. Len(ss) : \E v \in 1 .. Len(ss[k]) : j = s[k - 1] + v
    BY <1>1, Zenon DEF Holds
  <2>1. PICK v \in 1 .. Len(ss[k]) : j = s[k - 1] + v
    BY <2>0
  <2>2. FlattenSeq(ss)[s[k - 1] + v] = ss[k][v]
    BY <1>1, Zenon DEF Holds
  <2>3. k \in 1 .. Len(tt) /\ v \in 1 .. Len(tt[k])
    OBVIOUS
  <2>4. FlattenSeq(tt)[t[k - 1] + v] = tt[k][v]
    BY <1>2, <2>3, Zenon DEF Holds
  <2>5. s[k - 1] = t[k - 1]
    <3>1. k - 1 \in 0 .. n
      BY <1>3
    <3> QED
      BY <1>7, <3>1
  <2> QED
    BY <2>1, <2>2, <2>4, <2>5, Zenon
<1> QED
  BY <1>8, <1>9, Zenon DEF InStep

-----------------------------------------------------------------------------
\* Every place in a list of rows has its row and column.
LEMMA RowAndColumn ==
  ASSUME NEW r \in Nat, NEW c \in Nat \ {0}, NEW x \in 1 .. r * c
  PROVE  \E a \in 0 .. r - 1, b \in 0 .. c - 1 : x = a * c + b + 1
<1> DEFINE a == (x - 1) \div c
           b == (x - 1) % c
<1>0. r * c \in Nat
  OBVIOUS
<1>1. x - 1 \in Nat /\ x - 1 < r * c
  BY <1>0
<1>2. a \in Nat /\ b \in 0 .. c - 1 /\ x - 1 = c * a + b
  BY <1>1
<1> HIDE DEF a, b
<1>3. a < r
  <2> SUFFICES ASSUME a >= r
               PROVE  FALSE
    BY <1>2
  <2> DEFINE d == a - r
  <2>1. d \in Nat /\ a = r + d
    BY <1>2
  <2> HIDE DEF d
  <2>2. c * a = r * c + c * d /\ c * d \in Nat
    BY <2>1
  <2>3. c * a >= r * c
    BY <1>0, <2>2
  <2> QED
    BY <1>0, <1>1, <1>2, <2>3
<1>4. a \in 0 .. r - 1 /\ x = a * c + b + 1
  BY <1>2, <1>3
<1> QED
  BY <1>2, <1>4
=============================================================================
